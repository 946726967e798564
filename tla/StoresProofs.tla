---------------------------- MODULE StoresProofs ----------------------------
(***************************************************************************)
(* What is proved, for every value of their constants, of the services     *)
(* that keep things on disk: the journal, the state engine and the image   *)
(* store; and of all the services together.                                *)
(***************************************************************************)
EXTENDS ChildrenProofs

-----------------------------------------------------------------------------
(* The journal.                                                            *)

JnlStates ==
  /\ \A w \in Writer : writer[w].at # "idle" => writer[w].st \in RunState
  /\ \A t \in Tailer : tailer[t].at # "idle" => tailer[t].st \in RunState
  /\ gc.at = "removed" => gc.st \in RunState

JnlTypes == JnlTypeOK /\ JnlStates

(* The looked-up state is still the run's when it is used. *)
LookupsHold ==
  /\ \A w \in Writer : writer[w].at # "idle" => writer[w].st = runs
  /\ \A t \in Tailer : tailer[t].at = "subscribing" => tailer[t].st = runs

(* Nobody writes to a run of an earlier daemon that has no recording left, *)
(* and every other way to the next seq lies above those handed out.        *)
Closed == leaseIs = "lost" /\ ~ disk.capture
SeqsAhead ==
  /\ Closed => \A w \in Writer : writer[w].at = "idle"
  /\ disk.capture => disk.last > 0
  /\ disk.last > 0 => \A n \in 1..MaxSeq : issued[n] > 0 => n <= disk.last
  /\ runs # NoRunState /\ ~ Closed =>
       \A n \in 1..MaxSeq : issued[n] > 0 => n < runState[runs].nextSeq
  /\ runs = NoRunState /\ leaseIs # "lost" =>
       \A n \in 1..MaxSeq : issued[n] > 0 => n <= reclaimed

(* The last call of syncRunOpen to look sees the lease as it is. *)
SyncsInTurn ==
  /\ \A j, k \in Syncer :
       sync[j] \in {"active", "over"} /\ sync[k] \in {"active", "over"} => j = k
  /\ (\A k \in Syncer : sync[k] # "due") =>
       /\ \A k \in Syncer : sync[k] \in {"active", "over"} =>
            (sync[k] = "active" <=> leaseIs = "active")
       /\ (\A k \in Syncer : sync[k] \notin {"active", "over"}) =>
            (open <=> leaseIs = "active")

GCSpares == gc.at # "idle" => leaseIs # "active"

JnlInv ==
  /\ JnlTypes /\ LookupsHold /\ SeqsAhead /\ SyncsInTurn /\ GCSpares
  /\ JnlUniqueRefs /\ JnlTailersFed

-----------------------------------------------------------------------------
(* The state engine.                                                       *)

StepsOf(op) ==
  CASE op = "none" -> {"idle"}
    [] op = "snapshot" -> {"lock", "check", "clone", "add", "end"}
    [] op = "restore" -> {"lock", "check", "copy", "aside", "swap", "boot", "end"}
    [] op = "erase" -> {"lock", "check", "wipe", "reslim", "end"}
    [] op = "delete" -> {"owned", "remove", "end"}
    [] op = "reset" -> {"lock", "check", "copy", "aside", "swap", "wipe", "reslim",
                        "degrade", "end", "unlocked"}

WithLock == {"check", "clone", "add", "copy", "aside", "swap", "boot", "wipe", "reslim", "degrade"}

(* Every call is at a step of its operation, with the lock where the code  *)
(* holds it; the reset goroutine alone resets, while the target is held.   *)
CallsInOrder ==
  /\ \A c \in SnpCaller :
       /\ call[c].step \in StepsOf(call[c].op)
       /\ call[c].step \in WithLock => snpLock = c
       /\ call[c].op \in {"snapshot", "restore", "delete"} => call[c].snap \in Snap
       /\ call[c].op = "reset" => call[c].snap \in {"erase"} \cup Snap
       /\ call[c].op = "reset" <=> InCall(c) /\ c = Resetter
  /\ InCall(Resetter) <=> holder = "resetting"
  /\ call[Resetter].step = "end" => snpLock = Resetter
  /\ ~ call[Resetter].reboot

(* A call that copies reads a clone that is there, or was deleted meanwhile. *)
CopiesClones ==
  \A c \in SnpCaller :
    /\ call[c].step = "copy" => call[c].snap \in Snap
    /\ call[c].step = "copy" /\ ~ call[c].spoiled =>
         clone[call[c].snap] \notin {"never", "gone"}
    /\ call[c].step \in {"aside", "swap"} => staging = call[c].copied /\ staging # "none"
    /\ call[c].step = "swap" => aside \notin {"missing", "none"}

DataIsThere == data = "missing" => \E c \in SnpCaller : call[c].step = "swap"

ListedWithClone(s) ==
  \/ s \in snpIndex <=> clone[s] \notin {"never", "gone"}
  \/ s \in snpIndex /\ clone[s] = "gone"

(* Where a snapshot stands while it is made and deleted. *)
SnapshotsMade ==
  /\ \A c \in SnpCaller : call[c].op = "snapshot" =>
       /\ call[c].step \in {"lock", "check", "clone"} =>
            clone[call[c].snap] = "never" /\ call[c].snap \notin snpIndex
       /\ call[c].step = "add" => call[c].snap \notin snpIndex /\ clone[call[c].snap] # "never"
  /\ \A b, c \in SnpCaller : call[b].op = "snapshot" /\ call[c].op = "snapshot"
       /\ call[b].snap = call[c].snap => b = c
  /\ \A c \in SnpCaller : call[c].op = "delete" =>
       /\ call[c].snap \in snpIndex \/ clone[call[c].snap] = "gone"
       /\ call[c].step = "remove" => clone[call[c].snap] = "gone"
  /\ \A s \in Snap :
       \/ ListedWithClone(s)
       \/ \E c \in SnpCaller : call[c].op = "snapshot" /\ call[c].step = "add" /\ call[c].snap = s

(* With careful clients a reset has the simulator for itself, off from its *)
(* check on, and what it leaves is what was asked for.                     *)
ResetAlone ==
  ~ careless =>
    /\ \A c \in SnpHolder : InCall(c) => holder = c
    /\ LET k == call[Resetter] IN
       /\ ~ k.spoiled
       /\ k.step \in {"copy", "aside", "swap"} => power = "Shutdown"
       /\ k.step \in {"aside", "swap"} => k.copied = clone[k.snap]
       /\ k.step \in {"copy", "aside", "swap"} => k.snap \in Snap
       /\ k.step = "reslim" => data = "stock"
       /\ k.step \in {"end", "unlocked"} /\ k.res = "ok" =>
            data = "stock" \/ \E s \in Snap : k.snap = s /\ data = clone[s]
       /\ k.step \notin {"end", "unlocked"} => k.res # "ok"

SnpInv ==
  SnpTypeOK /\ CallsInOrder /\ CopiesClones /\ DataIsThere /\ SnapshotsMade /\ ResetAlone

-----------------------------------------------------------------------------
(* Golden images.                                                          *)

ImgKinds == {"none", "build", "stamp", "delete", "sweep"}
ImgSteps == {"none", "create", "slim", "check", "pack", "packed", "recheck", "discard",
             "verify", "replace", "reslim", "commit", "record", "rename", "entry", "file"}
OpRec == [kind: ImgKinds, img: Img \cup {"none"}, step: ImgSteps, made: Seq(Dev), n: Nat]

(* Which step of which operation this is, and what exists by then. *)
OpIn ==
  /\ iop \in OpRec
  /\ iop.kind \in {"none", "delete", "sweep"} => iop.made = <<>>
  /\ iop.kind \in {"build", "stamp", "delete"} => iop.img \in Img
  /\ iop.kind = "build" =>
       /\ iop.step \in {"create", "slim", "check", "pack", "packed", "recheck", "discard"}
       /\ iop.step # "discard" => iop.img \notin listed
       /\ iop.made = IF iop.step = "create" THEN <<>> ELSE <<Builder>>
  /\ iop.kind = "stamp" =>
       /\ iop.step \in {"verify", "create", "check", "replace", "reslim", "commit", "record",
                        "rename", "discard"}
       /\ iop.img \in listed /\ (iop.step = "verify" => iop.made = <<>>)
       /\ iop.step \in {"check", "replace", "reslim", "commit", "record", "rename"} =>
            iop.made # <<>>
       /\ iop.step = "rename" => iop.n \in 1..Len(iop.made)
  /\ iop.kind = "delete" =>
       iop.step \in {"entry", "file"} /\ (iop.step = "file" => iop.img \notin listed)
  /\ iop.kind = "none" => iop = NoOp

(* What an operation has made is hidden until a stamp makes it visible in  *)
(* order, and nothing else is hidden but what could not be deleted.        *)
HiddenKnown ==
  /\ \A d \in Made : dev[d].name \in {"hidden", "public"}
  /\ iop.step # "rename" => Made \subseteq Hidden
  /\ iop.step = "rename" => \A k \in 1..(iop.n - 1) : iop.made[k] \in Public
  /\ Hidden \subseteq stranded \cup Made
  /\ tmps \subseteq {iop.img}
  /\ iop.kind \in {"none", "delete", "sweep"} \/ iop.step = "verify"
       \/ (iop.kind = "build" /\ iop.step = "create") => tmps = {}

(* How far a stamp has provisioned what it has made. *)
Done(d) == (dev[d].data = "image" \/ dev[d].on) /\ (iop.img \in SlimImg => dev[d].slim)
Whole(d) ==
  /\ dev[d].data # "torn"
  /\ iop.img \in SlimImg => d \in slimmed /\ (dev[d].slim \/ d \in erasing \cup told)
StampIn ==
  /\ iop.kind = "stamp" =>
     /\ \A d \in Made : dev[d].of = iop.img
     /\ iop.step \notin {"verify", "discard"} => archive[iop.img].file = "whole"
     /\ iop.step \in {"create", "commit"} => \A d \in Made : Done(d)
     /\ iop.step \in {"check", "replace", "reslim"} => \A d \in Made \ {Last_} : Done(d)
     /\ iop.step = "reslim" => dev[Last_].data = "image" \/ dev[Last_].on
     /\ iop.step = "record" => \A d \in Made :
          dev[d].data = "image" /\ (iop.img \in SlimImg => dev[d].slim)
     /\ iop.step = "rename" => \A d \in Made : Whole(d)
     /\ iop.step \notin {"rename", "discard"} => Made \cap (erasing \cup told) = {}
  /\ iop.kind = "build" /\ iop.step = "recheck" =>
       archive[iop.img].file = "whole" \/ (archive[iop.img].file = "torn" /\ dev[Builder].on)

ImgInv ==
  /\ ImgTypeOK /\ OpIn /\ HiddenKnown /\ StampIn /\ ImgVisibleWhole /\ ImgListedBacked

-----------------------------------------------------------------------------
(* The journal's types.                                                    *)

StateRec == [nextSeq: 1..(MaxSeq + 1), watch: SUBSET Tailer]
WriterRec == [at: {"idle", "append", "meta", "artifact"}, st: RunState \cup {NoRunState}]
TailerRec == [at: {"idle", "subscribing", "on", "leaving"}, st: RunState \cup {NoRunState}]
GCRec == [at: {"idle", "picked", "watched", "removed"}, st: RunState \cup {NoRunState}]
DiskRec == [exists: BOOLEAN, last: 0..MaxSeq, capture: BOOLEAN]

LEMMA RestingIs ==
  /\ Resting \in WriterRec /\ Resting \in TailerRec /\ Resting \in GCRec
  /\ Resting.at = "idle" /\ Resting.st = NoRunState
  BY DEF Resting, WriterRec, TailerRec, GCRec

LEMMA NewRunStateIs ==
  ASSUME NEW n \in 1..(MaxSeq + 1)
  PROVE  NewRunState(n) \in StateRec /\ NewRunState(n).nextSeq = n /\ NewRunState(n).watch = {}
  BY DEF NewRunState, StateRec

LEMMA NoDiskIs == NoDisk \in DiskRec /\ NoDisk.last = 0 /\ ~ NoDisk.capture /\ ~ NoDisk.exists
<1> DEFINE none == 0
<1>1. none \in 0..MaxSeq /\ none = 0
  BY JnlAssumption
<1>2. NoDisk = [exists |-> FALSE, last |-> none, capture |-> FALSE]
  BY DEF NoDisk
<1> HIDE DEF none
<1> QED
  BY <1>1, <1>2 DEF DiskRec

(* What each step that uses it makes of a looked-up state. *)
LEMMA LookupIs ==
  ASSUME JnlTypes, NEW s \in RunState, Lookup(s)
  PROVE  /\ runs' = s /\ runState' \in [RunState -> StateRec] /\ reclaimed' \in 0..MaxSeq
         /\ \/ runs = s /\ UNCHANGED <<runState, reclaimed>>
            \/ /\ runs = NoRunState /\ reclaimed' = 0
               /\ runState'[s].nextSeq = HigherOf(disk.last, reclaimed) + 1
               /\ runState'[s].watch = {}
<1>0. runState \in [RunState -> StateRec] /\ reclaimed \in 0..MaxSeq /\ disk.last \in 0..MaxSeq
      /\ MaxSeq \in Nat
  BY JnlAssumption DEF JnlTypes, JnlTypeOK, StateRec
<1>1. CASE runs = s /\ UNCHANGED <<runs, runState, reclaimed>>
  BY <1>0, <1>1
<1>2. CASE /\ runs = NoRunState /\ runs' = s
           /\ runState' = [runState EXCEPT ![s] = NewRunState(HigherOf(LastSeq, reclaimed) + 1)]
           /\ reclaimed' = 0
  <2> DEFINE n == HigherOf(disk.last, reclaimed) + 1
  <2>1. n \in 1..(MaxSeq + 1)
    BY <1>0 DEF HigherOf
  <2>2. runState' = [runState EXCEPT ![s] = NewRunState(n)]
    BY <1>2 DEF LastSeq
  <2>3. 0 \in 0..MaxSeq
    BY <1>0
  <2> HIDE DEF n
  <2>4. runState' \in [RunState -> StateRec] /\ runState'[s].nextSeq = n /\ runState'[s].watch = {}
    BY <1>0, <2>1, <2>2, NewRunStateIs
  <2> QED
    BY <1>2, <2>3, <2>4 DEF n
<1> QED
  BY <1>1, <1>2 DEF Lookup

LEMMA JnlTypesStart == JnlInit => JnlTypes
<1> SUFFICES ASSUME JnlInit PROVE JnlTypes
  OBVIOUS
<1>1. 1 \in 1..(MaxSeq + 1) /\ 0 \in 0..MaxSeq
  BY JnlAssumption
<1>2. NewRunState(1) \in StateRec
  <2> DEFINE one == 1
  <2>1. one \in 1..(MaxSeq + 1)
    BY <1>1
  <2> HIDE DEF one
  <2>2. NewRunState(one) \in StateRec
    BY <2>1, NewRunStateIs
  <2> QED
    BY <2>2 DEF one
<1>3. runState \in [RunState -> StateRec]
  BY <1>2 DEF JnlInit
<1>4. writer \in [Writer -> WriterRec] /\ tailer \in [Tailer -> TailerRec] /\ gc \in GCRec
  BY RestingIs DEF JnlInit
<1>5. disk \in DiskRec
  BY NoDiskIs DEF JnlInit
<1>6. JnlTypeOK
  BY <1>1, <1>3, <1>4, <1>5 DEF JnlInit, JnlTypeOK, StateRec, WriterRec, TailerRec, GCRec, DiskRec
<1>7. JnlStates
  BY RestingIs DEF JnlInit, JnlStates
<1> QED
  BY <1>6, <1>7 DEF JnlTypes

(* Moves of one writer, one tailer. *)
LEMMA WriterMoves ==
  ASSUME JnlTypes, NEW w \in Writer, NEW x \in WriterRec, writer' = [writer EXCEPT ![w] = x],
         x.at # "idle" => x.st \in RunState
  PROVE  /\ writer' \in [Writer -> WriterRec] /\ writer'[w] = x
         /\ \A v \in Writer \ {w} : writer'[v] = writer[v]
         /\ \A v \in Writer : writer'[v].at # "idle" => writer'[v].st \in RunState
  BY DEF JnlTypes, JnlTypeOK, JnlStates, WriterRec

LEMMA TailerMoves ==
  ASSUME JnlTypes, NEW t \in Tailer, NEW x \in TailerRec, tailer' = [tailer EXCEPT ![t] = x],
         x.at # "idle" => x.st \in RunState
  PROVE  /\ tailer' \in [Tailer -> TailerRec] /\ tailer'[t] = x
         /\ \A v \in Tailer \ {t} : tailer'[v] = tailer[v]
         /\ \A v \in Tailer : tailer'[v].at # "idle" => tailer'[v].st \in RunState
  BY DEF JnlTypes, JnlTypeOK, JnlStates, TailerRec

LEMMA BeginIs ==
  ASSUME JnlTypes, NEW w \in Writer, NEW what \in {"append", "meta", "artifact"}, Begin(w, what)
  PROVE  \E s \in RunState :
           /\ Lookup(s) /\ writer'[w].at = what /\ writer'[w].st = s
           /\ writer' \in [Writer -> WriterRec]
           /\ \A v \in Writer \ {w} : writer'[v] = writer[v]
           /\ \A v \in Writer : writer'[v].at # "idle" => writer'[v].st \in RunState
<1>1. PICK s \in RunState : Lookup(s) /\ writer' = [writer EXCEPT ![w] = [at |-> what, st |-> s]]
  BY DEF Begin
<1> DEFINE x == [at |-> what, st |-> s]
<1>2. x \in WriterRec /\ x.at = what /\ x.st = s
  BY DEF WriterRec
<1> HIDE DEF x
<1>3. writer' = [writer EXCEPT ![w] = x]
  BY <1>1 DEF x
<1> QED
  BY <1>1, <1>2, <1>3, WriterMoves

BeginsOf(w) == Record(w) \/ StartRun(w) \/ Upload(w) \/ Ingest(w)
LEMMA BeginsAre ==
  ASSUME NEW w \in Writer, BeginsOf(w)
  PROVE  /\ \E what \in {"append", "meta", "artifact"} : Begin(w, what)
         /\ leaseIs # "lost" \/ disk.capture
         /\ UNCHANGED <<open, disk, leaseIs, sync, tailer, gc, issued>>
  BY DEF BeginsOf, Record, StartRun, Upload, Ingest, Begin

LEMMA SubscribeIs ==
  ASSUME JnlTypes, NEW t \in Tailer, Subscribe(t)
  PROVE  \E s \in RunState :
           /\ Lookup(s) /\ tailer'[t].at = "subscribing" /\ tailer'[t].st = s
           /\ tailer' \in [Tailer -> TailerRec]
           /\ \A v \in Tailer \ {t} : tailer'[v] = tailer[v]
           /\ \A v \in Tailer : tailer'[v].at # "idle" => tailer'[v].st \in RunState
<1>1. PICK s \in RunState : Lookup(s) /\ tailer' = [tailer EXCEPT ![t] = [at |-> "subscribing", st |-> s]]
  BY DEF Subscribe
<1> DEFINE x == [at |-> "subscribing", st |-> s]
<1>2. x \in TailerRec /\ x.at = "subscribing" /\ x.st = s
  BY DEF TailerRec
<1> HIDE DEF x
<1>3. tailer' = [tailer EXCEPT ![t] = x]
  BY <1>1 DEF x
<1> QED
  BY <1>1, <1>2, <1>3, TailerMoves

LEMMA RetiredIs ==
  ASSUME JnlTypes, NEW s \in RunState, Retired(s)
  PROVE  /\ runs' \in RunState \cup {NoRunState} /\ reclaimed' \in 0..MaxSeq
         /\ \/ UNCHANGED <<runs, reclaimed>>
            \/ /\ runs = s /\ runs' = NoRunState /\ runState[s].watch = {}
               /\ reclaimed' = IF runState[s].nextSeq > 1 THEN runState[s].nextSeq - 1 ELSE reclaimed
<1>1. runState[s].nextSeq \in 1..(MaxSeq + 1) /\ reclaimed \in 0..MaxSeq /\ MaxSeq \in Nat
  BY JnlAssumption DEF JnlTypes, JnlTypeOK
<1> QED
  BY <1>1 DEF Retired, JnlTypes, JnlTypeOK

(* Append: the line is written, or it is not. *)
LEMMA AppendIs ==
  ASSUME JnlTypes, NEW w \in Writer, JnlAppend(w)
  PROVE  LET s == writer[w].st
             n == runState[s].nextSeq
         IN  /\ s \in RunState /\ n \in 1..MaxSeq /\ writer' = [writer EXCEPT ![w] = Resting]
             /\ \/ /\ disk' \in DiskRec /\ disk'.last = HigherOf(disk.last, n)
                   /\ (disk'.capture <=> disk.capture)
                   /\ runState' \in [RunState -> StateRec]
                   /\ runState'[s].nextSeq = n + 1
                   /\ \A q \in RunState : runState'[q].watch = runState[q].watch
                   /\ issued' \in [1..MaxSeq -> Nat] /\ issued'[n] = issued[n] + 1
                   /\ \A m \in 1..MaxSeq : m # n => issued'[m] = issued[m]
                \/ UNCHANGED <<disk, runState, issued>>
<1> DEFINE s == writer[w].st
           n == runState[s].nextSeq
<1>0. /\ runState \in [RunState -> StateRec] /\ disk \in DiskRec /\ issued \in [1..MaxSeq -> Nat]
      /\ MaxSeq \in Nat
  BY JnlAssumption DEF JnlTypes, JnlTypeOK, StateRec, DiskRec
<1>1. s \in RunState /\ writer' = [writer EXCEPT ![w] = Resting] /\ n <= MaxSeq
  BY DEF JnlAppend, JnlTypes, JnlStates
<1>2. n \in 1..MaxSeq /\ n + 1 \in 1..(MaxSeq + 1) /\ HigherOf(disk.last, n) \in 0..MaxSeq
  <2> HIDE DEF s
  <2>1. runState[s].nextSeq \in 1..(MaxSeq + 1) /\ disk.last \in 0..MaxSeq
    BY <1>0, <1>1 DEF StateRec, DiskRec
  <2> QED
    BY <1>0, <1>1, <2>1 DEF HigherOf
<1>3. ASSUME disk' = [disk EXCEPT !.exists = TRUE, !.last = HigherOf(@, n)],
             runState' = [runState EXCEPT ![s].nextSeq = n + 1],
             issued' = [issued EXCEPT ![n] = @ + 1]
      PROVE  /\ disk' \in DiskRec /\ disk'.last = HigherOf(disk.last, n)
             /\ (disk'.capture <=> disk.capture)
             /\ runState' \in [RunState -> StateRec]
             /\ runState'[s].nextSeq = n + 1
             /\ \A q \in RunState : runState'[q].watch = runState[q].watch
             /\ issued' \in [1..MaxSeq -> Nat] /\ issued'[n] = issued[n] + 1
             /\ \A m \in 1..MaxSeq : m # n => issued'[m] = issued[m]
  <2> DEFINE h == HigherOf(disk.last, n)
             k == n + 1
  <2>1. disk' = [disk EXCEPT !.exists = TRUE, !.last = h] /\ runState' = [runState EXCEPT ![s].nextSeq = k]
    BY <1>3
  <2>2. h \in 0..MaxSeq /\ k \in 1..(MaxSeq + 1)
    BY <1>2
  <2>3. issued' \in [1..MaxSeq -> Nat] /\ issued'[n] = issued[n] + 1
        /\ \A m \in 1..MaxSeq : m # n => issued'[m] = issued[m]
    <3> HIDE DEF n
    <3> QED
      BY <1>0, <1>2, <1>3
  <2> HIDE DEF h, k, s
  <2>4. disk' \in DiskRec /\ disk'.last = h /\ (disk'.capture <=> disk.capture)
    BY <1>0, <2>1, <2>2 DEF DiskRec
  <2>5. runState' \in [RunState -> StateRec] /\ runState'[s].nextSeq = k
        /\ \A q \in RunState : runState'[q].watch = runState[q].watch
    BY <1>0, <1>1, <2>1, <2>2 DEF StateRec
  <2> QED
    BY <2>3, <2>4, <2>5 DEF h, k
<1> QED
  BY <1>1, <1>2, <1>3 DEF JnlAppend

(* What a file put into the directory does. *)
LEMMA PutFileIs ==
  ASSUME JnlTypes, NEW w \in Writer, NEW c \in BOOLEAN, PutFile(w, c)
  PROVE  /\ disk' \in DiskRec /\ disk'.last = disk.last /\ (disk'.capture <=> c)
         /\ writer' = [writer EXCEPT ![w] = Resting]
  BY DEF PutFile, JnlTypes, JnlTypeOK, DiskRec

LEMMA WatchIs ==
  ASSUME JnlTypes, NEW t \in Tailer, Watch(t)
  PROVE  /\ tailer' \in [Tailer -> TailerRec] /\ tailer'[t].at = "on" /\ tailer'[t].st = tailer[t].st
         /\ tailer[t].st \in RunState /\ tailer[t].at = "subscribing"
         /\ \A v \in Tailer \ {t} : tailer'[v] = tailer[v]
         /\ \A v \in Tailer : tailer'[v].at # "idle" => tailer'[v].st \in RunState
         /\ runState' \in [RunState -> StateRec]
         /\ \A q \in RunState : /\ runState'[q].nextSeq = runState[q].nextSeq
                                /\ runState'[q].watch = runState[q].watch
                                     \cup (IF q = tailer[t].st THEN {t} ELSE {})
<1> DEFINE s == tailer[t].st
           x == [tailer[t] EXCEPT !.at = "on"]
<1>1. s \in RunState /\ tailer[t].at = "subscribing"
  BY DEF Watch, JnlTypes, JnlStates
<1>2. x \in TailerRec /\ x.at = "on" /\ x.st = s
  BY DEF JnlTypes, JnlTypeOK, TailerRec
<1>3. tailer' = [tailer EXCEPT ![t] = x]
  BY DEF Watch
<1>4. runState' = [runState EXCEPT ![s].watch = @ \cup {t}] /\ runState \in [RunState -> StateRec]
  BY DEF Watch, JnlTypes, JnlTypeOK, StateRec
<1> HIDE DEF s, x
<1>5. /\ runState' \in [RunState -> StateRec]
      /\ \A q \in RunState : /\ runState'[q].nextSeq = runState[q].nextSeq
                             /\ runState'[q].watch = runState[q].watch
                                  \cup (IF q = s THEN {t} ELSE {})
  BY <1>1, <1>4 DEF StateRec
<1>6. /\ tailer' \in [Tailer -> TailerRec] /\ tailer'[t] = x
      /\ \A v \in Tailer \ {t} : tailer'[v] = tailer[v]
      /\ \A v \in Tailer : tailer'[v].at # "idle" => tailer'[v].st \in RunState
  BY <1>1, <1>2, <1>3, TailerMoves
<1> QED
  BY <1>1, <1>2, <1>5, <1>6 DEF s

LEMMA UnwatchIs ==
  ASSUME JnlTypes, NEW t \in Tailer, Unwatch(t)
  PROVE  /\ tailer' \in [Tailer -> TailerRec] /\ tailer'[t].at \in {"idle", "leaving"}
         /\ tailer[t].st \in RunState
         /\ \A v \in Tailer \ {t} : tailer'[v] = tailer[v]
         /\ \A v \in Tailer : tailer'[v].at # "idle" => tailer'[v].st \in RunState
         /\ runState' \in [RunState -> StateRec]
         /\ \A q \in RunState : /\ runState'[q].nextSeq = runState[q].nextSeq
                                /\ runState'[q].watch \in {runState[q].watch, runState[q].watch \ {t}}
<1> DEFINE s == tailer[t].st
           y == [tailer[t] EXCEPT !.at = "leaving"]
           x == IF runState[s].watch = {t} /\ ~ disk.exists THEN y ELSE Resting
<1>1. s \in RunState
  BY DEF Unwatch, JnlTypes, JnlStates
<1>2. y \in TailerRec /\ y.at = "leaving" /\ y.st = s
  BY DEF JnlTypes, JnlTypeOK, TailerRec
<1>3. tailer' = [tailer EXCEPT ![t] = x]
  BY DEF Unwatch
<1>4. runState' = [runState EXCEPT ![s].watch = @ \ {t}] /\ runState \in [RunState -> StateRec]
  BY DEF Unwatch, JnlTypes, JnlTypeOK, StateRec
<1> HIDE DEF s, y
<1>5. x \in TailerRec /\ x.at \in {"idle", "leaving"} /\ (x.at # "idle" => x.st \in RunState)
  BY <1>1, <1>2, RestingIs
<1> HIDE DEF x
<1>6. /\ runState' \in [RunState -> StateRec]
      /\ \A q \in RunState : /\ runState'[q].nextSeq = runState[q].nextSeq
                             /\ runState'[q].watch \in {runState[q].watch, runState[q].watch \ {t}}
  BY <1>1, <1>4 DEF StateRec
<1>7. /\ tailer' \in [Tailer -> TailerRec] /\ tailer'[t] = x
      /\ \A v \in Tailer \ {t} : tailer'[v] = tailer[v]
      /\ \A v \in Tailer : tailer'[v].at # "idle" => tailer'[v].st \in RunState
  BY <1>3, <1>5, TailerMoves
<1> QED
  BY <1>1, <1>5, <1>6, <1>7 DEF s

LEMMA JnlTypesStep == ASSUME JnlTypes, [JnlNext]_jnlVars PROVE JnlTypes'
<1> DEFINE MemoryOK == /\ runs \in RunState \cup {NoRunState} /\ runState \in [RunState -> StateRec]
                       /\ reclaimed \in 0..MaxSeq
           DiskOK == disk \in DiskRec /\ issued \in [1..MaxSeq -> Nat]
           WritersOK == /\ writer \in [Writer -> WriterRec]
                        /\ \A w \in Writer : writer[w].at # "idle" => writer[w].st \in RunState
           TailersOK == /\ tailer \in [Tailer -> TailerRec]
                        /\ \A t \in Tailer : tailer[t].at # "idle" => tailer[t].st \in RunState
           GCOK == gc \in GCRec /\ (gc.at = "removed" => gc.st \in RunState)
           LeaseOK == /\ leaseIs \in {"none", "queued", "active", "ended", "lost"} /\ open \in BOOLEAN
                      /\ sync \in [Syncer -> {"idle", "due", "active", "over", "done"}]
<1>0. MemoryOK /\ DiskOK /\ WritersOK /\ TailersOK /\ GCOK /\ LeaseOK
  BY DEF JnlTypes, JnlTypeOK, JnlStates, StateRec, DiskRec, WriterRec, TailerRec, GCRec
<1>a. MemoryOK' /\ DiskOK' /\ WritersOK' /\ TailersOK' /\ GCOK' /\ LeaseOK' => JnlTypes'
  BY DEF JnlTypes, JnlTypeOK, JnlStates, StateRec, DiskRec, WriterRec, TailerRec, GCRec
<1>1. CASE JnlAcquire \/ JnlGrant \/ EndLease
  BY <1>0, <1>a, <1>1 DEF JnlAcquire, JnlGrant, EndLease
<1>2. ASSUME NEW k \in Syncer, SyncPeek(k) \/ SyncMark(k) PROVE JnlTypes'
  BY <1>0, <1>a, <1>2 DEF SyncPeek, SyncMark
<1>3. ASSUME NEW w \in Writer, BeginsOf(w) PROVE JnlTypes'
  <2>1. UNCHANGED <<open, disk, leaseIs, sync, tailer, gc, issued>>
    BY <1>3, BeginsAre
  <2>2. PICK what \in {"append", "meta", "artifact"} : Begin(w, what)
    BY <1>3, BeginsAre
  <2>3. PICK s \in RunState : /\ Lookup(s) /\ writer' \in [Writer -> WriterRec]
                              /\ \A v \in Writer : writer'[v].at # "idle" => writer'[v].st \in RunState
    BY <2>2, BeginIs
  <2>4. runs' = s /\ runState' \in [RunState -> StateRec] /\ reclaimed' \in 0..MaxSeq
    BY <2>3, LookupIs
  <2> QED
    BY <1>0, <1>a, <2>1, <2>3, <2>4
<1>4. ASSUME NEW w \in Writer, JnlAppend(w) PROVE JnlTypes'
  <2>1. writer' = [writer EXCEPT ![w] = Resting]
        /\ \/ disk' \in DiskRec /\ runState' \in [RunState -> StateRec] /\ issued' \in [1..MaxSeq -> Nat]
           \/ UNCHANGED <<disk, runState, issued>>
    BY <1>4, AppendIs
  <2>2. WritersOK'
    BY <2>1, WriterMoves, RestingIs
  <2>3. UNCHANGED <<runs, reclaimed, open, leaseIs, sync, tailer, gc>>
    BY <1>4 DEF JnlAppend
  <2> QED
    BY <1>0, <1>a, <2>1, <2>2, <2>3
<1>5. ASSUME NEW w \in Writer, WriteMeta(w) \/ PutArtifact(w) PROVE JnlTypes'
  <2>1. PICK c \in BOOLEAN : PutFile(w, c)
    BY <1>0, <1>5 DEF WriteMeta, PutArtifact, DiskRec
  <2>2. disk' \in DiskRec /\ writer' = [writer EXCEPT ![w] = Resting]
    BY <2>1, PutFileIs
  <2>3. WritersOK'
    BY <2>2, WriterMoves, RestingIs
  <2>4. UNCHANGED <<runs, runState, reclaimed, open, leaseIs, sync, tailer, gc, issued>>
    BY <2>1 DEF PutFile
  <2> QED
    BY <1>0, <1>a, <2>2, <2>3, <2>4
<1>6. ASSUME NEW t \in Tailer, Subscribe(t) PROVE JnlTypes'
  <2>1. UNCHANGED <<open, disk, leaseIs, sync, writer, gc, issued>>
    BY <1>6 DEF Subscribe
  <2>2. PICK s \in RunState : Lookup(s) /\ TailersOK'
    BY <1>6, SubscribeIs
  <2>3. runs' = s /\ runState' \in [RunState -> StateRec] /\ reclaimed' \in 0..MaxSeq
    BY <2>2, LookupIs
  <2> QED
    BY <1>0, <1>a, <2>1, <2>2, <2>3
<1>7. ASSUME NEW t \in Tailer, Watch(t) PROVE JnlTypes'
  <2>1. TailersOK' /\ runState' \in [RunState -> StateRec]
    BY <1>7, WatchIs
  <2>2. UNCHANGED <<runs, reclaimed, open, disk, leaseIs, sync, writer, gc, issued>>
    BY <1>7 DEF Watch
  <2> QED
    BY <1>0, <1>a, <2>1, <2>2
<1>8. ASSUME NEW t \in Tailer, Unwatch(t) PROVE JnlTypes'
  <2>1. TailersOK' /\ runState' \in [RunState -> StateRec]
    BY <1>8, UnwatchIs
  <2>2. UNCHANGED <<runs, reclaimed, open, disk, leaseIs, sync, writer, gc, issued>>
    BY <1>8 DEF Unwatch
  <2> QED
    BY <1>0, <1>a, <2>1, <2>2
<1>9. ASSUME NEW t \in Tailer, DropState(t) PROVE JnlTypes'
  <2>1. tailer[t].st \in RunState /\ Retired(tailer[t].st) /\ tailer' = [tailer EXCEPT ![t] = Resting]
        /\ UNCHANGED <<runState, open, disk, leaseIs, sync, writer, gc, issued>>
    BY <1>0, <1>9 DEF DropState
  <2>2. runs' \in RunState \cup {NoRunState} /\ reclaimed' \in 0..MaxSeq
    BY <2>1, RetiredIs
  <2>3. TailersOK'
    BY <2>1, TailerMoves, RestingIs
  <2> QED
    BY <1>0, <1>a, <2>1, <2>2, <2>3
<1>10. CASE GCPick
  <2>1. GCOK'
    BY <1>0, <1>10 DEF GCPick, GCRec
  <2> QED
    BY <1>0, <1>10, <1>a, <2>1 DEF GCPick
<1>11. CASE GCWatched
  <2>1. GCOK'
    BY <1>0, <1>11, RestingIs DEF GCWatched, GCRec
  <2> QED
    BY <1>0, <1>11, <1>a, <2>1 DEF GCWatched
<1>12. CASE GCRemove
  <2>1. GCOK'
    BY <1>0, <1>12, RestingIs DEF GCRemove, GCRec
  <2>2. disk' \in DiskRec
    BY <1>12, NoDiskIs DEF GCRemove
  <2> QED
    BY <1>0, <1>12, <1>a, <2>1, <2>2 DEF GCRemove
<1>13. CASE GCRetire
  <2>1. gc.st \in RunState /\ Retired(gc.st) /\ gc' = Resting
        /\ UNCHANGED <<runState, open, disk, leaseIs, sync, writer, tailer, issued>>
    BY <1>0, <1>13 DEF GCRetire
  <2>2. runs' \in RunState \cup {NoRunState} /\ reclaimed' \in 0..MaxSeq
    BY <2>1, RetiredIs
  <2> QED
    BY <1>0, <1>a, <2>1, <2>2, RestingIs
<1>14. CASE JnlCrash
  <2> DEFINE one == 1
  <2>1. one \in 1..(MaxSeq + 1) /\ 0 \in 0..MaxSeq
    BY JnlAssumption
  <2>2. runState' = [s \in RunState |-> NewRunState(one)]
    BY <1>14 DEF JnlCrash
  <2> HIDE DEF one
  <2>3. runState' \in [RunState -> StateRec]
    BY <2>1, <2>2, NewRunStateIs
  <2>4. WritersOK' /\ TailersOK' /\ GCOK'
    BY <1>14, RestingIs DEF JnlCrash
  <2> QED
    BY <1>0, <1>14, <1>a, <2>1, <2>3, <2>4 DEF JnlCrash
<1>15. CASE UNCHANGED jnlVars
  BY <1>0, <1>15, <1>a DEF jnlVars
<1> QED
  BY <1>1, <1>2, <1>3, <1>4, <1>5, <1>6, <1>7, <1>8, <1>9, <1>10, <1>11, <1>12, <1>13, <1>14, <1>15
     DEF JnlNext, BeginsOf

LEMMA JnlStarts == JnlInit => JnlInv
<1> SUFFICES ASSUME JnlInit PROVE JnlInv
  OBVIOUS
<1>1. \A n \in 1..MaxSeq : issued[n] = 0
  BY DEF JnlInit
<1>2. (\A w \in Writer : writer[w].at = "idle") /\ (\A t \in Tailer : tailer[t].at = "idle") /\ gc.at = "idle"
  BY RestingIs DEF JnlInit
<1>3. disk.last = 0 /\ ~ disk.capture
  BY NoDiskIs DEF JnlInit
<1>4. LookupsHold /\ GCSpares /\ JnlTailersFed /\ JnlUniqueRefs
  BY <1>1, <1>2 DEF LookupsHold, GCSpares, JnlTailersFed, JnlUniqueRefs
<1>5. SeqsAhead
  BY <1>1, <1>2, <1>3 DEF SeqsAhead, JnlInit
<1>6. SyncsInTurn
  BY DEF SyncsInTurn, JnlInit
<1> QED
  BY <1>4, <1>5, <1>6, JnlTypesStart DEF JnlInv

LEMMA JnlHolds == JnlInv => JnlSafe
<1> SUFFICES ASSUME JnlInv PROVE JnlSafe
  OBVIOUS
<1>1. JnlOpenConverges
  BY DEF JnlInv, SyncsInTurn, JnlOpenConverges, AllSynced
<1> QED
  BY <1>1 DEF JnlInv, JnlSafe

(* A state is looked up while no request that would write to another has   *)
(* one: the map keeps it, or a new one resumes above every seq.            *)
LEMMA LookupKeeps ==
  ASSUME JnlInv, NEW s \in RunState, Lookup(s), UNCHANGED <<disk, leaseIs, issued>>,
         \A t \in Tailer : tailer'[t].at = "on" => tailer'[t] = tailer[t],
         Closed => \A w \in Writer : writer'[w].at = "idle"
  PROVE  runs' = s /\ (runs # NoRunState => runs = s) /\ SeqsAhead' /\ JnlTailersFed'
<1>0. /\ reclaimed \in 0..MaxSeq /\ disk.last \in 0..MaxSeq /\ MaxSeq \in Nat /\ s # NoRunState
  BY JnlAssumption DEF JnlInv, JnlTypes, JnlTypeOK
<1>1. /\ runs' = s
      /\ \/ runs = s /\ UNCHANGED <<runState, reclaimed>>
         \/ /\ runs = NoRunState /\ reclaimed' = 0
            /\ runState'[s].nextSeq = HigherOf(disk.last, reclaimed) + 1
            /\ runState'[s].watch = {}
  BY LookupIs DEF JnlInv
<1>2. SeqsAhead'
  <2>1. ASSUME runs = NoRunState, ~ Closed, NEW n \in 1..MaxSeq, issued[n] > 0,
               runState'[s].nextSeq = HigherOf(disk.last, reclaimed) + 1
        PROVE  n < runState'[s].nextSeq
    <3>1. n <= disk.last \/ n <= reclaimed
      BY <2>1 DEF JnlInv, SeqsAhead, Closed
    <3> QED
      BY <1>0, <2>1, <3>1 DEF HigherOf
  <2>2. Closed' <=> Closed
    BY DEF Closed
  <2>3. runs' # NoRunState /\ ~ Closed' =>
          \A n \in 1..MaxSeq : issued'[n] > 0 => n < runState'[runs'].nextSeq
    BY <1>0, <1>1, <2>1, <2>2 DEF JnlInv, SeqsAhead
  <2> QED
    BY <1>0, <1>1, <2>2, <2>3 DEF JnlInv, SeqsAhead
<1>3. JnlTailersFed'
  <2> SUFFICES ASSUME NEW t \in Tailer, tailer'[t].at = "on"
               PROVE  runs' = tailer'[t].st /\ t \in runState'[runs'].watch
    BY DEF JnlTailersFed
  <2>1. runs = tailer[t].st /\ t \in runState[runs].watch /\ tailer[t].st \in RunState
    BY DEF JnlInv, JnlTailersFed, JnlTypes, JnlStates
  <2> QED
    BY <1>0, <1>1, <2>1, JnlAssumption
<1> QED
  BY <1>1, <1>2, <1>3

(* A state that is retired is used by nobody, and leaves its highest seq.  *)
LEMMA RetireKeeps ==
  ASSUME JnlInv, NEW s \in RunState, Retired(s), ~ InUse,
         UNCHANGED <<runState, disk, leaseIs, writer, issued>>,
         \A t \in Tailer : tailer'[t].at # "idle" => tailer'[t] = tailer[t]
  PROVE  LookupsHold' /\ SeqsAhead' /\ JnlTailersFed'
<1>1. CASE UNCHANGED <<runs, reclaimed>>
  BY <1>1 DEF JnlInv, LookupsHold, SeqsAhead, JnlTailersFed, Closed
<1>2. CASE /\ runs = s /\ runs' = NoRunState /\ runState[s].watch = {}
           /\ reclaimed' = IF runState[s].nextSeq > 1 THEN runState[s].nextSeq - 1 ELSE reclaimed
  <2>1. LookupsHold'
    BY <1>2 DEF InUse, LookupsHold
  <2>2. JnlTailersFed'
    BY <1>2 DEF JnlInv, JnlTailersFed
  <2>3. ASSUME leaseIs # "lost", NEW n \in 1..MaxSeq, issued[n] > 0 PROVE n <= reclaimed'
    <3>1. s # NoRunState /\ runState[s].nextSeq \in 1..(MaxSeq + 1) /\ MaxSeq \in Nat
      BY JnlAssumption DEF JnlInv, JnlTypes, JnlTypeOK
    <3>2. n < runState[s].nextSeq
      BY <1>2, <2>3, <3>1 DEF JnlInv, SeqsAhead, Closed
    <3> QED
      BY <1>2, <3>1, <3>2
  <2>4. SeqsAhead'
    BY <1>2, <2>3 DEF JnlInv, SeqsAhead, Closed
  <2> QED
    BY <2>1, <2>2, <2>4
<1> QED
  BY <1>1, <1>2, RetiredIs DEF JnlInv

LEMMA JnlStep == ASSUME ~ Overtaken, JnlInv, [JnlNext]_jnlVars PROVE JnlInv'
<1>0. JnlTypes /\ JnlTypes' /\ LookupsHold /\ SeqsAhead /\ SyncsInTurn /\ GCSpares
      /\ JnlUniqueRefs /\ JnlTailersFed
  BY JnlTypesStep DEF JnlInv
<1>a. LookupsHold' /\ SeqsAhead' /\ SyncsInTurn' /\ GCSpares' /\ JnlUniqueRefs' /\ JnlTailersFed' => JnlInv'
  BY <1>0 DEF JnlInv
<1>b. /\ UNCHANGED <<runs, writer, tailer>> => LookupsHold'
      /\ UNCHANGED <<leaseIs, disk, writer, runs, runState, reclaimed, issued>> => SeqsAhead'
      /\ UNCHANGED <<sync, leaseIs, open>> => SyncsInTurn'
      /\ UNCHANGED <<gc, leaseIs>> => GCSpares'
      /\ UNCHANGED issued => JnlUniqueRefs'
      /\ UNCHANGED <<tailer, runs, runState>> => JnlTailersFed'
  BY <1>0 DEF LookupsHold, SeqsAhead, Closed, SyncsInTurn, GCSpares, JnlUniqueRefs, JnlTailersFed
<1>1. CASE JnlAcquire \/ JnlGrant \/ EndLease
  <2>1. sync \in [Syncer -> {"idle", "due", "active", "over", "done"}] /\ leaseIs # "lost" /\ leaseIs' # "lost"
        /\ UNCHANGED <<runs, runState, reclaimed, open, disk, writer, tailer, gc, issued>>
    BY <1>0, <1>1 DEF JnlAcquire, JnlGrant, EndLease, JnlTypes, JnlTypeOK
  <2>2. PICK k \in Syncer : sync' = [sync EXCEPT ![k] = "due"]
    BY <1>1 DEF JnlAcquire, JnlGrant, EndLease, Syncer
  <2>3. SyncsInTurn'
    BY <1>0, <2>1, <2>2 DEF SyncsInTurn
  <2>4. SeqsAhead'
    BY <1>0, <2>1 DEF SeqsAhead, Closed
  <2>5. GCSpares'
    BY <1>0, <1>1 DEF GCSpares, JnlAcquire, JnlGrant, EndLease
  <2> QED
    BY <1>a, <1>b, <2>1, <2>3, <2>4, <2>5
<1>2. ASSUME NEW k \in Syncer, SyncPeek(k) PROVE JnlInv'
  <2>1. sync \in [Syncer -> {"idle", "due", "active", "over", "done"}]
        /\ UNCHANGED <<runs, runState, reclaimed, open, disk, leaseIs, writer, tailer, gc, issued>>
    BY <1>0, <1>2 DEF SyncPeek, JnlTypes, JnlTypeOK
  <2>2. SyncsInTurn'
    BY <1>0, <1>2, <2>1 DEF SyncsInTurn, SyncPeek
  <2> QED
    BY <1>a, <1>b, <2>1, <2>2
<1>3. ASSUME NEW k \in Syncer, SyncMark(k) PROVE JnlInv'
  <2>1. sync \in [Syncer -> {"idle", "due", "active", "over", "done"}]
        /\ UNCHANGED <<runs, runState, reclaimed, disk, leaseIs, writer, tailer, gc, issued>>
    BY <1>0, <1>3 DEF SyncMark, JnlTypes, JnlTypeOK
  <2>2. SyncsInTurn'
    BY <1>0, <1>3, <2>1 DEF SyncsInTurn, SyncMark
  <2> QED
    BY <1>a, <1>b, <2>1, <2>2
<1>4. ASSUME NEW w \in Writer, BeginsOf(w) PROVE JnlInv'
  <2>1. UNCHANGED <<open, disk, leaseIs, sync, tailer, gc, issued>> /\ ~ Closed
    BY <1>4, BeginsAre DEF Closed
  <2>2. PICK what \in {"append", "meta", "artifact"} : Begin(w, what)
    BY <1>4, BeginsAre
  <2>3. PICK s \in RunState : /\ Lookup(s) /\ writer'[w].st = s
                              /\ \A v \in Writer \ {w} : writer'[v] = writer[v]
    BY <1>0, <2>2, BeginIs
  <2>4. runs' = s /\ (runs # NoRunState => runs = s) /\ SeqsAhead' /\ JnlTailersFed'
    BY <2>1, <2>3, LookupKeeps
  <2>5. LookupsHold'
    BY <1>0, <2>1, <2>3, <2>4, JnlAssumption DEF LookupsHold, JnlTypes, JnlStates
  <2> QED
    BY <1>a, <1>b, <2>1, <2>4, <2>5
<1>5. ASSUME NEW w \in Writer, JnlAppend(w) PROVE JnlInv'
  <2> DEFINE s == writer[w].st
             n == runState[s].nextSeq
  <2>1. UNCHANGED <<runs, reclaimed, open, leaseIs, sync, tailer, gc>> /\ writer[w].at = "append"
    BY <1>5 DEF JnlAppend
  <2>2. /\ s \in RunState /\ n \in 1..MaxSeq /\ writer' = [writer EXCEPT ![w] = Resting]
        /\ \/ /\ disk'.last = HigherOf(disk.last, n)
              /\ (disk'.capture <=> disk.capture)
              /\ runState'[s].nextSeq = n + 1
              /\ \A q \in RunState : runState'[q].watch = runState[q].watch
              /\ issued' \in [1..MaxSeq -> Nat] /\ issued'[n] = issued[n] + 1
              /\ \A m \in 1..MaxSeq : m # n => issued'[m] = issued[m]
           \/ UNCHANGED <<disk, runState, issued>>
    BY <1>0, <1>5, AppendIs
  <2>3. s = runs /\ ~ Closed
    BY <1>0, <2>1 DEF LookupsHold, SeqsAhead
  <2>4. \A v \in Writer : writer'[v] = writer[v] \/ writer'[v].at = "idle"
    BY <1>0, <2>2, RestingIs DEF JnlTypes, JnlTypeOK
  <2>5. LookupsHold'
    BY <1>0, <2>1, <2>4 DEF LookupsHold
  <2>6. disk.last \in 0..MaxSeq /\ MaxSeq \in Nat /\ issued \in [1..MaxSeq -> Nat] /\ s # NoRunState
    BY <1>0, <2>2, JnlAssumption DEF JnlTypes, JnlTypeOK
  <2>7. \A m \in 1..MaxSeq : issued[m] > 0 => m < n
    BY <1>0, <2>2, <2>3, <2>6 DEF SeqsAhead
  <2> HIDE DEF n
  <2>8. CASE UNCHANGED <<disk, runState, issued>>
    <3>1. SeqsAhead'
      BY <1>0, <2>1, <2>4, <2>8 DEF SeqsAhead, Closed
    <3> QED
      BY <1>a, <1>b, <2>1, <2>5, <2>8, <3>1
  <2>9. CASE /\ disk'.last = HigherOf(disk.last, n)
             /\ (disk'.capture <=> disk.capture)
             /\ runState'[s].nextSeq = n + 1
             /\ \A q \in RunState : runState'[q].watch = runState[q].watch
             /\ issued' \in [1..MaxSeq -> Nat] /\ issued'[n] = issued[n] + 1
             /\ \A m \in 1..MaxSeq : m # n => issued'[m] = issued[m]
    <3>1. issued[n] = 0
      BY <2>2, <2>6, <2>7
    <3>2. JnlUniqueRefs'
      BY <1>0, <2>6, <2>9, <3>1 DEF JnlUniqueRefs
    <3>3. \A m \in 1..MaxSeq : issued'[m] > 0 => m <= n
      BY <2>2, <2>6, <2>7, <2>9
    <3>4. disk'.last >= n /\ disk'.last >= disk.last
      BY <2>2, <2>6, <2>9 DEF HigherOf
    <3>5. SeqsAhead'
      <4>1. \A m \in 1..MaxSeq : issued'[m] > 0 => m <= disk'.last /\ m < runState'[runs'].nextSeq
        <5>1. disk'.last \in Nat /\ runs' = s
          BY <2>1, <2>2, <2>3, <2>6, <2>9 DEF HigherOf
        <5> HIDE DEF s
        <5> QED
          BY <2>2, <2>6, <2>9, <3>3, <3>4, <5>1
      <4>2. disk'.capture => disk'.last > 0
        BY <2>2, <2>6, <2>9 DEF HigherOf
      <4> QED
        BY <2>1, <2>3, <2>6, <2>9, <4>1, <4>2 DEF SeqsAhead, Closed
    <3>6. JnlTailersFed'
      BY <1>0, <2>1, <2>2, <2>3, <2>9 DEF JnlTailersFed
    <3> QED
      BY <1>a, <1>b, <2>1, <2>5, <3>2, <3>5, <3>6
  <2> QED
    BY <2>2, <2>8, <2>9
<1>6. ASSUME NEW w \in Writer, WriteMeta(w) \/ PutArtifact(w) PROVE JnlInv'
  <2>1. PICK c \in BOOLEAN : PutFile(w, c) /\ (c => disk.last > 0) /\ (leaseIs = "lost" => (c <=> disk.capture))
    BY <1>0, <1>6 DEF WriteMeta, PutArtifact, SeqsAhead, JnlTypes, JnlTypeOK
  <2>2. disk'.last = disk.last /\ (disk'.capture <=> c) /\ writer' = [writer EXCEPT ![w] = Resting]
    BY <1>0, <2>1, PutFileIs
  <2>3. UNCHANGED <<runs, runState, reclaimed, open, leaseIs, sync, tailer, gc, issued>>
    BY <2>1 DEF PutFile
  <2>4. \A v \in Writer : writer'[v] = writer[v] \/ writer'[v].at = "idle"
    BY <1>0, <2>2, RestingIs DEF JnlTypes, JnlTypeOK
  <2>5. LookupsHold'
    BY <1>0, <2>3, <2>4 DEF LookupsHold
  <2>6. SeqsAhead'
    BY <1>0, <2>1, <2>2, <2>3, <2>4 DEF SeqsAhead, Closed
  <2> QED
    BY <1>a, <1>b, <2>3, <2>5, <2>6
<1>7. ASSUME NEW t \in Tailer, Subscribe(t) PROVE JnlInv'
  <2>1. UNCHANGED <<open, disk, leaseIs, sync, writer, gc, issued>>
    BY <1>7 DEF Subscribe
  <2>2. PICK s \in RunState : /\ Lookup(s) /\ tailer'[t].st = s /\ tailer'[t].at = "subscribing"
                              /\ \A v \in Tailer \ {t} : tailer'[v] = tailer[v]
    BY <1>0, <1>7, SubscribeIs
  <2>3. runs' = s /\ (runs # NoRunState => runs = s) /\ SeqsAhead' /\ JnlTailersFed'
    <3>1. \A v \in Tailer : tailer'[v].at = "on" => tailer'[v] = tailer[v]
      BY <2>2
    <3>2. Closed => \A v \in Writer : writer'[v].at = "idle"
      BY <1>0, <2>1 DEF SeqsAhead
    <3> QED
      BY <2>1, <2>2, <3>1, <3>2, LookupKeeps
  <2>4. LookupsHold'
    BY <1>0, <2>1, <2>2, <2>3, JnlAssumption DEF LookupsHold, JnlTypes, JnlStates
  <2> QED
    BY <1>a, <1>b, <2>1, <2>3, <2>4
<1>8. ASSUME NEW t \in Tailer, Watch(t) PROVE JnlInv'
  <2>1. UNCHANGED <<runs, reclaimed, open, disk, leaseIs, sync, writer, gc, issued>>
    BY <1>8 DEF Watch
  <2>2. /\ tailer'[t].at = "on" /\ tailer'[t].st = tailer[t].st
        /\ tailer[t].st \in RunState /\ tailer[t].at = "subscribing"
        /\ \A v \in Tailer \ {t} : tailer'[v] = tailer[v]
        /\ \A q \in RunState : /\ runState'[q].nextSeq = runState[q].nextSeq
                               /\ runState'[q].watch = runState[q].watch
                                    \cup (IF q = tailer[t].st THEN {t} ELSE {})
    BY <1>0, <1>8, WatchIs
  <2>3. runs = tailer[t].st
    BY <1>0, <2>2 DEF LookupsHold
  <2>4. LookupsHold'
    BY <1>0, <2>1, <2>2 DEF LookupsHold
  <2>5. SeqsAhead'
    BY <1>0, <2>1, <2>2, <2>3 DEF SeqsAhead, Closed
  <2>6. JnlTailersFed'
    BY <1>0, <2>1, <2>2, <2>3 DEF JnlTailersFed
  <2> QED
    BY <1>a, <1>b, <2>1, <2>4, <2>5, <2>6
<1>9. ASSUME NEW t \in Tailer, Unwatch(t) PROVE JnlInv'
  <2>1. UNCHANGED <<runs, reclaimed, open, disk, leaseIs, sync, writer, gc, issued>>
    BY <1>9 DEF Unwatch
  <2>2. /\ tailer'[t].at \in {"idle", "leaving"}
        /\ \A v \in Tailer \ {t} : tailer'[v] = tailer[v]
        /\ \A q \in RunState : /\ runState'[q].nextSeq = runState[q].nextSeq
                               /\ runState'[q].watch \in {runState[q].watch, runState[q].watch \ {t}}
    BY <1>0, <1>9, UnwatchIs
  <2>3. runs \in RunState \cup {NoRunState}
    BY <1>0 DEF JnlTypes, JnlTypeOK
  <2>4. LookupsHold'
    BY <1>0, <2>1, <2>2 DEF LookupsHold
  <2>5. SeqsAhead'
    BY <1>0, <2>1, <2>2, <2>3 DEF SeqsAhead, Closed
  <2>6. JnlTailersFed'
    <3> SUFFICES ASSUME NEW v \in Tailer, tailer'[v].at = "on"
                 PROVE  runs' = tailer'[v].st /\ v \in runState'[runs'].watch
      BY DEF JnlTailersFed
    <3>1. v # t /\ tailer'[v] = tailer[v]
      BY <2>2
    <3>2. runs = tailer[v].st /\ v \in runState[runs].watch /\ tailer[v].st \in RunState
      BY <1>0, <3>1 DEF JnlTailersFed, JnlTypes, JnlStates
    <3> QED
      BY <2>1, <2>2, <3>1, <3>2
  <2> QED
    BY <1>a, <1>b, <2>1, <2>4, <2>5, <2>6
<1>10. ASSUME NEW t \in Tailer, DropState(t) PROVE JnlInv'
  <2>1. tailer[t].st \in RunState /\ Retired(tailer[t].st) /\ tailer' = [tailer EXCEPT ![t] = Resting]
        /\ UNCHANGED <<runState, open, disk, leaseIs, sync, writer, gc, issued>> /\ ~ InUse
    BY <1>0, <1>10 DEF DropState, JnlTypes, JnlStates
  <2>2. \A v \in Tailer : tailer'[v].at # "idle" => tailer'[v] = tailer[v]
    BY <1>0, <2>1, RestingIs DEF JnlTypes, JnlTypeOK
  <2>3. LookupsHold' /\ SeqsAhead' /\ JnlTailersFed'
    BY <2>1, <2>2, RetireKeeps
  <2> QED
    BY <1>a, <1>b, <2>1, <2>3
<1>11. CASE GCPick
  <2>1. UNCHANGED <<runs, runState, reclaimed, open, disk, leaseIs, sync, writer, tailer, issued>>
        /\ ~ open /\ AllSynced
    BY <1>11 DEF GCPick
  <2>2. GCSpares'
    BY <1>0, <2>1 DEF GCSpares, SyncsInTurn, AllSynced
  <2> QED
    BY <1>a, <1>b, <2>1, <2>2
<1>12. CASE GCWatched
  <2>1. UNCHANGED <<runs, runState, reclaimed, open, disk, leaseIs, sync, writer, tailer, issued>> /\ gc.at # "idle"
    BY <1>12 DEF GCWatched
  <2>2. GCSpares'
    BY <1>0, <2>1 DEF GCSpares
  <2> QED
    BY <1>a, <1>b, <2>1, <2>2
<1>13. CASE GCRemove
  <2>1. UNCHANGED <<runs, runState, reclaimed, open, leaseIs, sync, writer, tailer, issued>> /\ gc.at # "idle"
        /\ disk' = NoDisk /\ ~ InUse
    BY <1>13 DEF GCRemove
  <2>2. GCSpares'
    BY <1>0, <2>1 DEF GCSpares
  <2>3. SeqsAhead'
    BY <1>0, <2>1, NoDiskIs DEF SeqsAhead, Closed, InUse
  <2> QED
    BY <1>a, <1>b, <2>1, <2>2, <2>3
<1>14. CASE GCRetire
  <2>1. gc.st \in RunState /\ Retired(gc.st) /\ gc' = Resting /\ ~ InUse
        /\ UNCHANGED <<runState, open, disk, leaseIs, sync, writer, tailer, issued>>
    BY <1>0, <1>14 DEF GCRetire, JnlTypes, JnlStates
  <2>2. LookupsHold' /\ SeqsAhead' /\ JnlTailersFed'
    BY <2>1, RetireKeeps
  <2>3. GCSpares'
    BY <2>1, RestingIs DEF GCSpares
  <2> QED
    BY <1>a, <1>b, <2>1, <2>2, <2>3
<1>15. CASE JnlCrash
  <2>1. /\ \A w \in Writer : writer'[w].at = "idle"
        /\ \A t \in Tailer : tailer'[t].at = "idle"
        /\ gc'.at = "idle" /\ \A k \in Syncer : sync'[k] = "idle"
        /\ leaseIs' = "lost" /\ runs' = NoRunState /\ open' = FALSE /\ UNCHANGED <<disk, issued>>
    BY <1>15, RestingIs DEF JnlCrash
  <2>2. LookupsHold' /\ GCSpares' /\ JnlTailersFed' /\ SyncsInTurn'
    BY <2>1 DEF LookupsHold, GCSpares, JnlTailersFed, SyncsInTurn
  <2>3. SeqsAhead'
    BY <1>0, <2>1 DEF SeqsAhead, Closed
  <2> QED
    BY <1>a, <1>b, <2>1, <2>2, <2>3
<1>16. CASE UNCHANGED jnlVars
  BY <1>a, <1>b, <1>16 DEF jnlVars
<1> QED
  BY <1>1, <1>2, <1>3, <1>4, <1>5, <1>6, <1>7, <1>8, <1>9, <1>10, <1>11, <1>12, <1>13, <1>14, <1>15, <1>16
     DEF JnlNext, BeginsOf

LEMMA JnlLive == JnlInv => (GCRemove => leaseIs # "active")
  BY DEF JnlInv, GCSpares, GCRemove

-----------------------------------------------------------------------------
(* The state engine's calls.                                               *)

SnpOps == {"none", "snapshot", "restore", "erase", "delete", "reset"}
SnpNames == {"none", "erase"} \cup Snap
SnpSteps == {"idle", "lock", "check", "clone", "add", "copy", "aside", "swap", "boot", "wipe",
             "reslim", "owned", "remove", "degrade", "end", "unlocked"}
SnpResults == {"none", "ok", "busy", "failed"}
CallRec == [op: SnpOps, snap: SnpNames, reboot: BOOLEAN, spoiled: BOOLEAN, copied: AnyData,
            step: SnpSteps, res: SnpResults]

LEMMA CallTypes == SnpTypeOK => call \in [SnpCaller -> CallRec]
  BY DEF SnpTypeOK, CallRec, SnpOps, SnpNames, SnpSteps, SnpResults

(* Only this caller's call has moved, and this is where it stands.         *)
CallNow(c, op, snap, reboot, spoiled, copied, step, res) ==
  /\ call' \in [SnpCaller -> CallRec]
  /\ \A b \in SnpCaller \ {c} : call'[b] = call[b]
  /\ call'[c].op = op /\ call'[c].snap = snap /\ (call'[c].reboot <=> reboot)
  /\ (call'[c].spoiled <=> spoiled) /\ call'[c].copied = copied
  /\ call'[c].step = step /\ call'[c].res = res

LEMMA CallSet ==
  ASSUME SnpTypeOK, NEW c \in SnpCaller, NEW k \in CallRec, call' = [call EXCEPT ![c] = k]
  PROVE  CallNow(c, k.op, k.snap, k.reboot, k.spoiled, k.copied, k.step, k.res)
  BY CallTypes DEF CallRec, CallNow

LEMMA IdleIs ==
  /\ IdleCall \in CallRec /\ IdleCall.op = "none" /\ IdleCall.snap = "none" /\ ~ IdleCall.reboot
  /\ ~ IdleCall.spoiled /\ IdleCall.copied = "none" /\ IdleCall.step = "idle" /\ IdleCall.res = "none"
  BY DEF IdleCall, CallRec, AnyData, SnpOps, SnpNames, SnpSteps, SnpResults

LEMMA ToIs ==
  ASSUME SnpTypeOK, NEW c \in SnpCaller, NEW s \in SnpSteps, To(c, s)
  PROVE  CallNow(c, call[c].op, call[c].snap, call[c].reboot, call[c].spoiled, call[c].copied,
                 s, call[c].res)
<1> DEFINE k == [call[c] EXCEPT !.step = s]
<1>0. call[c] \in CallRec /\ call \in [SnpCaller -> CallRec]
  BY CallTypes
<1>1. /\ k \in CallRec /\ k.op = call[c].op /\ k.snap = call[c].snap /\ (k.reboot <=> call[c].reboot)
      /\ (k.spoiled <=> call[c].spoiled) /\ k.copied = call[c].copied /\ k.step = s
      /\ k.res = call[c].res
  BY <1>0 DEF CallRec
<1>2. call' = [call EXCEPT ![c] = k]
  BY <1>0 DEF To
<1> HIDE DEF k
<1> QED
  BY <1>1, <1>2, CallSet DEF CallNow

LEMMA StepResIs ==
  ASSUME SnpTypeOK, NEW c \in SnpCaller, NEW s \in SnpSteps, NEW r \in SnpResults,
         call' = [call EXCEPT ![c].step = s, ![c].res = r]
  PROVE  CallNow(c, call[c].op, call[c].snap, call[c].reboot, call[c].spoiled, call[c].copied, s, r)
<1> DEFINE k == [call[c] EXCEPT !.step = s, !.res = r]
<1>0. call[c] \in CallRec /\ call \in [SnpCaller -> CallRec]
  BY CallTypes
<1>2. call' = [call EXCEPT ![c] = k]
  BY <1>0
<1>1. /\ k \in CallRec /\ k.op = call[c].op /\ k.snap = call[c].snap /\ (k.reboot <=> call[c].reboot)
      /\ (k.spoiled <=> call[c].spoiled) /\ k.copied = call[c].copied /\ k.step = s /\ k.res = r
  <2> DEFINE m == call[c]
  <2>0. m \in CallRec /\ k = [m EXCEPT !.step = s, !.res = r]
    BY <1>0
  <2> HIDE DEF m
  <2>3. /\ k.op = m.op /\ k.snap = m.snap /\ k.reboot = m.reboot
        /\ k.spoiled = m.spoiled /\ k.copied = m.copied /\ k.step = s /\ k.res = r
    BY <2>0 DEF CallRec
  <2>4. k \in CallRec
    BY <2>0 DEF CallRec
  <2> QED
    BY <2>3, <2>4 DEF m
<1> HIDE DEF k
<1> QED
  BY <1>1, <1>2, CallSet DEF CallNow

LEMMA EndsIs ==
  ASSUME SnpTypeOK, NEW c \in SnpCaller, NEW r \in SnpResults, EndsWith(c, r)
  PROVE  CallNow(c, call[c].op, call[c].snap, call[c].reboot, call[c].spoiled, call[c].copied, "end", r)
<1> DEFINE s == "end"
<1>1. s \in SnpSteps /\ call' = [call EXCEPT ![c].step = s, ![c].res = r]
  BY DEF SnpSteps, EndsWith
<1> HIDE DEF s
<1>2. CallNow(c, call[c].op, call[c].snap, call[c].reboot, call[c].spoiled, call[c].copied, s, r)
  BY <1>1, StepResIs
<1> QED
  BY <1>2 DEF s

LEMMA StepRebootIs ==
  ASSUME SnpTypeOK, NEW c \in SnpCaller, NEW s \in SnpSteps, NEW r \in BOOLEAN,
         call' = [call EXCEPT ![c].step = s, ![c].reboot = r]
  PROVE  CallNow(c, call[c].op, call[c].snap, r, call[c].spoiled, call[c].copied, s, call[c].res)
<1> DEFINE k == [call[c] EXCEPT !.step = s, !.reboot = r]
<1>0. call[c] \in CallRec /\ call \in [SnpCaller -> CallRec]
  BY CallTypes
<1>1. /\ k \in CallRec /\ k.op = call[c].op /\ k.snap = call[c].snap /\ (k.reboot <=> r)
      /\ (k.spoiled <=> call[c].spoiled) /\ k.copied = call[c].copied /\ k.step = s
      /\ k.res = call[c].res
  BY <1>0 DEF CallRec
<1>2. call' = [call EXCEPT ![c] = k]
  BY <1>0
<1> HIDE DEF k
<1> QED
  BY <1>1, <1>2, CallSet DEF CallNow

LEMMA StepCopiedIs ==
  ASSUME SnpTypeOK, NEW c \in SnpCaller, NEW s \in SnpSteps, NEW d \in AnyData,
         call' = [call EXCEPT ![c].step = s, ![c].copied = d]
  PROVE  CallNow(c, call[c].op, call[c].snap, call[c].reboot, call[c].spoiled, d, s, call[c].res)
<1> DEFINE k == [call[c] EXCEPT !.step = s, !.copied = d]
<1>0. call[c] \in CallRec /\ call \in [SnpCaller -> CallRec]
  BY CallTypes
<1>1. /\ k \in CallRec /\ k.op = call[c].op /\ k.snap = call[c].snap /\ (k.reboot <=> call[c].reboot)
      /\ (k.spoiled <=> call[c].spoiled) /\ k.copied = d /\ k.step = s /\ k.res = call[c].res
  BY <1>0 DEF CallRec
<1>2. call' = [call EXCEPT ![c] = k]
  BY <1>0
<1> HIDE DEF k
<1> QED
  BY <1>1, <1>2, CallSet DEF CallNow

LEMMA StepSnapIs ==
  ASSUME SnpTypeOK, NEW c \in SnpCaller, NEW s \in SnpSteps, NEW n \in SnpNames,
         call' = [call EXCEPT ![c].step = s, ![c].snap = n]
  PROVE  CallNow(c, call[c].op, n, call[c].reboot, call[c].spoiled, call[c].copied, s, call[c].res)
<1> DEFINE k == [call[c] EXCEPT !.step = s, !.snap = n]
<1>0. call[c] \in CallRec /\ call \in [SnpCaller -> CallRec]
  BY CallTypes
<1>1. /\ k \in CallRec /\ k.op = call[c].op /\ k.snap = n /\ (k.reboot <=> call[c].reboot)
      /\ (k.spoiled <=> call[c].spoiled) /\ k.copied = call[c].copied /\ k.step = s
      /\ k.res = call[c].res
  BY <1>0 DEF CallRec
<1>2. call' = [call EXCEPT ![c] = k]
  BY <1>0
<1> HIDE DEF k
<1> QED
  BY <1>1, <1>2, CallSet DEF CallNow

(* A call begins. *)
LEMMA BeginsCall ==
  ASSUME SnpTypeOK, NEW c \in SnpCaller,
         NEW op \in SnpOps,
         NEW n \in SnpNames, NEW r \in BOOLEAN, NEW s \in SnpSteps,
         call' = [call EXCEPT ![c] = [IdleCall EXCEPT !.op = op, !.snap = n, !.reboot = r, !.step = s]]
  PROVE  CallNow(c, op, n, r, FALSE, "none", s, "none")
<1> DEFINE k == [IdleCall EXCEPT !.op = op, !.snap = n, !.reboot = r, !.step = s]
<1>1. /\ k \in CallRec /\ k.op = op /\ k.snap = n /\ (k.reboot <=> r)
      /\ ~ k.spoiled /\ k.copied = "none" /\ k.step = s /\ k.res = "none"
  <2> DEFINE m == IdleCall
  <2>0. k = [m EXCEPT !.op = op, !.snap = n, !.reboot = r, !.step = s]
    OBVIOUS
  <2>1. m \in CallRec /\ ~ m.spoiled /\ m.copied = "none" /\ m.res = "none"
    BY IdleIs
  <2> HIDE DEF m, k
  <2>2. k.op = op /\ k.snap = n /\ k.reboot = r /\ ~ k.spoiled /\ k.copied = "none" /\ k.step = s
        /\ k.res = "none"
    BY <2>0, <2>1 DEF CallRec
  <2>3. k \in CallRec
    BY <2>0, <2>1 DEF CallRec
  <2> QED
    BY <2>2, <2>3
<1>2. call' = [call EXCEPT ![c] = k]
  OBVIOUS
<1> HIDE DEF k
<1> QED
  BY <1>1, <1>2, CallSet DEF CallNow

LEMMA SnpStarts == SnpInit => SnpInv
<1> SUFFICES ASSUME SnpInit PROVE SnpInv
  OBVIOUS
<1>1. \A c \in SnpCaller : call[c] = IdleCall
  BY DEF SnpInit
<1>2. SnpTypeOK
  <2>1. call \in [SnpCaller -> CallRec]
    BY IdleIs DEF SnpInit
  <2>2. 0 \in 0..MaxCalls
    BY SnapshotsAssumption
  <2> QED
    BY <2>1, <2>2 DEF SnpInit, SnpTypeOK, AnyData, CallRec, SnpOps, SnpNames, SnpSteps, SnpResults
<1>3. CallsInOrder /\ Resetter \in SnpCaller
  BY <1>1, IdleIs DEF SnpInit, CallsInOrder, StepsOf, WithLock, InCall, SnpCaller
<1>4. CopiesClones /\ DataIsThere
  BY <1>1, IdleIs DEF SnpInit, CopiesClones, DataIsThere
<1>5. SnapshotsMade
  BY <1>1, IdleIs DEF SnpInit, SnapshotsMade, ListedWithClone
<1>6. ResetAlone
  BY <1>1, <1>3, IdleIs DEF SnpInit, ResetAlone, InCall, SnpCaller
<1> QED
  BY <1>2, <1>3, <1>4, <1>5, <1>6 DEF SnpInv

LEMMA SnpHolds == SnpInv => SnpSafe
<1> SUFFICES ASSUME SnpInv PROVE SnpSafe
  OBVIOUS
<1>1. SnpBacked
  BY DEF SnpInv, SnapshotsMade, ListedWithClone, SnpBacked
<1>2. SnpWhole
  BY DEF SnpInv, CopiesClones, DataIsThere, SnpWhole, InCall
<1> QED
  BY <1>1, <1>2 DEF SnpSafe

-----------------------------------------------------------------------------
(* How a call goes on.                                                     *)

(* A caller is none of the other things a field may name.                  *)
LEMMA SnpNamesApart ==
  /\ SnpCaller = SnpHolder \cup {Resetter} /\ Resetter \notin SnpHolder /\ Resetter \in SnpCaller
  /\ \A h \in SnpCaller :
       h \notin {"free", "resetting", "quarantined", "stock", "none", "missing", "torn", "partial",
                 "never", "gone"}
  /\ \A s \in Snap : s # "none" /\ s # "erase"
  BY SnapshotsAssumption DEF SnpCaller

(* A step tells of which operations it is one. *)
LEMMA StepOp ==
  ASSUME NEW op \in SnpOps, NEW s \in StepsOf(op)
  PROVE  /\ s = "idle" <=> op = "none"
         /\ s = "lock" => op \in {"snapshot", "restore", "erase", "reset"}
         /\ s = "check" => op \in {"snapshot", "restore", "erase", "reset"}
         /\ s \in {"clone", "add"} => op = "snapshot"
         /\ s \in {"copy", "aside", "swap"} => op \in {"restore", "reset"}
         /\ s = "boot" => op = "restore"
         /\ s \in {"wipe", "reslim"} => op \in {"erase", "reset"}
         /\ s \in {"owned", "remove"} => op = "delete"
         /\ s \in {"degrade", "unlocked"} => op = "reset"
  BY DEF SnpOps, StepsOf

LEMMA OpSteps ==
  /\ StepsOf("none") = {"idle"}
  /\ StepsOf("snapshot") = {"lock", "check", "clone", "add", "end"}
  /\ StepsOf("restore") = {"lock", "check", "copy", "aside", "swap", "boot", "end"}
  /\ StepsOf("erase") = {"lock", "check", "wipe", "reslim", "end"}
  /\ StepsOf("delete") = {"owned", "remove", "end"}
  /\ StepsOf("reset") = {"lock", "check", "copy", "aside", "swap", "wipe", "reslim",
                         "degrade", "end", "unlocked"}
  BY DEF StepsOf

(* Everything but the calls has its type. *)
RestTyped ==
  /\ careless \in BOOLEAN /\ holder \in {"free", "resetting", "quarantined"} \cup SnpHolder
  /\ ended \subseteq SnpHolder /\ calls \in 0..MaxCalls
  /\ snpLock \in {"none"} \cup SnpCaller
  /\ power \in {"Shutdown", "Booted"}
  /\ data \in AnyData \ {"none"} /\ staging \in AnyData \ {"missing"} /\ aside \in AnyData
  /\ snpIndex \subseteq Snap /\ clone \in [Snap -> (AnyData \ {"none", "missing"}) \cup {"never", "gone"}]

LEMMA TypeParts == SnpTypeOK <=> call \in [SnpCaller -> CallRec] /\ RestTyped
  BY DEF SnpTypeOK, RestTyped, CallRec, SnpOps, SnpNames, SnpSteps, SnpResults

LEMMA TypePartsNext == call' \in [SnpCaller -> CallRec] /\ RestTyped' => SnpTypeOK'
  BY DEF SnpTypeOK, RestTyped, CallRec, SnpOps, SnpNames, SnpSteps, SnpResults

(* A call of c goes on; the others stay as they are, but for a copy that   *)
(* loses what it reads.                                                    *)
Goes(c) ==
  /\ call' \in [SnpCaller -> CallRec]
  /\ \A b \in SnpCaller \ {c} :
       /\ call'[b].op = call[b].op /\ call'[b].snap = call[b].snap
       /\ (call'[b].reboot <=> call[b].reboot) /\ call'[b].copied = call[b].copied
       /\ call'[b].step = call[b].step /\ call'[b].res = call[b].res
       /\ (call'[b].spoiled => call[b].spoiled \/ call[b].step = "copy")
       /\ (call[b].spoiled => call'[b].spoiled)
  /\ call'[c].op = call[c].op /\ call[c].step # "idle" /\ call'[c].step # "idle"
  /\ careless' = careless /\ holder' = holder

LEMMA CallGoes ==
  ASSUME NEW c \in SnpCaller, NEW n, NEW r, NEW sp, NEW cp, NEW s, NEW rs,
         CallNow(c, call[c].op, n, r, sp, cp, s, rs), call[c].step # "idle", s # "idle",
         careless' = careless, holder' = holder
  PROVE  Goes(c)
  BY DEF CallNow, Goes

LEMMA OrderGoes ==
  ASSUME SnpTypeOK, CallsInOrder, NEW c \in SnpCaller, Goes(c),
         call'[c].step \in StepsOf(call[c].op),
         call'[c].snap = call[c].snap \/ (call[c].op = "reset" /\ call'[c].snap = "erase"),
         call'[c].reboot => c # Resetter,
         call'[c].step \in WithLock => snpLock' = c,
         snpLock' = snpLock \/ snpLock \in {"none", c},
         c = Resetter /\ call'[c].step = "end" => snpLock' = c
  PROVE  CallsInOrder'
<1>1. ASSUME NEW b \in SnpCaller
      PROVE  /\ call'[b].step \in StepsOf(call'[b].op)
             /\ call'[b].step \in WithLock => snpLock' = b
             /\ call'[b].op \in {"snapshot", "restore", "delete"} => call'[b].snap \in Snap
             /\ call'[b].op = "reset" => call'[b].snap \in {"erase"} \cup Snap
             /\ call'[b].op = "reset" <=> InCall(b)' /\ b = Resetter
  <2>1. CASE b = c
    <3>1. call'[c].op = call[c].op /\ (InCall(c)' <=> InCall(c))
      BY DEF Goes, InCall
    <3> QED
      BY <2>1, <3>1 DEF CallsInOrder
  <2>2. CASE b # c
    <3>1. /\ call'[b].op = call[b].op /\ call'[b].snap = call[b].snap
          /\ call'[b].step = call[b].step /\ (InCall(b)' <=> InCall(b))
      BY <2>2 DEF Goes, InCall
    <3>2. call[b].step \in WithLock => snpLock = b /\ snpLock # "none"
      BY SnpNamesApart DEF CallsInOrder
    <3> QED
      BY <2>2, <3>1, <3>2 DEF CallsInOrder
  <2> QED
    BY <2>1, <2>2
<1>2. InCall(Resetter)' <=> holder' = "resetting"
  BY SnpNamesApart DEF Goes, InCall, CallsInOrder
<1>3. call'[Resetter].step = "end" => snpLock' = Resetter
  BY SnpNamesApart DEF Goes, CallsInOrder
<1>4. ~ call'[Resetter].reboot
  BY SnpNamesApart DEF Goes, CallsInOrder
<1> QED
  BY <1>1, <1>2, <1>3, <1>4 DEF CallsInOrder

LEMMA CopyGoes ==
  ASSUME SnpTypeOK, CallsInOrder, CopiesClones, NEW c \in SnpCaller, Goes(c),
         call'[c].step = "copy" =>
           call'[c].snap \in Snap
             /\ (~ call'[c].spoiled => clone'[call'[c].snap] \notin {"never", "gone"}),
         \A b \in SnpCaller \ {c} : call[b].step = "copy" /\ ~ call'[b].spoiled =>
           clone'[call[b].snap] = clone[call[b].snap],
         (staging' = staging /\ aside' = aside) \/ call[c].step \in WithLock,
         call'[c].step \in {"aside", "swap"} => staging' = call'[c].copied /\ staging' # "none",
         call'[c].step = "swap" => aside' \notin {"missing", "none"}
  PROVE  CopiesClones'
<1>1. ASSUME NEW b \in SnpCaller
      PROVE  /\ call'[b].step = "copy" => call'[b].snap \in Snap
             /\ call'[b].step = "copy" /\ ~ call'[b].spoiled =>
                  clone'[call'[b].snap] \notin {"never", "gone"}
             /\ call'[b].step \in {"aside", "swap"} => staging' = call'[b].copied /\ staging' # "none"
             /\ call'[b].step = "swap" => aside' \notin {"missing", "none"}
  <2>1. CASE b = c
    BY <2>1
  <2>2. CASE b # c
    <3>1. /\ call'[b].step = call[b].step /\ call'[b].snap = call[b].snap
          /\ call'[b].copied = call[b].copied /\ (call[b].spoiled => call'[b].spoiled)
      BY <2>2 DEF Goes
    <3>2. call[b].step \in {"aside", "swap"} => staging' = staging /\ aside' = aside
      BY <2>2 DEF CallsInOrder, WithLock
    <3> QED
      BY <2>2, <3>1, <3>2 DEF CopiesClones
  <2> QED
    BY <2>1, <2>2
<1> QED
  BY <1>1 DEF CopiesClones

LEMMA DataGoes ==
  ASSUME DataIsThere, NEW c \in SnpCaller, Goes(c),
         data' = "missing" =>
           call'[c].step = "swap" \/ (data = "missing" /\ call[c].step # "swap")
  PROVE  DataIsThere'
  BY DEF DataIsThere, Goes

(* What is made and listed is not at stake in most steps. *)
LEMMA MadeGoes ==
  ASSUME SnpTypeOK, CallsInOrder, SnapshotsMade, NEW c \in SnpCaller, Goes(c),
         snpIndex' = snpIndex, clone' = clone,
         call[c].step # "add", call'[c].step \notin {"add", "remove"},
         call'[c].snap = call[c].snap \/ call[c].op = "reset",
         call'[c].step \in {"lock", "check", "clone"} /\ call[c].op = "snapshot" =>
           call[c].step \in {"lock", "check", "clone"}
  PROVE  SnapshotsMade'
<1>1. \A b \in SnpCaller : call'[b].op = call[b].op
        /\ (call[b].op \in {"snapshot", "delete"} => call'[b].snap = call[b].snap)
  BY DEF Goes
<1>2. \A b \in SnpCaller : b # c => call'[b].step = call[b].step
  BY DEF Goes
<1>3. \A s \in Snap : ListedWithClone(s)' <=> ListedWithClone(s)
  BY DEF ListedWithClone
<1>4. ASSUME NEW b \in SnpCaller, call'[b].op = "snapshot"
      PROVE  /\ call'[b].step \in {"lock", "check", "clone"} =>
                  clone'[call'[b].snap] = "never" /\ call'[b].snap \notin snpIndex'
             /\ call'[b].step = "add" => call'[b].snap \notin snpIndex' /\ clone'[call'[b].snap] # "never"
  BY <1>1, <1>2, <1>4 DEF SnapshotsMade
<1>5. ASSUME NEW b \in SnpCaller, call'[b].op = "delete"
      PROVE  /\ call'[b].snap \in snpIndex' \/ clone'[call'[b].snap] = "gone"
             /\ call'[b].step = "remove" => clone'[call'[b].snap] = "gone"
  BY <1>1, <1>2, <1>5 DEF SnapshotsMade
<1>6. ASSUME NEW a \in SnpCaller, NEW b \in SnpCaller, call'[a].op = "snapshot",
             call'[b].op = "snapshot", call'[a].snap = call'[b].snap
      PROVE  a = b
  BY <1>1, <1>6 DEF SnapshotsMade
<1>7. ASSUME NEW s \in Snap
      PROVE  \/ ListedWithClone(s)'
             \/ \E b \in SnpCaller : call'[b].op = "snapshot" /\ call'[b].step = "add" /\ call'[b].snap = s
  <2>1. CASE ListedWithClone(s)
    BY <1>3, <2>1
  <2>2. CASE ~ ListedWithClone(s)
    <3>1. PICK b \in SnpCaller : call[b].op = "snapshot" /\ call[b].step = "add" /\ call[b].snap = s
      BY <2>2 DEF SnapshotsMade
    <3>2. b # c
      BY <3>1
    <3> QED
      BY <1>1, <1>2, <3>1, <3>2
  <2> QED
    BY <2>1, <2>2
<1> QED
  BY <1>4, <1>5, <1>6, <1>7 DEF SnapshotsMade

(* While a lease holder's call goes on with careful clients, no reset does. *)
LEMMA AloneGoes ==
  ASSUME SnpTypeOK, CallsInOrder, ResetAlone, NEW c \in SnpCaller, c # Resetter, Goes(c)
  PROVE  ResetAlone'
<1> SUFFICES ASSUME ~ careless PROVE ResetAlone'
  BY DEF ResetAlone, Goes
<1>0. c \in SnpHolder /\ c # "resetting" /\ SnpHolder \subseteq SnpCaller /\ Resetter \in SnpCaller
  BY SnpNamesApart
<1>1. holder = c
  BY <1>0 DEF ResetAlone, Goes, InCall
<1>2. call[Resetter].step = "idle"
  BY <1>0, <1>1 DEF CallsInOrder, InCall
<1>3. /\ call'[Resetter].step = "idle" /\ call'[Resetter].res = call[Resetter].res
      /\ (call'[Resetter].spoiled => call[Resetter].spoiled)
  BY <1>0, <1>2 DEF Goes
<1>4. \A h \in SnpHolder : call'[h].step # "idle" => holder' = h
  BY <1>0 DEF ResetAlone, Goes, InCall
<1>5. ~ call[Resetter].spoiled /\ call[Resetter].res # "ok"
  BY <1>2 DEF ResetAlone
<1> QED
  BY <1>3, <1>4, <1>5 DEF ResetAlone, InCall

LEMMA AloneResets ==
  ASSUME SnpTypeOK, CallsInOrder, ResetAlone, Goes(Resetter),
         ~ careless =>
           /\ ~ call'[Resetter].spoiled
           /\ call'[Resetter].step \in {"copy", "aside", "swap"} => power' = "Shutdown"
           /\ call'[Resetter].step \in {"aside", "swap"} =>
                call'[Resetter].copied = clone'[call'[Resetter].snap]
           /\ call'[Resetter].step \in {"copy", "aside", "swap"} => call'[Resetter].snap \in Snap
           /\ call'[Resetter].step = "reslim" => data' = "stock"
           /\ call'[Resetter].step \in {"end", "unlocked"} /\ call'[Resetter].res = "ok" =>
                data' = "stock" \/ \E s \in Snap : call'[Resetter].snap = s /\ data' = clone'[s]
           /\ call'[Resetter].step \notin {"end", "unlocked"} => call'[Resetter].res # "ok"
  PROVE  ResetAlone'
<1>1. careless' = careless
  BY DEF Goes
<1>2. \A h \in SnpHolder : (InCall(h)' <=> InCall(h)) /\ holder' = holder
  BY SnpNamesApart DEF Goes, InCall
<1> QED
  BY <1>1, <1>2 DEF ResetAlone

(* What a caller in the middle of a call knows. *)
LEMMA StepKnown ==
  ASSUME SnpTypeOK, CallsInOrder, NEW c \in SnpCaller
  PROVE  /\ call[c] \in CallRec /\ call[c].op \in SnpOps /\ call[c].step \in StepsOf(call[c].op)
         /\ call[c].op = "reset" => c = Resetter
         /\ c = Resetter /\ call[c].step # "idle" => call[c].op = "reset"
         /\ call[c].op \in {"snapshot", "restore", "delete"} => call[c].snap \in Snap
         /\ call[c].op = "reset" => call[c].snap \in {"erase"} \cup Snap
         /\ call[c].reboot => c # Resetter
         /\ call[c].step \in WithLock => snpLock = c
<1>1. call[c] \in CallRec /\ call[c].op \in SnpOps
  BY TypeParts DEF CallRec
<1> QED
  BY <1>1 DEF CallsInOrder, InCall

LEMMA LockKeeps ==
  ASSUME SnpInv, NEW c \in SnpCaller, TakesLock(c)
  PROVE  SnpInv'
<1> USE DEF SnpInv
<1>1. "check" \in SnpSteps /\ call[c].step = "lock"
  BY DEF SnpSteps, TakesLock
<1> DEFINE k == "check"
<1>2. CallNow(c, call[c].op, call[c].snap, call[c].reboot, call[c].spoiled, call[c].copied, k, call[c].res)
  <2>1. k \in SnpSteps /\ To(c, k)
    BY DEF SnpSteps, TakesLock
  <2> HIDE DEF k
  <2> QED
    BY <2>1, ToIs
<1>3. Goes(c)
  <2>1. k # "idle" /\ call[c].step # "idle" /\ careless' = careless /\ holder' = holder
    BY DEF TakesLock
  <2> HIDE DEF k
  <2> QED
    BY <1>2, <2>1, CallGoes
<1>4. /\ call'[c].op = call[c].op /\ call'[c].snap = call[c].snap /\ (call'[c].reboot <=> call[c].reboot)
      /\ (call'[c].spoiled <=> call[c].spoiled) /\ call'[c].copied = call[c].copied
      /\ call'[c].step = "check" /\ call'[c].res = call[c].res /\ call' \in [SnpCaller -> CallRec]
  BY <1>2 DEF CallNow
<1>5. /\ snpLock = "none" /\ snpLock' = c
      /\ UNCHANGED <<ended, power, data, staging, aside, snpIndex, clone, calls>>
  BY DEF TakesLock
<1>6. call[c].op \in {"snapshot", "restore", "erase", "reset"}
  BY <1>1, StepKnown, StepOp
<1>t. SnpTypeOK'
  <2>1. RestTyped
    BY TypeParts
  <2>2. RestTyped'
    BY <1>3, <1>5, <2>1 DEF RestTyped, Goes
  <2> QED
    BY <1>4, <2>2, TypePartsNext
<1>o. CallsInOrder'
  <2>1. call'[c].step \in StepsOf(call[c].op)
    BY <1>4, <1>6, OpSteps
  <2> QED
    BY <1>3, <1>4, <1>5, <2>1, OrderGoes, StepKnown
<1>c. CopiesClones'
  BY <1>3, <1>4, <1>5, CopyGoes
<1>d. DataIsThere'
  BY <1>1, <1>3, <1>5, DataGoes
<1>m. SnapshotsMade'
  BY <1>1, <1>3, <1>4, <1>5, MadeGoes
<1>a. ResetAlone'
  <2>1. CASE c # Resetter
    BY <1>3, <2>1, AloneGoes
  <2>2. CASE c = Resetter
    <3>1. ~ careless => ~ call[c].spoiled /\ call[c].res # "ok"
      BY <1>1, <2>2 DEF ResetAlone
    <3> QED
      BY <1>3, <1>4, <2>2, <3>1, AloneResets
  <2> QED
    BY <2>1, <2>2
<1> QED
  BY <1>t, <1>o, <1>c, <1>d, <1>m, <1>a

(* Where c's call stands now, when only its step and its result have moved. *)
GoesTo(c, s, r) ==
  /\ Goes(c) /\ call'[c].snap = call[c].snap /\ (call'[c].reboot <=> call[c].reboot)
  /\ (call'[c].spoiled <=> call[c].spoiled) /\ call'[c].copied = call[c].copied
  /\ call'[c].step = s /\ call'[c].res = r

LEMMA NowGoesTo ==
  ASSUME NEW c \in SnpCaller, NEW s, NEW r, s # "idle", call[c].step # "idle",
         careless' = careless, holder' = holder,
         CallNow(c, call[c].op, call[c].snap, call[c].reboot, call[c].spoiled, call[c].copied, s, r)
  PROVE  GoesTo(c, s, r)
  BY DEF CallNow, Goes, GoesTo

LEMMA ToGoes ==
  ASSUME SnpTypeOK, NEW c \in SnpCaller, call[c].step # "idle", careless' = careless, holder' = holder
  PROVE  \A s \in SnpSteps : s # "idle" /\ To(c, s) => GoesTo(c, s, call[c].res)
  BY ToIs, NowGoesTo

LEMMA EndGoes ==
  ASSUME SnpTypeOK, NEW c \in SnpCaller, call[c].step # "idle", careless' = careless, holder' = holder
  PROVE  \A r \in SnpResults : EndsWith(c, r) => GoesTo(c, "end", r)
<1> TAKE r \in SnpResults
<1> HAVE EndsWith(c, r)
<1> DEFINE s == "end"
<1>1. s # "idle" /\ CallNow(c, call[c].op, call[c].snap, call[c].reboot, call[c].spoiled, call[c].copied, s, r)
  BY EndsIs
<1> HIDE DEF s
<1>2. GoesTo(c, s, r)
  BY <1>1, NowGoesTo
<1> QED
  BY <1>2 DEF s

LEMMA StepResGoes ==
  ASSUME SnpTypeOK, NEW c \in SnpCaller, call[c].step # "idle", careless' = careless, holder' = holder,
         NEW s \in SnpSteps, NEW r \in SnpResults, s # "idle",
         call' = [call EXCEPT ![c].step = s, ![c].res = r]
  PROVE  GoesTo(c, s, r)
  BY StepResIs, NowGoesTo

LEMMA SnpWords ==
  /\ {"lock", "check", "clone", "add", "copy", "aside", "swap", "boot", "wipe", "reslim", "owned",
      "remove", "degrade", "end", "unlocked"} \subseteq SnpSteps
  /\ {"none", "ok", "busy", "failed"} \subseteq SnpResults
  /\ {"none", "erase"} \subseteq SnpNames /\ Snap \subseteq SnpNames
  BY DEF SnpSteps, SnpResults, SnpNames

(* Whoever has the lock is alone with the data directory. *)
LEMMA LockAlone ==
  ASSUME CallsInOrder, NEW c \in SnpCaller, call[c].step \in WithLock
  PROVE  \A b \in SnpCaller \ {c} : call[b].step \notin WithLock
  BY DEF CallsInOrder

LEMMA DataThere ==
  ASSUME SnpInv, NEW c \in SnpCaller, call[c].step \in WithLock, call[c].step # "swap"
  PROVE  data # "missing"
  BY LockAlone DEF SnpInv, DataIsThere, WithLock

LEMMA ChecksKeep ==
  ASSUME SnpInv, NEW c \in SnpCaller, SnpChecks(c)
  PROVE  SnpInv'
<1> USE DEF SnpInv
<1>1. /\ call[c].step = "check" /\ call[c].step \in WithLock
      /\ UNCHANGED <<careless, holder, ended, snpLock, data, staging, aside, snpIndex, clone, calls>>
  BY DEF SnpChecks, WithLock
<1>2. call[c].op \in {"snapshot", "restore", "erase", "reset"} /\ snpLock = c
  BY <1>1, StepKnown, StepOp
<1>3. \/ /\ GoesTo(c, "end", "busy") \/ GoesTo(c, "end", "failed")
         /\ power' = power /\ call[c].op # "reset"
      \/ GoesTo(c, "wipe", call[c].res) /\ call[c].op \in {"erase", "reset"} /\ power' = "Shutdown"
      \/ GoesTo(c, "clone", call[c].res) /\ call[c].op = "snapshot" /\ power' = power
      \/ /\ GoesTo(c, "copy", call[c].res) /\ Known(call[c].snap) /\ call[c].op = "reset"
         /\ power' = "Shutdown"
      \/ /\ Goes(c) /\ call'[c].snap = call[c].snap /\ call'[c].step = "copy" /\ Known(call[c].snap)
         /\ (call'[c].spoiled <=> call[c].spoiled) /\ call'[c].res = call[c].res
         /\ call[c].op = "restore" /\ power' = "Shutdown"
      \/ GoesTo(c, "degrade", call[c].res) /\ call[c].op = "reset" /\ power' = "Shutdown"
  <2>1. ASSUME call[c].op \in {"snapshot", "erase"}
        PROVE  \/ GoesTo(c, "end", "busy") /\ power' = power
               \/ GoesTo(c, "wipe", call[c].res) /\ call[c].op = "erase" /\ power' = "Shutdown"
               \/ GoesTo(c, "clone", call[c].res) /\ call[c].op = "snapshot" /\ power' = power
    <3>1. /\ power' = power
          /\ \/ EndsWith(c, "busy")
             \/ power = "Shutdown" /\ call[c].op = "erase" /\ To(c, "wipe")
             \/ call[c].op = "snapshot" /\ To(c, "clone")
      BY <2>1 DEF SnpChecks
    <3> QED
      BY <1>1, <3>1, ToGoes, EndGoes, SnpWords
  <2>2. ASSUME call[c].op = "restore"
        PROVE  \/ /\ GoesTo(c, "end", "busy") \/ GoesTo(c, "end", "failed")
                  /\ power' = power
               \/ /\ Goes(c) /\ call'[c].snap = call[c].snap /\ call'[c].step = "copy"
                  /\ Known(call[c].snap) /\ (call'[c].spoiled <=> call[c].spoiled)
                  /\ call'[c].res = call[c].res /\ power' = "Shutdown"
    <3>1. \/ power' = power /\ (EndsWith(c, "busy") \/ EndsWith(c, "failed"))
          \/ /\ Known(call[c].snap) /\ power' = "Shutdown"
             /\ call' = [call EXCEPT ![c].step = "copy", ![c].reboot = (power # "Shutdown")]
      BY <2>2 DEF SnpChecks
    <3>2. ASSUME call' = [call EXCEPT ![c].step = "copy", ![c].reboot = (power # "Shutdown")]
          PROVE  /\ Goes(c) /\ call'[c].snap = call[c].snap /\ call'[c].step = "copy"
                 /\ (call'[c].spoiled <=> call[c].spoiled) /\ call'[c].res = call[c].res
      <4> DEFINE s == "copy"
                 r == power # "Shutdown"
      <4>1. s \in SnpSteps /\ r \in BOOLEAN /\ s # "idle"
            /\ call' = [call EXCEPT ![c].step = s, ![c].reboot = r]
        BY <3>2, SnpWords
      <4> HIDE DEF s, r
      <4>2. CallNow(c, call[c].op, call[c].snap, r, call[c].spoiled, call[c].copied, s, call[c].res)
        BY <4>1, StepRebootIs
      <4>3. Goes(c) /\ call[c].step # "idle"
        BY <1>1, <4>1, <4>2, CallGoes
      <4>4. s = "copy"
        BY DEF s
      <4> QED
        BY <4>2, <4>3, <4>4 DEF CallNow
    <3> QED
      BY <1>1, <3>1, <3>2, EndGoes, SnpWords
  <2>3. ASSUME call[c].op = "reset"
        PROVE  /\ power' = "Shutdown"
               /\ \/ GoesTo(c, "wipe", call[c].res)
                  \/ GoesTo(c, "copy", call[c].res) /\ Known(call[c].snap)
                  \/ GoesTo(c, "degrade", call[c].res)
    <3>1. /\ power' = "Shutdown"
          /\ To(c, "wipe") \/ (Known(call[c].snap) /\ To(c, "copy")) \/ To(c, "degrade")
      BY <2>3 DEF SnpChecks
    <3> QED
      BY <1>1, <3>1, ToGoes, SnpWords
  <2> QED
    BY <1>2, <2>1, <2>2, <2>3
<1>4. Goes(c)
  BY <1>3 DEF GoesTo
<1>5. /\ call'[c].snap = call[c].snap /\ (call'[c].spoiled <=> call[c].spoiled)
      /\ call'[c].reboot => c # Resetter
  <2>1. (call[c].reboot => c # Resetter) /\ (call[c].op = "restore" => c # Resetter)
    BY <1>1, StepKnown
  <2> QED
    BY <1>3, <2>1 DEF GoesTo
<1>6. \/ call'[c].step = "end" /\ call[c].op # "reset"
      \/ call'[c].step = "wipe" /\ call[c].op \in {"erase", "reset"} /\ power' = "Shutdown"
      \/ call'[c].step = "clone" /\ call[c].op = "snapshot"
      \/ /\ call'[c].step = "copy" /\ call[c].op \in {"restore", "reset"} /\ Known(call[c].snap)
         /\ power' = "Shutdown"
      \/ call'[c].step = "degrade" /\ call[c].op = "reset"
  BY <1>3 DEF GoesTo
<1>7. call[c].op = "reset" => call'[c].res = call[c].res
  BY <1>3 DEF GoesTo
<1>8. power' \in {"Shutdown", "Booted"}
  BY <1>3 DEF SnpTypeOK
<1>9. Known(call[c].snap) => call[c].snap \in Snap /\ clone[call[c].snap] \notin {"never", "gone"}
  BY DEF Known, SnpTypeOK
<1>t. SnpTypeOK'
  <2>1. RestTyped
    BY TypeParts
  <2>2. RestTyped'
    BY <1>1, <1>8, <2>1 DEF RestTyped
  <2> QED
    BY <1>4, <2>2, TypePartsNext DEF Goes
<1>o. CallsInOrder'
  <2>1. call'[c].step \in StepsOf(call[c].op)
    BY <1>2, <1>6, OpSteps
  <2>2. c = Resetter => call[c].op = "reset"
    BY <1>1, StepKnown
  <2> QED
    BY <1>1, <1>2, <1>4, <1>5, <2>1, <2>2, OrderGoes
<1>c. CopiesClones'
  BY <1>1, <1>4, <1>5, <1>6, <1>9, CopyGoes
<1>d. DataIsThere'
  BY <1>1, <1>4, DataGoes
<1>m. SnapshotsMade'
  BY <1>1, <1>4, <1>5, <1>6, MadeGoes
<1>a. ResetAlone'
  <2>1. CASE c # Resetter
    BY <1>4, <2>1, AloneGoes
  <2>2. CASE c = Resetter
    <3>1. ~ careless => ~ call[c].spoiled /\ call[c].res # "ok"
      BY <1>1, <2>2 DEF ResetAlone
    <3>2. call[c].op = "reset"
      BY <1>1, <2>2, StepKnown
    <3> QED
      BY <1>4, <1>5, <1>6, <1>7, <1>9, <2>2, <3>1, <3>2, AloneResets
  <2> QED
    BY <2>1, <2>2
<1> QED
  BY <1>t, <1>o, <1>c, <1>d, <1>m, <1>a

(* A step that works on the data directory, under the lock, and leaves the *)
(* snapshots as they are.                                                  *)
LEMMA DataStep ==
  ASSUME SnpInv, NEW c \in SnpCaller, Goes(c), RestTyped', snpIndex' = snpIndex, clone' = clone,
         snpLock' = snpLock, call[c].step \in WithLock, call[c].step # "add",
         call'[c].step \in StepsOf(call[c].op),
         call'[c].step \notin {"lock", "check", "clone", "add", "remove", "copy"},
         call'[c].snap = call[c].snap, call'[c].reboot => c # Resetter,
         call'[c].step \in {"aside", "swap"} => staging' = call'[c].copied /\ staging' # "none",
         call'[c].step = "swap" => aside' \notin {"missing", "none"},
         data' = "missing" => call'[c].step = "swap" \/ (data = "missing" /\ call[c].step # "swap"),
         c = Resetter => ResetAlone'
  PROVE  SnpInv'
<1> USE DEF SnpInv
<1>0. snpLock = c
  BY StepKnown
<1>t. SnpTypeOK'
  BY TypePartsNext DEF Goes
<1>o. CallsInOrder'
  BY <1>0, OrderGoes
<1>c. CopiesClones'
  BY CopyGoes
<1>d. DataIsThere'
  BY DataGoes
<1>m. SnapshotsMade'
  BY MadeGoes
<1>a. ResetAlone'
  BY AloneGoes
<1> QED
  BY <1>t, <1>o, <1>c, <1>d, <1>m, <1>a

LEMMA CopiesKeep ==
  ASSUME SnpInv, NEW c \in SnpCaller, SnpCopies(c)
  PROVE  SnpInv'
<1> USE DEF SnpInv
<1>1. /\ call[c].step = "copy" /\ call[c].step \in WithLock
      /\ UNCHANGED <<careless, holder, ended, snpLock, power, data, aside, snpIndex, clone, calls>>
  BY DEF SnpCopies, WithLock
<1>2. call[c].op \in {"restore", "reset"} /\ call[c].snap \in Snap /\ (call[c].reboot => c # Resetter)
      /\ (c = Resetter => call[c].op = "reset") /\ (call[c].op = "reset" => c = Resetter)
      /\ (~ call[c].spoiled => clone[call[c].snap] \notin {"never", "gone"})
  BY <1>1, StepKnown, StepOp DEF CopiesClones
<1>3. CASE /\ staging' = (IF call[c].spoiled THEN "partial" ELSE clone[call[c].snap])
           /\ call' = [call EXCEPT ![c].step = "aside", ![c].copied = staging']
  <2>1. staging' \in AnyData \ {"missing", "none"}
    BY <1>2, <1>3, SnpNamesApart DEF SnpTypeOK, AnyData
  <2> DEFINE s == "aside"
             d == staging'
  <2>2. s \in SnpSteps /\ d \in AnyData /\ s # "idle" /\ call[c].step # "idle"
        /\ call' = [call EXCEPT ![c].step = s, ![c].copied = d]
    BY <1>1, <1>3, <2>1, SnpWords
  <2> HIDE DEF s, d
  <2>3. CallNow(c, call[c].op, call[c].snap, call[c].reboot, call[c].spoiled, d, s, call[c].res)
    BY <2>2, StepCopiedIs
  <2>4. Goes(c)
    BY <1>1, <2>2, <2>3, CallGoes
  <2>5. /\ call'[c].snap = call[c].snap /\ (call'[c].reboot <=> call[c].reboot)
        /\ (call'[c].spoiled <=> call[c].spoiled) /\ call'[c].copied = staging'
        /\ call'[c].step = "aside" /\ call'[c].res = call[c].res
    BY <2>3 DEF CallNow, s, d
  <2>6. RestTyped'
    <3>1. RestTyped
      BY TypeParts
    <3> QED
      BY <1>1, <2>1, <3>1 DEF RestTyped
  <2>7. call'[c].step \in StepsOf(call[c].op)
    BY <1>2, <2>5, OpSteps
  <2>8. c = Resetter => ResetAlone'
    <3> SUFFICES ASSUME c = Resetter PROVE ResetAlone'
      OBVIOUS
    <3>1. ~ careless => ~ call[c].spoiled /\ call[c].res # "ok" /\ power = "Shutdown"
      BY <1>1 DEF ResetAlone
    <3>2. ~ careless => staging' = clone[call[c].snap]
      BY <1>3, <3>1
    <3> QED
      BY <1>1, <1>2, <2>4, <2>5, <3>1, <3>2, AloneResets
  <2> QED
    BY <1>1, <1>2, <2>1, <2>4, <2>5, <2>6, <2>7, <2>8, DataStep
<1>4. CASE /\ staging' = "none"
           /\ call' = [call EXCEPT ![c].step = IF call[c].reboot THEN "boot" ELSE "end", ![c].res = "failed"]
  <2> DEFINE s == IF call[c].reboot THEN "boot" ELSE "end"
             r == "failed"
  <2>1. s \in SnpSteps /\ s # "idle" /\ r \in SnpResults
        /\ call' = [call EXCEPT ![c].step = s, ![c].res = r]
    BY <1>4, SnpWords
  <2>2. r = "failed" /\ s \in {"boot", "end"} /\ (s = "boot" => c # Resetter)
    BY <1>2
  <2> HIDE DEF s, r
  <2>3. GoesTo(c, s, r)
    BY <1>1, <2>1, StepResGoes
  <2>4. Goes(c) /\ call'[c].snap = call[c].snap /\ (call'[c].reboot <=> call[c].reboot)
        /\ (call'[c].spoiled <=> call[c].spoiled)
        /\ call'[c].step \in {"boot", "end"} /\ call'[c].res = "failed"
        /\ (call'[c].step = "boot" => c # Resetter)
    BY <2>2, <2>3 DEF GoesTo
  <2>6. RestTyped'
    <3>1. RestTyped
      BY TypeParts
    <3> QED
      BY <1>1, <1>4, <3>1 DEF RestTyped, AnyData
  <2>7. call'[c].step \in StepsOf(call[c].op)
    BY <1>2, <2>4, OpSteps
  <2>8. c = Resetter => ResetAlone'
    <3> SUFFICES ASSUME c = Resetter PROVE ResetAlone'
      OBVIOUS
    <3>1. ~ careless => ~ call[c].spoiled
      BY <1>1 DEF ResetAlone
    <3> QED
      BY <1>1, <1>2, <2>4, <3>1, AloneResets
  <2> QED
    BY <1>1, <1>2, <2>4, <2>6, <2>7, <2>8, DataStep
<1> QED
  BY <1>3, <1>4 DEF SnpCopies

LEMMA AsideKeeps ==
  ASSUME SnpInv, NEW c \in SnpCaller, SnpMovesAside(c)
  PROVE  SnpInv'
<1> USE DEF SnpInv
<1>1. /\ call[c].step = "aside" /\ call[c].step \in WithLock /\ aside' = data /\ data' = "missing"
      /\ UNCHANGED <<careless, holder, ended, snpLock, power, staging, snpIndex, clone, calls>>
  BY DEF SnpMovesAside, WithLock
<1>2. call[c].op \in {"restore", "reset"} /\ (call[c].reboot => c # Resetter)
      /\ (c = Resetter => call[c].op = "reset") /\ staging = call[c].copied /\ staging # "none"
  BY <1>1, StepKnown, StepOp DEF CopiesClones
<1>3. GoesTo(c, "swap", call[c].res)
  BY <1>1, ToGoes, SnpWords DEF SnpMovesAside
<1>4. Goes(c) /\ call'[c].snap = call[c].snap /\ (call'[c].reboot <=> call[c].reboot)
      /\ (call'[c].spoiled <=> call[c].spoiled) /\ call'[c].copied = call[c].copied
      /\ call'[c].step = "swap" /\ call'[c].res = call[c].res
  BY <1>3 DEF GoesTo
<1>5. aside' \notin {"missing", "none"} /\ aside' \in AnyData
  BY <1>1, DataThere DEF SnpTypeOK
<1>6. RestTyped'
  <2>1. RestTyped
    BY TypeParts
  <2>2. "missing" \in AnyData \ {"none"}
    BY DEF AnyData
  <2> QED
    BY <1>1, <1>5, <2>1, <2>2 DEF RestTyped
<1>7. call'[c].step \in StepsOf(call[c].op)
  BY <1>2, <1>4, OpSteps
<1>8. c = Resetter => ResetAlone'
  <2> SUFFICES ASSUME c = Resetter PROVE ResetAlone'
    OBVIOUS
  <2>1. ~ careless =>
          /\ ~ call[c].spoiled /\ call[c].res # "ok" /\ power = "Shutdown"
          /\ call[c].copied = clone[call[c].snap] /\ call[c].snap \in Snap
    BY <1>1 DEF ResetAlone
  <2> QED
    BY <1>1, <1>4, <2>1, AloneResets
<1> QED
  BY <1>1, <1>2, <1>4, <1>5, <1>6, <1>7, <1>8, DataStep

LEMMA SwapKeeps ==
  ASSUME SnpInv, NEW c \in SnpCaller, SnpSwapsIn(c)
  PROVE  SnpInv'
<1> USE DEF SnpInv
<1>1. /\ call[c].step = "swap" /\ call[c].step \in WithLock /\ staging' = "none" /\ aside' = "none"
      /\ UNCHANGED <<careless, holder, ended, snpLock, power, snpIndex, clone, calls>>
  BY DEF SnpSwapsIn, WithLock
<1>2. call[c].op \in {"restore", "reset"} /\ (call[c].reboot => c # Resetter)
      /\ (c = Resetter => call[c].op = "reset") /\ staging = call[c].copied /\ staging # "none"
      /\ aside \notin {"missing", "none"}
  BY <1>1, StepKnown, StepOp DEF CopiesClones
<1> DEFINE s == IF call[c].reboot THEN "boot" ELSE "end"
<1>3. \E r \in SnpResults :
        /\ call' = [call EXCEPT ![c].step = s, ![c].res = r]
        /\ \/ r = "ok" /\ data' = (IF power = "Booted" THEN "torn" ELSE staging)
           \/ r = "failed" /\ data' = aside
  BY SnpWords DEF SnpSwapsIn
<1>4. s \in SnpSteps /\ s # "idle" /\ s \in {"boot", "end"} /\ (s = "boot" => c # Resetter)
  BY <1>2, SnpWords
<1> HIDE DEF s
<1>5. PICK r \in SnpResults :
        /\ call' = [call EXCEPT ![c].step = s, ![c].res = r]
        /\ \/ r = "ok" /\ data' = (IF power = "Booted" THEN "torn" ELSE staging)
           \/ r = "failed" /\ data' = aside
  BY <1>3
<1>6. GoesTo(c, s, r)
  BY <1>1, <1>4, <1>5, StepResGoes
<1>7. Goes(c) /\ call'[c].snap = call[c].snap /\ (call'[c].reboot <=> call[c].reboot)
      /\ (call'[c].spoiled <=> call[c].spoiled)
      /\ call'[c].step \in {"boot", "end"} /\ call'[c].res = r
      /\ (call'[c].step = "boot" => c # Resetter)
  BY <1>4, <1>6 DEF GoesTo
<1>8. data' \in AnyData \ {"none", "missing"}
  BY <1>1, <1>2, <1>5 DEF SnpTypeOK, AnyData
<1>9. RestTyped'
  <2>1. RestTyped
    BY TypeParts
  <2>2. "none" \in AnyData \ {"missing"}
    BY DEF AnyData
  <2> QED
    BY <1>1, <1>8, <2>1, <2>2 DEF RestTyped
<1>10. call'[c].step \in StepsOf(call[c].op)
  <2>1. call[c].op = "reset" => c = Resetter
    BY StepKnown
  <2> QED
    BY <1>2, <1>7, <2>1, OpSteps
<1>11. c = Resetter => ResetAlone'
  <2> SUFFICES ASSUME c = Resetter PROVE ResetAlone'
    OBVIOUS
  <2>1. ~ careless =>
          /\ ~ call[c].spoiled /\ power = "Shutdown"
          /\ call[c].copied = clone[call[c].snap] /\ call[c].snap \in Snap
    BY <1>1 DEF ResetAlone
  <2>2. ~ careless /\ r = "ok" => data' = clone'[call'[c].snap]
    BY <1>1, <1>2, <1>5, <1>7, <2>1
  <2> QED
    BY <1>1, <1>7, <2>1, <2>2, AloneResets
<1> QED
  BY <1>1, <1>2, <1>7, <1>8, <1>9, <1>10, <1>11, DataStep

LEMMA BootKeeps ==
  ASSUME SnpInv, NEW c \in SnpCaller, SnpBootsDetached(c)
  PROVE  SnpInv'
<1> USE DEF SnpInv
<1>1. /\ call[c].step = "boot" /\ call[c].step \in WithLock /\ power' \in {"Booted", power}
      /\ UNCHANGED <<careless, holder, ended, snpLock, data, staging, aside, snpIndex, clone, calls>>
  BY DEF SnpBootsDetached, WithLock
<1>2. call[c].op = "restore" /\ c # Resetter
  BY <1>1, StepKnown, StepOp
<1>3. GoesTo(c, "end", call[c].res)
  BY <1>1, ToGoes, SnpWords DEF SnpBootsDetached
<1>4. Goes(c) /\ call'[c].snap = call[c].snap /\ call'[c].step = "end"
  BY <1>3 DEF GoesTo
<1>6. RestTyped'
  <2>1. RestTyped
    BY TypeParts
  <2> QED
    BY <1>1, <2>1 DEF RestTyped
<1>7. call'[c].step \in StepsOf(call[c].op)
  BY <1>2, <1>4, OpSteps
<1> QED
  BY <1>1, <1>2, <1>4, <1>6, <1>7, DataStep

LEMMA WipeKeeps ==
  ASSUME SnpInv, NEW c \in SnpCaller, SnpWipes(c) \/ SnpReslims(c)
  PROVE  SnpInv'
<1> USE DEF SnpInv
<1>1. /\ call[c].step \in {"wipe", "reslim"} /\ call[c].step \in WithLock
      /\ UNCHANGED <<careless, holder, ended, snpLock, power, staging, aside, snpIndex, clone, calls>>
  BY DEF SnpWipes, SnpReslims, WithLock
<1>2. call[c].op \in {"erase", "reset"} /\ (call[c].reboot => c # Resetter)
  BY <1>1, StepKnown, StepOp
<1>3. \/ GoesTo(c, "reslim", call[c].res) /\ data' = "stock" /\ call[c].step = "wipe"
      \/ GoesTo(c, "end", "failed") /\ data' = data
      \/ GoesTo(c, "end", "ok") /\ data' = data /\ call[c].step = "reslim"
  BY <1>1, ToGoes, EndGoes, SnpWords DEF SnpWipes, SnpReslims
<1>4. Goes(c) /\ call'[c].snap = call[c].snap /\ (call'[c].reboot <=> call[c].reboot)
      /\ (call'[c].spoiled <=> call[c].spoiled)
      /\ \/ call'[c].step = "reslim" /\ call'[c].res = call[c].res /\ data' = "stock"
            /\ call[c].step = "wipe"
         \/ call'[c].step = "end" /\ call'[c].res = "failed" /\ data' = data
         \/ call'[c].step = "end" /\ data' = data /\ call[c].step = "reslim"
  BY <1>3 DEF GoesTo
<1>6. RestTyped'
  <2>1. RestTyped
    BY TypeParts
  <2>2. "stock" \in AnyData \ {"none"}
    BY DEF AnyData
  <2> QED
    BY <1>1, <1>4, <2>1, <2>2 DEF RestTyped
<1>7. call'[c].step \in StepsOf(call[c].op)
  BY <1>2, <1>4, OpSteps
<1>8. c = Resetter => ResetAlone'
  <2> SUFFICES ASSUME c = Resetter PROVE ResetAlone'
    OBVIOUS
  <2>1. ~ careless => ~ call[c].spoiled /\ call[c].res # "ok"
                      /\ (call[c].step = "reslim" => data = "stock")
    BY <1>1 DEF ResetAlone
  <2> QED
    BY <1>1, <1>4, <2>1, AloneResets
<1> QED
  BY <1>1, <1>2, <1>4, <1>6, <1>7, <1>8, DataStep

LEMMA DegradeKeeps ==
  ASSUME SnpInv, NEW c \in SnpCaller, SnpDegrades(c)
  PROVE  SnpInv'
<1> USE DEF SnpInv
<1>1. /\ call[c].step = "degrade" /\ call[c].step \in WithLock /\ snpLock' = "none"
      /\ UNCHANGED <<careless, holder, ended, power, data, staging, aside, snpIndex, clone, calls>>
  BY DEF SnpDegrades, WithLock
<1>2. call[c].op = "reset" /\ (call[c].reboot => c # Resetter) /\ c = Resetter /\ snpLock = c
  BY <1>1, StepKnown, StepOp
<1> DEFINE s == "lock"
           n == "erase"
<1>3. s \in SnpSteps /\ n \in SnpNames /\ s # "idle" /\ call' = [call EXCEPT ![c].step = s, ![c].snap = n]
  BY SnpWords DEF SnpDegrades
<1>4. s = "lock" /\ n = "erase"
  OBVIOUS
<1> HIDE DEF s, n
<1>5. CallNow(c, call[c].op, n, call[c].reboot, call[c].spoiled, call[c].copied, s, call[c].res)
  BY <1>3, StepSnapIs
<1>6. Goes(c)
  BY <1>1, <1>3, <1>5, CallGoes
<1>7. /\ call'[c].snap = "erase" /\ (call'[c].reboot <=> call[c].reboot) /\ call'[c].res = call[c].res
      /\ (call'[c].spoiled <=> call[c].spoiled) /\ call'[c].step = "lock"
  BY <1>4, <1>5 DEF CallNow
<1>t. SnpTypeOK'
  <2>1. RestTyped
    BY TypeParts
  <2>2. RestTyped'
    BY <1>1, <2>1 DEF RestTyped
  <2> QED
    BY <1>6, <2>2, TypePartsNext DEF Goes
<1>o. CallsInOrder'
  <2>1. call'[c].step \in StepsOf(call[c].op) /\ call'[c].step \notin WithLock
    BY <1>2, <1>7, OpSteps DEF WithLock
  <2> QED
    BY <1>1, <1>2, <1>6, <1>7, <2>1, OrderGoes
<1>c. CopiesClones'
  BY <1>1, <1>6, <1>7, CopyGoes
<1>d. DataIsThere'
  BY <1>1, <1>6, DataGoes
<1>m. SnapshotsMade'
  BY <1>1, <1>2, <1>6, <1>7, MadeGoes
<1>a. ResetAlone'
  <2>1. ~ careless => ~ call[c].spoiled /\ call[c].res # "ok"
    BY <1>1, <1>2 DEF ResetAlone
  <2> QED
    BY <1>2, <1>6, <1>7, <2>1, AloneResets
<1> QED
  BY <1>t, <1>o, <1>c, <1>d, <1>m, <1>a

LEMMA UnlockKeeps ==
  ASSUME SnpInv, ResetUnlocks
  PROVE  SnpInv'
<1> USE DEF SnpInv
<1> DEFINE c == Resetter
<1>0. c \in SnpCaller /\ c = Resetter
  BY SnpNamesApart
<1>1. /\ call[c].step = "end" /\ To(c, "unlocked") /\ snpLock' = "none"
      /\ UNCHANGED <<careless, holder, ended, power, data, staging, aside, snpIndex, clone, calls>>
  BY DEF ResetUnlocks
<1> HIDE DEF c
<1>2. call[c].op = "reset" /\ ~ call[c].reboot /\ snpLock = c
  BY <1>0, <1>1, StepKnown DEF CallsInOrder
<1>3. GoesTo(c, "unlocked", call[c].res)
  BY <1>0, <1>1, ToGoes, SnpWords
<1>6. Goes(c)
  BY <1>3 DEF GoesTo
<1>7. /\ call'[c].snap = call[c].snap /\ (call'[c].reboot <=> call[c].reboot) /\ call'[c].res = call[c].res
      /\ (call'[c].spoiled <=> call[c].spoiled) /\ call'[c].step = "unlocked"
  BY <1>3 DEF GoesTo
<1>t. SnpTypeOK'
  <2>1. RestTyped
    BY TypeParts
  <2>2. RestTyped'
    BY <1>1, <2>1 DEF RestTyped
  <2> QED
    BY <1>6, <2>2, TypePartsNext DEF Goes
<1>o. CallsInOrder'
  <2>1. call'[c].step \in StepsOf(call[c].op) /\ call'[c].step \notin WithLock
    BY <1>2, <1>7, OpSteps DEF WithLock
  <2> QED
    BY <1>0, <1>1, <1>2, <1>6, <1>7, <2>1, OrderGoes
<1>c. CopiesClones'
  BY <1>0, <1>1, <1>6, <1>7, CopyGoes
<1>d. DataIsThere'
  BY <1>0, <1>1, <1>6, DataGoes
<1>m. SnapshotsMade'
  BY <1>0, <1>1, <1>2, <1>6, <1>7, MadeGoes
<1>a. ResetAlone'
  <2>1. ~ careless =>
          /\ ~ call[c].spoiled
          /\ call[c].res = "ok" => data = "stock" \/ \E s \in Snap : call[c].snap = s /\ data = clone[s]
    BY <1>0, <1>1 DEF ResetAlone
  <2> QED
    BY <1>0, <1>1, <1>6, <1>7, <2>1, AloneResets
<1> QED
  BY <1>t, <1>o, <1>c, <1>d, <1>m, <1>a

(* Snapshot, between its clone and its index entry. *)
LEMMA ClonesKeep ==
  ASSUME SnpInv, NEW c \in SnpCaller, SnpClones(c)
  PROVE  SnpInv'
<1> USE DEF SnpInv
<1>1. /\ call[c].step = "clone" /\ call[c].step \in WithLock
      /\ UNCHANGED <<careless, holder, ended, snpLock, power, data, staging, aside, snpIndex, calls>>
  BY DEF SnpClones, WithLock
<1>2. call[c].op = "snapshot" /\ c # Resetter /\ snpLock = c /\ call[c].snap \in Snap
      /\ clone[call[c].snap] = "never" /\ call[c].snap \notin snpIndex
  BY <1>1, StepKnown, StepOp DEF SnapshotsMade
<1>3. \/ /\ clone' = [clone EXCEPT ![call[c].snap] = IF power = "Booted" THEN "torn" ELSE data]
         /\ GoesTo(c, "add", call[c].res)
      \/ GoesTo(c, "end", "failed") /\ clone' = clone
  BY <1>1, ToGoes, EndGoes, SnpWords DEF SnpClones
<1>6. Goes(c)
  BY <1>3 DEF GoesTo
<1>7. /\ call'[c].snap = call[c].snap /\ (call'[c].reboot => c # Resetter)
      /\ call'[c].step \in {"add", "end"}
  BY <1>2, <1>3 DEF GoesTo
<1> DEFINE d == IF power = "Booted" THEN "torn" ELSE data
<1>8. d \in AnyData \ {"none", "missing"} /\ d \notin {"never", "gone"}
  BY <1>1, DataThere, SnpNamesApart DEF SnpTypeOK, AnyData
<1>9. clone' = [clone EXCEPT ![call[c].snap] = d] \/ clone' = clone
  BY <1>3
<1> HIDE DEF d
<1>t. SnpTypeOK'
  <2>1. RestTyped
    BY TypeParts
  <2>2. RestTyped'
    BY <1>1, <1>8, <1>9, <2>1 DEF RestTyped
  <2> QED
    BY <1>6, <2>2, TypePartsNext DEF Goes
<1>o. CallsInOrder'
  <2>1. call'[c].step \in StepsOf(call[c].op)
    BY <1>2, <1>7, OpSteps
  <2> QED
    BY <1>1, <1>2, <1>6, <1>7, <2>1, OrderGoes
<1>c. CopiesClones'
  <2>1. \A b \in SnpCaller \ {c} : call[b].step # "copy"
    BY <1>1, LockAlone DEF WithLock
  <2> QED
    BY <1>1, <1>6, <1>7, <2>1, CopyGoes
<1>d. DataIsThere'
  BY <1>1, <1>6, DataGoes
<1>m. SnapshotsMade'
  <2>1. CASE GoesTo(c, "end", "failed") /\ clone' = clone
    BY <1>1, <1>6, <1>7, <2>1, MadeGoes DEF GoesTo
  <2>2. CASE /\ clone' = [clone EXCEPT ![call[c].snap] = d]
             /\ GoesTo(c, "add", call[c].res)
    <3> DEFINE m == call[c].snap
    <3>0. /\ m \in Snap /\ clone'[m] = d /\ clone \in [Snap -> (AnyData \ {"none", "missing"}) \cup {"never", "gone"}]
          /\ \A s \in Snap : s # m => clone'[s] = clone[s]
          /\ clone[m] = "never" /\ m \notin snpIndex /\ call[c].snap = m
      BY <1>2, <2>2 DEF SnpTypeOK
    <3>1. \A b \in SnpCaller : call'[b].op = call[b].op /\ call'[b].snap = call[b].snap
      BY <1>6, <1>7 DEF Goes
    <3>2. call'[c].step = "add" /\ \A b \in SnpCaller : b # c => call'[b].step = call[b].step
      BY <1>6, <2>2 DEF Goes, GoesTo
    <3>3. \A b \in SnpCaller : call[b].op = "delete" => call[b].snap # m
      BY <3>0 DEF SnapshotsMade
    <3>4. \A b \in SnpCaller : b # c /\ call[b].op = "snapshot" => call[b].snap # m
      BY <1>2, <3>0 DEF SnapshotsMade
    <3>k. \A b \in SnpCaller : call[b].op \in {"snapshot", "delete"} => call[b].snap \in Snap
      BY DEF CallsInOrder
    <3> HIDE DEF m
    <3>5. ASSUME NEW b \in SnpCaller, call'[b].op = "snapshot"
          PROVE  /\ call'[b].step \in {"lock", "check", "clone"} =>
                      clone'[call'[b].snap] = "never" /\ call'[b].snap \notin snpIndex'
                 /\ call'[b].step = "add" => call'[b].snap \notin snpIndex' /\ clone'[call'[b].snap] # "never"
      <4>1. CASE b = c
        BY <1>1, <1>8, <3>0, <3>1, <3>2, <4>1
      <4>2. CASE b # c
        BY <1>1, <3>0, <3>1, <3>2, <3>4, <3>k, <3>5, <4>2 DEF SnapshotsMade
      <4> QED
        BY <4>1, <4>2
    <3>6. ASSUME NEW b \in SnpCaller, call'[b].op = "delete"
          PROVE  /\ call'[b].snap \in snpIndex' \/ clone'[call'[b].snap] = "gone"
                 /\ call'[b].step = "remove" => clone'[call'[b].snap] = "gone"
      BY <1>1, <1>2, <3>0, <3>1, <3>2, <3>3, <3>k, <3>6 DEF SnapshotsMade
    <3>7. ASSUME NEW a \in SnpCaller, NEW b \in SnpCaller, call'[a].op = "snapshot",
                 call'[b].op = "snapshot", call'[a].snap = call'[b].snap
          PROVE  a = b
      BY <3>1, <3>7 DEF SnapshotsMade
    <3>8. ASSUME NEW s \in Snap
          PROVE  \/ ListedWithClone(s)'
                 \/ \E b \in SnpCaller : call'[b].op = "snapshot" /\ call'[b].step = "add" /\ call'[b].snap = s
      <4>1. CASE s = m
        BY <1>2, <3>0, <3>1, <3>2, <4>1
      <4>2. CASE s # m
        <5>1. ListedWithClone(s)' <=> ListedWithClone(s)
          BY <1>1, <3>0, <4>2 DEF ListedWithClone
        <5>2. CASE ListedWithClone(s)
          BY <5>1, <5>2
        <5>3. CASE ~ ListedWithClone(s)
          <6>1. PICK b \in SnpCaller : call[b].op = "snapshot" /\ call[b].step = "add" /\ call[b].snap = s
            BY <5>3 DEF SnapshotsMade
          <6> QED
            BY <1>1, <3>1, <3>2, <6>1
        <5> QED
          BY <5>2, <5>3
      <4> QED
        BY <4>1, <4>2
    <3> QED
      BY <3>5, <3>6, <3>7, <3>8 DEF SnapshotsMade
  <2> QED
    BY <1>3, <2>1, <2>2 DEF d
<1>a. ResetAlone'
  BY <1>2, <1>6, AloneGoes
<1> QED
  BY <1>t, <1>o, <1>c, <1>d, <1>m, <1>a

(* The call of c settles its snapshot m: whatever else is being made or    *)
(* deleted stands as it stood.                                             *)
LEMMA MadeAt ==
  ASSUME SnpTypeOK, CallsInOrder, SnapshotsMade, NEW c \in SnpCaller, Goes(c), NEW m \in Snap,
         \A s \in Snap : s # m => clone'[s] = clone[s] /\ (s \in snpIndex' <=> s \in snpIndex),
         call'[c].snap = call[c].snap, call[c].snap = m, ListedWithClone(m)',
         call[c].op = "snapshot" => call'[c].step = "end",
         \A b \in SnpCaller : b # c /\ call[b].op = "snapshot" => call[b].snap # m
           \/ (call[b].step \notin {"lock", "check", "clone"}
               /\ (call[b].step = "add" => m \notin snpIndex' /\ clone'[m] # "never")),
         \A b \in SnpCaller : call[b].op = "delete" /\ call[b].snap = m =>
           /\ m \in snpIndex' \/ clone'[m] = "gone"
           /\ call'[b].step = "remove" => clone'[m] = "gone",
         call[c].op \in {"snapshot", "delete"}
  PROVE  SnapshotsMade'
<1>1. \A b \in SnpCaller : call'[b].op = call[b].op /\ call'[b].snap = call[b].snap
  BY DEF Goes
<1>2. \A b \in SnpCaller : b # c => call'[b].step = call[b].step
  BY DEF Goes
<1>3. \A b \in SnpCaller : call[b].op \in {"snapshot", "delete"} => call[b].snap \in Snap
  BY DEF CallsInOrder
<1>4. ASSUME NEW b \in SnpCaller, call'[b].op = "snapshot"
      PROVE  /\ call'[b].step \in {"lock", "check", "clone"} =>
                  clone'[call'[b].snap] = "never" /\ call'[b].snap \notin snpIndex'
             /\ call'[b].step = "add" => call'[b].snap \notin snpIndex' /\ clone'[call'[b].snap] # "never"
  <2>1. CASE b = c
    BY <1>1, <1>4, <2>1
  <2>2. CASE b # c /\ call[b].snap = m
    BY <1>1, <1>2, <1>4, <2>2
  <2>3. CASE b # c /\ call[b].snap # m
    BY <1>1, <1>2, <1>3, <1>4, <2>3 DEF SnapshotsMade
  <2> QED
    BY <2>1, <2>2, <2>3
<1>5. ASSUME NEW b \in SnpCaller, call'[b].op = "delete"
      PROVE  /\ call'[b].snap \in snpIndex' \/ clone'[call'[b].snap] = "gone"
             /\ call'[b].step = "remove" => clone'[call'[b].snap] = "gone"
  <2>1. CASE call[b].snap = m
    BY <1>1, <1>5, <2>1
  <2>2. CASE call[b].snap # m
    BY <1>1, <1>2, <1>3, <1>5, <2>2 DEF SnapshotsMade
  <2> QED
    BY <2>1, <2>2
<1>6. ASSUME NEW a \in SnpCaller, NEW b \in SnpCaller, call'[a].op = "snapshot",
             call'[b].op = "snapshot", call'[a].snap = call'[b].snap
      PROVE  a = b
  BY <1>1, <1>6 DEF SnapshotsMade
<1>7. ASSUME NEW s \in Snap
      PROVE  \/ ListedWithClone(s)'
             \/ \E b \in SnpCaller : call'[b].op = "snapshot" /\ call'[b].step = "add" /\ call'[b].snap = s
  <2>1. CASE s = m
    BY <2>1
  <2>2. CASE s # m
    <3>1. ListedWithClone(s)' <=> ListedWithClone(s)
      BY <2>2 DEF ListedWithClone
    <3>2. CASE ListedWithClone(s)
      BY <3>1, <3>2
    <3>3. CASE ~ ListedWithClone(s)
      <4>1. PICK b \in SnpCaller : call[b].op = "snapshot" /\ call[b].step = "add" /\ call[b].snap = s
        BY <3>3 DEF SnapshotsMade
      <4> QED
        BY <1>1, <1>2, <2>2, <4>1
    <3> QED
      BY <3>2, <3>3
  <2> QED
    BY <2>1, <2>2
<1> QED
  BY <1>4, <1>5, <1>6, <1>7 DEF SnapshotsMade

(* The type that a changed index or clone has. *)
LEMMA StoreTyped ==
  ASSUME SnpTypeOK, NEW m \in Snap,
         UNCHANGED <<careless, holder, ended, snpLock, power, data, staging, aside, calls>>,
         snpIndex' = snpIndex \/ snpIndex' = snpIndex \cup {m} \/ snpIndex' = snpIndex \ {m},
         clone' = clone \/ clone' = [clone EXCEPT ![m] = "gone"]
  PROVE  RestTyped'
<1>1. RestTyped
  BY TypeParts
<1> DEFINE w == "gone"
<1>2. w \in (AnyData \ {"none", "missing"}) \cup {"never", "gone"}
      /\ (clone' = clone \/ clone' = [clone EXCEPT ![m] = w])
  OBVIOUS
<1> HIDE DEF w
<1> QED
  BY <1>1, <1>2 DEF RestTyped

LEMMA AddsKeep ==
  ASSUME SnpInv, NEW c \in SnpCaller, SnpAdds(c)
  PROVE  SnpInv'
<1> USE DEF SnpInv
<1>1. /\ call[c].step = "add" /\ call[c].step \in WithLock
      /\ UNCHANGED <<careless, holder, ended, snpLock, power, data, staging, aside, calls>>
  BY DEF SnpAdds, WithLock
<1>9. call[c].op = "snapshot" /\ c # Resetter /\ snpLock = c /\ call[c].snap \in Snap
  BY <1>1, StepKnown, StepOp
<1> PICK m \in Snap : m = call[c].snap
  BY <1>9
<1>2. call[c].op = "snapshot" /\ c # Resetter /\ snpLock = c /\ m \in Snap
      /\ clone[m] # "never" /\ m \notin snpIndex /\ call[c].snap = m
  BY <1>1, <1>9 DEF SnapshotsMade
<1>3. /\ GoesTo(c, "end", "ok") \/ GoesTo(c, "end", "failed")
      /\ \/ snpIndex' = snpIndex \cup {m} /\ clone' = clone
         \/ snpIndex' = snpIndex /\ clone' = [clone EXCEPT ![m] = "gone"]
  BY <1>1, EndGoes, SnpWords DEF SnpAdds
<1>6. Goes(c)
  BY <1>3 DEF GoesTo
<1>7. /\ call'[c].snap = call[c].snap /\ (call'[c].reboot => c # Resetter)
      /\ call'[c].step = "end"
  BY <1>2, <1>3 DEF GoesTo
<1>8. clone \in [Snap -> (AnyData \ {"none", "missing"}) \cup {"never", "gone"}]
  BY DEF SnpTypeOK
<1>t. SnpTypeOK'
  BY <1>1, <1>2, <1>3, <1>6, StoreTyped, TypePartsNext DEF Goes
<1>o. CallsInOrder'
  <2>1. call'[c].step \in StepsOf(call[c].op)
    BY <1>2, <1>7, OpSteps
  <2> QED
    BY <1>1, <1>2, <1>6, <1>7, <2>1, OrderGoes
<1>c. CopiesClones'
  <2>1. \A b \in SnpCaller \ {c} : call[b].step # "copy"
    BY <1>1, LockAlone DEF WithLock
  <2> QED
    BY <1>1, <1>6, <1>7, <2>1, CopyGoes
<1>d. DataIsThere'
  BY <1>1, <1>6, DataGoes
<1>m. SnapshotsMade'
  <2>1. \A s \in Snap : s # m => clone'[s] = clone[s] /\ (s \in snpIndex' <=> s \in snpIndex)
    BY <1>2, <1>3, <1>8
  <2>2. \A b \in SnpCaller : b # c /\ call[b].op = "snapshot" => call[b].snap # m
    BY <1>2 DEF SnapshotsMade
  <2>3. \A b \in SnpCaller : call[b].op = "delete" /\ call[b].snap = m => clone[m] = "gone"
    BY <1>2 DEF SnapshotsMade
  <2>4. clone'[m] = clone[m] \/ clone'[m] = "gone"
    BY <1>2, <1>3, <1>8
  <2>5. ListedWithClone(m)'
    BY <1>2, <1>3, <1>8 DEF ListedWithClone
  <2> QED
    BY <1>2, <1>6, <1>7, <2>1, <2>2, <2>3, <2>4, <2>5, MadeAt
<1>a. ResetAlone'
  BY <1>2, <1>6, AloneGoes
<1> QED
  BY <1>t, <1>o, <1>c, <1>d, <1>m, <1>a

LEMMA RemovesKeep ==
  ASSUME SnpInv, NEW c \in SnpCaller, SnpRemoves(c)
  PROVE  SnpInv'
<1> USE DEF SnpInv
<1>1. /\ call[c].step = "remove"
      /\ UNCHANGED <<careless, holder, ended, snpLock, power, data, staging, aside, clone, calls>>
  BY DEF SnpRemoves
<1>9. call[c].op = "delete" /\ c # Resetter /\ call[c].snap \in Snap
  BY <1>1, StepKnown, StepOp
<1> PICK m \in Snap : m = call[c].snap
  BY <1>9
<1>2. call[c].op = "delete" /\ c # Resetter /\ m \in Snap /\ clone[m] = "gone" /\ call[c].snap = m
  BY <1>1, <1>9 DEF SnapshotsMade
<1>3. /\ GoesTo(c, "end", "ok") \/ GoesTo(c, "end", "failed")
      /\ snpIndex' = snpIndex \/ snpIndex' = snpIndex \ {m}
  BY <1>1, EndGoes, SnpWords DEF SnpRemoves
<1>6. Goes(c)
  BY <1>3 DEF GoesTo
<1>7. /\ call'[c].snap = call[c].snap /\ (call'[c].reboot => c # Resetter)
      /\ call'[c].step = "end"
  BY <1>2, <1>3 DEF GoesTo
<1>t. SnpTypeOK'
  BY <1>1, <1>2, <1>3, <1>6, StoreTyped, TypePartsNext DEF Goes
<1>o. CallsInOrder'
  <2>1. call'[c].step \in StepsOf(call[c].op) /\ call'[c].step \notin WithLock
    BY <1>2, <1>7, OpSteps DEF WithLock
  <2> QED
    BY <1>1, <1>2, <1>6, <1>7, <2>1, OrderGoes
<1>c. CopiesClones'
  BY <1>1, <1>6, <1>7, CopyGoes
<1>d. DataIsThere'
  BY <1>1, <1>6, DataGoes
<1>m. SnapshotsMade'
  <2>1. \A s \in Snap : s # m => clone'[s] = clone[s] /\ (s \in snpIndex' <=> s \in snpIndex)
    BY <1>1, <1>2, <1>3
  <2>2. \A b \in SnpCaller : b # c /\ call[b].op = "snapshot" => call[b].snap # m
           \/ (call[b].step \notin {"lock", "check", "clone"}
               /\ (call[b].step = "add" => m \notin snpIndex' /\ clone'[m] # "never"))
    BY <1>1, <1>2, <1>3 DEF SnapshotsMade
  <2>4. clone'[m] = "gone"
    BY <1>1, <1>2
  <2>5. ListedWithClone(m)'
    BY <2>4 DEF ListedWithClone
  <2> QED
    BY <1>2, <1>6, <1>7, <2>1, <2>2, <2>4, <2>5, MadeAt
<1>a. ResetAlone'
  BY <1>2, <1>6, AloneGoes
<1> QED
  BY <1>t, <1>o, <1>c, <1>d, <1>m, <1>a

(* DeleteSnapshot's clone, from under whoever copies it. *)
LEMMA DeletesKeep ==
  ASSUME SnpInv, NEW c \in SnpCaller, SnpDeletesClone(c)
  PROVE  SnpInv'
<1> USE DEF SnpInv
<1>1. /\ call[c].step = "owned"
      /\ UNCHANGED <<careless, holder, ended, snpLock, power, data, staging, aside, snpIndex, calls>>
  BY DEF SnpDeletesClone
<1>9. call[c].op = "delete" /\ c # Resetter /\ call[c].snap \in Snap
  BY <1>1, StepKnown, StepOp
<1> PICK m \in Snap : m = call[c].snap
  BY <1>9
<1>2. call[c].op = "delete" /\ c # Resetter /\ m \in Snap /\ call[c].snap = m
      /\ (m \in snpIndex \/ clone[m] = "gone")
  BY <1>1, <1>9 DEF SnapshotsMade
<1>8. clone \in [Snap -> (AnyData \ {"none", "missing"}) \cup {"never", "gone"}]
  BY DEF SnpTypeOK
<1>3. CASE EndsWith(c, "failed") /\ clone' = clone
  <2>1. GoesTo(c, "end", "failed")
    BY <1>1, <1>3, EndGoes, SnpWords
  <2>2. Goes(c)
    BY <2>1 DEF GoesTo
  <2>3. /\ call'[c].snap = call[c].snap /\ (call'[c].reboot => c # Resetter)
        /\ call'[c].step = "end"
    BY <1>2, <2>1 DEF GoesTo
  <2>t. SnpTypeOK'
    BY <1>1, <1>2, <1>3, <2>2, StoreTyped, TypePartsNext DEF Goes
  <2>o. CallsInOrder'
    <3>1. call'[c].step \in StepsOf(call[c].op) /\ call'[c].step \notin WithLock
      BY <1>2, <2>3, OpSteps DEF WithLock
    <3> QED
      BY <1>1, <1>2, <2>2, <2>3, <3>1, OrderGoes
  <2>c. CopiesClones'
    BY <1>1, <1>3, <2>2, <2>3, CopyGoes
  <2>d. DataIsThere'
    BY <1>1, <2>2, DataGoes
  <2>m. SnapshotsMade'
    BY <1>1, <1>2, <1>3, <2>2, <2>3, MadeGoes
  <2>a. ResetAlone'
    BY <1>2, <2>2, AloneGoes
  <2> QED
    BY <2>t, <2>o, <2>c, <2>d, <2>m, <2>a
<1>4. CASE /\ clone' = [clone EXCEPT ![call[c].snap] = "gone"]
           /\ call' = [b \in SnpCaller |->
                IF b = c THEN [call[c] EXCEPT !.step = "remove"]
                ELSE [call[b] EXCEPT !.spoiled = @ \/ (call[b].step = "copy" /\ call[b].snap = call[c].snap)]]
  <2>1. /\ call'[c] = [call[c] EXCEPT !.step = "remove"]
        /\ \A b \in SnpCaller : call[b] \in CallRec
    BY <1>4, TypeParts
  <2>2. /\ call'[c] \in CallRec /\ call'[c].op = call[c].op /\ call'[c].snap = call[c].snap
        /\ (call'[c].reboot <=> call[c].reboot) /\ call'[c].step = "remove"
    <3> DEFINE k == call[c]
               f == call'[c]
               s == "remove"
    <3>1. k \in CallRec /\ f = [k EXCEPT !.step = s] /\ s \in SnpSteps
      BY <2>1, SnpWords
    <3> HIDE DEF k, f, s
    <3>2. f \in CallRec /\ f.op = k.op /\ f.snap = k.snap /\ f.reboot = k.reboot /\ f.step = s
      BY <3>1 DEF CallRec
    <3> QED
      BY <3>2 DEF k, f, s
  <2>3. ASSUME NEW b \in SnpCaller \ {c}
        PROVE  /\ call'[b] \in CallRec
               /\ call'[b].op = call[b].op /\ call'[b].snap = call[b].snap
               /\ (call'[b].reboot <=> call[b].reboot) /\ call'[b].copied = call[b].copied
               /\ call'[b].step = call[b].step /\ call'[b].res = call[b].res
               /\ (call'[b].spoiled <=> call[b].spoiled \/ (call[b].step = "copy" /\ call[b].snap = m))
    <3> DEFINE k == call[b]
               f == call'[b]
               x == k.spoiled \/ (k.step = "copy" /\ k.snap = m)
    <3>1. k \in CallRec /\ f = [k EXCEPT !.spoiled = x] /\ x \in BOOLEAN
      BY <1>4, <2>1, <2>3
    <3>2. x <=> k.spoiled \/ (k.step = "copy" /\ k.snap = m)
      OBVIOUS
    <3> HIDE DEF x, k, f
    <3>3. /\ f \in CallRec /\ f.op = k.op /\ f.snap = k.snap /\ f.reboot = k.reboot
          /\ f.copied = k.copied /\ f.step = k.step /\ f.res = k.res /\ f.spoiled = x
      BY <3>1 DEF CallRec
    <3> QED
      BY <3>2, <3>3 DEF k, f
  <2>4. Goes(c)
    <3>1. call' \in [SnpCaller -> CallRec]
      <4>1. \A b \in SnpCaller : call'[b] \in CallRec
        BY <2>2, <2>3
      <4>2. DOMAIN call' = SnpCaller /\ call' = [b \in SnpCaller |-> call'[b]]
        BY <1>4
      <4> QED
        BY <4>1, <4>2
    <3> QED
      BY <1>1, <2>2, <2>3, <3>1 DEF Goes
  <2>5. \A b \in SnpCaller \ {c} : call'[b].spoiled <=>
          call[b].spoiled \/ (call[b].step = "copy" /\ call[b].snap = m)
    BY <2>3
  <2>6. clone' = [clone EXCEPT ![m] = "gone"]
    BY <1>4
  <2>7. clone'[m] = "gone" /\ \A s \in Snap : s # m => clone'[s] = clone[s]
    BY <1>2, <1>8, <2>6
  <2>t. SnpTypeOK'
    BY <1>1, <1>2, <2>4, <2>6, StoreTyped, TypePartsNext DEF Goes
  <2>o. CallsInOrder'
    <3>1. call'[c].step \in StepsOf(call[c].op) /\ call'[c].step \notin WithLock
      BY <1>2, <2>2, OpSteps DEF WithLock
    <3> QED
      BY <1>1, <1>2, <2>2, <2>4, <3>1, OrderGoes
  <2>c. CopiesClones'
    <3>1. \A b \in SnpCaller \ {c} : call[b].step = "copy" /\ ~ call'[b].spoiled =>
            clone'[call[b].snap] = clone[call[b].snap]
      <4>1. \A b \in SnpCaller \ {c} : call[b].step = "copy" => call[b].snap \in Snap
        BY DEF CopiesClones
      <4> QED
        BY <2>5, <2>7, <4>1
    <3> QED
      BY <1>1, <2>2, <2>4, <3>1, CopyGoes
  <2>d. DataIsThere'
    BY <1>1, <2>4, DataGoes
  <2>m. SnapshotsMade'
    <3>2. \A b \in SnpCaller : b # c /\ call[b].op = "snapshot" => call[b].snap # m
             \/ (call[b].step \notin {"lock", "check", "clone"}
                 /\ (call[b].step = "add" => m \notin snpIndex' /\ clone'[m] # "never"))
      BY <1>1, <1>2, <2>7 DEF SnapshotsMade
    <3>5. ListedWithClone(m)'
      BY <2>7 DEF ListedWithClone
    <3> QED
      BY <1>1, <1>2, <2>2, <2>4, <2>7, <3>2, <3>5, MadeAt
  <2>a. ResetAlone'
    BY <1>2, <2>4, AloneGoes
  <2> QED
    BY <2>t, <2>o, <2>c, <2>d, <2>m, <2>a
<1> QED
  BY <1>3, <1>4 DEF SnpDeletesClone

(* A call begins, or is over. *)
LEMMA TurnKeeps ==
  ASSUME SnpTypeOK, CallsInOrder, CopiesClones, DataIsThere, SnapshotsMade, NEW c \in SnpCaller,
         NEW op, NEW n, NEW r, NEW s, CallNow(c, op, n, r, FALSE, "none", s, "none"),
         s \in {"idle", "lock", "owned"}, call[c].step \in {"idle", "end", "unlocked"},
         UNCHANGED <<data, staging, aside, snpIndex, clone>>,
         op = "snapshot" => s = "lock" /\ clone[n] = "never" /\ n \notin snpIndex
                            /\ \A b \in SnpCaller \ {c} : call[b].snap # n,
         op = "delete" => s = "owned" /\ n \in snpIndex
  PROVE  CopiesClones' /\ DataIsThere' /\ SnapshotsMade'
<1>1. \A b \in SnpCaller : b # c => call'[b] = call[b]
  BY DEF CallNow
<1>2. call'[c].op = op /\ call'[c].snap = n /\ call'[c].step = s
  BY DEF CallNow
<1>3. CopiesClones'
  BY <1>1, <1>2 DEF CopiesClones
<1>4. DataIsThere'
  BY <1>1 DEF DataIsThere
<1>5. SnapshotsMade'
  <2>1. ASSUME NEW b \in SnpCaller, call'[b].op = "snapshot"
        PROVE  /\ call'[b].step \in {"lock", "check", "clone"} =>
                    clone'[call'[b].snap] = "never" /\ call'[b].snap \notin snpIndex'
               /\ call'[b].step = "add" => call'[b].snap \notin snpIndex' /\ clone'[call'[b].snap] # "never"
    BY <1>1, <1>2, <2>1 DEF SnapshotsMade
  <2>2. ASSUME NEW a \in SnpCaller, NEW b \in SnpCaller, call'[a].op = "snapshot",
               call'[b].op = "snapshot", call'[a].snap = call'[b].snap
        PROVE  a = b
    BY <1>1, <1>2, <2>2 DEF SnapshotsMade
  <2>3. ASSUME NEW b \in SnpCaller, call'[b].op = "delete"
        PROVE  /\ call'[b].snap \in snpIndex' \/ clone'[call'[b].snap] = "gone"
               /\ call'[b].step = "remove" => clone'[call'[b].snap] = "gone"
    BY <1>1, <1>2, <2>3 DEF SnapshotsMade
  <2>4. ASSUME NEW t \in Snap
        PROVE  \/ ListedWithClone(t)'
               \/ \E b \in SnpCaller : call'[b].op = "snapshot" /\ call'[b].step = "add" /\ call'[b].snap = t
    <3>1. ListedWithClone(t)' <=> ListedWithClone(t)
      BY DEF ListedWithClone
    <3>2. CASE ~ ListedWithClone(t)
      <4>1. PICK b \in SnpCaller : call[b].op = "snapshot" /\ call[b].step = "add" /\ call[b].snap = t
        BY <3>2 DEF SnapshotsMade
      <4>2. b # c
        BY <4>1
      <4> QED
        BY <1>1, <4>1, <4>2
    <3> QED
      BY <3>1, <3>2
  <2> QED
    BY <2>1, <2>2, <2>3, <2>4 DEF SnapshotsMade
<1> QED
  BY <1>3, <1>4, <1>5

(* A call that is over. *)
LEMMA IdleNow ==
  ASSUME SnpTypeOK, NEW c \in SnpCaller, call' = [call EXCEPT ![c] = IdleCall]
  PROVE  CallNow(c, "none", "none", FALSE, FALSE, "none", "idle", "none")
<1> DEFINE k == IdleCall
<1>1. k \in CallRec /\ k.op = "none" /\ k.snap = "none" /\ ~ k.reboot
      /\ ~ k.spoiled /\ k.copied = "none" /\ k.step = "idle" /\ k.res = "none"
      /\ call' = [call EXCEPT ![c] = k]
  BY IdleIs
<1> HIDE DEF k
<1> QED
  BY <1>1, CallSet DEF CallNow

LEMMA OverKeeps ==
  ASSUME SnpInv, NEW c \in SnpCaller, call' = [call EXCEPT ![c] = IdleCall],
         call[c].step \in {"end", "unlocked"}, UNCHANGED <<data, staging, aside, snpIndex, clone>>
  PROVE  /\ CopiesClones' /\ DataIsThere' /\ SnapshotsMade'
         /\ call' \in [SnpCaller -> CallRec] /\ \A b \in SnpCaller \ {c} : call'[b] = call[b]
         /\ call'[c].step = "idle" /\ call'[c].op = "none" /\ ~ call'[c].reboot
         /\ ~ call'[c].spoiled /\ call'[c].res = "none"
<1> DEFINE op == "none"
           n == "none"
           r == FALSE
           s == "idle"
<1>1. CallNow(c, op, n, r, FALSE, "none", s, "none")
  BY IdleNow DEF SnpInv
<1>2. s \in {"idle", "lock", "owned"} /\ op # "snapshot" /\ op # "delete"
  OBVIOUS
<1>3. /\ call' \in [SnpCaller -> CallRec] /\ \A b \in SnpCaller \ {c} : call'[b] = call[b]
      /\ call'[c].step = "idle" /\ call'[c].op = "none" /\ ~ call'[c].reboot
      /\ ~ call'[c].spoiled /\ call'[c].res = "none"
  BY <1>1 DEF CallNow
<1> HIDE DEF op, n, r, s
<1>4. CopiesClones' /\ DataIsThere' /\ SnapshotsMade'
  BY <1>1, <1>2, TurnKeeps DEF SnpInv
<1> QED
  BY <1>3, <1>4

LEMMA ReturnsKeep ==
  ASSUME SnpInv, NEW c \in SnpCaller, Returns(c)
  PROVE  SnpInv'
<1> USE DEF SnpInv
<1>1. /\ call[c].step = "end" /\ c # Resetter
      /\ call' = [call EXCEPT ![c] = IdleCall]
      /\ snpLock' = IF snpLock = c THEN "none" ELSE snpLock
      /\ UNCHANGED <<careless, holder, ended, power, data, staging, aside, snpIndex, clone, calls>>
  BY DEF Returns
<1>2. /\ CopiesClones' /\ DataIsThere' /\ SnapshotsMade'
      /\ call' \in [SnpCaller -> CallRec] /\ \A b \in SnpCaller \ {c} : call'[b] = call[b]
      /\ call'[c].step = "idle" /\ call'[c].op = "none"
  BY <1>1, OverKeeps
<1>t. SnpTypeOK'
  <2>1. RestTyped
    BY TypeParts
  <2>2. RestTyped'
    BY <1>1, <2>1 DEF RestTyped
  <2> QED
    BY <1>2, <2>2, TypePartsNext
<1>o. CallsInOrder'
  <2>1. ASSUME NEW b \in SnpCaller
        PROVE  /\ call'[b].step \in StepsOf(call'[b].op)
               /\ call'[b].step \in WithLock => snpLock' = b
               /\ call'[b].op \in {"snapshot", "restore", "delete"} => call'[b].snap \in Snap
               /\ call'[b].op = "reset" => call'[b].snap \in {"erase"} \cup Snap
               /\ call'[b].op = "reset" <=> InCall(b)' /\ b = Resetter
    <3>1. CASE b = c
      BY <1>1, <1>2, <3>1, OpSteps DEF InCall, WithLock
    <3>2. CASE b # c
      <4>1. call'[b] = call[b] /\ (InCall(b)' <=> InCall(b))
        BY <1>2, <3>2 DEF InCall
      <4> QED
        BY <1>1, <3>2, <4>1 DEF CallsInOrder
    <3> QED
      BY <3>1, <3>2
  <2>2. call'[Resetter] = call[Resetter] /\ (InCall(Resetter)' <=> InCall(Resetter))
    BY <1>1, <1>2, SnpNamesApart DEF InCall
  <2>3. call[Resetter].step = "end" => snpLock' = Resetter
    BY <1>1 DEF CallsInOrder
  <2> QED
    BY <1>1, <2>1, <2>2, <2>3 DEF CallsInOrder
<1>a. ResetAlone'
  <2>1. call'[Resetter] = call[Resetter] /\ c \in SnpHolder
    BY <1>1, <1>2, SnpNamesApart
  <2>2. \A h \in SnpHolder : InCall(h)' => InCall(h)
    BY <1>1, <1>2, SnpNamesApart DEF InCall
  <2> QED
    BY <1>1, <2>1, <2>2 DEF ResetAlone
<1> QED
  BY <1>2, <1>t, <1>o, <1>a

LEMMA ResetReturnsKeeps ==
  ASSUME SnpInv, ResetReturns
  PROVE  SnpInv'
<1> USE DEF SnpInv
<1> DEFINE c == Resetter
<1>0. c \in SnpCaller /\ c = Resetter
  BY SnpNamesApart
<1>1. /\ call[c].step = "unlocked"
      /\ call' = [call EXCEPT ![c] = IdleCall]
      /\ holder' \in {"free", "quarantined"}
      /\ UNCHANGED <<careless, ended, snpLock, power, data, staging, aside, snpIndex, clone, calls>>
  BY DEF ResetReturns
<1> HIDE DEF c
<1>2. /\ CopiesClones' /\ DataIsThere' /\ SnapshotsMade'
      /\ call' \in [SnpCaller -> CallRec] /\ \A b \in SnpCaller \ {c} : call'[b] = call[b]
      /\ call'[c].step = "idle" /\ call'[c].op = "none" /\ ~ call'[c].reboot
      /\ ~ call'[c].spoiled /\ call'[c].res = "none"
  BY <1>0, <1>1, OverKeeps
<1>t. SnpTypeOK'
  <2>1. RestTyped
    BY TypeParts
  <2>2. RestTyped'
    BY <1>1, <2>1 DEF RestTyped
  <2> QED
    BY <1>2, <2>2, TypePartsNext
<1>o. CallsInOrder'
  <2>1. ASSUME NEW b \in SnpCaller
        PROVE  /\ call'[b].step \in StepsOf(call'[b].op)
               /\ call'[b].step \in WithLock => snpLock' = b
               /\ call'[b].op \in {"snapshot", "restore", "delete"} => call'[b].snap \in Snap
               /\ call'[b].op = "reset" => call'[b].snap \in {"erase"} \cup Snap
               /\ call'[b].op = "reset" <=> InCall(b)' /\ b = Resetter
    <3>1. CASE b = c
      BY <1>1, <1>2, <3>1, OpSteps DEF InCall, WithLock
    <3>2. CASE b # c
      <4>1. call'[b] = call[b] /\ (InCall(b)' <=> InCall(b))
        BY <1>2, <3>2 DEF InCall
      <4> QED
        BY <1>0, <1>1, <3>2, <4>1 DEF CallsInOrder
    <3> QED
      BY <3>1, <3>2
  <2>2. ~ InCall(Resetter)' /\ call'[Resetter].step # "end" /\ ~ call'[Resetter].reboot
    BY <1>0, <1>2 DEF InCall
  <2> QED
    BY <1>1, <2>1, <2>2 DEF CallsInOrder
<1>a. ResetAlone'
  <2>1. ~ careless => \A h \in SnpHolder : ~ InCall(h)'
    <3>1. InCall(Resetter) /\ holder = "resetting"
      BY <1>0, <1>1 DEF InCall, CallsInOrder
    <3> QED
      BY <1>0, <1>1, <1>2, <3>1, SnpNamesApart DEF ResetAlone, InCall
  <2> QED
    BY <1>0, <1>1, <1>2, <2>1 DEF ResetAlone
<1> QED
  BY <1>2, <1>t, <1>o, <1>a

(* A lease holder begins a call. *)
LEMMA CallKeeps ==
  ASSUME SnpInv, NEW c \in SnpHolder, StateCall(c)
  PROVE  SnpInv'
<1> USE DEF SnpInv
<1>0. c \in SnpCaller /\ c # Resetter /\ c \notin {"free", "resetting"}
  BY SnpNamesApart
<1>1. /\ holder = c /\ ~ InCall(c) /\ calls < MaxCalls /\ calls' = calls + 1
      /\ UNCHANGED <<careless, holder, ended, snpLock, power, data, staging, aside, snpIndex, clone>>
  BY DEF StateCall, LeasedTarget, Begin_
<1>2. \E op \in SnpOps, n \in SnpNames, r \in BOOLEAN, s \in SnpSteps :
        /\ call' = [call EXCEPT ![c] = [IdleCall EXCEPT !.op = op, !.snap = n, !.reboot = r, !.step = s]]
        /\ \/ /\ op = "snapshot" /\ s = "lock" /\ n \in Snap /\ clone[n] = "never"
              /\ \A b \in SnpCaller : call[b].snap # n
           \/ op = "restore" /\ s = "lock" /\ n \in Snap
           \/ op = "erase" /\ s = "lock"
           \/ op = "delete" /\ s = "owned" /\ n \in snpIndex
  <2>1. /\ {"snapshot", "restore", "erase", "delete"} \subseteq SnpOps /\ snpIndex \subseteq SnpNames
        /\ FALSE \in BOOLEAN
    BY SnpWords DEF SnpOps, SnpTypeOK
  <2>2. CASE \E t \in Snap : /\ clone[t] = "never" /\ \A b \in SnpCaller : call[b].snap # t
                             /\ Begin_(c, "snapshot", t, FALSE, "lock")
    BY <2>1, <2>2, SnpWords DEF Begin_
  <2>3. CASE \E t \in Snap, reboot \in BOOLEAN : Begin_(c, "restore", t, reboot, "lock")
    BY <2>1, <2>3, SnpWords DEF Begin_
  <2>4. CASE Begin_(c, "erase", "none", FALSE, "lock")
    BY <2>1, <2>4, SnpWords DEF Begin_
  <2>5. CASE \E t \in snpIndex : Begin_(c, "delete", t, FALSE, "owned")
    BY <2>1, <2>5, SnpWords DEF Begin_
  <2> QED
    BY <2>2, <2>3, <2>4, <2>5 DEF StateCall
<1>3. PICK op \in SnpOps, n \in SnpNames, r \in BOOLEAN, s \in SnpSteps :
        /\ call' = [call EXCEPT ![c] = [IdleCall EXCEPT !.op = op, !.snap = n, !.reboot = r, !.step = s]]
        /\ \/ /\ op = "snapshot" /\ s = "lock" /\ n \in Snap /\ clone[n] = "never"
              /\ \A b \in SnpCaller : call[b].snap # n
           \/ op = "restore" /\ s = "lock" /\ n \in Snap
           \/ op = "erase" /\ s = "lock"
           \/ op = "delete" /\ s = "owned" /\ n \in snpIndex
  BY <1>2
<1>4. CallNow(c, op, n, r, FALSE, "none", s, "none")
  BY <1>0, <1>3, BeginsCall
<1>5. /\ call' \in [SnpCaller -> CallRec] /\ \A b \in SnpCaller \ {c} : call'[b] = call[b]
      /\ call'[c].op = op /\ call'[c].snap = n /\ call'[c].step = s
  BY <1>4 DEF CallNow
<1>6. op = "snapshot" => n \notin snpIndex
  BY <1>3 DEF SnapshotsMade, ListedWithClone
<1>7. CopiesClones' /\ DataIsThere' /\ SnapshotsMade'
  BY <1>0, <1>1, <1>3, <1>4, <1>6, TurnKeeps DEF InCall
<1>t. SnpTypeOK'
  <2>1. RestTyped
    BY TypeParts
  <2>2. calls' \in 0..MaxCalls
    BY <1>1, SnapshotsAssumption DEF SnpTypeOK
  <2>3. RestTyped'
    BY <1>1, <2>1, <2>2 DEF RestTyped
  <2> QED
    BY <1>5, <2>3, TypePartsNext
<1>o. CallsInOrder'
  <2>1. ASSUME NEW b \in SnpCaller
        PROVE  /\ call'[b].step \in StepsOf(call'[b].op)
               /\ call'[b].step \in WithLock => snpLock' = b
               /\ call'[b].op \in {"snapshot", "restore", "delete"} => call'[b].snap \in Snap
               /\ call'[b].op = "reset" => call'[b].snap \in {"erase"} \cup Snap
               /\ call'[b].op = "reset" <=> InCall(b)' /\ b = Resetter
    <3>1. CASE b = c
      <4>1. s \in StepsOf(op) /\ s \notin WithLock /\ op # "reset"
            /\ (op \in {"snapshot", "restore", "delete"} => n \in Snap)
        BY <1>3, OpSteps DEF WithLock, SnpTypeOK
      <4> QED
        BY <1>0, <1>5, <3>1, <4>1
    <3>2. CASE b # c
      <4>1. call'[b] = call[b] /\ (InCall(b)' <=> InCall(b))
        BY <1>5, <3>2 DEF InCall
      <4> QED
        BY <1>1, <3>2, <4>1 DEF CallsInOrder
    <3> QED
      BY <3>1, <3>2
  <2>2. call'[Resetter] = call[Resetter] /\ (InCall(Resetter)' <=> InCall(Resetter))
    BY <1>0, <1>5, SnpNamesApart DEF InCall
  <2> QED
    BY <1>1, <2>1, <2>2 DEF CallsInOrder
<1>a. ResetAlone'
  <2>1. call'[Resetter] = call[Resetter]
    BY <1>0, <1>5, SnpNamesApart
  <2>2. ~ careless => \A h \in SnpHolder : InCall(h)' => holder' = h
    BY <1>0, <1>1, <1>5, SnpNamesApart DEF InCall, ResetAlone
  <2> QED
    BY <1>1, <2>1, <2>2 DEF ResetAlone
<1> QED
  BY <1>7, <1>t, <1>o, <1>a

(* No reset is on its way while a lease holds the target, or it is free. *)
LEMMA NoReset ==
  ASSUME SnpTypeOK, CallsInOrder, holder # "resetting"
  PROVE  call[Resetter].step = "idle" /\ call[Resetter].op = "none"
  BY StepKnown, StepOp, SnpNamesApart DEF CallsInOrder, InCall

LEMMA EndLeaseKeeps ==
  ASSUME SnpInv, NEW h \in SnpHolder, SnpEndLease(h)
  PROVE  SnpInv'
<1> USE DEF SnpInv
<1>0. h \in SnpCaller /\ h # Resetter /\ h \notin {"free", "resetting"} /\ Resetter \in SnpCaller
  BY SnpNamesApart
<1>1. /\ holder = h /\ MayEnd(h) /\ ended' = ended \cup {h}
      /\ UNCHANGED <<careless, snpLock, power, data, staging, aside, snpIndex, clone, calls>>
  BY DEF SnpEndLease
<1>2. call[Resetter].step = "idle" /\ call[Resetter].op = "none"
  BY <1>0, <1>1, NoReset
<1>3. ~ careless => \A b \in SnpHolder : ~ InCall(b)
  BY <1>1 DEF ResetAlone, MayEnd
<1>4. CASE holder' = "free" /\ call' = call
  <2>t. SnpTypeOK'
    BY <1>1, <1>4 DEF SnpTypeOK
  <2>o. CallsInOrder'
    <3>1. \A b \in SnpCaller : InCall(b)' <=> InCall(b)
      BY <1>4 DEF InCall
    <3> QED
      BY <1>0, <1>1, <1>2, <1>4, <3>1 DEF CallsInOrder, InCall
  <2>c. CopiesClones' /\ DataIsThere'
    BY <1>1, <1>4 DEF CopiesClones, DataIsThere
  <2>m. SnapshotsMade'
    BY <1>1, <1>4 DEF SnapshotsMade, ListedWithClone
  <2>a. ResetAlone'
    <3>1. \A b \in SnpHolder : InCall(b)' <=> InCall(b)
      BY <1>4 DEF InCall
    <3> QED
      BY <1>1, <1>2, <1>3, <1>4, <3>1 DEF ResetAlone
  <2> QED
    BY <2>t, <2>o, <2>c, <2>m, <2>a
<1>5. CASE /\ holder' = "resetting"
           /\ \E spec \in Resets_ \ {"none"} :
                call' = [call EXCEPT ![Resetter] =
                           [IdleCall EXCEPT !.op = "reset", !.snap = spec, !.step = "lock"]]
  <2> DEFINE op == "reset"
             s == "lock"
             r == FALSE
  <2>1. PICK n \in Resets_ \ {"none"} :
          call' = [call EXCEPT ![Resetter] = [IdleCall EXCEPT !.op = "reset", !.snap = n, !.step = "lock"]]
    BY <1>5
  <2>2. n \in {"erase"} \cup Snap /\ n \in SnpNames
    BY DEF Resets_, SnpNames
  <2>3. op \in SnpOps /\ s \in SnpSteps
    BY SnpWords DEF SnpOps
  <2>6. op = "reset" /\ s = "lock" /\ ~ r
    OBVIOUS
  <2> HIDE DEF op, s, r
  <2>7. CallNow(Resetter, op, n, r, FALSE, "none", s, "none")
    <3> DEFINE m == IdleCall
               k == [m EXCEPT !.op = op, !.snap = n, !.step = s]
    <3>1. call' = [call EXCEPT ![Resetter] = k]
      BY <2>1 DEF op, s
    <3>2. m \in CallRec /\ ~ m.reboot /\ ~ m.spoiled /\ m.copied = "none" /\ m.res = "none"
      BY IdleIs
    <3> HIDE DEF m
    <3>3. k \in CallRec /\ k.op = op /\ k.snap = n /\ ~ k.reboot /\ ~ k.spoiled /\ k.copied = "none"
          /\ k.step = s /\ k.res = "none"
      BY <2>2, <2>3, <3>2 DEF CallRec
    <3> HIDE DEF k
    <3> QED
      BY <1>0, <2>6, <3>1, <3>3, CallSet DEF CallNow
  <2>8. /\ call' \in [SnpCaller -> CallRec] /\ \A b \in SnpCaller \ {Resetter} : call'[b] = call[b]
        /\ call'[Resetter].op = "reset" /\ call'[Resetter].snap = n /\ call'[Resetter].step = "lock"
        /\ ~ call'[Resetter].reboot /\ ~ call'[Resetter].spoiled /\ call'[Resetter].res = "none"
    BY <2>6, <2>7 DEF CallNow
  <2>c. CopiesClones' /\ DataIsThere' /\ SnapshotsMade'
    BY <1>0, <1>1, <1>2, <2>6, <2>7, TurnKeeps
  <2>t. SnpTypeOK'
    <3>1. RestTyped
      BY TypeParts
    <3>2. RestTyped'
      BY <1>1, <1>5, <3>1 DEF RestTyped
    <3> QED
      BY <2>8, <3>2, TypePartsNext
  <2>o. CallsInOrder'
    <3>1. ASSUME NEW b \in SnpCaller
          PROVE  /\ call'[b].step \in StepsOf(call'[b].op)
                 /\ call'[b].step \in WithLock => snpLock' = b
                 /\ call'[b].op \in {"snapshot", "restore", "delete"} => call'[b].snap \in Snap
                 /\ call'[b].op = "reset" => call'[b].snap \in {"erase"} \cup Snap
                 /\ call'[b].op = "reset" <=> InCall(b)' /\ b = Resetter
      <4>1. CASE b = Resetter
        BY <2>2, <2>8, <4>1, OpSteps DEF InCall, WithLock
      <4>2. CASE b # Resetter
        <5>1. call'[b] = call[b] /\ (InCall(b)' <=> InCall(b))
          BY <2>8, <4>2 DEF InCall
        <5> QED
          BY <1>1, <4>2, <5>1 DEF CallsInOrder
      <4> QED
        BY <4>1, <4>2
    <3>2. InCall(Resetter)' /\ call'[Resetter].step # "end" /\ ~ call'[Resetter].reboot
      BY <2>8 DEF InCall
    <3> QED
      BY <1>5, <3>1, <3>2 DEF CallsInOrder
  <2>a. ResetAlone'
    <3>1. \A b \in SnpHolder : InCall(b)' <=> InCall(b)
      BY <2>8, SnpNamesApart DEF InCall
    <3> QED
      BY <1>1, <1>3, <2>8, <3>1 DEF ResetAlone
  <2> QED
    BY <2>c, <2>t, <2>o, <2>a
<1> QED
  BY <1>4, <1>5 DEF SnpEndLease

(* A lease is granted, or its holder uses the simulator. *)
LEMMA UseKeeps ==
  ASSUME SnpInv, NEW h \in SnpHolder, SnpGrant(h) \/ HolderUses(h)
  PROVE  SnpInv'
<1> USE DEF SnpInv
<1>0. h \in SnpCaller /\ h \notin {"free", "resetting", "missing", "none"} /\ h \in AnyData
  BY SnpNamesApart DEF AnyData
<1>1. /\ holder' = h /\ holder # "resetting"
      /\ power' \in {power, "Booted", "Shutdown"} /\ (data' = data \/ data' = h)
      /\ (holder = "free" \/ holder = h)
      /\ UNCHANGED <<careless, ended, call, snpLock, staging, aside, snpIndex, clone, calls>>
  BY <1>0 DEF SnpGrant, HolderUses
<1>2. call[Resetter].step = "idle" /\ call[Resetter].op = "none"
  BY <1>1, NoReset
<1>3. \A b \in SnpCaller : InCall(b)' <=> InCall(b)
  BY <1>1 DEF InCall
<1>t. SnpTypeOK'
  <2>1. RestTyped
    BY TypeParts
  <2>2. RestTyped'
    BY <1>0, <1>1, <2>1 DEF RestTyped
  <2> QED
    BY <1>1, <2>2, TypeParts, TypePartsNext
<1>o. CallsInOrder'
  BY <1>0, <1>1, <1>2, <1>3 DEF CallsInOrder, InCall
<1>c. CopiesClones' /\ DataIsThere'
  <2>1. data' = "missing" => data = "missing"
    BY <1>0, <1>1
  <2> QED
    BY <1>1, <2>1 DEF CopiesClones, DataIsThere
<1>m. SnapshotsMade'
  BY <1>1 DEF SnapshotsMade, ListedWithClone
<1>a. ResetAlone'
  <2>1. ~ careless => \A b \in SnpHolder : InCall(b)' => holder' = b
    BY <1>0, <1>1, <1>3, SnpNamesApart DEF ResetAlone
  <2> QED
    BY <1>1, <1>2, <2>1 DEF ResetAlone
<1> QED
  BY <1>t, <1>o, <1>c, <1>m, <1>a

LEMMA SnpStays == ASSUME SnpInv, UNCHANGED snpVars PROVE SnpInv'
<1> USE DEF SnpInv
<1>1. /\ UNCHANGED <<careless, holder, ended, call, snpLock>>
      /\ UNCHANGED <<power, data, staging, aside, snpIndex, clone, calls>>
  BY DEF snpVars
<1>2. SnpTypeOK'
  BY <1>1 DEF SnpTypeOK
<1>3. CallsInOrder' /\ CopiesClones' /\ DataIsThere'
  BY <1>1 DEF CallsInOrder, CopiesClones, DataIsThere, InCall
<1>4. SnapshotsMade'
  BY <1>1 DEF SnapshotsMade, ListedWithClone
<1>5. ResetAlone'
  BY <1>1 DEF ResetAlone, InCall
<1> QED
  BY <1>2, <1>3, <1>4, <1>5

LEMMA SnpKeeps == ASSUME SnpInv, [SnpNext]_snpVars PROVE SnpInv'
<1>1. ASSUME NEW c \in SnpCaller, SnpStep(c)
      PROVE  SnpInv'
  BY <1>1, LockKeeps, ChecksKeep, ClonesKeep, AddsKeep, DeletesKeep, RemovesKeep, CopiesKeep,
     AsideKeeps, SwapKeeps, BootKeeps, WipeKeeps, DegradeKeeps, ReturnsKeep DEF SnpStep
<1>2. ASSUME NEW h \in SnpHolder, StateCall(h) \/ SnpEndLease(h) \/ SnpGrant(h) \/ HolderUses(h)
      PROVE  SnpInv'
  BY <1>2, CallKeeps, EndLeaseKeeps, UseKeeps
<1> QED
  BY <1>1, <1>2, UnlockKeeps, ResetReturnsKeeps, SnpStays DEF SnpNext

(* When a reset frees the target, what is left is what was asked for. *)
LEMMA SnpFreesClean == ASSUME SnpInv, [SnpNext]_snpVars PROVE SnpNextClean
<1> SUFFICES ASSUME ~ careless, holder = "resetting", holder' = "free"
             PROVE  data = "stock" \/ \E s \in Snap : call[Resetter].snap = s /\ data = clone[s]
  BY DEF SnpNextClean
<1>1. ResetReturns
  <2>1. \A h \in SnpHolder : h \notin {"free", "resetting"}
    BY SnpNamesApart
  <2>2. ASSUME NEW c \in SnpCaller, SnpStep(c) PROVE holder' = holder
    BY <2>2 DEF SnpStep, TakesLock, SnpChecks, SnpClones, SnpAdds, SnpDeletesClone, SnpRemoves, SnpCopies,
       SnpMovesAside, SnpSwapsIn, SnpBootsDetached, SnpWipes, SnpReslims, SnpDegrades, Returns
  <2>3. ASSUME NEW h \in SnpHolder, StateCall(h) \/ SnpEndLease(h) \/ SnpGrant(h) \/ HolderUses(h)
        PROVE  holder' = holder \/ holder = h \/ holder' = h
    BY <2>3 DEF StateCall, SnpEndLease, SnpGrant, HolderUses
  <2>4. ResetUnlocks \/ UNCHANGED snpVars => holder' = holder
    BY DEF ResetUnlocks, snpVars
  <2> QED
    BY <2>1, <2>2, <2>3, <2>4 DEF SnpNext
<1>2. call[Resetter].step = "unlocked" /\ call[Resetter].res = "ok"
  BY <1>1 DEF ResetReturns
<1> QED
  BY <1>2 DEF SnpInv, ResetAlone

-----------------------------------------------------------------------------
(* The image store.                                                        *)

DevRec == [name: {"none", "hidden", "public"}, on: BOOLEAN, slim: BOOLEAN,
           data: {"stock", "image", "torn"}, of: Img \cup {"none"}]
ArcRec == [file: {"none", "whole", "torn", "swapped"}, sum: {"none", "whole", "torn"}]

LEMMA DevTypes == ImgTypeOK => dev \in [Dev -> DevRec] /\ archive \in [Img -> ArcRec]
  BY DEF ImgTypeOK, DevRec, ArcRec

(* Everything but the operation and the simulators has its type. *)
StoreHas ==
  /\ archive \in [Img -> ArcRec]
  /\ listed \subseteq Img /\ tmps \subseteq Img /\ slimmed \subseteq Dev
  /\ erasing \subseteq Dev /\ told \subseteq Dev /\ stranded \subseteq Dev
  /\ imgOps \in 0..MaxImgOps /\ imgCrashes \in 0..MaxImgCrashes

LEMMA ImgTypeParts == ImgTypeOK =>
  /\ dev \in [Dev -> DevRec] /\ StoreHas /\ Made \subseteq Dev /\ iop.kind \in ImgKinds
  BY DEF ImgTypeOK, StoreHas, DevRec, ArcRec, ImgKinds

LEMMA ImgTypePartsNext ==
  ASSUME dev' \in [Dev -> DevRec], StoreHas', Made' \subseteq Dev, iop'.kind \in ImgKinds
  PROVE  ImgTypeOK'
  BY DEF ImgTypeOK, StoreHas, DevRec, ArcRec, ImgKinds

(* What an operation has made are simulators. *)
LEMMA MadeAre ==
  ASSUME OpIn
  PROVE  /\ iop.made \in Seq(Dev) /\ Made \subseteq Dev
         /\ \A k \in 1..Len(iop.made) : iop.made[k] \in Made
         /\ \A d \in Made : \E k \in 1..Len(iop.made) : d = iop.made[k]
         /\ iop.made # <<>> => Last_ \in Made /\ Len(iop.made) \in Nat \ {0}
         /\ iop.made = <<>> => Made = {}
<1>1. iop.made \in Seq(Dev)
  BY DEF OpIn, OpRec
<1> DEFINE m == iop.made
<1>2. m \in Seq(Dev) /\ Made = {m[k] : k \in DOMAIN m} /\ Last_ = m[Len(m)]
  BY <1>1 DEF Made, Last_
<1> HIDE DEF m
<1>3. DOMAIN m = 1..Len(m) /\ Len(m) \in Nat /\ \A k \in 1..Len(m) : m[k] \in Dev
  BY <1>2
<1>4. m # <<>> => Len(m) # 0
  BY <1>2
<1>5. m = <<>> => Len(m) = 0
  BY <1>2
<1>6. Made \subseteq Dev /\ (\A k \in 1..Len(m) : m[k] \in Made)
      /\ (\A d \in Made : \E k \in 1..Len(m) : d = m[k])
  BY <1>2, <1>3
<1>7. m # <<>> => Last_ \in Made /\ Len(m) \in Nat \ {0}
  BY <1>2, <1>3, <1>4, <1>6
<1>8. m = <<>> => Made = {}
  BY <1>2, <1>3, <1>5
<1> QED
  BY <1>2, <1>6, <1>7, <1>8 DEF m

LEMMA MadeSame ==
  ASSUME iop'.made = iop.made
  PROVE  Made' = Made /\ Last_' = Last_ /\ Builder' = Builder
  BY DEF Made, Last_, Builder

(* Only the step of the operation moves. *)
OpNow(s) ==
  /\ iop' \in OpRec /\ iop'.kind = iop.kind /\ iop'.img = iop.img /\ iop'.made = iop.made
  /\ iop'.step = s /\ iop'.n = iop.n /\ Made' = Made /\ Last_' = Last_ /\ Builder' = Builder

LEMMA OpStepIs ==
  ASSUME OpIn
  PROVE  \A s \in ImgSteps : ToStep(s) => OpNow(s)
<1> TAKE s \in ImgSteps
<1> HAVE ToStep(s)
<1> DEFINE k == iop
           f == iop'
<1>1. k \in OpRec /\ f = [k EXCEPT !.step = s]
  BY DEF OpIn, ToStep
<1> HIDE DEF k, f
<1>2. f \in OpRec /\ f.kind = k.kind /\ f.img = k.img /\ f.made = k.made /\ f.step = s /\ f.n = k.n
  BY <1>1 DEF OpRec
<1>3. /\ iop' \in OpRec /\ iop'.kind = iop.kind /\ iop'.img = iop.img /\ iop'.made = iop.made
      /\ iop'.step = s /\ iop'.n = iop.n
  BY <1>2 DEF k, f
<1> QED
  BY <1>3, MadeSame DEF OpNow

LEMMA ImgWords ==
  {"none", "create", "slim", "check", "pack", "packed", "recheck", "discard", "verify", "replace",
   "reslim", "commit", "record", "rename", "entry", "file"} \subseteq ImgSteps
  BY DEF ImgSteps

(* No operation is running. *)
LEMMA NoOpIs ==
  /\ NoOp \in OpRec /\ NoOp.kind = "none" /\ NoOp.img = "none" /\ NoOp.step = "none"
  /\ NoOp.made = <<>> /\ NoOp.n = 0
  BY DEF NoOp, OpRec, ImgKinds, ImgSteps

LEMMA Idles ==
  ASSUME iop' = NoOp
  PROVE  /\ OpIn' /\ iop'.kind = "none" /\ iop'.made = <<>> /\ Made' = {} /\ iop'.step = "none"
         /\ iop'.img = "none" /\ StampIn'
<1>1. /\ iop' \in OpRec /\ iop'.kind = "none" /\ iop'.made = <<>> /\ iop'.step = "none"
      /\ iop'.img = "none"
  BY NoOpIs
<1>2. OpIn'
  BY <1>1 DEF OpIn
<1>3. Made' = {}
  BY <1>1 DEF Made
<1> QED
  BY <1>1, <1>2, <1>3 DEF StampIn

(* One simulator changes in one respect. *)
DevNow(d, name, on, data_, slim, of) ==
  /\ dev' \in [Dev -> DevRec] /\ \A e \in Dev \ {d} : dev'[e] = dev[e]
  /\ dev'[d].name = name /\ (dev'[d].on <=> on) /\ dev'[d].data = data_
  /\ (dev'[d].slim <=> slim) /\ dev'[d].of = of

LEMMA DevSet ==
  ASSUME ImgTypeOK, NEW d \in Dev, NEW k \in DevRec, dev' = [dev EXCEPT ![d] = k]
  PROVE  DevNow(d, k.name, k.on, k.data, k.slim, k.of)
  BY DevTypes DEF DevNow, DevRec

LEMMA DevNamed ==
  ASSUME ImgTypeOK, NEW d \in Dev, NEW v \in {"none", "hidden", "public"},
         dev' = [dev EXCEPT ![d].name = v]
  PROVE  DevNow(d, v, dev[d].on, dev[d].data, dev[d].slim, dev[d].of)
<1> DEFINE m == dev[d]
           k == [m EXCEPT !.name = v]
<1>0. m \in DevRec /\ dev' = [dev EXCEPT ![d] = k]
  BY DevTypes
<1> HIDE DEF m
<1>1. /\ k \in DevRec /\ k.name = v /\ k.on = m.on /\ k.data = m.data
      /\ k.slim = m.slim /\ k.of = m.of
  BY <1>0 DEF DevRec
<1> HIDE DEF k
<1>2. DevNow(d, k.name, k.on, k.data, k.slim, k.of)
  BY <1>0, <1>1, DevSet
<1> QED
  BY <1>1, <1>2 DEF m

LEMMA DevSwitched ==
  ASSUME ImgTypeOK, NEW d \in Dev, NEW v \in BOOLEAN, dev' = [dev EXCEPT ![d].on = v]
  PROVE  DevNow(d, dev[d].name, v, dev[d].data, dev[d].slim, dev[d].of)
<1> DEFINE m == dev[d]
           k == [m EXCEPT !.on = v]
<1>0. m \in DevRec /\ dev' = [dev EXCEPT ![d] = k]
  BY DevTypes
<1> HIDE DEF m
<1>1. /\ k \in DevRec /\ k.name = m.name /\ k.on = v /\ k.data = m.data
      /\ k.slim = m.slim /\ k.of = m.of
  BY <1>0 DEF DevRec
<1> HIDE DEF k
<1>2. DevNow(d, k.name, k.on, k.data, k.slim, k.of)
  BY <1>0, <1>1, DevSet
<1> QED
  BY <1>1, <1>2 DEF m

LEMMA DevSlimmed ==
  ASSUME ImgTypeOK, NEW d \in Dev, NEW v \in BOOLEAN, dev' = [dev EXCEPT ![d].slim = v]
  PROVE  DevNow(d, dev[d].name, dev[d].on, dev[d].data, v, dev[d].of)
<1> DEFINE m == dev[d]
           k == [m EXCEPT !.slim = v]
<1>0. m \in DevRec /\ dev' = [dev EXCEPT ![d] = k]
  BY DevTypes
<1> HIDE DEF m
<1>1. /\ k \in DevRec /\ k.name = m.name /\ k.on = m.on /\ k.data = m.data
      /\ k.slim = v /\ k.of = m.of
  BY <1>0 DEF DevRec
<1> HIDE DEF k
<1>2. DevNow(d, k.name, k.on, k.data, k.slim, k.of)
  BY <1>0, <1>1, DevSet
<1> QED
  BY <1>1, <1>2 DEF m

LEMMA DevFilled ==
  ASSUME ImgTypeOK, NEW d \in Dev, NEW v \in {"stock", "image", "torn"},
         dev' = [dev EXCEPT ![d].data = v]
  PROVE  DevNow(d, dev[d].name, dev[d].on, v, dev[d].slim, dev[d].of)
<1> DEFINE m == dev[d]
           k == [m EXCEPT !.data = v]
<1>0. m \in DevRec /\ dev' = [dev EXCEPT ![d] = k]
  BY DevTypes
<1> HIDE DEF m
<1>1. /\ k \in DevRec /\ k.name = m.name /\ k.on = m.on /\ k.data = v
      /\ k.slim = m.slim /\ k.of = m.of
  BY <1>0 DEF DevRec
<1> HIDE DEF k
<1>2. DevNow(d, k.name, k.on, k.data, k.slim, k.of)
  BY <1>0, <1>1, DevSet
<1> QED
  BY <1>1, <1>2 DEF m

LEMMA DevErased ==
  ASSUME ImgTypeOK, NEW d \in Dev, dev' = [dev EXCEPT ![d].data = "stock", ![d].slim = FALSE]
  PROVE  DevNow(d, dev[d].name, dev[d].on, "stock", FALSE, dev[d].of)
<1> DEFINE m == dev[d]
           v == "stock"
           b == FALSE
           k == [m EXCEPT !.data = v, !.slim = b]
<1>0. m \in DevRec /\ dev' = [dev EXCEPT ![d] = k] /\ v \in {"stock", "image", "torn"} /\ b \in BOOLEAN
  BY DevTypes
<1>x. v = "stock" /\ b = FALSE
  OBVIOUS
<1> HIDE DEF m, v, b
<1>1. /\ k \in DevRec /\ k.name = m.name /\ k.on = m.on /\ k.data = v
      /\ k.slim = b /\ k.of = m.of
  BY <1>0 DEF DevRec
<1> HIDE DEF k
<1>2. DevNow(d, k.name, k.on, k.data, k.slim, k.of)
  BY <1>0, <1>1, DevSet
<1> QED
  BY <1>x, <1>1, <1>2 DEF m

LEMMA NoDevIs ==
  /\ NoDev \in DevRec /\ NoDev.name = "none" /\ ~ NoDev.on /\ NoDev.data = "stock" /\ ~ NoDev.slim
  /\ NoDev.of = "none"
  BY DEF NoDev, DevRec

LEMMA NamesSame ==
  ASSUME \A d \in Dev : dev'[d].name = dev[d].name
  PROVE  Hidden' = Hidden /\ Public' = Public
  BY DEF Hidden, Public

(* What is visible stays as it was. *)
LEMMA VisibleSame ==
  ASSUME ImgVisibleWhole,
         \A d \in Dev : dev'[d].name = "public" =>
           /\ dev[d].name = "public" /\ dev'[d].data = dev[d].data /\ dev'[d].of = dev[d].of
           /\ (dev[d].slim => dev'[d].slim) /\ (d \in slimmed => d \in slimmed')
           /\ (d \in erasing \cup told => d \in (erasing \cup told)')
  PROVE  ImgVisibleWhole'
  BY DEF ImgVisibleWhole, Public

(* A simulator is created, hidden, for the operation. *)
LEMMA CreatesIs ==
  ASSUME ImgTypeOK, OpIn, NEW d \in Absent, NEW s \in ImgSteps, Creates(d, s), iop.img \in Img
  PROVE  /\ DevNow(d, "hidden", FALSE, "stock", FALSE, iop.img)
         /\ iop' \in OpRec /\ iop'.kind = iop.kind /\ iop'.img = iop.img /\ iop'.step = s
         /\ iop'.n = iop.n /\ iop'.made \in Seq(Dev) /\ iop'.made # <<>>
         /\ iop.made = <<>> => iop'.made = <<Builder'>>
         /\ Made' = Made \cup {d} /\ Last_' = d
         /\ d \in Dev /\ dev[d].name = "none" /\ d \notin erasing \cup told
<1>0. d \in Dev /\ dev[d].name = "none" /\ d \notin erasing \cup told
  BY DEF Absent
<1>1. DevNow(d, "hidden", FALSE, "stock", FALSE, iop.img)
  <2> DEFINE i == iop.img
             m == NoDev
             v == "hidden"
             k == [m EXCEPT !.name = v, !.of = i]
  <2>1. m \in DevRec /\ i \in Img /\ v \in {"none", "hidden", "public"} /\ dev' = [dev EXCEPT ![d] = k]
    BY NoDevIs DEF Creates
  <2>2. m.data = "stock" /\ ~ m.on /\ ~ m.slim /\ v = "hidden"
    BY NoDevIs
  <2> HIDE DEF i, m, v
  <2>3. k \in DevRec /\ k.name = v /\ k.on = m.on /\ k.data = m.data /\ k.slim = m.slim /\ k.of = i
    BY <2>1 DEF DevRec
  <2> HIDE DEF k
  <2>4. DevNow(d, k.name, k.on, k.data, k.slim, k.of)
    BY <1>0, <2>1, <2>3, DevSet
  <2> QED
    BY <2>2, <2>3, <2>4 DEF i, DevNow
<1> DEFINE m == iop.made
           w == iop'.made
<1>2. m \in Seq(Dev) /\ iop \in OpRec
  BY DEF OpIn, OpRec
<1>3. /\ iop' \in OpRec /\ iop'.kind = iop.kind /\ iop'.img = iop.img /\ iop'.step = s
      /\ iop'.n = iop.n /\ w = m \o <<d>>
  <2> DEFINE k == iop
             f == iop'
             t == m \o <<d>>
  <2>1. f = [k EXCEPT !.step = s, !.made = t] /\ k \in OpRec
    BY <1>2 DEF Creates
  <2>2. t \in Seq(Dev)
    BY <1>0, <1>2
  <2> HIDE DEF t, k, f, m
  <2>3. /\ f \in OpRec /\ f.kind = k.kind /\ f.img = k.img /\ f.step = s
        /\ f.n = k.n /\ f.made = t
    BY <2>1, <2>2 DEF OpRec
  <2> QED
    BY <2>3 DEF k, f, t
<1>4. /\ w \in Seq(Dev) /\ Len(w) = Len(m) + 1 /\ w[Len(m) + 1] = d
      /\ (\A k \in 1..Len(m) : w[k] = m[k]) /\ Len(m) \in Nat
  <2> HIDE DEF w, m
  <2> QED
    BY <1>0, <1>2, <1>3
<1>5. /\ Made = {m[k] : k \in 1..Len(m)} /\ Made' = {w[k] : k \in 1..Len(w)} /\ Last_' = w[Len(w)]
      /\ Builder' = w[1]
  BY <1>2, <1>4 DEF Made, Last_, Builder
<1>6. m = <<>> => Len(m) = 0
  OBVIOUS
<1>7. w # <<>>
  <2>1. w = <<>> => Len(w) = 0
    OBVIOUS
  <2> HIDE DEF w, m
  <2> QED
    BY <1>4, <2>1
<1>8. m = <<>> => w = <<d>> /\ w[1] = d
  BY <1>3
<1> HIDE DEF w, m
<1>9. Made' = Made \cup {d} /\ Last_' = d
  <2>1. 1..Len(w) = (1..Len(m)) \cup {Len(m) + 1}
    BY <1>4
  <2> QED
    BY <1>4, <1>5, <2>1
<1>10. m = <<>> => w = <<Builder'>>
  BY <1>5, <1>8
<1> QED
  BY <1>0, <1>1, <1>3, <1>4, <1>7, <1>9, <1>10 DEF w, m

LEMMA ImgStarts == ImgInit => ImgInv
<1> SUFFICES ASSUME ImgInit PROVE ImgInv
  OBVIOUS
<1>0. /\ iop = NoOp /\ iop.kind = "none" /\ iop.made = <<>> /\ iop.step = "none" /\ iop.img = "none"
      /\ iop \in OpRec /\ Made = {}
  BY NoOpIs DEF ImgInit, Made
<1>1. /\ \A d \in Dev : dev[d] = NoDev /\ dev[d].name = "none"
      /\ Hidden = {} /\ Public = {}
  BY NoDevIs DEF ImgInit, Hidden, Public
<1>2. ImgTypeOK
  <2>1. dev \in [Dev -> DevRec]
    BY NoDevIs DEF ImgInit
  <2>2. archive \in [Img -> ArcRec]
    BY DEF ImgInit, ArcRec
  <2>3. 0 \in 0..MaxImgOps /\ 0 \in 0..MaxImgCrashes
    BY ImagesAssumption
  <2> QED
    BY <1>0, <2>1, <2>2, <2>3 DEF ImgTypeOK, ImgInit, DevRec, ArcRec
<1>3. OpIn
  BY <1>0 DEF OpIn
<1>4. HiddenKnown
  BY <1>0, <1>1 DEF HiddenKnown, ImgInit
<1>5. StampIn
  BY <1>0 DEF StampIn
<1>6. ImgVisibleWhole /\ ImgListedBacked
  BY <1>1 DEF ImgVisibleWhole, ImgListedBacked, ImgInit
<1> QED
  BY <1>2, <1>3, <1>4, <1>5, <1>6 DEF ImgInv

LEMMA ImgHolds == ImgInv => ImgSafe
<1> SUFFICES ASSUME ImgInv PROVE ImgSafe
  OBVIOUS
<1>1. ASSUME iop = NoOp PROVE Hidden \subseteq stranded /\ tmps = {}
  <2>1. iop.kind = "none" /\ Made = {}
    BY <1>1, NoOpIs DEF Made
  <2> QED
    BY <2>1 DEF ImgInv, HiddenKnown
<1> QED
  BY <1>1 DEF ImgInv, ImgSafe, ImgNothingLeft

(* An operation is started, with nothing made yet. *)
LEMMA StartsKeep ==
  ASSUME ImgInv, NEW i \in Img, StartBuild(i) \/ StartStamp(i) \/ StartDelete(i)
  PROVE  ImgInv'
<1> USE DEF ImgInv
<1>1. PICK k \in ImgKinds, s \in ImgSteps :
        /\ StartOp(k, i, s)
        /\ \/ k = "build" /\ s = "create" /\ i \notin listed
           \/ k = "stamp" /\ s = "verify" /\ i \in listed
           \/ k = "delete" /\ s = "entry" /\ i \in listed
  <2>1. {"build", "stamp", "delete"} \subseteq ImgKinds
    BY DEF ImgKinds
  <2> QED
    BY <2>1, ImgWords DEF StartBuild, StartStamp, StartDelete
<1>2. /\ iop = NoOp /\ imgOps < MaxImgOps /\ imgOps' = imgOps + 1
      /\ iop' = [NoOp EXCEPT !.kind = k, !.img = i, !.step = s]
      /\ UNCHANGED <<dev, archive, listed, tmps, slimmed, erasing, told, stranded, imgCrashes>>
  BY <1>1 DEF StartOp
<1>3. /\ iop' \in OpRec /\ iop'.kind = k /\ iop'.img = i /\ iop'.step = s /\ iop'.made = <<>>
  <2> DEFINE m == NoOp
             f == iop'
  <2>1. m \in OpRec /\ m.made = <<>> /\ f = [m EXCEPT !.kind = k, !.img = i, !.step = s]
    BY <1>2, NoOpIs
  <2> HIDE DEF m, f
  <2>2. f \in OpRec /\ f.kind = k /\ f.img = i /\ f.step = s /\ f.made = m.made
    BY <2>1 DEF OpRec
  <2> QED
    BY <2>1, <2>2 DEF f
<1>4. Made = {} /\ Made' = {} /\ iop.kind = "none"
  BY <1>2, <1>3, NoOpIs DEF Made
<1>5. Hidden' = Hidden /\ Public' = Public
  BY <1>2, NamesSame
<1>t. ImgTypeOK'
  <2>1. imgOps' \in 0..MaxImgOps
    BY <1>2, ImagesAssumption DEF ImgTypeOK
  <2>2. StoreHas'
    BY <1>2, <2>1, ImgTypeParts DEF StoreHas
  <2> QED
    BY <1>2, <1>3, <1>4, <2>2, ImgTypeParts, ImgTypePartsNext
<1>o. OpIn'
  BY <1>1, <1>2, <1>3 DEF OpIn
<1>h. HiddenKnown'
  BY <1>1, <1>2, <1>3, <1>4, <1>5 DEF HiddenKnown
<1>s. StampIn'
  BY <1>1, <1>3, <1>4 DEF StampIn
<1>v. ImgVisibleWhole'
  BY <1>2, VisibleSame DEF Public
<1>l. ImgListedBacked'
  BY <1>2 DEF ImgListedBacked
<1> QED
  BY <1>t, <1>o, <1>h, <1>s, <1>v, <1>l

(* What StoreHas needs of a step that leaves the store's files alone. *)
LEMMA StoreStays ==
  ASSUME ImgTypeOK, UNCHANGED <<archive, listed, stranded, Others_>>, tmps' \subseteq Img,
         slimmed' \subseteq Dev
  PROVE  StoreHas'
  BY ImgTypeParts DEF StoreHas, Others_

LEMMA BuildCreatesKeeps ==
  ASSUME ImgInv, BuildCreates
  PROVE  ImgInv'
<1> USE DEF ImgInv
<1>1. /\ iop.kind = "build" /\ iop.step = "create"
      /\ UNCHANGED <<archive, listed, tmps, slimmed, stranded, Others_>>
      /\ UNCHANGED <<erasing, told>>
  BY DEF BuildCreates, Others_
<1>2. /\ iop.img \in Img /\ iop.img \notin listed /\ iop.made = <<>> /\ Made = {} /\ tmps = {}
      /\ Hidden \subseteq stranded
  BY <1>1, MadeAre DEF OpIn, HiddenKnown
<1>3. CASE \E d \in Absent : Creates(d, IF iop.img \in SlimImg THEN "slim" ELSE "check")
  <2> DEFINE s == IF iop.img \in SlimImg THEN "slim" ELSE "check"
  <2>0. s \in ImgSteps /\ s \in {"slim", "check"} /\ \E d \in Absent : Creates(d, s)
    BY <1>3, ImgWords
  <2> HIDE DEF s
  <2> PICK d \in Absent : Creates(d, s)
    BY <2>0
  <2>1. /\ DevNow(d, "hidden", FALSE, "stock", FALSE, iop.img)
        /\ iop' \in OpRec /\ iop'.kind = iop.kind /\ iop'.img = iop.img /\ iop'.step = s
        /\ iop'.n = iop.n /\ iop'.made = <<Builder'>>
        /\ Made' = Made \cup {d} /\ Last_' = d
        /\ d \in Dev /\ dev[d].name = "none" /\ d \notin erasing \cup told
    BY <1>2, <2>0, CreatesIs
  <2>2. dev' \in [Dev -> DevRec] /\ dev'[d].name = "hidden" /\ \A e \in Dev \ {d} : dev'[e] = dev[e]
    BY <2>1 DEF DevNow
  <2>3. Hidden' = Hidden \cup {d} /\ Public' = Public
    BY <2>1, <2>2 DEF Hidden, Public
  <2>t. ImgTypeOK'
    <3>1. StoreHas'
      BY <1>1, StoreStays DEF ImgTypeOK
    <3> QED
      BY <1>1, <1>2, <2>1, <2>2, <3>1, ImgTypeParts, ImgTypePartsNext
  <2>o. OpIn'
    BY <1>1, <1>2, <2>0, <2>1 DEF OpIn
  <2>h. HiddenKnown'
    <3>1. s # "rename"
      BY <2>0
    <3> QED
      BY <1>1, <1>2, <2>1, <2>2, <2>3, <3>1 DEF HiddenKnown
  <2>s. StampIn'
    BY <1>1, <2>0, <2>1 DEF StampIn
  <2>v. ImgVisibleWhole'
    BY <1>1, <2>2, VisibleSame
  <2>l. ImgListedBacked'
    BY <1>1 DEF ImgListedBacked
  <2> QED
    BY <2>t, <2>o, <2>h, <2>s, <2>v, <2>l
<1>4. CASE iop' = NoOp /\ dev' = dev
  <2>1. /\ OpIn' /\ iop'.kind = "none" /\ Made' = {} /\ iop'.step = "none" /\ iop'.img = "none"
        /\ StampIn'
    BY <1>4, Idles
  <2>2. Hidden' = Hidden /\ Public' = Public
    BY <1>4, NamesSame
  <2>t. ImgTypeOK'
    <3>1. StoreHas'
      BY <1>1, StoreStays DEF ImgTypeOK
    <3>2. iop'.kind \in ImgKinds
      BY <2>1 DEF OpIn, OpRec
    <3> QED
      BY <1>4, <2>1, <3>1, <3>2, ImgTypeParts, ImgTypePartsNext
  <2>h. HiddenKnown'
    BY <1>1, <1>2, <2>1, <2>2 DEF HiddenKnown
  <2>v. ImgVisibleWhole'
    BY <1>1, <1>4, VisibleSame
  <2>l. ImgListedBacked'
    BY <1>1 DEF ImgListedBacked
  <2> QED
    BY <2>1, <2>t, <2>h, <2>v, <2>l
<1> QED
  BY <1>3, <1>4 DEF BuildCreates

(* A build goes on with the simulator it has: nothing becomes visible or   *)
(* hidden, and only its builder and its own archive change.                *)
LEMMA BuildGoes ==
  ASSUME ImgInv, iop.kind = "build", iop.step \notin {"create", "discard"}, NEW s \in ImgSteps, OpNow(s),
         s \in {"check", "pack", "packed", "recheck", "discard"},
         dev' \in [Dev -> DevRec], \A d \in Dev : dev'[d].name = dev[d].name,
         \A d \in Dev : d # Builder => dev'[d] = dev[d],
         archive' \in [Img -> ArcRec], \A i \in listed : archive'[i] = archive[i],
         listed' \subseteq Img, tmps' \subseteq {iop.img},
         UNCHANGED <<slimmed, stranded, Others_>>,
         s # "discard" => listed' = listed,
         \A i \in listed' \ listed : archive'[i].file # "none" /\ archive'[i].sum = "whole",
         s = "recheck" => archive'[iop.img].file = "whole"
           \/ (archive'[iop.img].file = "torn" /\ dev'[Builder].on)
  PROVE  ImgInv'
<1> USE DEF ImgInv
<1>1. /\ iop' \in OpRec /\ iop'.kind = iop.kind /\ iop'.img = iop.img /\ iop'.made = iop.made
      /\ iop'.step = s /\ Made' = Made /\ Builder' = Builder
  BY DEF OpNow
<1>2. /\ iop.img \in Img /\ (iop.step # "discard" => iop.img \notin listed)
      /\ iop.made = <<Builder>>
  BY DEF OpIn
<1>3. Builder \in Made /\ Made \subseteq Hidden /\ Made \subseteq Dev
  <2>1. iop.made[1] = Builder /\ Len(iop.made) = 1
    BY <1>2 DEF Builder
  <2>2. iop.step # "rename"
    BY DEF OpIn
  <2> QED
    BY <2>1, <2>2, MadeAre DEF HiddenKnown
<1>4. Hidden' = Hidden /\ Public' = Public
  BY NamesSame
<1>t. ImgTypeOK'
  <2>1. StoreHas'
    BY <1>2, ImgTypeParts DEF StoreHas, Others_
  <2> QED
    BY <1>1, <1>3, <2>1, ImgTypeParts, ImgTypePartsNext
<1>h. HiddenKnown'
  <2>1. s # "rename"
    OBVIOUS
  <2>2. \A d \in Made : dev'[d].name \in {"hidden", "public"}
    BY <1>3 DEF HiddenKnown
  <2>3. stranded' = stranded
    OBVIOUS
  <2>4. Hidden \subseteq stranded \cup Made
    BY DEF HiddenKnown
  <2>5. ~ (iop'.kind \in {"none", "delete", "sweep"} \/ iop'.step = "verify"
           \/ (iop'.kind = "build" /\ iop'.step = "create"))
    BY <1>1
  <2> QED
    BY <1>1, <1>3, <1>4, <2>1, <2>2, <2>3, <2>4, <2>5 DEF HiddenKnown
<1>s. StampIn'
  BY <1>1 DEF StampIn
<1>v. ImgVisibleWhole'
  <2>1. \A d \in Dev : dev'[d].name = "public" => d # Builder
    BY <1>3 DEF Hidden
  <2> QED
    BY <2>1, VisibleSame DEF Others_
<1>l. ImgListedBacked'
  BY DEF ImgListedBacked
<1>o. OpIn'
  BY <1>1, <1>2 DEF OpIn
<1> QED
  BY <1>t, <1>o, <1>h, <1>s, <1>v, <1>l

LEMMA BuildKeeps ==
  ASSUME ImgInv, SlimBuilder \/ BuildChecks \/ PackImage \/ BuildCommits
  PROVE  ImgInv'
<1> USE DEF ImgInv
<1>1. /\ iop.kind = "build" /\ iop.step \in {"slim", "check", "pack", "packed", "recheck"}
      /\ UNCHANGED <<slimmed, stranded, Others_>>
  BY DEF SlimBuilder, BuildChecks, PackImage, BuildCommits
<1>2. /\ iop.img \in Img /\ iop.img \notin listed /\ iop.made = <<Builder>> /\ tmps \subseteq {iop.img}
  BY <1>1 DEF OpIn, HiddenKnown
<1>3. Builder \in Dev
  <2>1. iop.made[1] = Builder /\ Len(iop.made) = 1
    BY <1>2 DEF Builder
  <2> QED
    BY <2>1, MadeAre
<1>4. /\ archive \in [Img -> ArcRec] /\ dev \in [Dev -> DevRec] /\ listed \subseteq Img
  BY DevTypes DEF ImgTypeOK
<1>5. CASE SlimBuilder
  <2>1. UNCHANGED <<archive, listed, tmps>>
    BY <1>5 DEF SlimBuilder
  <2>2. CASE dev' = [dev EXCEPT ![Builder].slim = TRUE] /\ ToStep("check")
    <3> DEFINE v == TRUE
    <3>1. v \in BOOLEAN /\ dev' = [dev EXCEPT ![Builder].slim = v]
      BY <2>2
    <3> HIDE DEF v
    <3>2. DevNow(Builder, dev[Builder].name, dev[Builder].on, dev[Builder].data, v, dev[Builder].of)
      BY <1>3, <3>1, DevSlimmed
    <3>3. /\ dev' \in [Dev -> DevRec] /\ \A d \in Dev : dev'[d].name = dev[d].name
          /\ \A d \in Dev : d # Builder => dev'[d] = dev[d]
      BY <3>2 DEF DevNow
    <3>4. OpNow("check")
      BY <2>2, OpStepIs, ImgWords
    <3> QED
      BY <1>1, <1>2, <1>4, <2>1, <3>3, <3>4, BuildGoes, ImgWords
  <2>3. CASE dev' = [dev EXCEPT ![Builder].on = TRUE] /\ ToStep("discard")
    <3> DEFINE v == TRUE
    <3>1. v \in BOOLEAN /\ dev' = [dev EXCEPT ![Builder].on = v]
      BY <2>3
    <3> HIDE DEF v
    <3>2. DevNow(Builder, dev[Builder].name, v, dev[Builder].data, dev[Builder].slim, dev[Builder].of)
      BY <1>3, <3>1, DevSwitched
    <3>3. /\ dev' \in [Dev -> DevRec] /\ \A d \in Dev : dev'[d].name = dev[d].name
          /\ \A d \in Dev : d # Builder => dev'[d] = dev[d]
      BY <3>2 DEF DevNow
    <3>4. OpNow("discard")
      BY <2>3, OpStepIs, ImgWords
    <3> QED
      BY <1>1, <1>2, <1>4, <2>1, <3>3, <3>4, BuildGoes, ImgWords
  <2>4. CASE ToStep("discard") /\ dev' = dev
    <3>1. OpNow("discard")
      BY <2>4, OpStepIs, ImgWords
    <3> QED
      BY <1>1, <1>2, <1>4, <2>1, <2>4, <3>1, BuildGoes, ImgWords
  <2> QED
    BY <1>5, <2>2, <2>3, <2>4 DEF SlimBuilder
<1>6. CASE BuildChecks
  <2>1. UNCHANGED <<dev, archive, listed, tmps>> /\ (OpNow("discard") \/ OpNow("pack"))
    BY <1>6, OpStepIs, ImgWords DEF BuildChecks
  <2> QED
    BY <1>1, <1>2, <1>4, <2>1, BuildGoes, ImgWords
<1>7. CASE PackImage
  <2>1. UNCHANGED <<dev, listed>>
    BY <1>7 DEF PackImage
  <2>2. CASE tmps' = tmps \cup {iop.img} /\ ToStep("packed") /\ archive' = archive
    <3>1. OpNow("packed")
      BY <2>2, OpStepIs, ImgWords
    <3> QED
      BY <1>1, <1>2, <1>4, <2>1, <2>2, <3>1, BuildGoes, ImgWords
  <2>3. CASE tmps' = tmps \ {iop.img} /\ ToStep("discard") /\ archive' = archive
    <3>1. OpNow("discard")
      BY <2>3, OpStepIs, ImgWords
    <3> QED
      BY <1>1, <1>2, <1>4, <2>1, <2>3, <3>1, BuildGoes, ImgWords
  <2>4. CASE /\ tmps' = tmps \ {iop.img} /\ ToStep("recheck")
             /\ archive' = [archive EXCEPT ![iop.img].file = IF dev[Builder].on THEN "torn" ELSE "whole"]
    <3>1. OpNow("recheck")
      BY <2>4, OpStepIs, ImgWords
    <3> DEFINE v == IF dev[Builder].on THEN "torn" ELSE "whole"
    <3>2. v \in {"none", "whole", "torn", "swapped"} /\ archive' = [archive EXCEPT ![iop.img].file = v]
          /\ (v = "whole" \/ (v = "torn" /\ dev[Builder].on))
      BY <2>4
    <3> HIDE DEF v
    <3>3. /\ archive' \in [Img -> ArcRec] /\ archive'[iop.img].file = v
          /\ \A i \in Img : i # iop.img => archive'[i] = archive[i]
      BY <1>2, <1>4, <3>2 DEF ArcRec
    <3>4. \A i \in listed : archive'[i] = archive[i]
      BY <1>2, <1>4, <3>3
    <3> QED
      BY <1>1, <1>2, <1>4, <2>1, <2>4, <3>1, <3>2, <3>3, <3>4, BuildGoes, ImgWords
  <2> QED
    BY <1>7, <2>2, <2>3, <2>4 DEF PackImage
<1>8. CASE BuildCommits
  <2>1. iop.step = "recheck" /\ OpNow("discard") /\ UNCHANGED <<dev, tmps>>
    BY <1>8, OpStepIs, ImgWords DEF BuildCommits
  <2>2. CASE /\ ~ dev[Builder].on /\ listed' = listed \cup {iop.img}
             /\ archive' = [archive EXCEPT ![iop.img].sum = archive[iop.img].file]
    <3> DEFINE v == archive[iop.img].file
    <3>1. v = "whole" /\ archive' = [archive EXCEPT ![iop.img].sum = v]
      BY <1>1, <2>1, <2>2 DEF StampIn
    <3>0. v \in {"none", "whole", "torn"} /\ archive[iop.img].file = v
      BY <3>1
    <3> HIDE DEF v
    <3>2. /\ archive' \in [Img -> ArcRec] /\ archive'[iop.img].file = archive[iop.img].file
          /\ archive'[iop.img].sum = v
          /\ \A i \in Img : i # iop.img => archive'[i] = archive[i]
      BY <1>2, <1>4, <3>0, <3>1 DEF ArcRec
    <3>3. \A i \in listed : archive'[i] = archive[i]
      BY <1>2, <1>4, <3>2
    <3>4. \A i \in listed' \ listed : archive'[i].file # "none" /\ archive'[i].sum = "whole"
      BY <2>2, <3>0, <3>1, <3>2
    <3> QED
      BY <1>1, <1>2, <1>4, <2>1, <2>2, <3>2, <3>3, <3>4, BuildGoes, ImgWords
  <2>3. CASE archive' = [archive EXCEPT ![iop.img].file = "none"] /\ listed' = listed
    <3> DEFINE v == "none"
    <3>1. v \in {"none", "whole", "torn", "swapped"} /\ archive' = [archive EXCEPT ![iop.img].file = v]
      BY <2>3
    <3> HIDE DEF v
    <3>2. /\ archive' \in [Img -> ArcRec] /\ \A i \in Img : i # iop.img => archive'[i] = archive[i]
      BY <1>2, <1>4, <3>1 DEF ArcRec
    <3>3. \A i \in listed : archive'[i] = archive[i]
      BY <1>2, <1>4, <3>2
    <3> QED
      BY <1>1, <1>2, <1>4, <2>1, <2>3, <3>2, <3>3, BuildGoes, ImgWords
  <2> QED
    BY <1>8, <2>2, <2>3 DEF BuildCommits
<1> QED
  BY <1>5, <1>6, <1>7, <1>8

(* Simulators are deleted, or left for the next clean-up. *)
LEMMA DeletesIs ==
  ASSUME ImgTypeOK, NEW ds \in SUBSET Dev, Deletes(ds)
  PROVE  /\ dev' \in [Dev -> DevRec] /\ stranded' \subseteq Dev
         /\ \A d \in Dev : dev'[d] = dev[d] \/ (d \in ds /\ dev'[d].name = "none")
         /\ Hidden' \subseteq (Hidden \ ds) \cup stranded'
         /\ \A d \in stranded \ ds : d \in stranded'
         /\ \A d \in Public' : d \in Public /\ dev'[d] = dev[d]
<1> PICK gone \in SUBSET ds :
      /\ dev' = [d \in Dev |-> IF d \in gone THEN NoDev ELSE dev[d]]
      /\ stranded' = (stranded \cup ds) \ gone
  BY DEF Deletes
<1>1. \A d \in Dev : dev'[d] = IF d \in gone THEN NoDev ELSE dev[d]
  OBVIOUS
<1>2. dev' \in [Dev -> DevRec]
  BY NoDevIs, DevTypes
<1>3. \A d \in Dev : dev'[d] = dev[d] \/ (d \in ds /\ dev'[d].name = "none")
  BY <1>1, NoDevIs
<1>4. Hidden' \subseteq (Hidden \ ds) \cup stranded'
  BY <1>1, NoDevIs DEF Hidden
<1>5. \A d \in Public' : d \in Public /\ dev'[d] = dev[d]
  BY <1>1, NoDevIs DEF Public
<1>6. stranded' \subseteq Dev
  BY DEF ImgTypeOK
<1> QED
  BY <1>2, <1>3, <1>4, <1>5, <1>6

LEMMA CleanupKeeps ==
  ASSUME ImgInv, Cleanup
  PROVE  ImgInv'
<1> USE DEF ImgInv
<1>1. /\ iop.kind \in {"build", "stamp"} /\ iop.step = "discard" /\ Deletes(Made)
      /\ slimmed' = slimmed \ Made /\ iop' = NoOp /\ tmps' = tmps \ {iop.img}
      /\ UNCHANGED <<archive, listed, erasing, told, imgOps, imgCrashes>>
  BY DEF Cleanup, Others_
<1>2. Made \subseteq Dev /\ Made \subseteq Hidden /\ Hidden \subseteq stranded \cup Made
      /\ tmps \subseteq {iop.img}
  BY <1>1, MadeAre DEF HiddenKnown
<1>3. /\ dev' \in [Dev -> DevRec] /\ stranded' \subseteq Dev
      /\ Hidden' \subseteq (Hidden \ Made) \cup stranded'
      /\ (\A d \in stranded \ Made : d \in stranded')
      /\ \A d \in Public' : d \in Public /\ dev'[d] = dev[d]
  BY <1>1, <1>2, DeletesIs
<1>4. /\ OpIn' /\ iop'.kind = "none" /\ Made' = {} /\ iop'.step = "none" /\ iop'.img = "none"
      /\ StampIn'
  BY <1>1, Idles
<1>t. ImgTypeOK'
  <2>1. StoreHas'
    BY <1>1, <1>3, ImgTypeParts DEF StoreHas
  <2>2. iop'.kind \in ImgKinds
    BY <1>4 DEF OpIn, OpRec
  <2> QED
    BY <1>3, <1>4, <2>1, <2>2, ImgTypePartsNext
<1>h. HiddenKnown'
  <2>1. Hidden' \subseteq stranded'
    BY <1>2, <1>3
  <2>2. tmps' = {}
    BY <1>1, <1>2
  <2> QED
    BY <1>4, <2>1, <2>2 DEF HiddenKnown
<1>v. ImgVisibleWhole'
  <2>1. \A d \in Public : d \notin Made
    BY <1>2 DEF Public, Hidden
  <2>2. \A d \in Public' : d \in Dev
    BY DEF Public
  <2> QED
    BY <1>1, <1>3, <2>1 DEF ImgVisibleWhole
<1>l. ImgListedBacked'
  BY <1>1 DEF ImgListedBacked
<1> QED
  BY <1>4, <1>t, <1>h, <1>v, <1>l

LEMMA CrashKeeps ==
  ASSUME ImgInv, ImgCrash
  PROVE  ImgInv'
<1> USE DEF ImgInv
<1>1. /\ imgCrashes < MaxImgCrashes /\ imgCrashes' = imgCrashes + 1
      /\ iop' = [NoOp EXCEPT !.kind = "sweep"] /\ tmps' = {}
      /\ told' = told \cup erasing /\ erasing' = {} /\ stranded' = Hidden
      /\ UNCHANGED <<dev, archive, listed, slimmed, imgOps>>
  BY DEF ImgCrash
<1>2. iop' \in OpRec /\ iop'.kind = "sweep" /\ iop'.made = <<>> /\ iop'.step = "none" /\ Made' = {}
  <2>1. iop' \in OpRec /\ iop'.kind = "sweep" /\ iop'.made = <<>> /\ iop'.step = "none"
    <3> DEFINE m == NoOp
               k == "sweep"
               f == iop'
    <3>1. m \in OpRec /\ f = [m EXCEPT !.kind = k] /\ k \in ImgKinds /\ m.made = <<>> /\ m.step = "none"
      BY <1>1, NoOpIs DEF ImgKinds
    <3> HIDE DEF m, k, f
    <3>2. f \in OpRec /\ f.kind = k /\ f.made = m.made /\ f.step = m.step
      BY <3>1 DEF OpRec
    <3> QED
      BY <3>1, <3>2 DEF f, k
  <2> QED
    BY <2>1 DEF Made
<1>3. Hidden' = Hidden /\ Hidden \subseteq Dev
  BY <1>1, NamesSame DEF Hidden
<1>t. ImgTypeOK'
  <2>1. imgCrashes' \in 0..MaxImgCrashes
    BY <1>1, ImagesAssumption DEF ImgTypeOK
  <2>2. StoreHas'
    BY <1>1, <1>3, <2>1, ImgTypeParts DEF StoreHas
  <2> QED
    BY <1>1, <1>2, <2>2, ImgTypeParts, ImgTypePartsNext DEF OpRec
<1>o. OpIn'
  BY <1>2 DEF OpIn
<1>h. HiddenKnown'
  BY <1>1, <1>2, <1>3 DEF HiddenKnown
<1>s. StampIn'
  BY <1>2 DEF StampIn
<1>v. ImgVisibleWhole'
  BY <1>1, VisibleSame
<1>l. ImgListedBacked'
  BY <1>1 DEF ImgListedBacked
<1> QED
  BY <1>t, <1>o, <1>h, <1>s, <1>v, <1>l

LEMMA SweepKeeps ==
  ASSUME ImgInv, SweepOrphans
  PROVE  ImgInv'
<1> USE DEF ImgInv
<1>1. /\ iop.kind = "sweep" /\ iop' = NoOp
      /\ UNCHANGED <<archive, listed, tmps, erasing, told, imgOps, imgCrashes>>
  BY DEF SweepOrphans, Others_
<1> DEFINE orphans == {d \in Hidden : ~ dev[d].on}
           exists == (Hidden \cup Public) \ orphans
<1>2. \/ Deletes(orphans) /\ slimmed' = Prune(exists)
      \/ slimmed' = slimmed /\ dev' = dev /\ stranded' = stranded
  BY DEF SweepOrphans, Prune
<1>3. orphans \subseteq Hidden /\ Hidden \subseteq Dev /\ Made = {} /\ Hidden \subseteq stranded
      /\ tmps = {}
  BY <1>1, MadeAre DEF OpIn, HiddenKnown, Hidden
<1>4. /\ dev' \in [Dev -> DevRec] /\ stranded' \subseteq Dev /\ Hidden' \subseteq stranded'
      /\ \A d \in Public' : d \in Public /\ dev'[d] = dev[d]
  <2>1. CASE Deletes(orphans)
    <3> HIDE DEF orphans
    <3>1. orphans \in SUBSET Dev
      BY <1>3
    <3>2. /\ dev' \in [Dev -> DevRec] /\ stranded' \subseteq Dev
          /\ Hidden' \subseteq (Hidden \ orphans) \cup stranded'
          /\ (\A d \in stranded \ orphans : d \in stranded')
          /\ \A d \in Public' : d \in Public /\ dev'[d] = dev[d]
      BY <2>1, <3>1, DeletesIs
    <3> QED
      BY <1>3, <3>2
  <2>2. CASE dev' = dev /\ stranded' = stranded
    BY <1>3, <2>2, NamesSame, DevTypes DEF ImgTypeOK
  <2> QED
    BY <1>2, <2>1, <2>2
<1>5. slimmed' \subseteq slimmed /\ \A d \in Public : d \in slimmed => d \in slimmed'
  <2>1. Public \subseteq exists
    BY DEF Public, Hidden
  <2> HIDE DEF exists, orphans
  <2> QED
    BY <1>2, <2>1 DEF Prune
<1>6. /\ OpIn' /\ iop'.kind = "none" /\ Made' = {} /\ iop'.step = "none" /\ iop'.img = "none"
      /\ StampIn'
  BY <1>1, Idles
<1>t. ImgTypeOK'
  <2>1. StoreHas'
    BY <1>1, <1>4, <1>5, ImgTypeParts DEF StoreHas
  <2>2. iop'.kind \in ImgKinds
    BY <1>6 DEF OpIn, OpRec
  <2> QED
    BY <1>4, <1>6, <2>1, <2>2, ImgTypePartsNext
<1>h. HiddenKnown'
  BY <1>1, <1>3, <1>4, <1>6 DEF HiddenKnown
<1>v. ImgVisibleWhole'
  BY <1>1, <1>4, <1>5 DEF ImgVisibleWhole
<1>l. ImgListedBacked'
  BY <1>1 DEF ImgListedBacked
<1> QED
  BY <1>6, <1>t, <1>h, <1>v, <1>l

-----------------------------------------------------------------------------
(* The stamp.                                                              *)

(* What a stamp has made is hidden until it is recorded.                   *)
LEMMA StampKnown ==
  ASSUME ImgInv, iop.kind = "stamp"
  PROVE  /\ iop.img \in Img /\ iop.img \in listed /\ Made \subseteq Dev /\ tmps \subseteq {iop.img}
         /\ iop.made \in Seq(Dev) /\ Hidden \subseteq stranded \cup Made
         /\ iop.step # "rename" => Made \subseteq Hidden
         /\ \A d \in Made : dev[d].of = iop.img /\ dev[d].name \in {"hidden", "public"}
         /\ iop.made # <<>> => Last_ \in Made /\ Len(iop.made) \in Nat \ {0}
         /\ iop.step = "verify" => iop.made = <<>> /\ Made = {} /\ tmps = {}
  BY MadeAre DEF ImgInv, OpIn, HiddenKnown, StampIn

(* A stamp goes on with the simulators it has; the last of them may change,*)
(* and stays hidden.                                                       *)
LEMMA StampGoes ==
  ASSUME ImgInv, iop.kind = "stamp", iop.step \notin {"verify", "rename", "discard"},
         NEW s \in ImgSteps, OpNow(s),
         s \in {"create", "check", "replace", "reslim", "commit", "record", "discard"},
         s \notin {"create", "discard"} => iop.made # <<>>,
         dev' \in [Dev -> DevRec],
         \A d \in Dev : dev'[d].name = dev[d].name /\ dev'[d].of = dev[d].of,
         \A d \in Dev : d # Last_ => dev'[d] = dev[d],
         iop.made = <<>> => dev' = dev,
         UNCHANGED <<archive, listed, tmps, slimmed, stranded, Others_>>,
         s \in {"create", "commit"} => \A d \in Made : Done(d)',
         s \in {"check", "replace", "reslim"} => \A d \in Made \ {Last_} : Done(d),
         s = "reslim" => dev'[Last_].data = "image" \/ dev'[Last_].on,
         s = "record" => \A d \in Made :
           dev'[d].data = "image" /\ (iop.img \in SlimImg => dev'[d].slim)
  PROVE  ImgInv'
<1> USE DEF ImgInv
<1>1. /\ iop' \in OpRec /\ iop'.kind = iop.kind /\ iop'.img = iop.img /\ iop'.made = iop.made
      /\ iop'.step = s /\ Made' = Made /\ Last_' = Last_
  BY DEF OpNow
<1>2. /\ iop.img \in Img /\ iop.img \in listed /\ Made \subseteq Dev /\ tmps \subseteq {iop.img}
      /\ Made \subseteq Hidden /\ Hidden \subseteq stranded \cup Made
      /\ (\A d \in Made : dev[d].of = iop.img /\ dev[d].name \in {"hidden", "public"})
      /\ (iop.made # <<>> => Last_ \in Made)
  BY StampKnown
<1>3. Hidden' = Hidden /\ Public' = Public
  BY NamesSame
<1>4. UNCHANGED <<erasing, told>>
  BY DEF Others_
<1>t. ImgTypeOK'
  <2>1. StoreHas'
    BY ImgTypeParts DEF StoreHas, Others_
  <2> QED
    BY <1>1, <1>2, <2>1, ImgTypeParts, ImgTypePartsNext
<1>o. OpIn'
  BY <1>1, <1>2 DEF OpIn
<1>h. HiddenKnown'
  <2>1. tmps' \subseteq {iop'.img}
    BY <1>1, <1>2
  <2>2. ~ (iop'.kind \in {"none", "delete", "sweep"} \/ iop'.step = "verify"
           \/ (iop'.kind = "build" /\ iop'.step = "create")) /\ iop'.step # "rename"
    BY <1>1
  <2>3. \A d \in Made' : dev'[d].name \in {"hidden", "public"}
    BY <1>1, <1>2
  <2> QED
    BY <1>1, <1>2, <1>3, <2>1, <2>2, <2>3 DEF HiddenKnown
<1>s. StampIn'
  <2>1. \A d \in Made' : dev'[d].of = iop'.img
    BY <1>1, <1>2
  <2>2. archive'[iop'.img].file = "whole"
    BY <1>1 DEF StampIn
  <2>3. ASSUME s \in {"check", "replace", "reslim"}, NEW d \in Made \ {Last_}
        PROVE  Done(d)'
    <3>1. dev'[d] = dev[d] /\ Done(d)
      BY <1>2, <2>3
    <3> QED
      BY <1>1, <3>1 DEF Done
  <2>4. Made' \cap (erasing \cup told)' = {}
    BY <1>1, <1>4 DEF StampIn
  <2>5. ~ (iop'.kind = "build") /\ iop'.step # "rename"
    BY <1>1
  <2> QED
    BY <1>1, <2>1, <2>2, <2>3, <2>4, <2>5 DEF StampIn
<1>v. ImgVisibleWhole'
  <2>1. ASSUME NEW d \in Dev, dev'[d].name = "public" PROVE dev'[d] = dev[d]
    BY <1>2, <2>1 DEF Hidden
  <2> QED
    BY <1>4, <2>1, VisibleSame
<1>l. ImgListedBacked'
  BY DEF ImgListedBacked
<1> QED
  BY <1>t, <1>o, <1>h, <1>s, <1>v, <1>l

LEMMA VerifyKeeps ==
  ASSUME ImgInv, StampVerifies
  PROVE  ImgInv'
<1> USE DEF ImgInv
<1>1. /\ iop.kind = "stamp" /\ iop.step = "verify"
      /\ UNCHANGED <<dev, archive, listed, slimmed, stranded, Others_>>
      /\ UNCHANGED <<erasing, told>>
  BY DEF StampVerifies, Others_
<1>2. /\ iop.img \in Img /\ iop.img \in listed /\ Made = {} /\ iop.made = <<>> /\ tmps = {}
      /\ Hidden \subseteq stranded
  BY <1>1, StampKnown
<1>3. Hidden' = Hidden /\ Public' = Public
  BY <1>1, NamesSame
<1>v. ImgVisibleWhole'
  BY <1>1, VisibleSame
<1>l. ImgListedBacked'
  BY <1>1 DEF ImgListedBacked
<1>4. CASE /\ archive[iop.img].file = archive[iop.img].sum /\ tmps' = tmps \cup {iop.img}
           /\ ToStep("create")
  <2>1. /\ iop' \in OpRec /\ iop'.kind = iop.kind /\ iop'.img = iop.img /\ iop'.made = iop.made
        /\ iop'.step = "create" /\ Made' = Made
    BY <1>4, OpStepIs, ImgWords DEF OpNow
  <2>t. ImgTypeOK'
    <3>1. StoreHas'
      BY <1>1, <1>2, <1>4, StoreStays DEF ImgTypeOK
    <3> QED
      BY <1>1, <1>2, <2>1, <3>1, ImgTypeParts, ImgTypePartsNext
  <2>o. OpIn'
    BY <1>1, <1>2, <2>1 DEF OpIn
  <2>h. HiddenKnown'
    BY <1>1, <1>2, <1>3, <1>4, <2>1 DEF HiddenKnown
  <2>s. StampIn'
    <3>1. archive'[iop'.img].file = "whole"
      BY <1>1, <1>2, <1>4, <2>1 DEF ImgListedBacked
    <3> QED
      BY <1>1, <1>2, <2>1, <3>1 DEF StampIn
  <2> QED
    BY <1>v, <1>l, <2>t, <2>o, <2>h, <2>s
<1>5. CASE iop' = NoOp /\ tmps' = tmps
  <2>1. /\ OpIn' /\ iop'.kind = "none" /\ Made' = {} /\ iop'.step = "none" /\ iop'.img = "none"
        /\ StampIn'
    BY <1>5, Idles
  <2>t. ImgTypeOK'
    <3>1. StoreHas'
      BY <1>1, <1>5, StoreStays DEF ImgTypeOK
    <3>2. iop'.kind \in ImgKinds
      BY <2>1 DEF OpIn, OpRec
    <3> QED
      BY <1>1, <2>1, <3>1, <3>2, ImgTypeParts, ImgTypePartsNext
  <2>h. HiddenKnown'
    BY <1>1, <1>2, <1>3, <1>5, <2>1 DEF HiddenKnown
  <2> QED
    BY <1>v, <1>l, <2>1, <2>t, <2>h
<1> QED
  BY <1>4, <1>5 DEF StampVerifies

LEMMA StampCreatesKeeps ==
  ASSUME ImgInv, StampCreates
  PROVE  ImgInv'
<1> USE DEF ImgInv
<1>1. /\ iop.kind = "stamp" /\ iop.step = "create"
      /\ UNCHANGED <<archive, listed, tmps, slimmed, stranded, Others_>>
      /\ UNCHANGED <<erasing, told>>
  BY DEF StampCreates, Others_
<1>2. /\ iop.img \in Img /\ iop.img \in listed /\ Made \subseteq Dev /\ tmps \subseteq {iop.img}
      /\ Made \subseteq Hidden /\ Hidden \subseteq stranded \cup Made
      /\ \A d \in Made : dev[d].of = iop.img /\ dev[d].name \in {"hidden", "public"}
  BY <1>1, StampKnown
<1>3. CASE \E d \in Absent : Creates(d, "check")
  <2> DEFINE s == "check"
  <2>0. s \in ImgSteps /\ s = "check" /\ \E d \in Absent : Creates(d, s)
    BY <1>3, ImgWords
  <2> HIDE DEF s
  <2> PICK d \in Absent : Creates(d, s)
    BY <2>0
  <2>1. /\ DevNow(d, "hidden", FALSE, "stock", FALSE, iop.img)
        /\ iop' \in OpRec /\ iop'.kind = iop.kind /\ iop'.img = iop.img /\ iop'.step = s
        /\ iop'.made # <<>> /\ Made' = Made \cup {d} /\ Last_' = d
        /\ d \in Dev /\ dev[d].name = "none" /\ d \notin erasing \cup told
    BY <1>2, <2>0, CreatesIs
  <2>2. /\ dev' \in [Dev -> DevRec] /\ dev'[d].name = "hidden" /\ dev'[d].of = iop.img
        /\ \A e \in Dev \ {d} : dev'[e] = dev[e]
    BY <2>1 DEF DevNow
  <2>3. Hidden' = Hidden \cup {d} /\ Public' = Public /\ d \notin Made
    BY <1>2, <2>1, <2>2 DEF Hidden, Public
  <2>t. ImgTypeOK'
    <3>1. StoreHas'
      BY <1>1, StoreStays DEF ImgTypeOK
    <3> QED
      BY <1>1, <1>2, <2>1, <2>2, <3>1, ImgTypeParts, ImgTypePartsNext
  <2>o. OpIn'
    BY <1>1, <1>2, <2>0, <2>1 DEF OpIn
  <2>h. HiddenKnown'
    <3>1. \A e \in Made' : dev'[e].name \in {"hidden", "public"}
      BY <1>2, <2>1, <2>2, <2>3
    <3> QED
      BY <1>1, <1>2, <2>0, <2>1, <2>3, <3>1 DEF HiddenKnown
  <2>s. StampIn'
    <3>1. \A e \in Made' : dev'[e].of = iop'.img
      BY <1>2, <2>1, <2>2, <2>3
    <3>2. archive'[iop'.img].file = "whole"
      BY <1>1, <2>1 DEF StampIn
    <3>3. ASSUME NEW e \in Made' \ {Last_'} PROVE Done(e)'
      <4>1. e \in Made /\ dev'[e] = dev[e]
        BY <1>2, <2>1, <2>2
      <4>2. Done(e)
        BY <1>1, <4>1 DEF StampIn
      <4> QED
        BY <2>1, <4>1, <4>2 DEF Done
    <3>4. Made' \cap (erasing \cup told)' = {}
      BY <1>1, <2>1 DEF StampIn
    <3> QED
      BY <1>1, <2>0, <2>1, <3>1, <3>2, <3>3, <3>4 DEF StampIn
  <2>v. ImgVisibleWhole'
    BY <1>1, <2>2, VisibleSame
  <2>l. ImgListedBacked'
    BY <1>1 DEF ImgListedBacked
  <2> QED
    BY <2>t, <2>o, <2>h, <2>s, <2>v, <2>l
<1>4. CASE ToStep("discard") /\ dev' = dev
  <2>1. OpNow("discard")
    BY <1>4, OpStepIs, ImgWords
  <2> QED
    BY <1>1, <1>4, <2>1, StampGoes, DevTypes, ImgWords
<1> QED
  BY <1>3, <1>4 DEF StampCreates

LEMMA StampStepKeeps ==
  ASSUME ImgInv, StampChecks \/ StampReplaces \/ ReslimStamped \/ StampRechecks
  PROVE  ImgInv'
<1> USE DEF ImgInv
<1>1. /\ iop.kind = "stamp" /\ iop.step \in {"check", "replace", "reslim", "commit"}
      /\ UNCHANGED <<archive, listed, tmps, slimmed, stranded, Others_>>
  BY DEF StampChecks, StampReplaces, ReslimStamped, StampRechecks
<1>2. Made \subseteq Dev /\ iop.img \in Img /\ (iop.made # <<>> => Last_ \in Made)
      /\ dev \in [Dev -> DevRec]
  BY <1>1, StampKnown, DevTypes
<1>3. iop.made # <<>>
  BY <1>1 DEF OpIn
<1>6. archive[iop.img].file = "whole"
  BY <1>1 DEF StampIn
<1>4. Last_ \in Made /\ Last_ \in Dev
  BY <1>2, <1>3
<1>d. ASSUME dev' = dev, ToStep("discard")
      PROVE  ImgInv'
  <2>1. OpNow("discard")
    BY <1>d, OpStepIs, ImgWords
  <2> QED
    BY <1>1, <1>2, <1>3, <1>d, <2>1, StampGoes, ImgWords
<1>5. CASE StampChecks
  <2>1. iop.step = "check" /\ dev' = dev
    BY <1>5 DEF StampChecks
  <2>2. CASE ToStep("replace")
    <3>1. OpNow("replace")
      BY <2>2, OpStepIs, ImgWords
    <3>2. \A d \in Made \ {Last_} : Done(d)
      BY <1>1, <2>1 DEF StampIn
    <3> QED
      BY <1>1, <1>2, <1>3, <2>1, <3>1, <3>2, StampGoes, ImgWords
  <2> QED
    BY <1>5, <1>d, <2>1, <2>2 DEF StampChecks
<1>7. CASE StampReplaces
  <2>1. iop.step = "replace" /\ \A d \in Made \ {Last_} : Done(d)
    BY <1>1, <1>7 DEF StampReplaces, StampIn
  <2>2. CASE /\ dev' = [dev EXCEPT ![Last_].data =
                    IF dev[Last_].on \/ archive[iop.img].file # "whole" THEN "torn" ELSE "image"]
             /\ ToStep(IF iop.img \in SlimImg THEN "reslim" ELSE AfterOne)
    <3> DEFINE v == IF dev[Last_].on \/ archive[iop.img].file # "whole" THEN "torn" ELSE "image"
    <3>1. /\ v \in {"stock", "image", "torn"} /\ dev' = [dev EXCEPT ![Last_].data = v]
          /\ v = "image" \/ dev[Last_].on
      BY <1>6, <2>2
    <3> HIDE DEF v
    <3>2. DevNow(Last_, dev[Last_].name, dev[Last_].on, v, dev[Last_].slim, dev[Last_].of)
      BY <1>4, <3>1, DevFilled
    <3>3. /\ dev' \in [Dev -> DevRec] /\ \A d \in Dev : d # Last_ => dev'[d] = dev[d]
          /\ \A d \in Dev : dev'[d].name = dev[d].name /\ dev'[d].of = dev[d].of
          /\ dev'[Last_].data = "image" \/ dev'[Last_].on
      BY <1>4, <3>1, <3>2 DEF DevNow
    <3>4. CASE iop.img \in SlimImg
      <4>1. OpNow("reslim")
        BY <2>2, <3>4, OpStepIs, ImgWords
      <4> QED
        BY <1>1, <1>3, <2>1, <3>3, <4>1, StampGoes, ImgWords
    <3>5. CASE iop.img \notin SlimImg
      <4> DEFINE s == AfterOne
      <4>1. s \in {"create", "commit"} /\ s \in ImgSteps
        BY ImgWords DEF AfterOne
      <4>2. ToStep(s)
        BY <2>2, <3>5
      <4> HIDE DEF s
      <4>3. OpNow(s)
        BY <4>1, <4>2, OpStepIs
      <4>4. \A d \in Made : Done(d)'
        <5>1. iop'.img = iop.img /\ Last_' = Last_
          BY <4>3 DEF OpNow
        <5>2. \A d \in Made : d # Last_ => dev'[d] = dev[d] /\ Done(d)
          BY <1>2, <2>1, <3>3
        <5> QED
          BY <3>3, <3>5, <5>1, <5>2 DEF Done
      <4>5. s \notin {"check", "replace", "reslim", "record"}
        BY <4>1
      <4> QED
        BY <1>1, <1>3, <3>3, <4>1, <4>3, <4>4, <4>5, StampGoes
    <3> QED
      BY <3>4, <3>5
  <2> QED
    BY <1>7, <1>d, <2>2 DEF StampReplaces
<1>8. CASE ReslimStamped
  <2>1. /\ iop.step = "reslim" /\ \A d \in Made \ {Last_} : Done(d)
        /\ dev[Last_].data = "image" \/ dev[Last_].on
    BY <1>1, <1>8 DEF ReslimStamped, StampIn
  <2>2. CASE ~ dev[Last_].on /\ dev' = [dev EXCEPT ![Last_].slim = TRUE] /\ ToStep(AfterOne)
    <3> DEFINE v == TRUE
    <3>1. v \in BOOLEAN /\ v /\ dev' = [dev EXCEPT ![Last_].slim = v]
      BY <2>2
    <3> HIDE DEF v
    <3>2. DevNow(Last_, dev[Last_].name, dev[Last_].on, dev[Last_].data, v, dev[Last_].of)
      BY <1>4, <3>1, DevSlimmed
    <3>3. /\ dev' \in [Dev -> DevRec] /\ \A d \in Dev : d # Last_ => dev'[d] = dev[d]
          /\ \A d \in Dev : dev'[d].name = dev[d].name /\ dev'[d].of = dev[d].of
          /\ dev'[Last_].data = "image" \/ dev'[Last_].on
          /\ dev'[Last_].slim
      BY <1>4, <2>1, <3>1, <3>2 DEF DevNow
    <3> DEFINE s == AfterOne
    <3>5. s \in {"create", "commit"} /\ s \in ImgSteps
      BY ImgWords DEF AfterOne
    <3>6. ToStep(s)
      BY <2>2
    <3> HIDE DEF s
    <3>7. OpNow(s)
      BY <3>5, <3>6, OpStepIs
    <3>8. \A d \in Made : Done(d)'
      <4>1. iop'.img = iop.img /\ Last_' = Last_
        BY <3>7 DEF OpNow
      <4>2. \A d \in Made : d # Last_ => dev'[d] = dev[d] /\ Done(d)
        BY <1>2, <2>1, <3>3
      <4> QED
        BY <3>3, <4>1, <4>2 DEF Done
    <3>9. s \notin {"check", "replace", "reslim", "record"}
      BY <3>5
    <3> QED
      BY <1>1, <1>3, <3>3, <3>5, <3>7, <3>8, <3>9, StampGoes
  <2>3. CASE ToStep("discard") /\ \E on \in BOOLEAN : dev' = [dev EXCEPT ![Last_].on = @ \/ on]
    <3> PICK on \in BOOLEAN : dev' = [dev EXCEPT ![Last_].on = @ \/ on]
      BY <2>3
    <3> DEFINE v == dev[Last_].on \/ on
    <3>1. v \in BOOLEAN /\ dev' = [dev EXCEPT ![Last_].on = v]
      BY <1>2
    <3> HIDE DEF v
    <3>2. DevNow(Last_, dev[Last_].name, v, dev[Last_].data, dev[Last_].slim, dev[Last_].of)
      BY <1>4, <3>1, DevSwitched
    <3>3. /\ dev' \in [Dev -> DevRec] /\ \A d \in Dev : d # Last_ => dev'[d] = dev[d]
          /\ \A d \in Dev : dev'[d].name = dev[d].name /\ dev'[d].of = dev[d].of
      BY <1>4, <3>2 DEF DevNow
    <3>4. OpNow("discard")
      BY <2>3, OpStepIs, ImgWords
    <3> QED
      BY <1>1, <1>3, <3>3, <3>4, StampGoes, ImgWords
  <2> QED
    BY <1>8, <2>2, <2>3 DEF ReslimStamped
<1>9. CASE StampRechecks
  <2>1. iop.step = "commit" /\ dev' = dev /\ \A d \in Made : Done(d)
    BY <1>1, <1>9 DEF StampRechecks, StampIn
  <2>2. CASE (\A d \in Made : ~ dev[d].on) /\ ToStep("record")
    <3>1. OpNow("record")
      BY <2>2, OpStepIs, ImgWords
    <3>2. \A d \in Made : dev'[d].data = "image" /\ (iop.img \in SlimImg => dev'[d].slim)
      BY <2>1, <2>2 DEF Done
    <3> QED
      BY <1>1, <1>2, <1>3, <2>1, <3>1, <3>2, StampGoes, ImgWords
  <2> QED
    BY <1>9, <1>d, <2>1, <2>2 DEF StampRechecks
<1> QED
  BY <1>5, <1>7, <1>8, <1>9

LEMMA RecordKeeps ==
  ASSUME ImgInv, StampRecords
  PROVE  ImgInv'
<1> USE DEF ImgInv
<1>1. /\ iop.kind = "stamp" /\ iop.step = "record"
      /\ UNCHANGED <<dev, archive, listed, tmps, stranded, Others_>>
      /\ UNCHANGED <<erasing, told>>
  BY DEF StampRecords, Others_
<1>2. /\ iop.img \in Img /\ iop.img \in listed /\ Made \subseteq Dev /\ tmps \subseteq {iop.img}
      /\ Made \subseteq Hidden /\ Hidden \subseteq stranded \cup Made
      /\ (\A d \in Made : dev[d].of = iop.img /\ dev[d].name \in {"hidden", "public"})
      /\ iop.made # <<>> /\ Len(iop.made) \in Nat \ {0}
  BY <1>1, StampKnown DEF OpIn
<1>3. CASE /\ slimmed' = IF iop.img \in SlimImg THEN slimmed \cup Made ELSE slimmed
           /\ iop' = [iop EXCEPT !.step = "rename", !.n = 1]
  <2>1. /\ iop' \in OpRec /\ iop'.kind = iop.kind /\ iop'.img = iop.img /\ iop'.made = iop.made
        /\ iop'.step = "rename" /\ iop'.n = 1
    <3> DEFINE k == iop
               f == iop'
               s == "rename"
    <3>1. k \in OpRec /\ f = [k EXCEPT !.step = s, !.n = 1] /\ s \in ImgSteps
      BY <1>3, ImgWords DEF OpIn
    <3> HIDE DEF k, f, s
    <3>2. /\ f \in OpRec /\ f.kind = k.kind /\ f.img = k.img /\ f.made = k.made
          /\ f.step = s /\ f.n = 1
      BY <3>1 DEF OpRec
    <3> QED
      BY <3>2 DEF k, f, s
  <2>2. Made' = Made
    BY <2>1, MadeSame
  <2>3. Hidden' = Hidden /\ Public' = Public
    BY <1>1, NamesSame
  <2>4. slimmed \subseteq slimmed' /\ slimmed' \subseteq Dev
        /\ (iop.img \in SlimImg => Made \subseteq slimmed')
    BY <1>2, <1>3 DEF ImgTypeOK
  <2>t. ImgTypeOK'
    <3>1. StoreHas'
      BY <1>1, <2>4, StoreStays DEF ImgTypeOK
    <3> QED
      BY <1>1, <1>2, <2>1, <2>2, <3>1, ImgTypeParts, ImgTypePartsNext
  <2>o. OpIn'
    BY <1>1, <1>2, <2>1 DEF OpIn
  <2>h. HiddenKnown'
    <3>1. \A k \in 1..(iop'.n - 1) : FALSE
      BY <2>1
    <3>2. tmps' \subseteq {iop'.img} /\ iop'.kind = "stamp" /\ iop'.step = "rename"
      BY <1>1, <1>2, <2>1
    <3>3. \A d \in Made' : dev'[d].name \in {"hidden", "public"}
      BY <1>1, <1>2, <2>2
    <3>4. Hidden' \subseteq stranded' \cup Made'
      BY <1>1, <1>2, <2>2, <2>3
    <3> QED
      BY <3>1, <3>2, <3>3, <3>4 DEF HiddenKnown
  <2>s. StampIn'
    <3>1. ASSUME NEW d \in Made PROVE Whole(d)' /\ dev'[d].of = iop'.img
      BY <1>1, <1>2, <2>1, <2>4 DEF StampIn, Whole
    <3>2. archive'[iop'.img].file = "whole"
      BY <1>1, <2>1 DEF StampIn
    <3>3. iop'.kind = "stamp" /\ iop'.step = "rename"
      BY <1>1, <2>1
    <3> QED
      BY <2>2, <3>1, <3>2, <3>3 DEF StampIn
  <2>v. ImgVisibleWhole'
    BY <1>1, <2>4, VisibleSame
  <2>l. ImgListedBacked'
    BY <1>1 DEF ImgListedBacked
  <2> QED
    BY <2>t, <2>o, <2>h, <2>s, <2>v, <2>l
<1>4. CASE ToStep("discard") /\ slimmed' = slimmed
  <2>1. OpNow("discard")
    BY <1>4, OpStepIs, ImgWords
  <2> QED
    BY <1>1, <1>4, <2>1, StampGoes, DevTypes, ImgWords
<1> QED
  BY <1>3, <1>4 DEF StampRecords

LEMMA RenameKeeps ==
  ASSUME ImgInv, StampRenames
  PROVE  ImgInv'
<1> USE DEF ImgInv
<1>1. /\ iop.kind = "stamp" /\ iop.step = "rename"
      /\ UNCHANGED <<archive, listed, slimmed, stranded, Others_>>
      /\ UNCHANGED <<erasing, told>>
  BY DEF StampRenames, Others_
<1>2. /\ iop.img \in Img /\ iop.img \in listed /\ Made \subseteq Dev /\ tmps \subseteq {iop.img}
      /\ Hidden \subseteq stranded \cup Made /\ iop.made \in Seq(Dev)
      /\ (\A d \in Made : dev[d].of = iop.img /\ dev[d].name \in {"hidden", "public"})
      /\ iop.made # <<>> /\ Len(iop.made) \in Nat \ {0} /\ iop.n \in 1..Len(iop.made)
      /\ iop \in OpRec
  BY <1>1, StampKnown DEF OpIn
<1>3. /\ \A k \in 1..Len(iop.made) : iop.made[k] \in Made
      /\ \A d \in Made : \E k \in 1..Len(iop.made) : d = iop.made[k]
  BY MadeAre
<1>4. /\ \A d \in Made : Whole(d)
      /\ \A k \in 1..(iop.n - 1) : iop.made[k] \in Public
      /\ archive[iop.img].file = "whole"
  BY <1>1 DEF StampIn, HiddenKnown
<1>l. ImgListedBacked'
  BY <1>1 DEF ImgListedBacked
<1>5. CASE /\ dev' = [dev EXCEPT ![iop.made[iop.n]].name = "public"]
           /\ IF iop.n < Len(iop.made) THEN iop' = [iop EXCEPT !.n = @ + 1] /\ UNCHANGED tmps
              ELSE iop' = NoOp /\ tmps' = tmps \ {iop.img}
  <2> PICK d \in Made : d = iop.made[iop.n]
    BY <1>2, <1>3
  <2> DEFINE v == "public"
  <2>1. d \in Dev /\ v = "public" /\ v \in {"none", "hidden", "public"} /\ dev' = [dev EXCEPT ![d].name = v]
    BY <1>2, <1>5
  <2> HIDE DEF v
  <2>2. DevNow(d, v, dev[d].on, dev[d].data, dev[d].slim, dev[d].of)
    BY <2>1, DevNamed
  <2>3. /\ dev' \in [Dev -> DevRec] /\ \A e \in Dev \ {d} : dev'[e] = dev[e]
        /\ dev'[d].name = "public" /\ dev'[d].data = dev[d].data /\ dev'[d].of = dev[d].of
        /\ (dev'[d].slim <=> dev[d].slim)
    BY <2>1, <2>2 DEF DevNow
  <2>4. Public' = Public \cup {d} /\ Hidden' = Hidden \ {d}
    BY <2>1, <2>3 DEF Public, Hidden
  <2>w. \A e \in Dev : dev'[e].data = dev[e].data /\ dev'[e].of = dev[e].of
          /\ (dev'[e].slim <=> dev[e].slim)
    BY <2>3
  <2>v. ImgVisibleWhole'
    <3>1. ASSUME NEW e \in Public
          PROVE  /\ dev'[e].data # "torn"
                 /\ dev'[e].of \in SlimImg =>
                      e \in slimmed' /\ (dev'[e].slim \/ e \in (erasing \cup told)')
      <4>1. e \in Dev
        BY DEF Public
      <4> QED
        BY <1>1, <2>w, <4>1 DEF ImgVisibleWhole
    <3>2. /\ dev'[d].data # "torn"
          /\ dev'[d].of \in SlimImg =>
               d \in slimmed' /\ (dev'[d].slim \/ d \in (erasing \cup told)')
      BY <1>1, <1>2, <1>4, <2>3 DEF Whole
    <3> QED
      BY <2>4, <3>1, <3>2 DEF ImgVisibleWhole
  <2>5. CASE iop.n < Len(iop.made)
    <3>1. /\ iop' \in OpRec /\ iop'.kind = iop.kind /\ iop'.img = iop.img /\ iop'.made = iop.made
          /\ iop'.step = iop.step /\ iop'.n = iop.n + 1
      <4> DEFINE k == iop
                 f == iop'
                 t == iop.n + 1
      <4>1. k \in OpRec /\ f = [k EXCEPT !.n = t] /\ t \in Nat
        BY <1>2, <1>5, <2>5
      <4> HIDE DEF k, f, t
      <4>2. /\ f \in OpRec /\ f.kind = k.kind /\ f.img = k.img /\ f.made = k.made
            /\ f.step = k.step /\ f.n = t
        BY <4>1 DEF OpRec
      <4> QED
        BY <4>2 DEF k, f, t
    <3>2. Made' = Made
      BY <3>1, MadeSame
    <3>3. tmps' = tmps
      BY <1>5, <2>5
    <3>t. ImgTypeOK'
      <4>1. StoreHas'
        BY <1>1, <3>3, StoreStays DEF ImgTypeOK
      <4> QED
        BY <1>1, <1>2, <2>3, <3>1, <3>2, <4>1, ImgTypeParts, ImgTypePartsNext
    <3>o. OpIn'
      <4>1. iop'.n \in 1..Len(iop'.made)
        BY <1>2, <2>5, <3>1
      <4> QED
        BY <1>1, <1>2, <3>1, <4>1 DEF OpIn
    <3>h. HiddenKnown'
      <4>1. ASSUME NEW k \in 1..(iop'.n - 1) PROVE iop'.made[k] \in Public'
        <5>1. CASE k = iop.n
          BY <2>4, <3>1, <5>1
        <5>2. CASE k # iop.n
          <6>1. k \in 1..(iop.n - 1)
            BY <1>2, <3>1, <5>2
          <6> QED
            BY <1>4, <2>4, <3>1, <6>1
        <5> QED
          BY <5>1, <5>2
      <4>2. iop'.kind = "stamp" /\ iop'.step = "rename" /\ tmps' \subseteq {iop'.img}
        BY <1>1, <1>2, <3>1, <3>3
      <4>3. \A e \in Made' : dev'[e].name \in {"hidden", "public"}
        BY <1>2, <2>3, <3>2
      <4>4. Hidden' \subseteq stranded' \cup Made'
        BY <1>1, <1>2, <2>4, <3>2
      <4> QED
        BY <4>1, <4>2, <4>3, <4>4 DEF HiddenKnown
    <3>s. StampIn'
      <4>1. ASSUME NEW e \in Made PROVE Whole(e)' /\ dev'[e].of = iop'.img
        BY <1>1, <1>2, <1>4, <2>w, <3>1 DEF Whole
      <4>2. iop'.kind = "stamp" /\ iop'.step = "rename" /\ archive'[iop'.img].file = "whole"
        BY <1>1, <1>4, <3>1
      <4> QED
        BY <3>2, <4>1, <4>2 DEF StampIn
    <3> QED
      BY <1>l, <2>v, <3>t, <3>o, <3>h, <3>s
  <2>6. CASE ~ iop.n < Len(iop.made)
    <3>1. iop' = NoOp /\ tmps' = tmps \ {iop.img} /\ iop.n = Len(iop.made)
      BY <1>2, <1>5, <2>6
    <3>2. /\ OpIn' /\ iop'.kind = "none" /\ Made' = {} /\ iop'.step = "none" /\ iop'.img = "none"
          /\ StampIn'
      BY <3>1, Idles
    <3>3. ASSUME NEW e \in Made PROVE e \in Public'
      <4>1. PICK k \in 1..Len(iop.made) : e = iop.made[k]
        BY <1>3
      <4>2. k \in 1..(iop.n - 1) \/ k = iop.n
        BY <1>2, <3>1
      <4> QED
        BY <1>4, <2>4, <4>1, <4>2
    <3>4. Hidden' \subseteq stranded'
      BY <1>1, <1>2, <2>4, <3>3 DEF Hidden, Public
    <3>t. ImgTypeOK'
      <4>1. StoreHas'
        BY <1>1, <3>1, StoreStays DEF ImgTypeOK
      <4>2. iop'.kind \in ImgKinds
        BY <3>2 DEF OpIn, OpRec
      <4> QED
        BY <2>3, <3>2, <4>1, <4>2, ImgTypeParts, ImgTypePartsNext
    <3>h. HiddenKnown'
      BY <1>2, <3>1, <3>2, <3>4 DEF HiddenKnown
    <3> QED
      BY <1>l, <2>v, <3>2, <3>t, <3>h
  <2> QED
    BY <2>5, <2>6
<1>6. CASE /\ dev' = [d \in Dev |-> IF d \in Made THEN [dev[d] EXCEPT !.name = "hidden"] ELSE dev[d]]
           /\ ToStep("discard") /\ tmps' = tmps \ {iop.img}
  <2>1. /\ iop' \in OpRec /\ iop'.kind = iop.kind /\ iop'.img = iop.img /\ iop'.made = iop.made
        /\ iop'.step = "discard" /\ Made' = Made
    BY <1>6, OpStepIs, ImgWords DEF OpNow
  <2>2. ASSUME NEW d \in Dev
        PROVE  /\ dev'[d] \in DevRec /\ dev'[d].data = dev[d].data /\ dev'[d].of = dev[d].of
               /\ dev'[d].slim = dev[d].slim
               /\ dev'[d].name = IF d \in Made THEN "hidden" ELSE dev[d].name
    <3> DEFINE m == dev[d]
               f == dev'[d]
               v == "hidden"
    <3>1. m \in DevRec /\ f = (IF d \in Made THEN [m EXCEPT !.name = v] ELSE m)
          /\ v \in {"none", "hidden", "public"}
      BY <1>6, DevTypes
    <3> HIDE DEF m, f, v
    <3>2. CASE d \in Made
      <4>1. f = [m EXCEPT !.name = v]
        BY <3>1, <3>2
      <4>2. f \in DevRec /\ f.data = m.data /\ f.of = m.of /\ f.slim = m.slim /\ f.name = v
        BY <3>1, <4>1 DEF DevRec
      <4> QED
        BY <3>2, <4>2 DEF m, f, v
    <3>3. CASE d \notin Made
      BY <3>1, <3>3 DEF m, f
    <3> QED
      BY <3>2, <3>3
  <2>3. dev' \in [Dev -> DevRec]
    <3>1. DOMAIN dev' = Dev /\ dev' = [d \in Dev |-> dev'[d]]
      BY <1>6
    <3> QED
      BY <2>2, <3>1
  <2>4. Made \subseteq Hidden' /\ Hidden' \subseteq Hidden \cup Made /\ Public' \subseteq Public
    BY <1>2, <2>2 DEF Hidden, Public
  <2>t. ImgTypeOK'
    <3>1. StoreHas'
      BY <1>1, <1>6, StoreStays DEF ImgTypeOK
    <3> QED
      BY <1>1, <1>2, <2>1, <2>3, <3>1, ImgTypeParts, ImgTypePartsNext
  <2>o. OpIn'
    BY <1>1, <1>2, <2>1 DEF OpIn
  <2>h. HiddenKnown'
    <3>1. \A d \in Made' : dev'[d].name \in {"hidden", "public"}
      BY <2>1, <2>4 DEF Hidden
    <3> QED
      BY <1>1, <1>2, <1>6, <2>1, <2>4, <3>1 DEF HiddenKnown
  <2>s. StampIn'
    BY <1>1, <1>2, <2>1, <2>2 DEF StampIn
  <2>v. ImgVisibleWhole'
    <3>1. \A d \in Dev : dev'[d].name = "public" => dev[d].name = "public"
      BY <2>2
    <3> QED
      BY <1>1, <2>2, <3>1, VisibleSame
  <2> QED
    BY <1>l, <2>t, <2>o, <2>h, <2>s, <2>v
<1> QED
  BY <1>5, <1>6 DEF StampRenames

LEMMA DeleteKeeps ==
  ASSUME ImgInv, DeleteImage
  PROVE  ImgInv'
<1> USE DEF ImgInv
<1>1. /\ iop.kind = "delete" /\ UNCHANGED <<dev, tmps, slimmed, stranded, Others_>>
      /\ UNCHANGED <<erasing, told, imgOps, imgCrashes>>
  BY DEF DeleteImage, Others_
<1>2. /\ iop.img \in Img /\ Made = {} /\ tmps = {} /\ Hidden \subseteq stranded /\ iop.made = <<>>
      /\ iop.step \in {"entry", "file"} /\ (iop.step = "file" => iop.img \notin listed)
      /\ archive \in [Img -> ArcRec] /\ listed \subseteq Img
  BY <1>1, MadeAre, DevTypes DEF OpIn, HiddenKnown, ImgTypeOK
<1>3. Hidden' = Hidden /\ Public' = Public
  BY <1>1, NamesSame
<1>4. ASSUME NEW a \in {archive', archive'}, archive' \in [Img -> ArcRec], listed' \subseteq Img
      PROVE  StoreHas'
  BY <1>1, <1>4, ImgTypeParts DEF StoreHas
<1>v. ImgVisibleWhole'
  BY <1>1, VisibleSame
<1>5. CASE listed' = listed \ {iop.img} /\ ToStep("file") /\ archive' = archive
  <2>1. /\ iop' \in OpRec /\ iop'.kind = iop.kind /\ iop'.img = iop.img /\ iop'.made = iop.made
        /\ iop'.step = "file" /\ Made' = Made
    BY <1>5, OpStepIs, ImgWords DEF OpNow
  <2>t. ImgTypeOK'
    <3>1. StoreHas'
      BY <1>2, <1>4, <1>5
    <3> QED
      BY <1>1, <1>2, <2>1, <3>1, ImgTypeParts, ImgTypePartsNext
  <2>o. OpIn'
    BY <1>1, <1>2, <1>5, <2>1 DEF OpIn
  <2>h. HiddenKnown'
    BY <1>1, <1>2, <1>3, <2>1 DEF HiddenKnown
  <2>s. StampIn'
    BY <1>1, <2>1 DEF StampIn
  <2>l. ImgListedBacked'
    BY <1>5 DEF ImgListedBacked
  <2> QED
    BY <1>v, <2>t, <2>o, <2>h, <2>s, <2>l
<1>6. CASE /\ iop' = NoOp /\ listed' = listed
           /\ \/ archive' = archive
              \/ iop.step = "file" /\ archive' = [archive EXCEPT ![iop.img].file = "none"]
  <2>1. /\ OpIn' /\ iop'.kind = "none" /\ Made' = {} /\ iop'.step = "none" /\ iop'.img = "none"
        /\ StampIn'
    BY <1>6, Idles
  <2>2. archive' \in [Img -> ArcRec] /\ \A i \in listed : archive'[i] = archive[i]
    <3> DEFINE v == "none"
    <3>1. v \in {"none", "whole", "torn", "swapped"}
          /\ (archive' = archive
              \/ (iop.img \notin listed /\ archive' = [archive EXCEPT ![iop.img].file = v]))
      BY <1>2, <1>6
    <3> HIDE DEF v
    <3> QED
      BY <1>2, <3>1 DEF ArcRec
  <2>t. ImgTypeOK'
    <3>1. StoreHas'
      BY <1>2, <1>4, <1>6, <2>2
    <3>2. iop'.kind \in ImgKinds
      BY <2>1 DEF OpIn, OpRec
    <3> QED
      BY <1>1, <2>1, <3>1, <3>2, ImgTypeParts, ImgTypePartsNext
  <2>h. HiddenKnown'
    BY <1>1, <1>2, <1>3, <2>1 DEF HiddenKnown
  <2>l. ImgListedBacked'
    BY <1>6, <2>2 DEF ImgListedBacked
  <2> QED
    BY <1>v, <2>1, <2>t, <2>h, <2>l
<1> QED
  BY <1>2, <1>5, <1>6 DEF DeleteImage

-----------------------------------------------------------------------------
(* What happens beside the operation.                                      *)

(* A simulator that is slim, or is told to be, stays so. *)
KeepsSlim(d) ==
  /\ d \in slimmed => d \in slimmed'
  /\ d \in slimmed /\ (dev[d].slim \/ d \in erasing \cup told) =>
       dev'[d].slim \/ d \in erasing' \cup told'

(* A simulator changes under the operation: a hidden one at most boots, and*)
(* one that is visible keeps what it was stamped with or is being erased.  *)
LEMMA BesideKeeps ==
  ASSUME ImgInv, UNCHANGED <<iop, listed, tmps, stranded, imgOps, imgCrashes>>,
         dev' \in [Dev -> DevRec], archive' \in [Img -> ArcRec],
         slimmed' \subseteq Dev, erasing' \subseteq Dev, told' \subseteq Dev,
         \A d \in Dev : dev'[d].name = dev[d].name /\ dev'[d].of = dev[d].of
           /\ (dev'[d].data = dev[d].data \/ dev'[d].data # "torn")
           /\ (dev[d].on => dev'[d].on),
         \A d \in Hidden \ (erasing \cup told) : dev'[d].data = dev[d].data
           /\ (dev'[d].slim <=> dev[d].slim),
         \A d \in Hidden : d \notin erasing \cup told => d \notin erasing' \cup told',
         \A d \in Hidden \cup Public : KeepsSlim(d),
         \A i \in Img : (archive'[i].file = "none" => archive[i].file = "none")
           /\ archive'[i].sum = archive[i].sum,
         iop = NoOp \/ archive' = archive
  PROVE  ImgInv'
<1> USE DEF ImgInv
<1>1. /\ Made' = Made /\ Last_' = Last_ /\ Builder' = Builder
      /\ iop'.img = iop.img /\ iop'.kind = iop.kind /\ iop'.step = iop.step /\ iop'.made = iop.made
  BY MadeSame
<1>2. Hidden' = Hidden /\ Public' = Public
  BY NamesSame
<1>3. /\ Made \subseteq Dev /\ Made \subseteq Hidden \cup Public
      /\ (iop.step # "rename" => Made \subseteq Hidden)
      /\ \A k \in 1..Len(iop.made) : iop.made[k] \in Made
  <2>1. Made \subseteq Dev
    BY MadeAre
  <2> QED
    BY <2>1, MadeAre DEF HiddenKnown, Hidden, Public
<1>4. listed \subseteq Img
  BY DEF ImgTypeOK
<1>t. ImgTypeOK'
  <2>1. StoreHas'
    BY ImgTypeParts DEF StoreHas
  <2> QED
    BY <1>1, <1>3, <2>1, ImgTypeParts, ImgTypePartsNext
<1>o. OpIn'
  BY <1>1 DEF OpIn
<1>h. HiddenKnown'
  <2>1. \A d \in Made : dev'[d].name \in {"hidden", "public"}
    BY <1>3 DEF HiddenKnown
  <2> QED
    BY <1>1, <1>2, <2>1 DEF HiddenKnown
<1>s. StampIn'
  <2>1. ASSUME iop.kind = "stamp"
        PROVE  /\ \A d \in Made' : dev'[d].of = iop'.img
               /\ iop'.step \notin {"verify", "discard"} => archive'[iop'.img].file = "whole"
               /\ iop'.step \in {"create", "commit"} => \A d \in Made' : Done(d)'
               /\ iop'.step \in {"check", "replace", "reslim"} => \A d \in Made' \ {Last_'} : Done(d)'
               /\ iop'.step = "reslim" => dev'[Last_'].data = "image" \/ dev'[Last_'].on
               /\ iop'.step = "record" => \A d \in Made' :
                    dev'[d].data = "image" /\ (iop'.img \in SlimImg => dev'[d].slim)
               /\ iop'.step = "rename" => \A d \in Made' : Whole(d)'
               /\ iop'.step \notin {"rename", "discard"} => Made' \cap (erasing \cup told)' = {}
    <3>1. iop # NoOp /\ archive' = archive
      BY <2>1, NoOpIs
    <3>2. ASSUME iop.step \notin {"rename", "discard"}, NEW d \in Made
          PROVE  /\ dev'[d].data = dev[d].data /\ (dev'[d].slim <=> dev[d].slim)
                 /\ (dev[d].on => dev'[d].on) /\ d \notin (erasing \cup told)' /\ (Done(d) => Done(d)')
      <4>1. d \in Hidden /\ d \in Dev /\ d \notin erasing \cup told
        BY <1>3, <2>1, <3>2 DEF StampIn
      <4>2. /\ dev'[d].data = dev[d].data /\ (dev'[d].slim <=> dev[d].slim)
            /\ (dev[d].on => dev'[d].on) /\ d \notin (erasing \cup told)'
        BY <4>1
      <4> QED
        BY <1>1, <4>2 DEF Done
    <3>3. ASSUME iop.step = "rename", NEW d \in Made
          PROVE  Whole(d)'
      <4>1. d \in Hidden \cup Public /\ d \in Dev
        BY <1>3
      <4>2. Whole(d)
        BY <2>1, <3>3 DEF StampIn
      <4>3. dev'[d].data # "torn"
        BY <4>1, <4>2 DEF Whole
      <4>4. /\ d \in slimmed => d \in slimmed'
            /\ d \in slimmed /\ (dev[d].slim \/ d \in erasing \cup told) =>
                 dev'[d].slim \/ d \in (erasing \cup told)'
        <5>1. KeepsSlim(d)
          BY <4>1
        <5> QED
          BY <5>1 DEF KeepsSlim
      <4> QED
        BY <1>1, <4>2, <4>3, <4>4 DEF Whole
    <3>4. iop.step = "reslim" => Last_ \in Made /\ (dev[Last_].data = "image" \/ dev[Last_].on)
      BY <2>1, MadeAre DEF StampIn, OpIn
    <3>5. \A d \in Made : dev'[d].of = iop.img
      BY <1>3, <2>1 DEF StampIn
    <3>6. iop.step \notin {"verify", "discard"} => archive'[iop.img].file = "whole"
      BY <2>1, <3>1 DEF StampIn
    <3>7. iop.step \in {"create", "commit"} => \A d \in Made : Done(d)'
      BY <2>1, <3>2 DEF StampIn
    <3>8. iop.step \in {"check", "replace", "reslim"} => \A d \in Made \ {Last_} : Done(d)'
      BY <2>1, <3>2 DEF StampIn
    <3>9. iop.step = "reslim" => dev'[Last_].data = "image" \/ dev'[Last_].on
      BY <3>2, <3>4
    <3>10. iop.step = "record" => \A d \in Made :
             dev'[d].data = "image" /\ (iop.img \in SlimImg => dev'[d].slim)
      BY <2>1, <3>2 DEF StampIn
    <3>11. iop.step \notin {"rename", "discard"} => Made \cap (erasing \cup told)' = {}
      BY <3>2
    <3> QED
      BY <1>1, <3>3, <3>5, <3>6, <3>7, <3>8, <3>9, <3>10, <3>11
  <2>2. ASSUME iop.kind = "build", iop.step = "recheck"
        PROVE  archive'[iop.img].file = "whole"
                 \/ (archive'[iop.img].file = "torn" /\ dev'[Builder].on)
    <3>1. iop # NoOp /\ archive' = archive
      BY <2>2, NoOpIs
    <3>2. Builder \in Dev
      <4>1. iop.made = <<Builder>>
        BY <2>2 DEF OpIn
      <4>2. iop.made[1] = Builder /\ Len(iop.made) = 1
        BY <4>1 DEF Builder
      <4> QED
        BY <1>3, <4>2
    <3> QED
      BY <2>2, <3>1, <3>2 DEF StampIn
  <2> QED
    BY <1>1, <2>1, <2>2 DEF StampIn
<1>v. ImgVisibleWhole'
  <2>1. ASSUME NEW d \in Public
        PROVE  /\ dev'[d].data # "torn"
               /\ dev'[d].of \in SlimImg =>
                    d \in slimmed' /\ (dev'[d].slim \/ d \in erasing' \cup told')
    <3>1. d \in Dev
      BY DEF Public
    <3>2. /\ d \in slimmed => d \in slimmed'
          /\ d \in slimmed /\ (dev[d].slim \/ d \in erasing \cup told) =>
               dev'[d].slim \/ d \in erasing' \cup told'
      <4>1. KeepsSlim(d)
        OBVIOUS
      <4> QED
        BY <4>1 DEF KeepsSlim
    <3>3. dev'[d].of = dev[d].of /\ (dev'[d].data = dev[d].data \/ dev'[d].data # "torn")
      BY <3>1
    <3>4. /\ dev[d].data # "torn"
          /\ dev[d].of \in SlimImg => d \in slimmed /\ (dev[d].slim \/ d \in erasing \cup told)
      BY DEF ImgVisibleWhole
    <3> QED
      BY <3>2, <3>3, <3>4
  <2> QED
    BY <1>2, <2>1 DEF ImgVisibleWhole
<1>l. ImgListedBacked'
  BY <1>4 DEF ImgListedBacked
<1> QED
  BY <1>t, <1>o, <1>h, <1>s, <1>v, <1>l

LEMMA EraseDevKeeps ==
  ASSUME ImgInv, NEW d \in Dev, EraseDev(d)
  PROVE  ImgInv'
<1> USE DEF ImgInv
<1>1. /\ d \in Public \ (erasing \cup told) /\ erasing' = erasing \cup {d}
      /\ dev' = [dev EXCEPT ![d].data = "stock", ![d].slim = FALSE]
      /\ UNCHANGED <<archive, listed, tmps, slimmed, iop, told, stranded, imgOps, imgCrashes>>
  BY DEF EraseDev
<1> DEFINE b == FALSE
<1>2. DevNow(d, dev[d].name, dev[d].on, "stock", b, dev[d].of)
  BY <1>1, DevErased
<1> HIDE DEF b
<1>3. /\ dev' \in [Dev -> DevRec] /\ \A e \in Dev \ {d} : dev'[e] = dev[e]
      /\ dev'[d].name = dev[d].name /\ (dev'[d].on <=> dev[d].on) /\ dev'[d].data = "stock"
      /\ dev'[d].of = dev[d].of
  BY <1>2 DEF DevNow
<1>4. archive \in [Img -> ArcRec] /\ slimmed \subseteq Dev /\ erasing \subseteq Dev /\ told \subseteq Dev
  BY DevTypes DEF ImgTypeOK
<1>5. d \notin Hidden
  BY <1>1 DEF Hidden, Public
<1>6. \A e \in Dev : dev'[e].name = dev[e].name /\ dev'[e].of = dev[e].of
        /\ (dev'[e].data = dev[e].data \/ dev'[e].data # "torn") /\ (dev[e].on => dev'[e].on)
  BY <1>3
<1>7. \A e \in Hidden : e \in Dev /\ dev'[e] = dev[e] /\ (e \notin erasing \cup told => e \notin erasing' \cup told')
  BY <1>1, <1>3, <1>5 DEF Hidden
<1>8. \A e \in Hidden \cup Public : KeepsSlim(e)
  <2>1. \A e \in Hidden \cup Public : e \in Dev
    BY DEF Hidden, Public
  <2> QED
    BY <1>1, <1>3, <2>1 DEF KeepsSlim
<1> QED
  BY <1>1, <1>3, <1>4, <1>6, <1>7, <1>8, BesideKeeps

LEMMA ReapplyKeeps ==
  ASSUME ImgInv, NEW d \in Dev, ReapplySlim(d)
  PROVE  ImgInv'
<1> USE DEF ImgInv
<1>1. /\ d \in erasing /\ erasing' = erasing \ {d}
      /\ UNCHANGED <<archive, listed, tmps, iop, stranded, imgOps, imgCrashes>>
  BY DEF ReapplySlim
<1>2. /\ archive \in [Img -> ArcRec] /\ slimmed \subseteq Dev /\ erasing \subseteq Dev /\ told \subseteq Dev
      /\ dev \in [Dev -> DevRec]
  BY DevTypes DEF ImgTypeOK
<1>3. \A e \in Hidden \cup Public : e \in Dev
  BY DEF Hidden, Public
<1>4. CASE dev[d].name = "none" /\ slimmed' = slimmed \ {d} /\ UNCHANGED <<dev, told>>
  <2>1. d \notin Hidden \cup Public
    BY <1>4 DEF Hidden, Public
  <2>2. slimmed' \subseteq Dev /\ erasing' \subseteq Dev /\ told' \subseteq Dev
    BY <1>1, <1>2, <1>4
  <2>3. \A e \in Hidden : e \notin erasing \cup told => e \notin erasing' \cup told'
    BY <1>1, <1>4
  <2>4. \A e \in Hidden \cup Public : KeepsSlim(e)
    BY <1>1, <1>4, <2>1 DEF KeepsSlim
  <2>5. \A e \in Dev : dev'[e] = dev[e]
    BY <1>4
  <2> QED
    BY <1>1, <1>2, <1>3, <1>4, <2>2, <2>3, <2>4, <2>5, BesideKeeps
<1>5. CASE /\ slimmed' = slimmed /\ told' = told
           /\ dev' = [dev EXCEPT ![d].slim = (d \in slimmed)]
  <2> DEFINE v == d \in slimmed
  <2>1. v \in BOOLEAN /\ dev' = [dev EXCEPT ![d].slim = v] /\ (v <=> d \in slimmed)
    BY <1>5
  <2> HIDE DEF v
  <2>2. DevNow(d, dev[d].name, dev[d].on, dev[d].data, v, dev[d].of)
    BY <2>1, DevSlimmed
  <2>3. /\ dev' \in [Dev -> DevRec] /\ \A e \in Dev \ {d} : dev'[e] = dev[e]
        /\ dev'[d].name = dev[d].name /\ (dev'[d].on <=> dev[d].on) /\ dev'[d].data = dev[d].data
        /\ dev'[d].of = dev[d].of /\ (dev'[d].slim <=> d \in slimmed)
    BY <2>1, <2>2 DEF DevNow
  <2>4. slimmed' \subseteq Dev /\ erasing' \subseteq Dev /\ told' \subseteq Dev
    BY <1>1, <1>2, <1>5
  <2>5. \A e \in Hidden : e \notin erasing \cup told => e \notin erasing' \cup told'
    BY <1>1, <1>5
  <2>6. \A e \in Hidden \cup Public : KeepsSlim(e)
    BY <1>1, <1>3, <1>5, <2>3 DEF KeepsSlim
  <2>7. \A e \in Dev : dev'[e].name = dev[e].name /\ dev'[e].of = dev[e].of
          /\ dev'[e].data = dev[e].data /\ (dev[e].on => dev'[e].on)
    BY <2>3
  <2>8. \A e \in Hidden \ (erasing \cup told) : dev'[e].data = dev[e].data
          /\ (dev'[e].slim <=> dev[e].slim)
    BY <1>1, <1>3, <2>3
  <2> QED
    BY <1>1, <1>2, <2>3, <2>4, <2>5, <2>6, <2>7, <2>8, BesideKeeps
<1>6. CASE slimmed' = slimmed /\ told' = told \cup {d} /\ dev' = dev
  <2>2. slimmed' \subseteq Dev /\ erasing' \subseteq Dev /\ told' \subseteq Dev
    BY <1>1, <1>2, <1>6
  <2>3. \A e \in Hidden : e \notin erasing \cup told => e \notin erasing' \cup told'
    BY <1>1, <1>6
  <2>4. \A e \in Hidden \cup Public : KeepsSlim(e)
    BY <1>1, <1>6 DEF KeepsSlim
  <2>5. \A e \in Dev : dev'[e] = dev[e]
    BY <1>6
  <2> QED
    BY <1>1, <1>2, <1>3, <1>6, <2>2, <2>3, <2>4, <2>5, BesideKeeps
<1> QED
  BY <1>4, <1>5, <1>6 DEF ReapplySlim

LEMMA OutsideKeeps ==
  ASSUME ImgInv, (\E d \in Dev : BootOutside(d)) \/ (\E i \in Img : SwapOutside(i))
  PROVE  ImgInv'
<1> USE DEF ImgInv
<1>1. UNCHANGED <<listed, tmps, slimmed, iop, stranded, erasing, told, imgOps, imgCrashes>>
  BY DEF BootOutside, SwapOutside, Others_
<1>2. /\ archive \in [Img -> ArcRec] /\ slimmed \subseteq Dev /\ erasing \subseteq Dev /\ told \subseteq Dev
      /\ dev \in [Dev -> DevRec]
  BY DevTypes DEF ImgTypeOK
<1>3. \A e \in Hidden \cup Public : e \in Dev
  BY DEF Hidden, Public
<1>4. ASSUME NEW d \in Dev, BootOutside(d)
      PROVE  ImgInv'
  <2> DEFINE v == TRUE
  <2>1. v \in BOOLEAN /\ v /\ dev' = [dev EXCEPT ![d].on = v] /\ archive' = archive
    BY <1>4 DEF BootOutside
  <2> HIDE DEF v
  <2>2. DevNow(d, dev[d].name, v, dev[d].data, dev[d].slim, dev[d].of)
    BY <2>1, DevSwitched
  <2>3. /\ dev' \in [Dev -> DevRec]
        /\ \A e \in Dev : dev'[e].name = dev[e].name /\ dev'[e].of = dev[e].of
          /\ dev'[e].data = dev[e].data /\ (dev[e].on => dev'[e].on) /\ (dev'[e].slim <=> dev[e].slim)
    BY <2>1, <2>2 DEF DevNow
  <2> QED
    BY <1>1, <1>2, <1>3, <2>1, <2>3, BesideKeeps DEF KeepsSlim
<1>5. ASSUME NEW i \in Img, SwapOutside(i)
      PROVE  ImgInv'
  <2>1. /\ archive[i].file = "whole" /\ iop = NoOp /\ dev' = dev
        /\ archive' = [archive EXCEPT ![i].file = "swapped"]
    BY <1>5 DEF SwapOutside
  <2> DEFINE v == "swapped"
  <2>2. v \in {"none", "whole", "torn", "swapped"} /\ v # "none"
        /\ archive' = [archive EXCEPT ![i].file = v]
    BY <2>1
  <2> HIDE DEF v
  <2>3. /\ archive' \in [Img -> ArcRec]
        /\ \A j \in Img : (archive'[j].file = "none" => archive[j].file = "none")
             /\ archive'[j].sum = archive[j].sum
    BY <1>2, <2>2 DEF ArcRec
  <2> QED
    BY <1>1, <1>2, <1>3, <2>1, <2>3, BesideKeeps DEF KeepsSlim
<1> QED
  BY <1>4, <1>5

LEMMA ImgStays == ASSUME ImgInv, UNCHANGED imgVars PROVE ImgInv'
<1> USE DEF ImgInv
<1>1. /\ UNCHANGED <<dev, archive, listed, tmps, slimmed, iop>>
      /\ UNCHANGED <<erasing, told, stranded, imgOps, imgCrashes>>
  BY DEF imgVars
<1>2. /\ archive \in [Img -> ArcRec] /\ slimmed \subseteq Dev /\ erasing \subseteq Dev /\ told \subseteq Dev
      /\ dev \in [Dev -> DevRec]
  BY DevTypes DEF ImgTypeOK
<1> QED
  BY <1>1, <1>2, BesideKeeps DEF KeepsSlim

LEMMA ImgKeeps == ASSUME ImgInv, [ImgNext]_imgVars PROVE ImgInv'
<1>1. ASSUME NEW i \in Img, StartBuild(i) \/ StartStamp(i) \/ StartDelete(i) \/ SwapOutside(i)
      PROVE  ImgInv'
  BY <1>1, StartsKeep, OutsideKeeps
<1>2. ASSUME NEW d \in Dev, EraseDev(d) \/ ReapplySlim(d) \/ BootOutside(d)
      PROVE  ImgInv'
  BY <1>2, EraseDevKeeps, ReapplyKeeps, OutsideKeeps
<1> QED
  BY <1>1, <1>2, BuildCreatesKeeps, BuildKeeps, VerifyKeeps, StampCreatesKeeps, StampStepKeeps,
     RecordKeeps, RenameKeeps, CleanupKeeps, DeleteKeeps, CrashKeeps, SweepKeeps, ImgStays DEF ImgNext

-----------------------------------------------------------------------------
(* When no grant and no use of a looked-up state falls into a pass of the  *)
(* collector, no journal ref is handed out twice, every subscriber is      *)
(* registered with the state the appends use, and a run is open exactly    *)
(* while its lease is active once every notification has been handled; for *)
(* any number of writers, tailers and calls of syncRunOpen, with crashes   *)
(* at any step (Record, Watch, GC, syncRunOpen).                           *)
THEOREM JournalIsSound ==
  ASSUME ~ Overtaken
  PROVE  ServicesSpec => []JournalSound
<1> DEFINE Inv == Active("journal") => JnlInv
<1>1. ServicesInit => Inv
  BY JnlStarts DEF ServicesInit
<1>2. Inv /\ [ServicesNext]_servicesVars => Inv'
  BY ServicesMove, JnlStep DEF Active
<1>3. Inv => JournalSound
  BY JnlHolds DEF JournalSound
<1> QED
  BY <1>1, <1>2, <1>3, PTL DEF ServicesSpec

(* For any number of holders, snapshots, calls, images and simulators, and *)
(* a failure at any step: a listed snapshot has its clone, what a call     *)
(* swaps in is what it copied, the data directory is there again when the  *)
(* call is over; and, crashes included, a simulator of an image that can   *)
(* be leased was provisioned whole, a listed image has its archive, and a  *)
(* build or a stamp leaves nothing behind (Snapshot, Restore,              *)
(* DeleteSnapshot, ReplaceDir, Build, Stamp, Delete, sweep).               *)
THEOREM StoresAreSound == ServicesSpec => []StoresSound
<1> DEFINE Inv == (Active("snapshots") => SnpInv) /\ (Active("images") => ImgInv)
<1>1. ServicesInit => Inv
  BY SnpStarts, ImgStarts DEF ServicesInit
<1>2. Inv /\ [ServicesNext]_servicesVars => Inv'
  BY ServicesMove, SnpKeeps, ImgKeeps DEF Active
<1>3. Inv => StoresSound
  BY SnpHolds, ImgHolds DEF StoresSound
<1> QED
  BY <1>1, <1>2, <1>3, PTL DEF ServicesSpec

(* Every service keeps its types, also when recordings of a run overlap    *)
(* and writers overtake the collector: no handler, call or operation       *)
(* stands where its code has no line, and no seq is out of range.          *)
THEOREM ServicesTypes == ServicesSpec => []ServicesTypeOK
<1> DEFINE Inv == /\ Active("recorder") => RecInv
                  /\ Active("stream") => HubInv
                  /\ Active("helpers") => HelpInv
                  /\ Active("journal") => JnlTypes
                  /\ Active("snapshots") => SnpInv
                  /\ Active("images") => ImgInv
<1>1. ServicesInit => Inv
  BY RecStarts, HubStarts, HelpStarts, JnlTypesStart, SnpStarts, ImgStarts DEF ServicesInit
<1>2. Inv /\ [ServicesNext]_servicesVars => Inv'
  BY ServicesMove, RecStep, HubStep, HelpStep, JnlTypesStep, SnpKeeps, ImgKeeps DEF Active
<1>3. Inv => ServicesTypeOK
  BY DEF ServicesTypeOK, RecInv, HubInv, HelpInv, JnlTypes, SnpInv, ImgInv
<1> QED
  BY <1>1, <1>2, <1>3, PTL DEF ServicesSpec

(* No step reaps a hub that has viewers or whose idle window was restarted,*)
(* frees a simulator after a reset with a former holder's data in it or,   *)
(* when no grant falls into a pass of the collector, removes a run whose   *)
(* lease is active (the idle timer, ResetSink, GC).                        *)
THEOREM ServicesStepsHold ==
  ASSUME ~ Overtaken
  PROVE  ServicesSpec => ServicesSteps
<1> DEFINE Inv == /\ Active("stream") => HubInv
                  /\ Active("journal") => JnlInv
                  /\ Active("snapshots") => SnpInv
           Held == /\ Active("stream") => HubFullWindow
                   /\ Active("journal") => JnlLiveKept
                   /\ Active("snapshots") => SnpNextClean
<1>1. ServicesInit => Inv
  BY HubStarts, JnlStarts, SnpStarts DEF ServicesInit
<1>2. Inv /\ [ServicesNext]_servicesVars => Inv'
  BY ServicesMove, HubStep, JnlStep, SnpKeeps DEF Active
<1>3. Inv /\ [ServicesNext]_servicesVars => [Held]_servicesVars
  <2> SUFFICES ASSUME Inv, ServicesNext
               PROVE  Held
    OBVIOUS
  <2>1. Active("stream") => HubFullWindow
    BY HubWindows DEF ServicesNext, Active
  <2>2. Active("journal") => JnlLiveKept
    BY JnlLive DEF JnlLiveKept
  <2>3. Active("snapshots") => SnpNextClean
    BY ServicesMove, SnpFreesClean
  <2> QED
    BY <2>1, <2>2, <2>3
<1> QED
  BY <1>1, <1>2, <1>3, PTL DEF ServicesSpec, ServicesSteps

=============================================================================
