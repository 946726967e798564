------------------------------ MODULE Journal -------------------------------
(***************************************************************************)
(* The run journal (internal/journal: file, gc, recorder, artifacts, and   *)
(* syncRunOpen of internal/server): one run's files, the counter kept in   *)
(* memory for it, and the garbage collector, which takes the store's lock  *)
(* and the run's lock one after the other.  A writer or a tailer looks the *)
(* run's state up under the store's lock and locks it later.  A line is    *)
(* written whole or not at all; what the entries say is left out, and a    *)
(* run may exceed the collector's bounds at any time.                      *)
(***************************************************************************)
EXTENDS Naturals, FiniteSets

CONSTANTS
  Writer,      \* requests that append, write metadata or store an artifact
  Tailer,      \* journal.tail subscribers
  RunState,    \* the runState objects; one nothing refers to is made anew
  NoRunState,
  MaxSeq,      \* a bound on the entries
  Overtaken    \* may a grant, or a looked-up state's use, fall into a GC pass?

ASSUME JnlAssumption ==
  /\ NoRunState \notin RunState /\ MaxSeq \in Nat \ {0} /\ Overtaken \in BOOLEAN

VARIABLES
  runs,        \* FileStore.runs[id]
  runState,   \* the objects: nextSeq and watch
  reclaimed,  \* FileStore.reclaimed[id], 0 when absent
  open,       \* the run is in FileStore.open
  disk,       \* the run's directory: does it exist, the highest seq in it
  leaseIs,    \* the lease the run belongs to
  sync,       \* the calls of syncRunOpen: which have Peeked, what they saw
  writer,     \* the requests
  tailer,     \* the subscribers
  gc,         \* the collector's pass
  issued      \* history: how often each seq was handed out

jnlVars == <<runs, runState, reclaimed, open, disk, leaseIs, sync, writer, tailer,
             gc, issued>>

(* Who calls syncRunOpen: the acquire handler, the grant event, the end. *)
Syncer == {"acquire", "grant", "end"}

JnlTypeOK ==
  /\ runs \in RunState \cup {NoRunState}
  /\ runState \in [RunState -> [nextSeq: 1..(MaxSeq + 1), watch: SUBSET Tailer]]
  /\ reclaimed \in 0..MaxSeq
  /\ open \in BOOLEAN
  /\ disk \in [exists: BOOLEAN, last: 0..MaxSeq, capture: BOOLEAN]
  /\ leaseIs \in {"none", "queued", "active", "ended", "lost"}
  /\ sync \in [Syncer -> {"idle", "due", "active", "over", "done"}]
  /\ writer \in [Writer -> [at: {"idle", "append", "meta", "artifact"},
                            st: RunState \cup {NoRunState}]]
  /\ tailer \in [Tailer -> [at: {"idle", "subscribing", "on", "leaving"},
                            st: RunState \cup {NoRunState}]]
  /\ gc \in [at: {"idle", "picked", "watched", "removed"},
             st: RunState \cup {NoRunState}]
  /\ issued \in [1..MaxSeq -> Nat]

Resting == [at |-> "idle", st |-> NoRunState]
NewRunState(seq) == [nextSeq |-> seq, watch |-> {}]

NoDisk == [exists |-> FALSE, last |-> 0, capture |-> FALSE]

JnlInit ==
  /\ runs = NoRunState /\ runState = [s \in RunState |-> NewRunState(1)]
  /\ reclaimed = 0 /\ open = FALSE
  /\ disk = NoDisk
  /\ leaseIs = "none" /\ sync = [k \in Syncer |-> "idle"]
  /\ writer = [w \in Writer |-> Resting]
  /\ tailer = [t \in Tailer |-> Resting]
  /\ gc = Resting /\ issued = [n \in 1..MaxSeq |-> 0]

-----------------------------------------------------------------------------
(* The lease the run belongs to, and syncRunOpen *)

JnlAcquire ==
  /\ leaseIs = "none" /\ leaseIs' = "queued"
  /\ sync' = [sync EXCEPT !["acquire"] = "due"]
  /\ UNCHANGED <<runs, runState, reclaimed, open, disk, writer, tailer, gc, issued>>

JnlGrant ==
  /\ leaseIs = "queued" /\ leaseIs' = "active"
  /\ Overtaken \/ gc.at = "idle"
  /\ sync' = [sync EXCEPT !["grant"] = "due"]
  /\ UNCHANGED <<runs, runState, reclaimed, open, disk, writer, tailer, gc, issued>>

EndLease ==
  /\ leaseIs \in {"queued", "active"} /\ leaseIs' = "ended"
  /\ sync' = [sync EXCEPT !["end"] = "due"]
  /\ UNCHANGED <<runs, runState, reclaimed, open, disk, writer, tailer, gc, issued>>

SyncPeek_Unlocked(k) ==
  /\ sync[k] = "due"
  /\ sync' = [sync EXCEPT ![k] = IF leaseIs = "active" THEN "active" ELSE "over"]
  /\ UNCHANGED <<runs, runState, reclaimed, open, disk, leaseIs, writer, tailer, gc, issued>>

(* syncRunOpen locks openMu and looks at the lease... *)
SyncPeek(k) ==
  /\ sync[k] = "due"
  /\ \A j \in Syncer : sync[j] \notin {"active", "over"}
  /\ sync' = [sync EXCEPT ![k] = IF leaseIs = "active" THEN "active" ELSE "over"]
  /\ UNCHANGED <<runs, runState, reclaimed, open, disk, leaseIs, writer, tailer, gc, issued>>

AllSynced == \A k \in Syncer : sync[k] \in {"idle", "done"}

(* ... and then marks the run open or closed. *)
SyncMark(k) ==
  /\ sync[k] \in {"active", "over"}
  /\ open' = (sync[k] = "active")
  /\ sync' = [sync EXCEPT ![k] = "done"]
  /\ UNCHANGED <<runs, runState, reclaimed, disk, leaseIs, writer, tailer, gc, issued>>

-----------------------------------------------------------------------------
(* Looking the run's state up *)

Referred == {runs, gc.st} \cup {writer[w].st : w \in Writer}
                         \cup {tailer[t].st : t \in Tailer}

(* The next state object: any that nothing refers to. *)
FreshState ==
  LET unused == RunState \ Referred IN
  IF unused = {} THEN {} ELSE {CHOOSE s \in unused : TRUE}

HigherOf(a, b) == IF a >= b THEN a ELSE b

(* The highest seq a scan of the entries file finds. *)
LastSeq == disk.last

(* state(): the state in memory, or a new one, which resumes above what    *)
(* the file holds and above what was reclaimed.                            *)
Lookup(s) ==
  \/ runs = s /\ UNCHANGED <<runs, runState, reclaimed>>
  \/ /\ runs = NoRunState /\ s \in FreshState
     /\ runs' = s
     /\ runState' = [runState EXCEPT
                       ![s] = NewRunState(HigherOf(LastSeq, reclaimed) + 1)]
     /\ reclaimed' = 0

Begin(w, what) ==
  /\ writer[w].at = "idle"
  /\ \E s \in RunState : Lookup(s) /\ writer' = [writer EXCEPT ![w] = [at |-> what, st |-> s]]
  /\ UNCHANGED <<open, disk, leaseIs, sync, tailer, gc, issued>>

(* Record: a lease's run is written once the manager knows the lease, and  *)
(* also after it ended.  After a restart only a recovered recording writes *)
(* to it, whose state file the directory still holds.                      *)
Record(w) ==
  /\ leaseIs # "none" /\ (leaseIs = "lost" => disk.capture)
  /\ Begin(w, "append")

(* StartRun writes the metadata of a granted lease's run. *)
StartRun(w) == leaseIs = "active" /\ Begin(w, "meta")

(* An upload is stored for a run that exists and whose lease is active. *)
Upload(w) == leaseIs = "active" /\ disk.exists /\ Begin(w, "artifact")

(* A finished recording is stored even when the lease has ended. *)
Ingest(w) ==
  /\ leaseIs \in {"active", "ended"} \/ (leaseIs = "lost" /\ disk.capture)
  /\ Begin(w, "artifact")

(* Append: under the state's lock, one line and the next seq. *)
JnlAppend(w) ==
  LET s == writer[w].st
      n == runState[s].nextSeq IN
  /\ writer[w].at = "append" /\ n <= MaxSeq
  /\ \/ /\ disk' = [disk EXCEPT !.exists = TRUE, !.last = HigherOf(@, n)]
        /\ runState' = [runState EXCEPT ![s].nextSeq = n + 1]
        /\ issued' = [issued EXCEPT ![n] = @ + 1]
     \/ UNCHANGED <<disk, runState, issued>>       \* the line cannot be written
  /\ writer' = [writer EXCEPT ![w] = Resting]
  /\ UNCHANGED <<runs, reclaimed, open, leaseIs, sync, tailer, gc>>

(* A file in the directory, which is made, without the state's lock. *)
PutFile(w, capture) ==
  /\ disk' = [disk EXCEPT !.exists = TRUE, !.capture = capture]
  /\ writer' = [writer EXCEPT ![w] = Resting]
  /\ UNCHANGED <<runs, runState, reclaimed, open, leaseIs, sync, tailer, gc, issued>>

WriteMeta(w) == writer[w].at = "meta" /\ PutFile(w, disk.capture)

(* The recording's spool and state file, too, lie in the directory. *)
PutArtifact(w) ==
  /\ writer[w].at = "artifact"
  /\ PutFile(w, disk.capture \/ (leaseIs = "active" /\ disk.last > 0))

-----------------------------------------------------------------------------
(* Watch and its cancel *)

Subscribe(t) ==
  /\ tailer[t].at = "idle"
  /\ \E s \in RunState : Lookup(s)
                         /\ tailer' = [tailer EXCEPT ![t] = [at |-> "subscribing", st |-> s]]
  /\ UNCHANGED <<open, disk, leaseIs, sync, writer, gc, issued>>

Watch(t) ==
  /\ tailer[t].at = "subscribing"
  /\ runState' = [runState EXCEPT ![tailer[t].st].watch = @ \cup {t}]
  /\ tailer' = [tailer EXCEPT ![t].at = "on"]
  /\ UNCHANGED <<runs, reclaimed, open, disk, leaseIs, sync, writer, gc, issued>>

(* cancel: the last subscriber looks whether the run is on disk at all... *)
Unwatch(t) ==
  LET s == tailer[t].st
      last == runState[s].watch = {t} IN
  /\ tailer[t].at = "on"
  /\ runState' = [runState EXCEPT ![s].watch = @ \ {t}]
  /\ tailer' = [tailer EXCEPT ![t] = IF last /\ ~disk.exists
                                     THEN [@ EXCEPT !.at = "leaving"] ELSE Resting]
  /\ UNCHANGED <<runs, reclaimed, open, disk, leaseIs, sync, writer, gc, issued>>

Retired_NoHighWater(s) ==
  IF runs = s /\ runState[s].watch = {}
  THEN runs' = NoRunState /\ UNCHANGED reclaimed
  ELSE UNCHANGED <<runs, reclaimed>>

Retired_Watched(s) ==
  IF runs = s
  THEN /\ runs' = NoRunState
       /\ reclaimed' = IF runState[s].nextSeq > 1 THEN runState[s].nextSeq - 1 ELSE reclaimed
  ELSE UNCHANGED <<runs, reclaimed>>

(* A state nobody watches leaves the map; its last seq stays behind. *)
Retired(s) ==
  IF runs = s /\ runState[s].watch = {}
  THEN /\ runs' = NoRunState
       /\ reclaimed' = IF runState[s].nextSeq > 1 THEN runState[s].nextSeq - 1 ELSE reclaimed
  ELSE UNCHANGED <<runs, reclaimed>>

(* Is a request between its lookup and its lock? *)
InUse == \/ \E w \in Writer : writer[w].at # "idle"
         \/ \E t \in Tailer : tailer[t].at = "subscribing"

(* ... and drops the state if it is not. *)
DropState(t) ==
  /\ tailer[t].at = "leaving"
  /\ Overtaken \/ ~InUse
  /\ Retired(tailer[t].st)
  /\ tailer' = [tailer EXCEPT ![t] = Resting]
  /\ UNCHANGED <<runState, open, disk, leaseIs, sync, writer, gc, issued>>

-----------------------------------------------------------------------------
(* GC *)

GCPick_IgnoresOpen ==
  /\ gc.at = "idle" /\ disk.exists
  /\ Overtaken \/ ~InUse
  /\ gc' = [at |-> "picked", st |-> runs]
  /\ UNCHANGED <<runs, runState, reclaimed, open, disk, leaseIs, sync, writer, tailer, issued>>

(* A run past a bound: its state and whether it is open, under the lock. *)
GCPick ==
  /\ gc.at = "idle" /\ disk.exists /\ ~open
  /\ Overtaken \/ (~InUse /\ AllSynced)
  /\ gc' = [at |-> "picked", st |-> runs]
  /\ UNCHANGED <<runs, runState, reclaimed, open, disk, leaseIs, sync, writer, tailer, issued>>

(* hasWatchers looks the state up again. *)
GCWatched ==
  /\ gc.at = "picked"
  /\ gc' = IF runs # NoRunState /\ runState[runs].watch # {} THEN Resting
           ELSE [gc EXCEPT !.at = "watched"]
  /\ UNCHANGED <<runs, runState, reclaimed, open, disk, leaseIs, sync, writer, tailer, issued>>

(* os.RemoveAll, under the state's lock if there was a state. *)
GCRemove ==
  /\ gc.at = "watched"
  /\ Overtaken \/ ~InUse
  /\ disk' = NoDisk
  /\ gc' = IF gc.st = NoRunState THEN Resting ELSE [gc EXCEPT !.at = "removed"]
  /\ UNCHANGED <<runs, runState, reclaimed, open, leaseIs, sync, writer, tailer, issued>>

GCRetire ==
  /\ gc.at = "removed"
  /\ Overtaken \/ ~InUse
  /\ Retired(gc.st) /\ gc' = Resting
  /\ UNCHANGED <<runState, open, disk, leaseIs, sync, writer, tailer, issued>>

(* The daemon stops; what it held in memory is gone, its leases included. *)
JnlCrash ==
  /\ leaseIs # "none" /\ leaseIs' = "lost"
  /\ runs' = NoRunState /\ reclaimed' = 0 /\ open' = FALSE
  /\ runState' = [s \in RunState |-> NewRunState(1)]
  /\ sync' = [k \in Syncer |-> "idle"]
  /\ writer' = [w \in Writer |-> Resting] /\ tailer' = [t \in Tailer |-> Resting]
  /\ gc' = Resting
  /\ UNCHANGED <<disk, issued>>

JnlNext ==
  \/ JnlAcquire \/ JnlGrant \/ EndLease
  \/ \E k \in Syncer : SyncPeek(k) \/ SyncMark(k)
  \/ \E w \in Writer : Record(w) \/ StartRun(w) \/ Upload(w) \/ Ingest(w)
                      \/ JnlAppend(w) \/ WriteMeta(w) \/ PutArtifact(w)
  \/ \E t \in Tailer : Subscribe(t) \/ Watch(t) \/ Unwatch(t) \/ DropState(t)
  \/ GCPick \/ GCWatched \/ GCRemove \/ GCRetire
  \/ JnlCrash

JnlSpec == JnlInit /\ [][JnlNext]_jnlVars

-----------------------------------------------------------------------------
(* No seq is handed out twice, whatever is reclaimed, dropped or lost in a *)
(* crash between two appends (state, GC's and cancel's high-water seq).    *)
JnlUniqueRefs == \A n \in 1..MaxSeq : issued[n] <= 1

(* A subscriber is registered with the state the appends use, so no entry  *)
(* passes it by (Watch, GC's second look at st.watch).                     *)
JnlTailersFed == \A t \in Tailer : tailer[t].at = "on" =>
                   runs = tailer[t].st /\ t \in runState[runs].watch

(* Once every notification has been handled the run is open exactly while  *)
(* its lease is active, in whatever order they ran (syncRunOpen).          *)
JnlOpenConverges ==
  AllSynced => (open <=> leaseIs = "active")

(* The journal's promise to its clients: refs are unique, tails complete,  *)
(* and a run open exactly while its lease is (Record, Watch, MarkOpen).    *)
JnlSafe == JnlUniqueRefs /\ JnlTailersFed /\ JnlOpenConverges

(* The collector removes no run whose lease is active (GC, MarkOpen).      *)
JnlLiveKept == GCRemove => leaseIs # "active"
=============================================================================
