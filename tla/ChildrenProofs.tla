--------------------------- MODULE ChildrenProofs ---------------------------
(***************************************************************************)
(* What is proved, for every value of their constants, of the services     *)
(* that drive processes for the daemon's clients: the stream hub, the warm *)
(* helpers and the recorder.  Each has an inductive invariant of its own.  *)
(***************************************************************************)
EXTENDS MCServices, FiniteSetTheorems, TLAPS

-----------------------------------------------------------------------------
(* The stream hub.                                                         *)

(* A closed hub is out of the maps, watched by nobody and pumps nothing; a *)
(* hub has a pump exactly while one captures or a failed one will settle.  *)
HubIn(r) ==
  /\ r.closed => r.reg = "out" /\ r.viewers = {} /\ ~ r.pump
  /\ r.live <= 1
  /\ r.pump <=> (r.live = 1 \/ "now" \in r.settling)
  /\ ~ (r.live = 1 /\ "now" \in r.settling)
  /\ r.viewers # {} => r.pump
  /\ "now" \in r.firing \cup r.reaping => ~ r.timer

(* The viewers of a hub are the handlers that wait on a channel of it. *)
WatchersKnown ==
  /\ \A v \in Viewer : watch[v].chan # "none" => watch[v].at \in Hub
  /\ \A h \in Hub : \A v \in hub[h].viewers : watch[v] = [at |-> h, chan |-> "open"]

HubInv == HubTypeOK /\ (\A h \in Hub : HubIn(hub[h])) /\ WatchersKnown

-----------------------------------------------------------------------------
(* Warm helpers.                                                           *)

InUseStates == {"locked", "ready", "again"}

(* A request works on an entry that was made, and uses it under its lock.  *)
SlotsHeld ==
  \A c \in Caller :
    /\ req[c].at \in {"lock"} \cup InUseStates =>
         req[c].slot \in Entry /\ entry[req[c].slot].made
    /\ req[c].at \in InUseStates => entry[req[c].slot].lock = c

(* An entry that is not gone is in the pool or about to be closed, and one *)
(* with a helper or a holder is not gone.                                  *)
EntriesTracked ==
  /\ \A u \in WarmUDID : entries[u] # NoEntry => entry[entries[u]].made
  /\ \A e \in Entry :
       /\ entry[e].made /\ ~ entry[e].gone => e \in Pooled \/ e \in detached
       /\ entry[e].helper \/ entry[e].lock # NoEntry => entry[e].made /\ ~ entry[e].gone

(* An operation that must not be repeated has not been performed before    *)
(* its request is done.                                                    *)
RunsOnce ==
  \A c \in Caller : ~ req[c].idem =>
    performed[c] <= 1 /\ (req[c].at # "done" => performed[c] = 0)

HelpInv == HelpTypeOK /\ SlotsHeld /\ EntriesTracked /\ RunsOnce

-----------------------------------------------------------------------------
(* The recorder.                                                           *)

(* What memory, the process table and the disk can hold of a recording of  *)
(* which the journal has n segments.                                       *)
CaptureIn(c, n) ==
  /\ c.start \in {"none", "reserved", "failed"} /\ c.proc # "exited" => c.proc = "none"
  /\ c.start \in {"none", "reserved"} => c.proc = "none" /\ c.spool = "none" /\ ~ c.noted
  /\ c.start = "none" => c.stop = "no" /\ ~ c.stopping
  /\ c.noted => c.proc # "none"
  /\ c.start = "reserved" => c.stop \in {"no", "wait"}
  /\ c.start \in {"spawned", "probing", "dying", "done"} => c.proc # "none"
  /\ c.start = "dying" => c.proc = "exited" /\ c.spool # "valid"
  /\ c.start = "failed" => c.proc \in {"none", "exited"} /\ c.spool # "valid"
  /\ c.start \in {"probing", "dying", "spawned"} /\ ~ c.stopping => c.spool # "valid" /\ ~ c.sigint
  /\ c.start = "lost" => c.stop \in {"no", "delivered"}
  /\ c.proc = "reused" => c.start = "lost"
  /\ c.sigint => c.stopping \/ c.start = "lost"
  /\ c.stop # "no" => c.stopping \/ c.start = "lost"
  /\ c.stop \in {"finish", "reap"} => c.proc # "none"
  /\ c.stop = "finish" => c.proc = "exited"
  /\ c.stop \in {"ended", "delivered"} => c.proc # "alive"
  /\ c.ok => c.proc \in {"exited", "reused"} /\ c.stop \in {"no", "ended", "delivered"}
  /\ c.ok /\ c.stop = "no" => c.start = "lost"
  /\ c.ok /\ n = 0 => c.spool = "valid"
  /\ n # 0 => n = 1 /\ c.stop = "delivered" /\ c.spool = "none" /\ c.proc \in {"exited", "reused"}

(* A daemon that is down, or recovering, has forgotten every recording;    *)
(* one that serves knows every recording with a child of its own.          *)
OfThisDaemon(c) == c.start = "reserved" \/ (c.proc = "alive" /\ c.start # "lost")
DaemonKnows ==
  /\ ~ Serving => \A r \in Rec : rec[r].start \in {"none", "lost"}
  /\ ~ Serving => \A t \in Sim : recByTarget[t] = NoRec
  /\ \A t \in Sim : recByTarget[t] # NoRec =>
       rec[recByTarget[t]].sim = t /\ rec[recByTarget[t]].start \notin {"none", "lost"}
  /\ \A r \in Rec : OfThisDaemon(rec[r]) => recByTarget[rec[r].sim] = r

FilesName ==
  \A u \in RecRun : stateFile[u] # NoRec =>
    rec[stateFile[u]].run = u /\ rec[stateFile[u]].noted

RecInv ==
  /\ RecTypeOK /\ (\A r \in Rec : CaptureIn(rec[r], ingests[r])) /\ DaemonKnows /\ FilesName
  /\ RecStrangersSafe

(* One recording of a run at a time is being started, held or stopped, and *)
(* after a crash none is started in its run: its file is not overwritten.  *)
Busy(r) ==
  \/ rec[r].start \in {"reserved", "spawned", "probing", "dying"}
  \/ rec[r].stop \in {"wait", "reap", "finish", "ended"}
  \/ recByTarget[rec[r].sim] = r
OnePerRun ==
  \A r, s \in Rec : rec[r].run = rec[s].run =>
    /\ rec[r].sim = rec[s].sim
    /\ Busy(r) /\ Busy(s) => r = s
    /\ rec[r].start = "lost" => rec[s].start \in {"none", "lost"}

RecAlone == RecInv /\ OnePerRun /\ RecReclaimable

-----------------------------------------------------------------------------
(* The hub's fields, and what the operators on it do. *)

PumpIn(r) ==
  /\ r.live <= 1
  /\ r.pump <=> (r.live = 1 \/ "now" \in r.settling)
  /\ ~ (r.live = 1 /\ "now" \in r.settling)

LEMMA BumpedIs ==
  ASSUME NEW r \in HubRecord
  PROVE  /\ Bumped(r) \in HubRecord
         /\ Bumped(r) = [r EXCEPT !.firing = Aged(r.firing), !.reaping = Aged(r.reaping)]
         /\ "now" \notin Bumped(r).firing \cup Bumped(r).reaping
  BY DEF HubRecord, Bumped, Aged, Copy

LEMMA ArmedIn ==
  ASSUME NEW r \in HubRecord, ~ r.closed => HubIn([r EXCEPT !.timer = FALSE]) \/ HubIn(r),
         r.closed => HubIn(r)
  PROVE  Armed(r) \in HubRecord /\ HubIn(Armed(r)) /\ Armed(r).viewers = r.viewers
  BY DEF Armed, HubRecord, Bumped, Aged, Copy, HubIn

LEMMA PumpStoppedIs ==
  ASSUME NEW r \in HubRecord, PumpIn(r)
  PROVE  /\ PumpStopped(r) \in HubRecord
         /\ ~ PumpStopped(r).pump /\ PumpStopped(r).live = 0
         /\ "now" \notin PumpStopped(r).settling
         /\ PumpStopped(r).closed = r.closed /\ PumpStopped(r).reg = r.reg
         /\ PumpStopped(r).viewers = r.viewers /\ PumpStopped(r).timer = r.timer
         /\ PumpStopped(r).firing = r.firing /\ PumpStopped(r).reaping = r.reaping
<1>1. CASE ~ r.pump
  BY <1>1 DEF PumpStopped, HubRecord, PumpIn
<1>2. CASE r.pump
  <2>1. (IF "now" \in r.settling THEN r.live ELSE r.live - 1) = 0
    BY <1>2 DEF HubRecord, PumpIn
  <2> DEFINE none == 0
  <2>2. PumpStopped(r) = [r EXCEPT !.pump = FALSE, !.settling = Aged(r.settling), !.live = none]
    BY <1>2, <2>1 DEF PumpStopped
  <2>3. Aged(r.settling) \subseteq Copy /\ "now" \notin Aged(r.settling)
    BY DEF Aged, Copy
  <2>4. none \in 0..2 /\ none = 0
    OBVIOUS
  <2> HIDE DEF none, Aged
  <2>5. PumpStopped(r) \in HubRecord
    BY <2>2, <2>3, <2>4 DEF HubRecord
  <2> QED
    BY <2>2, <2>3, <2>4, <2>5 DEF HubRecord
<1> QED
  BY <1>1, <1>2

LEMMA HubSet ==
  ASSUME HubInv, NEW h \in Hub, NEW r \in HubRecord, HubIn(r), Changed(h, r)
  PROVE  /\ hub' \in [Hub -> HubRecord] /\ hub'[h] = r
         /\ \A g \in Hub \ {h} : hub'[g] = hub[g]
         /\ \A g \in Hub : HubIn(hub'[g])
  BY DEF HubInv, HubTypeOK, Changed

Watching == [at: Hub \cup {NoHub}, chan: {"none", "open", "closed"}]

(* Handlers are only told to leave, and hubs only lose viewers. *)
LEMMA LosesViewers ==
  ASSUME HubInv, NEW h \in Hub, NEW r \in HubRecord, HubIn(r), Changed(h, r),
         UNCHANGED opens,
         NEW vs \in SUBSET hub[h].viewers, r.viewers \cap vs = {},
         r.viewers \subseteq hub[h].viewers,
         Disconnected(vs) \/ (vs = {} /\ UNCHANGED watch)
  PROVE  HubInv'
<1>1. watch' \in [Viewer -> Watching]
  BY DEF HubInv, HubTypeOK, Watching, Disconnected
<1>2. \A v \in Viewer : watch'[v].at = watch[v].at
        /\ (watch'[v].chan # "none" => watch[v].chan # "none" \/ v \in vs)
        /\ (v \notin vs => watch'[v] = watch[v])
  BY DEF HubInv, HubTypeOK, Disconnected
<1>3. \A g \in Hub : hub[g].viewers \subseteq Viewer
  BY DEF HubInv, HubTypeOK, HubRecord
<1>4. \A g \in Hub : hub'[g].viewers \subseteq hub[g].viewers /\ hub'[g].viewers \cap vs = {}
  <2> SUFFICES ASSUME NEW g \in Hub, g # h PROVE hub[g].viewers \cap vs = {}
    BY HubSet
  <2>1. ASSUME NEW v \in hub[g].viewers, v \in vs PROVE FALSE
    <3>1. watch[v] = [at |-> g, chan |-> "open"] /\ watch[v] = [at |-> h, chan |-> "open"]
      BY <2>1 DEF HubInv, WatchersKnown
    <3>2. watch[v].at = g /\ watch[v].at = h
      BY <3>1
    <3> QED
      BY <3>2
  <2> QED
    BY <2>1
<1>5. WatchersKnown'
  <2>1. \A v \in Viewer : watch'[v].chan # "none" => watch'[v].at \in Hub
    <3> SUFFICES ASSUME NEW v \in Viewer, watch'[v].chan # "none" PROVE watch'[v].at \in Hub
      OBVIOUS
    <3>1. watch[v].chan # "none" => watch[v].at \in Hub
      BY DEF HubInv, WatchersKnown
    <3>2. v \in vs => watch[v].at \in Hub
      <4> SUFFICES ASSUME v \in vs PROVE watch[v].at \in Hub
        OBVIOUS
      <4>1. watch[v] = [at |-> h, chan |-> "open"]
        BY DEF HubInv, WatchersKnown
      <4> QED
        BY <4>1
    <3> QED
      BY <1>2, <3>1, <3>2
  <2>2. \A g \in Hub : \A v \in hub'[g].viewers : watch'[v] = [at |-> g, chan |-> "open"]
    BY <1>2, <1>3, <1>4 DEF HubInv, WatchersKnown
  <2> QED
    BY <2>1, <2>2 DEF WatchersKnown
<1>6. HubTypeOK'
  BY <1>1, HubSet DEF HubTypeOK, HubInv, Watching
<1> QED
  BY <1>5, <1>6, HubSet DEF HubInv

LEMMA ViewersStay ==
  ASSUME HubInv, NEW h \in Hub, NEW r \in HubRecord, HubIn(r), Changed(h, r),
         UNCHANGED <<opens, watch>>, r.viewers = hub[h].viewers
  PROVE  HubInv'
<1> DEFINE vs == {}
<1>1. vs \in SUBSET hub[h].viewers /\ r.viewers \cap vs = {} /\ (vs = {} /\ UNCHANGED watch)
  OBVIOUS
<1> HIDE DEF vs
<1> QED
  BY <1>1, LosesViewers

LEMMA HubStarts == HubInit => HubInv
<1> SUFFICES ASSUME HubInit PROVE HubInv
  OBVIOUS
<1>1. \A h \in Hub : hub[h] \in HubRecord /\ HubIn(hub[h]) /\ hub[h].viewers = {}
  <2> SUFFICES ASSUME NEW h \in Hub
               PROVE  hub[h] \in HubRecord /\ HubIn(hub[h]) /\ hub[h].viewers = {}
    OBVIOUS
  <2>1. PICK t \in HubTarget : hub[h] = [udid |-> t, reg |-> "new", closed |-> FALSE,
          viewers |-> {}, timer |-> FALSE, firing |-> {}, reaping |-> {},
          pump |-> FALSE, live |-> 0, settling |-> {}]
    BY DEF HubInit
  <2> QED
    BY <2>1 DEF HubRecord, HubIn
<1>2. hub \in [Hub -> HubRecord]
  BY <1>1 DEF HubInit
<1> QED
  BY <1>1, <1>2, HubAssumption DEF HubInit, HubInv, HubTypeOK, WatchersKnown

LEMMA HubStep == ASSUME HubInv, [HubNext]_hubVars PROVE HubInv'
<1>0. /\ \A h \in Hub : hub[h] \in HubRecord /\ HubIn(hub[h])
      /\ \A h \in Hub : PumpIn(hub[h])
      /\ opens \in 0..MaxOpens /\ watch \in [Viewer -> Watching]
  BY DEF HubInv, HubTypeOK, HubIn, PumpIn, Watching
<1>1. ASSUME NEW h \in Hub, Open(h) PROVE HubInv'
  <2> DEFINE r == [hub[h] EXCEPT !.reg = "in"]
             q == IF r.viewers = {} THEN Armed(r) ELSE r
  <2>1. r \in HubRecord /\ HubIn(r) /\ r.viewers = hub[h].viewers
    BY <1>0, <1>1 DEF Open, HubRecord, HubIn
  <2>2. q \in HubRecord /\ HubIn(q) /\ q.viewers = hub[h].viewers
    BY <2>1, ArmedIn
  <2>3. Changed(h, q) /\ UNCHANGED watch /\ opens' = opens + 1 /\ opens < MaxOpens
    BY <1>1 DEF Open
  <2> HIDE DEF q
  <2>4. \A g \in Hub : hub'[g].viewers = hub[g].viewers
    BY <2>2, <2>3, HubSet
  <2>5. HubTypeOK'
    BY <2>2, <2>3, HubSet, HubAssumption DEF HubInv, HubTypeOK
  <2> QED
    BY <2>2, <2>3, <2>4, <2>5, HubSet DEF HubInv, WatchersKnown
<1>2. ASSUME NEW h \in Hub, Unregister(h) PROVE HubInv'
  <2> DEFINE r == [hub[h] EXCEPT !.reg = "out"]
  <2>1. r \in HubRecord /\ HubIn(r) /\ r.viewers = hub[h].viewers
    BY <1>0, <1>2 DEF Unregister, HubRecord, HubIn
  <2>2. Changed(h, r) /\ UNCHANGED <<opens, watch>>
    BY <1>2 DEF Unregister
  <2> HIDE DEF r
  <2> QED
    BY <2>1, <2>2, ViewersStay
<1>3. ASSUME NEW h \in Hub, TearDown(h) PROVE HubInv'
  <2> DEFINE r == [hub[h] EXCEPT !.closed = TRUE, !.timer = FALSE, !.viewers = {}]
             q == PumpStopped(r)
  <2>1. r \in HubRecord /\ PumpIn(r) /\ r.viewers = {} /\ r.closed /\ ~ r.timer /\ r.reg = "out"
    BY <1>0, <1>3 DEF TearDown, HubRecord, PumpIn
  <2>2. q \in HubRecord /\ HubIn(q) /\ q.viewers = {}
    <3> HIDE DEF r
    <3> QED
      BY <2>1, PumpStoppedIs DEF HubIn
  <2>3. Changed(h, q) /\ UNCHANGED opens /\ Disconnected(hub[h].viewers)
    BY <1>3 DEF TearDown
  <2> HIDE DEF q
  <2> QED
    BY <2>2, <2>3, LosesViewers
<1>4. ASSUME NEW h \in Hub, TimerFires(h) PROVE HubInv'
  <2> DEFINE r == [hub[h] EXCEPT !.timer = FALSE, !.firing = @ \cup {"now"}]
  <2>1. r \in HubRecord /\ HubIn(r) /\ r.viewers = hub[h].viewers
    BY <1>0, <1>4 DEF TimerFires, HubRecord, HubIn, Copy
  <2>2. Changed(h, r) /\ UNCHANGED <<opens, watch>>
    BY <1>4 DEF TimerFires
  <2> HIDE DEF r
  <2> QED
    BY <2>1, <2>2, ViewersStay
<1>5. ASSUME NEW h \in Hub, PumpFails(h) PROVE HubInv'
  <2> DEFINE r == [hub[h] EXCEPT !.live = @ - 1, !.settling = @ \cup {"now"}]
  <2>1. r \in HubRecord /\ HubIn(r) /\ r.viewers = hub[h].viewers
    <3>1. hub[h].live = 1 /\ hub[h].pump
      BY <1>0, <1>5 DEF PumpFails, HubRecord, HubIn
    <3>2. r \in HubRecord /\ r.settling = hub[h].settling \cup {"now"} /\ r.live = hub[h].live - 1
      <4> DEFINE n == hub[h].live - 1
                 s == hub[h].settling \cup {"now"}
      <4>1. n \in 0..2 /\ s \in SUBSET Copy
        BY <1>0, <3>1 DEF HubRecord, Copy
      <4>2. r = [hub[h] EXCEPT !.live = n, !.settling = s]
        OBVIOUS
      <4> HIDE DEF n, s, r
      <4>3. r \in HubRecord /\ r.settling = s /\ r.live = n
        BY <1>0, <4>1, <4>2 DEF HubRecord
      <4> QED
        BY <4>3 DEF n, s
    <3>3. /\ r.pump = hub[h].pump
          /\ r.viewers = hub[h].viewers /\ r.closed = hub[h].closed /\ r.reg = hub[h].reg
          /\ r.timer = hub[h].timer /\ r.firing = hub[h].firing /\ r.reaping = hub[h].reaping
      BY <1>0 DEF HubRecord
    <3> HIDE DEF r
    <3> QED
      BY <1>0, <3>1, <3>2, <3>3 DEF HubIn
  <2>2. Changed(h, r) /\ UNCHANGED <<opens, watch>>
    BY <1>5 DEF PumpFails
  <2> HIDE DEF r
  <2> QED
    BY <2>1, <2>2, ViewersStay
<1>6. ASSUME NEW h \in Hub, NEW c \in Copy, ReapHub(h, c) PROVE HubInv'
  <2> DEFINE r == [hub[h] EXCEPT !.reaping = @ \ {c}]
             p == [r EXCEPT !.closed = TRUE, !.timer = FALSE, !.reg = "out"]
             q == IF r.reg = "in" /\ StillIdle(h, c) THEN PumpStopped(p) ELSE r
  <2>1. r \in HubRecord /\ HubIn(r) /\ r.viewers = hub[h].viewers
    BY <1>0 DEF HubRecord, HubIn, Copy
  <2>2. p \in HubRecord /\ PumpIn(p) /\ p.viewers = hub[h].viewers /\ p.closed /\ ~ p.timer
        /\ p.reg = "out"
    BY <1>0, ZenonT(40) DEF HubRecord, PumpIn, Copy
  <2>3. ASSUME StillIdle(h, c) PROVE PumpStopped(p) \in HubRecord /\ HubIn(PumpStopped(p))
                                     /\ PumpStopped(p).viewers = hub[h].viewers
    <3> HIDE DEF p
    <3> QED
      BY <2>2, <2>3, PumpStoppedIs DEF HubIn, StillIdle
  <2>4. q \in HubRecord /\ HubIn(q) /\ q.viewers = hub[h].viewers
    <3> HIDE DEF p, r
    <3> QED
      BY <2>1, <2>3
  <2>5. Changed(h, q) /\ UNCHANGED <<opens, watch>>
    BY <1>6 DEF ReapHub
  <2> HIDE DEF q
  <2> QED
    BY <2>4, <2>5, ViewersStay
<1>7. ASSUME NEW h \in Hub, NEW c \in Copy, TimerCallback(h, c) PROVE HubInv'
  <2> DEFINE r == [hub[h] EXCEPT !.firing = @ \ {c}]
             p == [r EXCEPT !.reaping = @ \cup {c}]
             q == IF StillIdle(h, c) THEN PumpStopped(p) ELSE r
  <2>1. r \in HubRecord /\ HubIn(r) /\ r.viewers = hub[h].viewers
    BY <1>0 DEF HubRecord, HubIn, Copy
  <2>2. p \in HubRecord /\ PumpIn(p) /\ p.viewers = hub[h].viewers /\ p.closed = hub[h].closed
        /\ ("now" \in p.firing \cup p.reaping => ~ p.timer)
    <3>1. p \in HubRecord
      BY <1>0 DEF HubRecord, Copy
    <3>2. /\ p.live = hub[h].live /\ p.settling = hub[h].settling /\ p.pump = hub[h].pump
          /\ p.viewers = hub[h].viewers /\ p.closed = hub[h].closed /\ p.timer = hub[h].timer
          /\ p.firing \cup p.reaping \subseteq hub[h].firing \cup hub[h].reaping
      BY <1>0, <1>7 DEF HubRecord, TimerCallback
    <3> HIDE DEF p
    <3> QED
      BY <1>0, <3>1, <3>2 DEF PumpIn, HubIn
  <2>3. ASSUME StillIdle(h, c) PROVE PumpStopped(p) \in HubRecord /\ HubIn(PumpStopped(p))
                                     /\ PumpStopped(p).viewers = hub[h].viewers
    <3> HIDE DEF p
    <3> QED
      BY <2>2, <2>3, PumpStoppedIs DEF HubIn, StillIdle
  <2>4. q \in HubRecord /\ HubIn(q) /\ q.viewers = hub[h].viewers
    <3> HIDE DEF p, r
    <3> QED
      BY <2>1, <2>3
  <2>5. Changed(h, q) /\ UNCHANGED <<opens, watch>>
    BY <1>7 DEF TimerCallback
  <2> HIDE DEF q
  <2> QED
    BY <2>4, <2>5, ViewersStay
<1>8. ASSUME NEW h \in Hub, NEW c \in Copy, Settle(h, c) PROVE HubInv'
  <2> DEFINE r == [hub[h] EXCEPT !.settling = @ \ {c}]
             p == [r EXCEPT !.pump = FALSE, !.viewers = {}]
  <2>1. CASE Mine(c)
    <3>1. p \in HubRecord /\ HubIn(p) /\ p.viewers = {}
      <4>1. c = "now" /\ "now" \in hub[h].settling /\ hub[h].pump /\ hub[h].live = 0
        BY <1>0, <1>8, <2>1 DEF Mine, Settle, HubIn, HubRecord
      <4>2. p \in HubRecord
        BY <1>0 DEF HubRecord
      <4>3. /\ p.live = 0 /\ p.settling = hub[h].settling \ {"now"} /\ p.pump = FALSE
            /\ p.viewers = {} /\ p.closed = hub[h].closed /\ p.reg = hub[h].reg
            /\ p.timer = hub[h].timer /\ p.firing = hub[h].firing /\ p.reaping = hub[h].reaping
        BY <1>0, <4>1 DEF HubRecord
      <4> HIDE DEF p
      <4> QED
        BY <1>0, <4>1, <4>2, <4>3 DEF HubIn
    <3>2. Armed(p) \in HubRecord /\ HubIn(Armed(p)) /\ Armed(p).viewers = {}
      <4> HIDE DEF p
      <4> QED
        BY <3>1, ArmedIn
    <3>3. r.viewers = hub[h].viewers
      BY <1>0 DEF HubRecord
    <3>4. Changed(h, Armed(p)) /\ Disconnected(hub[h].viewers) /\ UNCHANGED opens
      BY <1>8, <2>1, <3>3 DEF Settle
    <3> HIDE DEF p
    <3> QED
      BY <3>2, <3>4, LosesViewers
  <2>2. CASE ~ Mine(c)
    <3>1. r \in HubRecord /\ HubIn(r) /\ r.viewers = hub[h].viewers
      BY <1>0, <2>2 DEF HubRecord, HubIn, Copy, Mine
    <3>2. Changed(h, r) /\ UNCHANGED <<opens, watch>>
      BY <1>8, <2>2 DEF Settle
    <3> HIDE DEF r
    <3> QED
      BY <3>1, <3>2, ViewersStay
  <2> QED
    BY <2>1, <2>2
<1>9. ASSUME NEW h \in Hub, NEW v \in Viewer, Resolve(v, h) PROVE HubInv'
  <2>1. UNCHANGED <<hub, opens>> /\ watch' = [watch EXCEPT ![v].at = h] /\ watch[v].at = NoHub
    BY <1>9 DEF Resolve
  <2>2. \A g \in Hub : v \notin hub[g].viewers
    <3> SUFFICES ASSUME NEW g \in Hub, v \in hub[g].viewers PROVE FALSE
      OBVIOUS
    <3>1. watch[v] = [at |-> g, chan |-> "open"]
      BY DEF HubInv, WatchersKnown
    <3>2. watch[v].at = g
      BY <3>1
    <3> QED
      BY <2>1, <3>2, HubAssumption
  <2>3. watch' \in [Viewer -> Watching] /\ watch'[v].at = h /\ \A w \in Viewer \ {v} : watch'[w] = watch[w]
    BY <1>0, <2>1 DEF Watching
  <2>4. HubTypeOK'
    BY <2>1, <2>3 DEF HubInv, HubTypeOK, Watching
  <2>5. \A g \in Hub : hub[g].viewers \subseteq Viewer
    BY <1>0 DEF HubRecord
  <2>6. WatchersKnown'
    BY <2>1, <2>2, <2>3, <2>5 DEF HubInv, WatchersKnown
  <2> QED
    BY <2>1, <2>4, <2>6 DEF HubInv
<1>10. ASSUME NEW h \in Hub, NEW v \in Viewer, DropStalled(h, v) PROVE HubInv'
  <2> DEFINE r == [hub[h] EXCEPT !.viewers = @ \ {v}]
             q == IF r.viewers = {} THEN Armed(r) ELSE r
  <2>1. r \in HubRecord /\ HubIn(r) /\ r.viewers = hub[h].viewers \ {v}
    BY <1>0 DEF HubRecord, HubIn
  <2>2. q \in HubRecord /\ HubIn(q) /\ q.viewers = hub[h].viewers \ {v}
    <3> HIDE DEF r
    <3> QED
      BY <2>1, ArmedIn
  <2>3. Changed(h, q) /\ UNCHANGED opens /\ Disconnected({v}) /\ v \in hub[h].viewers
    BY <1>10 DEF DropStalled
  <2> HIDE DEF q
  <2> QED
    BY <2>2, <2>3, LosesViewers
<1>11. ASSUME NEW v \in Viewer, Attach(v) PROVE HubInv'
  <2> DEFINE h == watch[v].at
  <2>0. h \in Hub /\ watch[v].chan = "none"
    BY <1>0, <1>11 DEF Attach, Watching
  <2>a. \A g \in Hub : v \notin hub[g].viewers /\ hub[g].viewers \subseteq Viewer
    <3>1. \A g \in Hub : hub[g].viewers \subseteq Viewer
      BY <1>0 DEF HubRecord
    <3>2. ASSUME NEW g \in Hub, v \in hub[g].viewers PROVE FALSE
      <4>1. watch[v] = [at |-> g, chan |-> "open"]
        BY <3>2 DEF HubInv, WatchersKnown
      <4>2. watch[v].chan = "open"
        BY <4>1
      <4> QED
        BY <2>0, <4>2
    <3> QED
      BY <3>1, <3>2
  <2>1. ASSUME UNCHANGED <<hub, opens>>, watch' = [watch EXCEPT ![v].at = NoHub] PROVE HubInv'
    <3>1. watch' \in [Viewer -> Watching] /\ watch'[v].chan = "none" /\ \A w \in Viewer \ {v} : watch'[w] = watch[w]
      BY <1>0, <2>0, <2>1 DEF Watching
    <3>2. HubTypeOK'
      BY <2>1, <3>1 DEF HubInv, HubTypeOK, Watching
    <3>3. WatchersKnown'
      BY <2>1, <2>a, <3>1 DEF HubInv, WatchersKnown
    <3> QED
      BY <2>1, <3>2, <3>3 DEF HubInv
  <2>2. ASSUME ~ hub[h].closed, UNCHANGED opens, watch' = [watch EXCEPT ![v].chan = "open"],
               LET r == [Bumped(hub[h]) EXCEPT !.viewers = @ \cup {v}, !.timer = FALSE] IN
               Changed(h, IF r.pump THEN r ELSE PumpStarted(r))
        PROVE  HubInv'
    <3> DEFINE r == [Bumped(hub[h]) EXCEPT !.viewers = @ \cup {v}, !.timer = FALSE]
               q == IF r.pump THEN r ELSE PumpStarted(r)
    <3>1. r \in HubRecord /\ PumpIn(r) /\ r.viewers = hub[h].viewers \cup {v} /\ ~ r.timer /\ ~ r.closed
      <4>1. Bumped(hub[h]) \in HubRecord /\ Bumped(hub[h]) = [hub[h] EXCEPT
              !.firing = Aged(hub[h].firing), !.reaping = Aged(hub[h].reaping)]
        BY <1>0, <2>0, BumpedIs
      <4>2. /\ Bumped(hub[h]).live = hub[h].live /\ Bumped(hub[h]).settling = hub[h].settling
            /\ Bumped(hub[h]).pump = hub[h].pump /\ Bumped(hub[h]).viewers = hub[h].viewers
            /\ Bumped(hub[h]).closed = hub[h].closed
        BY <1>0, <2>0, <4>1 DEF HubRecord
      <4> DEFINE b == Bumped(hub[h])
      <4> HIDE DEF b
      <4>3. b \in HubRecord /\ r = [b EXCEPT !.viewers = b.viewers \cup {v}, !.timer = FALSE]
        BY <4>1 DEF b
      <4>4. r \in HubRecord /\ r.viewers = b.viewers \cup {v} /\ r.timer = FALSE /\ r.closed = b.closed
            /\ r.live = b.live /\ r.settling = b.settling /\ r.pump = b.pump
        <5> HIDE DEF r
        <5> QED
          BY <4>3 DEF HubRecord
      <4>5. b.live = hub[h].live /\ b.settling = hub[h].settling /\ b.pump = hub[h].pump
            /\ b.viewers = hub[h].viewers /\ b.closed = hub[h].closed
        BY <4>2 DEF b
      <4>6. PumpIn(hub[h])
        BY <1>0, <2>0
      <4> HIDE DEF r
      <4> QED
        BY <2>2, <4>4, <4>5, <4>6 DEF PumpIn
    <3>2. q \in HubRecord /\ HubIn(q) /\ q.viewers = hub[h].viewers \cup {v}
      <4> HIDE DEF r
      <4> QED
        <5>1. CASE r.pump
          BY <3>1, <5>1 DEF HubRecord, HubIn, PumpIn
        <5>2. CASE ~ r.pump
          <6>1. r.live = 0 /\ "now" \notin r.settling
            BY <3>1, <5>2 DEF HubRecord, PumpIn
          <6> DEFINE p == PumpStarted(r)
          <6>2. p = [r EXCEPT !.pump = TRUE, !.live = r.live + 1]
            BY DEF PumpStarted
          <6>3. p \in HubRecord /\ p.live = 1
            <7> DEFINE n == r.live + 1
            <7>1. n \in 0..2 /\ n = 1
              BY <6>1
            <7>2. p = [r EXCEPT !.pump = TRUE, !.live = n]
              BY <6>2
            <7> HIDE DEF n, p
            <7> QED
              BY <3>1, <7>1, <7>2 DEF HubRecord
          <6>4. /\ p.pump /\ p.settling = r.settling /\ p.viewers = r.viewers
                /\ ~ p.closed /\ ~ p.timer
            BY <3>1, <6>2 DEF HubRecord
          <6> HIDE DEF p
          <6>5. HubIn(p)
            BY <6>1, <6>3, <6>4 DEF HubIn
          <6> QED
            BY <3>1, <5>2, <6>3, <6>4, <6>5 DEF p
        <5> QED
          BY <5>1, <5>2
    <3>3. Changed(h, q)
      BY <2>2
    <3> HIDE DEF q
    <3>4. hub' \in [Hub -> HubRecord] /\ hub'[h] = q /\ (\A g \in Hub \ {h} : hub'[g] = hub[g])
          /\ \A g \in Hub : HubIn(hub'[g])
      BY <2>0, <3>2, <3>3, HubSet
    <3>5. watch' \in [Viewer -> Watching] /\ watch'[v] = [at |-> h, chan |-> "open"]
          /\ \A w \in Viewer \ {v} : watch'[w] = watch[w]
      BY <1>0, <2>0, <2>2 DEF Watching
    <3>6. HubTypeOK'
      BY <1>0, <2>2, <3>4, <3>5 DEF HubTypeOK, Watching
    <3>7. WatchersKnown'
      <4>1. \A w \in Viewer : watch'[w].chan # "none" => watch'[w].at \in Hub
        BY <2>0, <3>5 DEF HubInv, WatchersKnown
      <4>2. ASSUME NEW g \in Hub, NEW w \in hub'[g].viewers
            PROVE  watch'[w] = [at |-> g, chan |-> "open"]
        BY <2>a, <3>2, <3>4, <3>5, <4>2 DEF HubInv, WatchersKnown
      <4> QED
        BY <4>1, <4>2 DEF WatchersKnown
    <3> QED
      BY <3>4, <3>6, <3>7 DEF HubInv
  <2> QED
    BY <1>11, <2>1, <2>2 DEF Attach
<1>12. ASSUME NEW v \in Viewer, Detach(v) PROVE HubInv'
  <2> DEFINE h == watch[v].at
             r == [hub[h] EXCEPT !.viewers = @ \ {v}]
             q == IF r.viewers = {} THEN Armed(r) ELSE r
  <2>0. h \in Hub
    BY <1>12 DEF Detach, HubInv, WatchersKnown
  <2>1. r \in HubRecord /\ HubIn(r) /\ r.viewers = hub[h].viewers \ {v}
    BY <1>0, <2>0 DEF HubRecord, HubIn
  <2>2. q \in HubRecord /\ HubIn(q) /\ q.viewers = hub[h].viewers \ {v}
    <3> HIDE DEF r
    <3> QED
      BY <2>1, ArmedIn
  <2>3. Changed(h, q) /\ UNCHANGED opens /\ watch' = [watch EXCEPT ![v] = [at |-> NoHub, chan |-> "none"]]
    BY <1>12 DEF Detach
  <2> HIDE DEF q
  <2>4. hub' \in [Hub -> HubRecord] /\ hub'[h] = q /\ (\A g \in Hub \ {h} : hub'[g] = hub[g])
        /\ \A g \in Hub : HubIn(hub'[g])
    BY <2>0, <2>2, <2>3, HubSet
  <2>5. \A g \in Hub : v \notin hub'[g].viewers /\ hub'[g].viewers \subseteq hub[g].viewers
                       /\ hub[g].viewers \subseteq Viewer
    <3>1. \A g \in Hub : v \in hub[g].viewers => g = h
      <4> SUFFICES ASSUME NEW g \in Hub, v \in hub[g].viewers PROVE g = h
        OBVIOUS
      <4>1. watch[v] = [at |-> g, chan |-> "open"]
        BY DEF HubInv, WatchersKnown
      <4> QED
        BY <4>1
    <3> QED
      BY <1>0, <2>2, <2>4, <3>1 DEF HubRecord
  <2>6. watch' \in [Viewer -> Watching] /\ watch'[v].chan = "none" /\ \A w \in Viewer \ {v} : watch'[w] = watch[w]
    BY <1>0, <2>3 DEF Watching
  <2>7. HubTypeOK'
    BY <1>0, <2>3, <2>4, <2>6 DEF HubTypeOK, Watching
  <2>8. WatchersKnown'
    BY <2>5, <2>6 DEF HubInv, WatchersKnown
  <2> QED
    BY <2>4, <2>7, <2>8 DEF HubInv
<1>13. CASE UNCHANGED hubVars
  BY <1>13 DEF hubVars, HubInv, HubTypeOK, WatchersKnown
<1> QED
  BY <1>1, <1>2, <1>3, <1>4, <1>5, <1>6, <1>7, <1>8, <1>9, <1>10, <1>11, <1>12, <1>13
  DEF HubNext

LEMMA HubHolds == HubInv => HubSafe
  BY DEF HubInv, HubTypeOK, HubRecord, HubIn, HubSafe, HubClosedIsQuiet, HubViewersServed, HubOnePump



(* The idle timer reaps only a hub whose window has run out. *)
LEMMA HubWindows == ASSUME HubInv, HubNext PROVE HubFullWindow
<1> SUFFICES ASSUME NEW h \in Hub, hub[h].reg = "in", hub'[h].reg = "out", hub'[h].closed
             PROVE  ~ hub[h].timer /\ hub[h].viewers = {}
  BY DEF HubFullWindow
<1>0. hub \in [Hub -> HubRecord] /\ ~ hub[h].closed /\ HubIn(hub[h])
  BY DEF HubInv, HubTypeOK, HubIn
(* Every other step leaves it in the maps, or takes it out unclosed. *)
<1>1. ASSUME NEW g, NEW r, Changed(g, r), g = h => r.reg = "in" \/ ~ r.closed
      PROVE  FALSE
  BY <1>0, <1>1 DEF Changed
<1>2. ASSUME NEW r \in HubRecord PROVE Armed(r).reg = r.reg
  BY DEF Armed, Bumped, HubRecord
<1>3. ASSUME NEW r \in HubRecord PROVE PumpStarted(r).reg = r.reg
  BY DEF PumpStarted, HubRecord
<1>4. ASSUME NEW r \in HubRecord PROVE PumpStopped(r).reg = r.reg
  BY DEF PumpStopped, HubRecord
<1>5. ASSUME NEW g \in Hub, NEW c \in Copy, ReapHub(g, c)
      PROVE  ~ hub[h].timer /\ hub[h].viewers = {}
  <2> DEFINE r == [hub[g] EXCEPT !.reaping = @ \ {c}]
  <2>1. CASE g = h /\ StillIdle(h, c)
    BY <1>0, <1>5, <2>1 DEF ReapHub, StillIdle, HubIn
  <2>2. CASE g = h /\ ~ StillIdle(h, c)
    <3>1. Changed(g, r) /\ r.reg = "in"
      BY <1>0, <1>5, <2>2 DEF ReapHub, HubRecord
    <3> HIDE DEF r
    <3> QED
      BY <1>1, <3>1
  <2>3. CASE g # h
    BY <1>1, <1>5, <2>3 DEF ReapHub
  <2> QED
    BY <2>1, <2>2, <2>3
<1>6. ASSUME NEW g \in Hub, Open(g) PROVE FALSE
  <2> DEFINE r == [hub[g] EXCEPT !.reg = "in"]
             q == IF r.viewers = {} THEN Armed(r) ELSE r
  <2>1. r \in HubRecord /\ r.reg = "in"
    BY <1>0 DEF HubRecord
  <2>2. Changed(g, q)
    BY <1>6 DEF Open
  <2> HIDE DEF r
  <2>3. q.reg = "in"
    BY <1>2, <2>1
  <2> HIDE DEF q
  <2> QED
    BY <1>1, <2>2, <2>3
<1>7. ASSUME NEW g \in Hub, Unregister(g) PROVE FALSE
  BY <1>0, <1>7 DEF Unregister, Changed, HubRecord
<1>8. ASSUME NEW g \in Hub, TearDown(g) PROVE FALSE
  BY <1>0, <1>1, <1>8 DEF TearDown
<1>9. ASSUME NEW g \in Hub, TimerFires(g) \/ PumpFails(g) PROVE FALSE
  BY <1>0, <1>9, ZenonT(40) DEF TimerFires, PumpFails, Changed, HubRecord
<1>10. ASSUME NEW g \in Hub, NEW c \in Copy, TimerCallback(g, c) PROVE FALSE
  <2> DEFINE r == [hub[g] EXCEPT !.firing = @ \ {c}]
             p == [r EXCEPT !.reaping = @ \cup {c}]
             q == IF StillIdle(g, c) THEN PumpStopped(p) ELSE r
  <2>1. r \in HubRecord /\ p \in HubRecord /\ r.reg = hub[g].reg /\ p.reg = hub[g].reg
    BY <1>0 DEF HubRecord
  <2>2. Changed(g, q)
    BY <1>10 DEF TimerCallback
  <2> HIDE DEF r, p
  <2>3. q.reg = hub[g].reg
    BY <1>4, <2>1
  <2> HIDE DEF q
  <2> QED
    BY <1>0, <1>1, <2>2, <2>3
<1>11. ASSUME NEW g \in Hub, NEW c \in Copy, Settle(g, c) PROVE FALSE
  <2> DEFINE r == [hub[g] EXCEPT !.settling = @ \ {c}]
             p == [r EXCEPT !.pump = FALSE, !.viewers = {}]
             q == IF Mine(c) THEN Armed(p) ELSE r
  <2>1. r \in HubRecord /\ p \in HubRecord /\ r.reg = hub[g].reg /\ p.reg = hub[g].reg
    BY <1>0 DEF HubRecord
  <2>2. Changed(g, q)
    BY <1>11 DEF Settle
  <2> HIDE DEF r, p
  <2>3. q.reg = hub[g].reg
    BY <1>2, <2>1
  <2> HIDE DEF q
  <2> QED
    BY <1>0, <1>1, <2>2, <2>3
<1>12. ASSUME NEW g, NEW v, NEW r, r = [hub[g] EXCEPT !.viewers = @ \ {v}], g \in Hub,
              Changed(g, IF r.viewers = {} THEN Armed(r) ELSE r)
       PROVE  FALSE
  <2>1. r \in HubRecord /\ r.reg = hub[g].reg
    BY <1>0, <1>12 DEF HubRecord
  <2> DEFINE q == IF r.viewers = {} THEN Armed(r) ELSE r
  <2>2. q.reg = hub[g].reg
    BY <1>2, <2>1
  <2> HIDE DEF q
  <2> QED
    BY <1>0, <1>1, <1>12, <2>2 DEF q
<1>13. ASSUME NEW g \in Hub, NEW v \in Viewer, DropStalled(g, v) PROVE FALSE
  BY <1>12, <1>13 DEF DropStalled
<1>14. ASSUME NEW v \in Viewer, Detach(v) PROVE FALSE
  BY <1>12, <1>14 DEF Detach, HubInv, WatchersKnown
<1>15. ASSUME NEW v \in Viewer, Attach(v) PROVE FALSE
  <2> DEFINE g == watch[v].at
             r == [Bumped(hub[g]) EXCEPT !.viewers = @ \cup {v}, !.timer = FALSE]
             q == IF r.pump THEN r ELSE PumpStarted(r)
  <2>1. g \in Hub
    BY <1>15 DEF Attach, HubInv, HubTypeOK
  <2>2. CASE UNCHANGED hub
    BY <1>0, <2>2
  <2>3. CASE Changed(g, q)
    <3>1. Bumped(hub[g]) \in HubRecord /\ Bumped(hub[g]).reg = hub[g].reg
      <4>1. hub[g] \in HubRecord
        BY <1>0, <2>1
      <4>2. Bumped(hub[g]) \in HubRecord
        BY <4>1, BumpedIs
      <4> QED
        BY <4>1, <4>2 DEF HubRecord, Bumped
    <3>2. r \in HubRecord /\ r.reg = hub[g].reg
      <4> DEFINE b == Bumped(hub[g])
      <4> HIDE DEF b
      <4>1. r = [b EXCEPT !.viewers = b.viewers \cup {v}, !.timer = FALSE]
        BY DEF b
      <4>2. b \in HubRecord /\ b.reg = hub[g].reg
        BY <3>1 DEF b
      <4> HIDE DEF r
      <4> QED
        BY <4>1, <4>2 DEF HubRecord
    <3> HIDE DEF r
    <3>3. q.reg = hub[g].reg
      BY <1>3, <3>2
    <3> HIDE DEF q
    <3> QED
      BY <1>0, <1>1, <2>3, <3>3
  <2> QED
    BY <1>15, <2>2, <2>3 DEF Attach
<1>16. ASSUME NEW g \in Hub, NEW v \in Viewer, Resolve(v, g) PROVE FALSE
  BY <1>0, <1>16 DEF Resolve
<1> QED
  BY <1>5, <1>6, <1>7, <1>8, <1>9, <1>10, <1>11, <1>13, <1>14, <1>15, <1>16 DEF HubNext

-----------------------------------------------------------------------------
(* The pool's entries.                                                     *)

EntryRec == [made: BOOLEAN, helper: BOOLEAN, gone: BOOLEAN, lock: Caller \cup {NoEntry}]
Requests == [at: CallStates, udid: WarmUDID, idem: BOOLEAN, slot: Entry \cup {NoEntry},
             tries: 0..MaxAttempts]

LEMMA GoneIs ==
  ASSUME NEW e \in Entry, entry[e] \in EntryRec
  PROVE  /\ Gone(e) \in EntryRec /\ Gone(e).made = entry[e].made
         /\ ~ Gone(e).helper /\ Gone(e).gone /\ Gone(e).lock = NoEntry
  BY DEF EntryRec, Gone

(* Entries go, and leave the pool only if they do or somebody is about to  *)
(* close them.                                                             *)
LEMMA EntriesGo ==
  ASSUME HelpInv, NEW X \in SUBSET Entry,
         entry' = [e \in Entry |-> IF e \in X THEN Gone(e) ELSE entry[e]],
         entries' \in [WarmUDID -> Entry \cup {NoEntry}],
         \A u \in WarmUDID : entries'[u] = entries[u] \/ entries'[u] = NoEntry,
         \A u \in WarmUDID : entries'[u] # entries[u] => entries[u] \in X \cup detached',
         detached \ X \subseteq detached'
  PROVE  /\ entry' \in [Entry -> EntryRec]
         /\ \A e \in Entry : entry'[e].made = entry[e].made
         /\ EntriesTracked'
<1>1. entry' \in [Entry -> EntryRec]
  BY GoneIs DEF HelpInv, HelpTypeOK, EntryRec
<1>2. \A e \in Entry : entry'[e].made = entry[e].made
  BY GoneIs DEF HelpInv, HelpTypeOK, EntryRec
<1>3. \A u \in WarmUDID : entries'[u] # NoEntry => entry'[entries'[u]].made
  BY <1>2 DEF HelpInv, HelpTypeOK, EntriesTracked
<1>4. ASSUME NEW e \in Entry
      PROVE  /\ entry'[e].made /\ ~ entry'[e].gone => e \in Pooled' \/ e \in detached'
             /\ entry'[e].helper \/ entry'[e].lock # NoEntry => entry'[e].made /\ ~ entry'[e].gone
  <2>1. CASE e \in X
    <3>1. entry'[e] = Gone(e)
      BY <2>1
    <3> QED
      BY <3>1, GoneIs DEF HelpInv, HelpTypeOK, EntryRec
  <2>2. CASE e \notin X
    <3>1. entry'[e] = entry[e]
      BY <2>2
    <3>2. e \in Pooled => e \in Pooled' \/ e \in detached'
      BY <2>2 DEF Pooled
    <3> QED
      BY <2>2, <3>1, <3>2 DEF HelpInv, EntriesTracked
  <2> QED
    BY <2>1, <2>2
<1> QED
  BY <1>1, <1>2, <1>3, <1>4 DEF EntriesTracked

(* ... and a step in which only entries go that nobody else has locked. *)
LEMMA OthersKeep ==
  ASSUME HelpInv, NEW X \in SUBSET Entry,
         \A e \in Entry \ X : entry'[e] = entry[e],
         \A e \in Entry : entry'[e].made = entry[e].made,
         NEW c \in Caller,
         \A e \in X : entry[e].lock \in {c, NoEntry}
  PROVE  \A d \in Caller \ {c} :
           /\ req[d].at \in {"lock"} \cup InUseStates =>
                req[d].slot \in Entry /\ entry'[req[d].slot].made
           /\ req[d].at \in InUseStates => entry'[req[d].slot].lock = d
  BY HelpAssumption DEF HelpInv, HelpTypeOK, SlotsHeld, InUseStates

LEMMA StepIs ==
  ASSUME HelpInv, NEW c \in Caller, NEW s \in CallStates, Step(c, s)
  PROVE  /\ req' \in [Caller -> Requests]
         /\ req'[c].at = s /\ req'[c].idem = req[c].idem /\ req'[c].slot = req[c].slot
         /\ req'[c].udid = req[c].udid
         /\ \A d \in Caller \ {c} : req'[d] = req[d]
  BY DEF HelpInv, HelpTypeOK, Requests, Step

LEMMA HelpStarts == HelpInit => HelpInv
<1> SUFFICES ASSUME HelpInit PROVE HelpInv
  OBVIOUS
<1>1. \A c \in Caller : req[c] \in Requests /\ req[c].at = "new"
  <2> SUFFICES ASSUME NEW c \in Caller PROVE req[c] \in Requests /\ req[c].at = "new"
    OBVIOUS
  <2>1. req[c] \in [at: {"new"}, udid: WarmUDID, idem: BOOLEAN, slot: {NoEntry}, tries: {0}]
    BY DEF HelpInit
  <2>2. {0} \subseteq 0..MaxAttempts
    BY HelpAssumption
  <2> QED
    BY <2>1, <2>2 DEF Requests, CallStates
<1>2. HelpTypeOK
  BY <1>1 DEF HelpInit, HelpTypeOK, Requests
<1>3. SlotsHeld /\ EntriesTracked
  BY <1>1 DEF HelpInit, SlotsHeld, EntriesTracked, InUseStates, Pooled
<1>4. RunsOnce
  BY <1>1 DEF HelpInit, RunsOnce
<1> QED
  BY <1>2, <1>3, <1>4 DEF HelpInv

LEMMA HelpHolds == HelpInv => HelpSafe
  BY DEF HelpInv, HelpTypeOK, HelpSafe, HelpAtMostOnce, HelpNoLeak, RunsOnce, EntriesTracked

LEMMA EvictIs ==
  ASSUME HelpInv, NEW c \in Caller, req[c].at \in InUseStates, NEW cool \in BOOLEAN,
         Evict(c, cool), UNCHANGED detached
  PROVE  /\ entry' \in [Entry -> EntryRec]
         /\ entries' \in [WarmUDID -> Entry \cup {NoEntry}]
         /\ cooling' \subseteq WarmUDID /\ EntriesTracked'
         /\ \A d \in Caller \ {c} :
              /\ req[d].at \in {"lock"} \cup InUseStates =>
                   req[d].slot \in Entry /\ entry'[req[d].slot].made
              /\ req[d].at \in InUseStates => entry'[req[d].slot].lock = d
<1> DEFINE e == req[c].slot
           X == {e}
<1>1. e \in Entry /\ entry[e].made /\ entry[e].lock = c /\ req[c].udid \in WarmUDID
  BY DEF HelpInv, HelpTypeOK, SlotsHeld
<1>2. entry' = [f \in Entry |-> IF f \in X THEN Gone(f) ELSE entry[f]]
  BY <1>1 DEF Evict, HelpInv, HelpTypeOK
<1>3. entries' = Removed(req[c].udid, e)
  BY DEF Evict
<1>4. /\ entries' \in [WarmUDID -> Entry \cup {NoEntry}]
      /\ \A u \in WarmUDID : entries'[u] = entries[u] \/ entries'[u] = NoEntry
      /\ \A u \in WarmUDID : entries'[u] # entries[u] => entries[u] \in X
  BY <1>1, <1>3 DEF Removed, HelpInv, HelpTypeOK
<1>5. cooling' \subseteq WarmUDID
  BY <1>1 DEF Evict, HelpInv, HelpTypeOK
<1>6. detached \ X \subseteq detached'
  OBVIOUS
<1>7. X \in SUBSET Entry /\ (\A f \in X : entry[f].made) /\ (\A f \in X : entry[f].lock \in {c, NoEntry})
  BY <1>1
<1>8. \A f \in Entry \ X : entry'[f] = entry[f]
  BY <1>2
<1> HIDE DEF X
<1>9. entry' \in [Entry -> EntryRec] /\ (\A f \in Entry : entry'[f].made = entry[f].made) /\ EntriesTracked'
  BY <1>2, <1>4, <1>6, <1>7, EntriesGo
<1> QED
  BY <1>4, <1>5, <1>7, <1>8, <1>9, OthersKeep

(* What a step must show of the request it is about.                       *)
SlotIn(c) ==
  /\ req[c].at \in {"lock"} \cup InUseStates =>
       req[c].slot \in Entry /\ entry[req[c].slot].made
  /\ req[c].at \in InUseStates => entry[req[c].slot].lock = c
OnceIn(c) ==
  ~ req[c].idem => performed[c] <= 1 /\ (req[c].at # "done" => performed[c] = 0)

LEMMA OnSimIs ==
  ASSUME HelpInv, NEW c \in Caller, NEW n \in {0, 1}, OnSim(c, n)
  PROVE  /\ performed' \in [Caller -> Nat] /\ performed'[c] = performed[c] + n
         /\ \A d \in Caller \ {c} : performed'[d] = performed[d]
  BY DEF HelpInv, HelpTypeOK, OnSim

LEMMA OneCaller ==
  ASSUME HelpInv, NEW c \in Caller, req' \in [Caller -> Requests],
         \A d \in Caller \ {c} : req'[d] = req[d],
         \A d \in Caller \ {c} : performed'[d] = performed[d],
         \A d \in Caller \ {c} :
           /\ req[d].at \in {"lock"} \cup InUseStates =>
                req[d].slot \in Entry /\ entry'[req[d].slot].made
           /\ req[d].at \in InUseStates => entry'[req[d].slot].lock = d,
         SlotIn(c)', OnceIn(c)'
  PROVE  SlotsHeld' /\ RunsOnce'
<1>1. SlotsHeld'
  BY DEF SlotsHeld, SlotIn
<1>2. RunsOnce'
  BY DEF RunsOnce, OnceIn, HelpInv
<1> QED
  BY <1>1, <1>2

LEMMA EntryGoes ==
  ASSUME HelpInv, NEW X \in SUBSET Entry, \A e \in X : entry[e].lock = NoEntry,
         entry' = [e \in Entry |-> IF e \in X THEN Gone(e) ELSE entry[e]],
         entries' \in [WarmUDID -> Entry \cup {NoEntry}],
         \A u \in WarmUDID : entries'[u] = entries[u] \/ entries'[u] = NoEntry,
         \A u \in WarmUDID : entries'[u] # entries[u] => entries[u] \in X \cup detached',
         detached \ X \subseteq detached', detached' \subseteq Entry,
         cooling' \subseteq WarmUDID, poolShut' \in BOOLEAN, UNCHANGED <<req, performed>>
  PROVE  HelpInv'
<1>1. /\ entry' \in [Entry -> EntryRec]
      /\ \A e \in Entry : entry'[e].made = entry[e].made
      /\ EntriesTracked'
  BY EntriesGo
<1>2. SlotsHeld'
  BY <1>1, HelpAssumption DEF HelpInv, HelpTypeOK, SlotsHeld, InUseStates
<1>3. RunsOnce'
  BY DEF HelpInv, RunsOnce
<1>4. HelpTypeOK'
  BY <1>1 DEF HelpInv, HelpTypeOK, EntryRec
<1> QED
  BY <1>1, <1>2, <1>3, <1>4 DEF HelpInv

(* A request moves on and changes its entry.                               *)
EntryIs(e, r) == entry' = [entry EXCEPT ![e] = r]

LEMMA OneEntry ==
  ASSUME HelpInv, NEW c \in Caller, NEW s \in CallStates, Step(c, s),
         UNCHANGED <<poolShut, detached, entries, cooling>>,
         performed' \in [Caller -> Nat], \A d \in Caller \ {c} : performed'[d] = performed[d],
         NEW e \in Entry, NEW r \in EntryRec, EntryIs(e, r), r.made = entry[e].made,
         r.gone = entry[e].gone, r.helper \/ r.lock # NoEntry => r.made /\ ~ r.gone,
         \A d \in Caller \ {c} : req[d].at \in InUseStates /\ req[d].slot = e => r.lock = d,
         SlotIn(c)', OnceIn(c)'
  PROVE  HelpInv'
<1>0. /\ req \in [Caller -> Requests] /\ entry \in [Entry -> EntryRec]
      /\ entries \in [WarmUDID -> Entry \cup {NoEntry}] /\ performed \in [Caller -> Nat]
      /\ detached \subseteq Entry /\ cooling \subseteq WarmUDID /\ poolShut \in BOOLEAN
      /\ entry' = [entry EXCEPT ![e] = r]
  BY DEF HelpInv, HelpTypeOK, Requests, EntryRec, EntryIs
<1>a. \A d \in Caller : SlotIn(d) /\ OnceIn(d)
  BY DEF HelpInv, SlotsHeld, RunsOnce, SlotIn, OnceIn
<1>1. /\ req' \in [Caller -> Requests]
      /\ \A d \in Caller \ {c} : req'[d] = req[d]
  BY StepIs
<1>2. /\ entry' \in [Entry -> EntryRec] /\ \A f \in Entry : entry'[f].made = entry[f].made /\ entry'[f].gone = entry[f].gone
  BY <1>0 DEF EntryRec
<1>3. \A d \in Caller \ {c} :
        /\ req[d].at \in {"lock"} \cup InUseStates =>
             req[d].slot \in Entry /\ entry'[req[d].slot].made
        /\ req[d].at \in InUseStates => entry'[req[d].slot].lock = d
  BY <1>0, <1>a, <1>2 DEF SlotIn
<1>4. SlotsHeld' /\ RunsOnce'
  BY <1>1, <1>3, OneCaller
<1>5. EntriesTracked'
  <2>1. \A u \in WarmUDID : entries'[u] # NoEntry => entry'[entries'[u]].made
    BY <1>0, <1>2 DEF HelpInv, EntriesTracked
  <2>2. ASSUME NEW f \in Entry
        PROVE /\ entry'[f].made /\ ~ entry'[f].gone => f \in Pooled' \/ f \in detached'
              /\ entry'[f].helper \/ entry'[f].lock # NoEntry => entry'[f].made /\ ~ entry'[f].gone
    <3>1. Pooled' = Pooled
      BY DEF Pooled
    <3>2. entry'[f] = entry[f] \/ (f = e /\ entry'[f] = r)
      BY <1>0
    <3> QED
      BY <1>2, <3>1, <3>2 DEF HelpInv, EntriesTracked
  <2> QED
    BY <2>1, <2>2 DEF EntriesTracked
<1> QED
  BY <1>0, <1>1, <1>2, <1>4, <1>5 DEF HelpInv, HelpTypeOK, Requests, EntryRec

LEMMA HelpStep == ASSUME HelpInv, [HelpNext]_helpVars PROVE HelpInv'
<1>0. /\ req \in [Caller -> Requests] /\ entry \in [Entry -> EntryRec]
      /\ entries \in [WarmUDID -> Entry \cup {NoEntry}] /\ performed \in [Caller -> Nat]
      /\ detached \subseteq Entry /\ cooling \subseteq WarmUDID /\ poolShut \in BOOLEAN
  BY DEF HelpInv, HelpTypeOK, Requests, EntryRec
<1>a. \A c \in Caller : SlotIn(c) /\ OnceIn(c)
  BY DEF HelpInv, SlotsHeld, RunsOnce, SlotIn, OnceIn
<1>b. ASSUME NEW c \in Caller, req' \in [Caller -> Requests], performed' \in [Caller -> Nat],
             entry' \in [Entry -> EntryRec], entries' \in [WarmUDID -> Entry \cup {NoEntry}],
             cooling' \subseteq WarmUDID, UNCHANGED <<poolShut, detached>>,
             EntriesTracked', SlotsHeld', RunsOnce'
      PROVE  HelpInv'
  BY <1>0, <1>b DEF HelpInv, HelpTypeOK, Requests, EntryRec
<1>c. ASSUME NEW c \in Caller, NEW s \in CallStates, Step(c, s), s \notin {"lock"} \cup InUseStates,
             req[c].at \in InUseStates, NEW cool \in BOOLEAN, Evict(c, cool),
             performed' \in [Caller -> Nat], \A d \in Caller \ {c} : performed'[d] = performed[d],
             OnceIn(c)', UNCHANGED <<poolShut, detached>>
      PROVE  HelpInv'
  <2>1. /\ req' \in [Caller -> Requests] /\ req'[c].at = s
        /\ \A d \in Caller \ {c} : req'[d] = req[d]
    BY <1>c, StepIs
  <2>2. /\ entry' \in [Entry -> EntryRec]
        /\ entries' \in [WarmUDID -> Entry \cup {NoEntry}]
        /\ cooling' \subseteq WarmUDID /\ EntriesTracked'
        /\ \A d \in Caller \ {c} :
             /\ req[d].at \in {"lock"} \cup InUseStates =>
                  req[d].slot \in Entry /\ entry'[req[d].slot].made
             /\ req[d].at \in InUseStates => entry'[req[d].slot].lock = d
    BY <1>c, EvictIs
  <2>3. SlotIn(c)'
    BY <1>c, <2>1 DEF SlotIn
  <2>4. SlotsHeld' /\ RunsOnce'
    BY <1>c, <2>1, <2>2, <2>3, OneCaller
  <2> QED
    BY <1>b, <1>c, <2>1, <2>2, <2>4
<1>e. ASSUME NEW c \in Caller, req' \in [Caller -> Requests], \A d \in Caller \ {c} : req'[d] = req[d],
             performed' \in [Caller -> Nat], \A d \in Caller \ {c} : performed'[d] = performed[d],
             UNCHANGED <<entry, entries, cooling, poolShut, detached>>, SlotIn(c)', OnceIn(c)'
      PROVE  HelpInv'
  <2>1. SlotsHeld' /\ RunsOnce'
    BY <1>a, <1>e, OneCaller DEF SlotIn
  <2>2. EntriesTracked'
    BY <1>e DEF HelpInv, EntriesTracked, Pooled
  <2> QED
    BY <1>0, <1>b, <1>e, <2>1, <2>2
<1>1. ASSUME NEW c \in Caller, FindSlot(c) PROVE HelpInv'
  <2> DEFINE u == req[c].udid
             idle == {w \in WarmUDID : entries[w] # NoEntry /\ Unlocked(entries[w])}
             ToLock(e) == [req[c] EXCEPT !.at = "lock", !.slot = e, !.tries = @ + 1]
             NewSlot(victims, e) ==
               /\ entries' = [w \in WarmUDID |-> IF w = u THEN e
                                ELSE IF w \in victims THEN NoEntry ELSE entries[w]]
               /\ entry' = [f \in Entry |-> IF f = e THEN [entry[e] EXCEPT !.made = TRUE]
                              ELSE IF \E w \in victims : entries[w] = f THEN Gone(f)
                              ELSE entry[f]]
               /\ req' = [req EXCEPT ![c] = ToLock(e)]
  <2>0. req[c].at \in {"new", "slot"} /\ u \in WarmUDID /\ UNCHANGED <<cooling, poolShut, detached, performed>>
    BY <1>0, <1>1 DEF FindSlot, Requests
  <2>1. ASSUME Step(c, "cold"), UNCHANGED <<entries, entry>> PROVE HelpInv'
    <3>1. /\ req' \in [Caller -> Requests] /\ req'[c].at = "cold" /\ req'[c].idem = req[c].idem
          /\ \A d \in Caller \ {c} : req'[d] = req[d]
      BY <2>1, StepIs DEF CallStates
    <3>2. SlotIn(c)' /\ OnceIn(c)'
      BY <1>a, <2>0, <3>1 DEF SlotIn, OnceIn, InUseStates
    <3> QED
      BY <1>0, <1>e, <2>0, <2>1, <3>1, <3>2
  <2>a. ASSUME NEW e \in Entry, req[c].tries < MaxAttempts, req' = [req EXCEPT ![c] = ToLock(e)]
        PROVE  /\ req' \in [Caller -> Requests] /\ req'[c].at = "lock" /\ req'[c].slot = e
               /\ req'[c].idem = req[c].idem /\ \A d \in Caller \ {c} : req'[d] = req[d]
    <3> DEFINE q == ToLock(e)
    <3>1. req[c].tries + 1 \in 0..MaxAttempts
      BY <1>0, <2>a, HelpAssumption DEF Requests
    <3>2. q \in Requests /\ q.at = "lock" /\ q.slot = e /\ q.idem = req[c].idem
      BY <1>0, <3>1 DEF Requests, CallStates
    <3> HIDE DEF q
    <3>3. req' = [req EXCEPT ![c] = q]
      BY <2>a DEF q
    <3> QED
      BY <1>0, <3>2, <3>3
  <2>2. ASSUME req[c].tries < MaxAttempts, entries[u] # NoEntry, req' = [req EXCEPT ![c] = ToLock(entries[u])],
               UNCHANGED <<entries, entry>>
        PROVE  HelpInv'
    <3>1. entries[u] \in Entry /\ entry[entries[u]].made
      BY <1>0, <2>0, <2>2 DEF HelpInv, EntriesTracked
    <3>2. /\ req' \in [Caller -> Requests] /\ req'[c].at = "lock" /\ req'[c].slot = entries[u]
          /\ req'[c].idem = req[c].idem /\ \A d \in Caller \ {c} : req'[d] = req[d]
      BY <2>2, <2>a, <3>1
    <3>3. SlotIn(c)' /\ OnceIn(c)'
      BY <1>a, <2>0, <2>2, <3>1, <3>2 DEF SlotIn, OnceIn, InUseStates
    <3> QED
      BY <1>0, <1>e, <2>0, <2>2, <3>2, <3>3
  <2>3. ASSUME req[c].tries < MaxAttempts, entries[u] = NoEntry,
               NEW victims \in {{}} \cup {{w} : w \in idle}, NEW e \in FreshEntry, NewSlot(victims, e)
        PROVE  HelpInv'
    <3>1. e \in Entry /\ ~ entry[e].made
      BY <2>3 DEF FreshEntry
    <3>2. victims \subseteq idle
      BY <2>3
    <3>3. ~ entry[e].helper /\ entry[e].lock = NoEntry
      BY <3>1 DEF HelpInv, EntriesTracked
    <3> DEFINE r == [entry[e] EXCEPT !.made = TRUE]
               X == {entries[w] : w \in victims}
    <3>4. r \in EntryRec /\ r.made /\ ~ r.helper /\ r.lock = NoEntry
      BY <1>0, <3>1, <3>3 DEF EntryRec
    <3>5. X \subseteq Entry /\ e \notin X /\ \A f \in X : entry[f].lock = NoEntry /\ entry[f].made
      BY <1>0, <3>1, <3>2 DEF HelpInv, EntriesTracked, Unlocked
    <3> HIDE DEF r
    <3>6. /\ entry'[e] = r /\ \A f \in X : entry'[f] = Gone(f)
          /\ \A f \in Entry \ (X \cup {e}) : entry'[f] = entry[f]
      BY <2>3, <3>1, <3>5 DEF r
    <3>7. entry' = [f \in Entry |-> entry'[f]] /\ \A f \in Entry : entry'[f] \in EntryRec
      <4>1. entry' = [f \in Entry |-> entry'[f]]
        BY <2>3
      <4> HIDE DEF X
      <4> QED
        BY <1>0, <3>4, <3>5, <3>6, <4>1, GoneIs
    <3>8. entry' \in [Entry -> EntryRec]
      BY <3>7
    <3>9. entries' \in [WarmUDID -> Entry \cup {NoEntry}] /\ entries'[u] = e
      BY <1>0, <2>0, <2>3, <3>1
    <3>10. \A f \in X : f \in Entry /\ Gone(f).made /\ ~ Gone(f).helper /\ Gone(f).gone /\ Gone(f).lock = NoEntry
      <4> HIDE DEF X
      <4> QED
        BY <1>0, <3>5, GoneIs
    <3>11. \A f \in Entry : entry[f].made => entry'[f].made
      <4> HIDE DEF X
      <4> QED
        BY <3>4, <3>6, <3>10
    <3>12. EntriesTracked'
      <4>1. \A w \in WarmUDID : entries'[w] # NoEntry => entry'[entries'[w]].made
        <5> SUFFICES ASSUME NEW w \in WarmUDID, entries'[w] # NoEntry PROVE entry'[entries'[w]].made
          OBVIOUS
        <5>1. entries'[w] = e \/ entries'[w] = entries[w]
          BY <2>3
        <5> QED
          BY <1>0, <3>4, <3>6, <3>11, <5>1 DEF HelpInv, EntriesTracked
      <4>2. ASSUME NEW f \in Entry
            PROVE  /\ entry'[f].made /\ ~ entry'[f].gone => f \in Pooled' \/ f \in detached'
                   /\ entry'[f].helper \/ entry'[f].lock # NoEntry => entry'[f].made /\ ~ entry'[f].gone
        <5>1. CASE f = e
          <6>1. e \in Pooled'
            BY <2>0, <3>1, <3>9, HelpAssumption DEF Pooled
          <6>2. ~ entry[e].gone => ~ r.gone
            BY <1>0, <3>1 DEF EntryRec, r
          <6> QED
            BY <3>4, <3>6, <5>1, <6>1
        <5>2. CASE f \in X
          BY <3>6, <3>10, <5>2
        <5>3. CASE f \notin X \cup {e}
          <6>1. entry'[f] = entry[f]
            BY <3>6, <5>3
          <6>2. f \in Pooled => f \in Pooled'
            <7> SUFFICES ASSUME NEW w \in WarmUDID, entries[w] = f, f # NoEntry PROVE f \in Pooled'
              BY DEF Pooled
            <7>1. w # u /\ w \notin victims
              BY <2>3, <5>3
            <7>2. entries'[w] = f
              BY <2>3, <7>1
            <7> QED
              BY <7>2 DEF Pooled
          <6> QED
            BY <2>0, <6>1, <6>2 DEF HelpInv, EntriesTracked
        <5> QED
          BY <5>1, <5>2, <5>3
      <4> QED
        BY <4>1, <4>2 DEF EntriesTracked
    <3>13. /\ req' \in [Caller -> Requests] /\ req'[c].at = "lock" /\ req'[c].slot = e
           /\ req'[c].idem = req[c].idem /\ \A d \in Caller \ {c} : req'[d] = req[d]
      BY <2>3, <2>a, <3>1
    <3>14. SlotIn(c)' /\ OnceIn(c)'
      BY <1>a, <2>0, <3>1, <3>4, <3>6, <3>13 DEF SlotIn, OnceIn, InUseStates
    <3>15. \A d \in Caller \ {c} :
             /\ req[d].at \in {"lock"} \cup InUseStates =>
                  req[d].slot \in Entry /\ entry'[req[d].slot].made
             /\ req[d].at \in InUseStates => entry'[req[d].slot].lock = d
      <4> SUFFICES ASSUME NEW d \in Caller \ {c}
                   PROVE  /\ req[d].at \in {"lock"} \cup InUseStates =>
                               req[d].slot \in Entry /\ entry'[req[d].slot].made
                          /\ req[d].at \in InUseStates => entry'[req[d].slot].lock = d
        OBVIOUS
      <4> HIDE DEF X
      <4>1. req[d].at \in InUseStates => req[d].slot \notin X \cup {e}
        BY <1>a, <3>3, <3>5, HelpAssumption DEF SlotIn
      <4> QED
        BY <1>a, <3>6, <3>11, <4>1 DEF SlotIn
    <3>16. SlotsHeld' /\ RunsOnce'
      BY <2>0, <3>13, <3>14, <3>15, OneCaller
    <3> QED
      BY <1>0, <1>b, <2>0, <3>8, <3>9, <3>12, <3>13, <3>16
  <2>4. CASE Step(c, "cold") /\ UNCHANGED <<entries, entry>>
    BY <2>1, <2>4
  <2>5. CASE req[c].tries < MaxAttempts /\ entries[u] # NoEntry
             /\ req' = [req EXCEPT ![c] = ToLock(entries[u])] /\ UNCHANGED <<entries, entry>>
    <3> HIDE DEF u, ToLock
    <3> QED
      BY <2>2, <2>5
  <2>6. CASE /\ req[c].tries < MaxAttempts /\ entries[u] = NoEntry
             /\ \E victims \in {{}} \cup {{w} : w \in idle}, e \in FreshEntry : NewSlot(victims, e)
    <3> HIDE DEF u, ToLock, idle, NewSlot
    <3>1. PICK victims \in {{}} \cup {{w} : w \in idle}, e \in FreshEntry : NewSlot(victims, e)
      BY <2>6
    <3> QED
      BY <2>3, <2>6, <3>1
  <2>7. \/ Step(c, "cold") /\ UNCHANGED <<entries, entry>>
        \/ req[c].tries < MaxAttempts /\ entries[u] # NoEntry
             /\ req' = [req EXCEPT ![c] = ToLock(entries[u])] /\ UNCHANGED <<entries, entry>>
        \/ /\ req[c].tries < MaxAttempts /\ entries[u] = NoEntry
           /\ \E victims \in {{}} \cup {{w} : w \in idle}, e \in FreshEntry : NewSlot(victims, e)
    BY <1>1, Zenon DEF FindSlot
  <2> QED
    BY <2>4, <2>5, <2>6, <2>7
<1>2. ASSUME NEW c \in Caller, LockSlot(c) PROVE HelpInv'
  <2> DEFINE e == req[c].slot
             r == [entry[e] EXCEPT !.lock = c]
  <2>0. e \in Entry /\ entry[e].made /\ req[c].at = "lock" /\ UNCHANGED <<entries, cooling, poolShut, detached, performed>>
    BY <1>a, <1>2 DEF SlotIn, LockSlot, HelpAt
  <2>1. ASSUME Step(c, "slot"), UNCHANGED entry PROVE HelpInv'
    <3>1. /\ req' \in [Caller -> Requests] /\ req'[c].at = "slot" /\ req'[c].idem = req[c].idem
          /\ \A d \in Caller \ {c} : req'[d] = req[d]
      BY <2>1, StepIs DEF CallStates
    <3>2. SlotIn(c)' /\ OnceIn(c)'
      BY <1>a, <2>0, <3>1 DEF SlotIn, OnceIn, InUseStates
    <3> QED
      BY <1>0, <1>e, <2>0, <2>1, <3>1, <3>2
  <2>2. ASSUME ~ entry[e].gone, entry' = [entry EXCEPT ![e].lock = c], Step(c, "locked"), Unlocked(e)
        PROVE  HelpInv'
    <3>1. /\ req' \in [Caller -> Requests] /\ req'[c].at = "locked" /\ req'[c].idem = req[c].idem
          /\ req'[c].slot = e
      BY <2>2, StepIs DEF CallStates
    <3>2. r \in EntryRec /\ r.made = entry[e].made /\ r.gone = entry[e].gone /\ r.lock = c /\ r.helper = entry[e].helper
      BY <1>0, <2>0 DEF EntryRec
    <3>3. entry' = [entry EXCEPT ![e] = r]
      BY <1>0, <2>0, <2>2 DEF EntryRec
    <3> HIDE DEF r
    <3>4. entry'[e] = r
      BY <1>0, <2>0, <3>3
    <3>5. SlotIn(c)' /\ OnceIn(c)'
      BY <1>a, <2>0, <3>1, <3>2, <3>4 DEF SlotIn, OnceIn, InUseStates
    <3>6. \A d \in Caller \ {c} : req[d].at \in InUseStates /\ req[d].slot = e => r.lock = d
      BY <1>a, <2>2, HelpAssumption DEF SlotIn, Unlocked
    <3>7. r.helper \/ r.lock # NoEntry => r.made /\ ~ r.gone
      BY <2>0, <2>2, <3>2
    <3>8. EntryIs(e, r)
      BY <3>3 DEF EntryIs
    <3> DEFINE s == "locked"
    <3>9. s \in CallStates /\ Step(c, s)
      BY <2>2 DEF CallStates
    <3>10. UNCHANGED <<poolShut, detached, entries, cooling>> /\ performed' \in [Caller -> Nat]
           /\ \A d \in Caller \ {c} : performed'[d] = performed[d]
      BY <1>0, <2>0
    <3> HIDE DEF e, s
    <3> QED
      BY <2>0, <3>2, <3>5, <3>6, <3>7, <3>8, <3>9, <3>10, OneEntry
  <2> QED
    BY <1>2, <2>1, <2>2 DEF LockSlot
<1>3. ASSUME NEW c \in Caller, HelpSpawn(c) PROVE HelpInv'
  <2> DEFINE e == req[c].slot
             r == [entry[e] EXCEPT !.helper = TRUE]
  <2>0. e \in Entry /\ entry[e].made /\ entry[e].lock = c /\ req[c].at = "locked" /\ UNCHANGED <<poolShut, detached, performed>>
    BY <1>a, <1>3 DEF SlotIn, HelpSpawn, HelpAt, InUseStates
  <2>1. ASSUME Step(c, "ready"), entry' = [entry EXCEPT ![e].helper = TRUE], UNCHANGED <<entries, cooling>>
        PROVE  HelpInv'
    <3>1. /\ req' \in [Caller -> Requests] /\ req'[c].at = "ready" /\ req'[c].idem = req[c].idem
          /\ req'[c].slot = e
      BY <2>1, StepIs DEF CallStates
    <3>2. r \in EntryRec /\ r.made = entry[e].made /\ r.gone = entry[e].gone /\ r.lock = entry[e].lock
      BY <1>0, <2>0 DEF EntryRec
    <3>3. entry' = [entry EXCEPT ![e] = r]
      BY <1>0, <2>0, <2>1 DEF EntryRec
    <3> HIDE DEF r
    <3>4. entry'[e] = r
      BY <1>0, <2>0, <3>3
    <3>5. SlotIn(c)' /\ OnceIn(c)'
      BY <1>a, <2>0, <3>1, <3>2, <3>4 DEF SlotIn, OnceIn, InUseStates
    <3>6. \A d \in Caller \ {c} : req[d].at \in InUseStates /\ req[d].slot = e => r.lock = d
      BY <1>a, <3>2 DEF SlotIn
    <3>7. r.made /\ ~ r.gone
      BY <2>0, <3>2, HelpAssumption DEF HelpInv, EntriesTracked
    <3>8. EntryIs(e, r)
      BY <3>3 DEF EntryIs
    <3> DEFINE s == "ready"
    <3>9. s \in CallStates /\ Step(c, s)
      BY <2>1 DEF CallStates
    <3>10. UNCHANGED <<poolShut, detached, entries, cooling>> /\ performed' \in [Caller -> Nat]
           /\ \A d \in Caller \ {c} : performed'[d] = performed[d]
      BY <1>0, <2>0, <2>1
    <3> HIDE DEF e, s
    <3> QED
      BY <2>0, <3>2, <3>5, <3>6, <3>7, <3>8, <3>9, <3>10, OneEntry
  <2>2. ASSUME Evict(c, TRUE), Step(c, "cold") PROVE HelpInv'
    <3>1. req'[c].at = "cold" /\ req'[c].idem = req[c].idem
      BY <2>2, StepIs DEF CallStates
    <3>2. OnceIn(c)'
      BY <1>a, <2>0, <3>1 DEF OnceIn
    <3> QED
      BY <1>0, <1>c, <2>0, <2>2, <3>2 DEF CallStates, InUseStates
  <2> QED
    BY <1>3, <2>1, <2>2 DEF HelpSpawn
<1>4. ASSUME NEW c \in Caller, Answer(c) PROVE HelpInv'
  <2> DEFINE e == req[c].slot
             r == [entry[e] EXCEPT !.lock = NoEntry]
  <2>0. e \in Entry /\ entry[e].made /\ entry[e].lock = c /\ req[c].at \in InUseStates
        /\ req[c].at # "done" /\ UNCHANGED <<entries, cooling, poolShut, detached>>
        /\ Step(c, "done") /\ entry' = [entry EXCEPT ![e].lock = NoEntry]
    BY <1>a, <1>4 DEF SlotIn, Answer, InUseStates
  <2>1. PICK n \in {0, 1} : OnSim(c, n)
    BY <1>4 DEF Answer
  <2>2. /\ req' \in [Caller -> Requests] /\ req'[c].at = "done" /\ req'[c].idem = req[c].idem
        /\ req'[c].slot = e
    BY <2>0, StepIs DEF CallStates
  <2>3. r \in EntryRec /\ r.made = entry[e].made /\ r.gone = entry[e].gone /\ r.lock = NoEntry /\ r.helper = entry[e].helper
    BY <1>0, <2>0 DEF EntryRec
  <2>4. entry' = [entry EXCEPT ![e] = r]
    BY <1>0, <2>0 DEF EntryRec
  <2> HIDE DEF r
  <2>5. SlotIn(c)'
    BY <2>2 DEF SlotIn, InUseStates
  <2>6. OnceIn(c)' /\ performed' \in [Caller -> Nat] /\ \A d \in Caller \ {c} : performed'[d] = performed[d]
    BY <1>0, <1>a, <2>0, <2>1, <2>2, OnSimIs DEF OnceIn
  <2>7. \A d \in Caller \ {c} : ~ (req[d].at \in InUseStates /\ req[d].slot = e)
    BY <1>a, <2>0 DEF SlotIn
  <2>8. r.helper \/ r.lock # NoEntry => r.made /\ ~ r.gone
    BY <2>0, <2>3 DEF HelpInv, EntriesTracked
  <2>9. EntryIs(e, r)
    BY <2>4 DEF EntryIs
  <2> DEFINE s == "done"
  <2>10. s \in CallStates /\ Step(c, s)
    BY <2>0 DEF CallStates
  <2>11. \A d \in Caller \ {c} : req[d].at \in InUseStates /\ req[d].slot = e => r.lock = d
    BY <2>7
  <2>12. UNCHANGED <<poolShut, detached, entries, cooling>>
    BY <2>0
  <2> HIDE DEF e, s
  <2> QED
    BY <2>0, <2>3, <2>5, <2>6, <2>8, <2>9, <2>10, <2>11, <2>12, OneEntry
<1>5. ASSUME NEW c \in Caller, Undelivered(c) PROVE HelpInv'
  <2>0. req[c].at \in {"ready", "again"} /\ UNCHANGED <<poolShut, detached, performed>>
    BY <1>5 DEF Undelivered
  <2>1. ASSUME Step(c, "again"), UNCHANGED <<entries, entry, cooling>> PROVE HelpInv'
    <3>1. /\ req' \in [Caller -> Requests] /\ req'[c].at = "again" /\ req'[c].idem = req[c].idem
          /\ req'[c].slot = req[c].slot /\ \A d \in Caller \ {c} : req'[d] = req[d]
      BY <2>1, StepIs DEF CallStates
    <3>2. SlotIn(c)' /\ OnceIn(c)'
      BY <1>a, <2>0, <2>1, <3>1 DEF SlotIn, OnceIn, InUseStates
    <3> QED
      BY <1>0, <1>e, <2>0, <2>1, <3>1, <3>2
  <2>2. ASSUME NEW cool \in BOOLEAN, Evict(c, cool), Step(c, "cold") PROVE HelpInv'
    <3>1. req'[c].at = "cold" /\ req'[c].idem = req[c].idem
      BY <2>2, StepIs DEF CallStates
    <3>2. OnceIn(c)'
      BY <1>a, <2>0, <3>1 DEF OnceIn
    <3> QED
      BY <1>0, <1>c, <2>0, <2>2, <3>2 DEF CallStates, InUseStates
  <2> QED
    BY <1>5, <2>1, <2>2 DEF Undelivered
<1>6. ASSUME NEW c \in Caller, Delivered(c) PROVE HelpInv'
  <2> DEFINE s == IF Replay(c) THEN "cold" ELSE "done"
  <2>0. req[c].at \in {"ready", "again"} /\ UNCHANGED <<poolShut, detached>> /\ Step(c, s)
    BY <1>6 DEF Delivered
  <2>1. PICK n \in {0, 1} : OnSim(c, n)
    BY <1>6 DEF Delivered
  <2>2. PICK cool \in BOOLEAN : Evict(c, cool)
    BY <1>6 DEF Delivered
  <2>3. s \in CallStates /\ s \notin {"lock"} \cup InUseStates /\ (~ req[c].idem => s = "done")
    BY DEF CallStates, InUseStates, Replay
  <2> HIDE DEF s
  <2>4. req'[c].at = s /\ req'[c].idem = req[c].idem
    BY <2>0, <2>3, StepIs
  <2>5. OnceIn(c)' /\ performed' \in [Caller -> Nat] /\ \A d \in Caller \ {c} : performed'[d] = performed[d]
    BY <1>0, <1>a, <2>0, <2>1, <2>3, <2>4, OnSimIs DEF OnceIn
  <2> QED
    BY <1>c, <2>0, <2>2, <2>3, <2>5 DEF InUseStates
<1>7. ASSUME NEW c \in Caller, ColdDispatch(c) PROVE HelpInv'
  <2>0. req[c].at = "cold" /\ UNCHANGED <<entries, entry, cooling, poolShut, detached>> /\ Step(c, "done")
    BY <1>7 DEF ColdDispatch, HelpAt
  <2>1. PICK n \in {0, 1} : OnSim(c, n)
    BY <1>7 DEF ColdDispatch
  <2>2. /\ req' \in [Caller -> Requests] /\ req'[c].at = "done" /\ req'[c].idem = req[c].idem
        /\ \A d \in Caller \ {c} : req'[d] = req[d]
    BY <2>0, StepIs DEF CallStates
  <2>3. OnceIn(c)' /\ performed' \in [Caller -> Nat] /\ \A d \in Caller \ {c} : performed'[d] = performed[d]
    BY <1>0, <1>a, <2>0, <2>1, <2>2, OnSimIs DEF OnceIn
  <2>4. SlotIn(c)'
    BY <2>2 DEF SlotIn, InUseStates
  <2> QED
    BY <1>e, <2>0, <2>2, <2>3, <2>4
<1>8. ASSUME NEW u \in WarmUDID, Drop(u) PROVE HelpInv'
  <2>1. entry = [e \in Entry |-> IF e \in {} THEN Gone(e) ELSE entry[e]]
    BY <1>0
  <2>2. /\ entries' \in [WarmUDID -> Entry \cup {NoEntry}]
        /\ \A w \in WarmUDID : entries'[w] = entries[w] \/ entries'[w] = NoEntry
        /\ \A w \in WarmUDID : entries'[w] # entries[w] => entries[w] \in detached'
        /\ detached \subseteq detached' /\ detached' \subseteq Entry
    BY <1>0, <1>8 DEF Drop
  <2> DEFINE X == {}
  <2>3. X \in SUBSET Entry /\ (\A e \in X : entry[e].made /\ entry[e].lock = NoEntry)
        /\ entry' = [e \in Entry |-> IF e \in X THEN Gone(e) ELSE entry[e]]
        /\ detached \ X \subseteq detached'
        /\ \A w \in WarmUDID : entries'[w] # entries[w] => entries[w] \in X \cup detached'
    BY <1>8, <2>1, <2>2 DEF Drop
  <2>4. cooling' \subseteq WarmUDID /\ poolShut' \in BOOLEAN /\ UNCHANGED <<req, performed>>
    BY <1>0, <1>8 DEF Drop
  <2> HIDE DEF X
  <2> QED
    BY <2>2, <2>3, <2>4, EntryGoes
<1>9. ASSUME NEW u \in WarmUDID, ReapIdle(u) PROVE HelpInv'
  <2> DEFINE e == entries[u]
             X == {e}
  <2>1. e \in Entry /\ entry[e].made /\ entry[e].lock = NoEntry
    BY <1>0, <1>9 DEF ReapIdle, Unlocked, HelpInv, EntriesTracked
  <2>2. X \in SUBSET Entry /\ (\A f \in X : entry[f].made /\ entry[f].lock = NoEntry)
        /\ entry' = [f \in Entry |-> IF f \in X THEN Gone(f) ELSE entry[f]]
        /\ detached \ X \subseteq detached' /\ detached' \subseteq Entry
    BY <1>0, <1>9, <2>1 DEF ReapIdle
  <2>3. /\ entries' \in [WarmUDID -> Entry \cup {NoEntry}]
        /\ \A w \in WarmUDID : entries'[w] = entries[w] \/ entries'[w] = NoEntry
        /\ \A w \in WarmUDID : entries'[w] # entries[w] => entries[w] \in X \cup detached'
    BY <1>0, <1>9 DEF ReapIdle, Removed
  <2>4. cooling' \subseteq WarmUDID /\ poolShut' \in BOOLEAN /\ UNCHANGED <<req, performed>>
    BY <1>0, <1>9 DEF ReapIdle
  <2> HIDE DEF X
  <2> QED
    BY <2>2, <2>3, <2>4, EntryGoes
<1>10. ASSUME NEW u \in WarmUDID, CooldownEnds(u) PROVE HelpInv'
  BY <1>0, <1>10 DEF CooldownEnds, HelpInv, HelpTypeOK, SlotsHeld, EntriesTracked, RunsOnce, Pooled
<1>11. ASSUME NEW e \in Entry, CloseDetached(e) PROVE HelpInv'
  <2> DEFINE X == {e}
  <2>1. entry[e].lock = NoEntry
    BY <1>11 DEF CloseDetached, Unlocked
  <2>2. X \in SUBSET Entry /\ (\A f \in X : entry[f].lock = NoEntry)
        /\ entry' = [f \in Entry |-> IF f \in X THEN Gone(f) ELSE entry[f]]
        /\ detached \ X \subseteq detached' /\ detached' \subseteq Entry
    BY <1>0, <1>11, <2>1 DEF CloseDetached
  <2>3. UNCHANGED <<entries, cooling, poolShut, req, performed>>
    BY <1>11 DEF CloseDetached
  <2> HIDE DEF X
  <2> QED
    BY <1>0, <2>2, <2>3, EntryGoes
<1>12. CASE ShutPool
  <2> DEFINE X == {}
  <2>1. /\ entries' \in [WarmUDID -> Entry \cup {NoEntry}]
        /\ \A w \in WarmUDID : entries'[w] = NoEntry
        /\ \A w \in WarmUDID : entries'[w] # entries[w] => entries[w] \in detached'
        /\ detached \subseteq detached' /\ detached' \subseteq Entry
    BY <1>0, <1>12 DEF ShutPool, Pooled
  <2>2. X \in SUBSET Entry /\ (\A e \in X : entry[e].made /\ entry[e].lock = NoEntry)
        /\ entry' = [e \in Entry |-> IF e \in X THEN Gone(e) ELSE entry[e]]
        /\ detached \ X \subseteq detached'
        /\ \A w \in WarmUDID : entries'[w] # entries[w] => entries[w] \in X \cup detached'
    BY <1>0, <1>12, <2>1 DEF ShutPool
  <2>3. cooling' \subseteq WarmUDID /\ poolShut' \in BOOLEAN /\ UNCHANGED <<req, performed>>
    BY <1>0, <1>12 DEF ShutPool
  <2> HIDE DEF X
  <2> QED
    BY <2>1, <2>2, <2>3, EntryGoes
<1>13. CASE UNCHANGED helpVars
  BY <1>13 DEF helpVars, HelpInv, HelpTypeOK, SlotsHeld, EntriesTracked, RunsOnce, Pooled
<1> QED
  BY <1>1, <1>2, <1>3, <1>4, <1>5, <1>6, <1>7, <1>8, <1>9, <1>10, <1>11, <1>12, <1>13 DEF HelpNext

-----------------------------------------------------------------------------
(* The recorder's step: one recording moves.                               *)

LEMMA RecStarts == RecInit => RecInv
<1> SUFFICES ASSUME RecInit PROVE RecInv
  OBVIOUS
<1>1. \A r \in Rec : rec[r] \in Capture /\ rec[r].start = "none" /\ CaptureIn(rec[r], 0)
  <2> SUFFICES ASSUME NEW r \in Rec
               PROVE  rec[r] \in Capture /\ rec[r].start = "none" /\ CaptureIn(rec[r], 0)
    OBVIOUS
  <2>1. PICK u \in RecRun, t \in Sim :
          rec[r] = [start |-> "none", run |-> u, sim |-> t, proc |-> "none",
                    busy |-> FALSE, sigint |-> FALSE, noted |-> FALSE,
                    wd |-> FALSE, stop |-> "no", stopping |-> FALSE,
                    spool |-> "none", ok |-> FALSE]
    BY DEF RecInit
  <2>2. rec[r] \in Capture
    BY <2>1 DEF Capture
  <2>3. /\ rec[r].start = "none" /\ rec[r].proc = "none" /\ ~ rec[r].sigint /\ ~ rec[r].noted
        /\ rec[r].stop = "no" /\ ~ rec[r].stopping /\ rec[r].spool = "none" /\ ~ rec[r].ok
    BY <2>1
  <2> QED
    BY <2>2, <2>3 DEF CaptureIn
<1>2. \A r \in Rec : ingests[r] = 0
  BY DEF RecInit
<1>3. RecTypeOK
  BY <1>1 DEF RecInit, RecTypeOK
<1>4. \A r \in Rec : CaptureIn(rec[r], ingests[r])
  BY <1>1, <1>2
<1>5. DaemonKnows
  BY <1>1 DEF RecInit, DaemonKnows, Serving, OfThisDaemon, CaptureIn
<1>6. FilesName /\ RecStrangersSafe
  BY DEF RecInit, FilesName, RecStrangersSafe
<1> QED
  BY <1>3, <1>4, <1>5, <1>6 DEF RecInv

LEMMA RecHolds == RecInv => RecOneIngest /\ RecNothingLost /\ RecNoChildLeft /\ RecStrangersSafe
<1> SUFFICES ASSUME RecInv PROVE RecOneIngest /\ RecNothingLost /\ RecNoChildLeft /\ RecStrangersSafe
  OBVIOUS
<1>1. \A r \in Rec : CaptureIn(rec[r], ingests[r]) /\ ingests[r] \in Nat
  BY DEF RecInv, RecTypeOK
<1>2. RecOneIngest /\ RecNothingLost
  BY <1>1 DEF CaptureIn, RecOneIngest, RecNothingLost
<1>3. RecNoChildLeft
  BY <1>1 DEF RecInv, DaemonKnows, OfThisDaemon, CaptureIn, RecNoChildLeft, Alive
<1> QED
  BY <1>2, <1>3 DEF RecInv

(* What a step may make of the recording it is about. *)
MovesTo(r, f) ==
  /\ f.run = rec[r].run /\ f.sim = rec[r].sim
  /\ rec[r].noted => f.noted
  /\ f.start = rec[r].start \/ (Serving /\ f.start \notin {"none", "lost"})

(* The map of the recordings that are being made, and the files. *)
ByTargetMoves(r, f) ==
  \/ recByTarget' = recByTarget /\ (OfThisDaemon(f) => OfThisDaemon(rec[r]))
  \/ recByTarget' = Forgotten(r) /\ ~ OfThisDaemon(f)
  \/ /\ recByTarget' = [recByTarget EXCEPT ![rec[r].sim] = r]
     /\ recByTarget[rec[r].sim] = NoRec /\ f.start \notin {"none", "lost"} /\ Serving
FileMoves(r, f) ==
  \/ stateFile' = stateFile
  \/ stateFile' = [stateFile EXCEPT ![rec[r].run] = NoRec]
  \/ stateFile' = [stateFile EXCEPT ![rec[r].run] = r] /\ f.noted

LEMMA OneMoves ==
  ASSUME RecInv, NEW r \in Rec, NEW f \in Capture, Recorded(r, f), MovesTo(r, f),
         ingests' \in [Rec -> Nat], \A s \in Rec \ {r} : ingests'[s] = ingests[s],
         CaptureIn(f, ingests'[r]), UNCHANGED daemon, ByTargetMoves(r, f), FileMoves(r, f),
         poisoned' \subseteq Sim, stuck' \subseteq Sim, signalled' \subseteq {"recorder"}
  PROVE  RecInv'
<1>1. /\ rec' \in [Rec -> Capture] /\ rec'[r] = f /\ \A s \in Rec \ {r} : rec'[s] = rec[s]
  BY DEF RecInv, RecTypeOK, Recorded
<1>2. \A s \in Rec : CaptureIn(rec'[s], ingests'[s])
  BY <1>1 DEF RecInv
<1>3. rec[r].run \in RecRun /\ rec[r].sim \in Sim /\ \A s \in Rec : rec[s].sim \in Sim
  BY DEF RecInv, RecTypeOK, Capture
<1>4. RecTypeOK'
  <2>1. recByTarget' \in [Sim -> Rec \cup {NoRec}]
    BY <1>3 DEF ByTargetMoves, Forgotten, RecInv, RecTypeOK
  <2>2. stateFile' \in [RecRun -> Rec \cup {NoRec}]
    BY <1>3 DEF FileMoves, RecInv, RecTypeOK
  <2> QED
    BY <1>1, <2>1, <2>2 DEF RecInv, RecTypeOK
<1>5. DaemonKnows'
  <2>1. ~ Serving' => \A s \in Rec : rec'[s].start \in {"none", "lost"}
    BY <1>1 DEF MovesTo, Serving, RecInv, DaemonKnows
  <2>2. ~ Serving' => \A t \in Sim : recByTarget'[t] = NoRec
    BY <1>3 DEF ByTargetMoves, Forgotten, Serving, RecInv, RecTypeOK, DaemonKnows
  <2>3. \A t \in Sim : recByTarget'[t] = recByTarget[t] \/ recByTarget'[t] = NoRec
          \/ (t = rec[r].sim /\ recByTarget'[t] = r /\ f.start \notin {"none", "lost"})
    BY <1>3 DEF ByTargetMoves, Forgotten, RecInv, RecTypeOK
  <2>4. \A s \in Rec : rec'[s].sim = rec[s].sim
          /\ (rec[s].start \notin {"none", "lost"} => rec'[s].start \notin {"none", "lost"})
    BY <1>1 DEF MovesTo
  <2>5. \A t \in Sim : recByTarget'[t] # NoRec =>
          rec'[recByTarget'[t]].sim = t /\ rec'[recByTarget'[t]].start \notin {"none", "lost"}
    BY <1>1, <2>3, <2>4 DEF RecInv, RecTypeOK, DaemonKnows
  <2>6. ASSUME NEW s \in Rec, OfThisDaemon(rec'[s]) PROVE recByTarget'[rec'[s].sim] = s
    <3>1. CASE s = r
      <4>1. OfThisDaemon(f) /\ rec'[s].sim = rec[r].sim
        BY <1>1, <2>6, <3>1 DEF MovesTo
      <4>2. OfThisDaemon(rec[r]) => recByTarget[rec[r].sim] = r
        BY DEF RecInv, DaemonKnows
      <4> QED
        BY <1>3, <3>1, <4>1, <4>2 DEF ByTargetMoves, RecInv, RecTypeOK
    <3>2. CASE s # r
      <4>1. recByTarget[rec[s].sim] = s /\ rec'[s] = rec[s] /\ s # NoRec
        BY <1>1, <2>6, <3>2, RecAssumption DEF RecInv, DaemonKnows
      <4>2. recByTarget'[rec[s].sim] = s
        BY <1>3, <3>2, <4>1 DEF ByTargetMoves, Forgotten, RecInv, RecTypeOK
      <4> QED
        BY <4>1, <4>2
    <3> QED
      BY <3>1, <3>2
  <2> QED
    BY <2>1, <2>2, <2>5, <2>6 DEF DaemonKnows
<1>6. FilesName'
  <2>1. \A u \in RecRun : stateFile'[u] = stateFile[u] \/ stateFile'[u] = NoRec
          \/ (u = rec[r].run /\ stateFile'[u] = r /\ f.noted)
    BY <1>3 DEF FileMoves, RecInv, RecTypeOK
  <2>2. \A s \in Rec : rec'[s].run = rec[s].run /\ (rec[s].noted => rec'[s].noted)
    BY <1>1 DEF MovesTo
  <2> QED
    BY <1>1, <2>1, <2>2 DEF FilesName, RecInv, RecTypeOK
<1>7. RecStrangersSafe'
  BY DEF RecStrangersSafe
<1> QED
  BY <1>2, <1>4, <1>5, <1>6, <1>7 DEF RecInv

(* With no overlap, a run's other recordings are not disturbed either.     *)
LEMMA OneAlone ==
  ASSUME RecAlone, RecInv', NEW r \in Rec, \A s \in Rec \ {r} : rec'[s] = rec[s],
         rec'[r].run = rec[r].run, rec'[r].sim = rec[r].sim,
         rec'[r].start # "lost" \/ rec[r].start = "lost",
         \/ rec'[r].start = rec[r].start \/ rec[r].start \notin {"none", "lost"}
         \/ \A s \in Rec : rec[s].run = rec[r].run => rec[s].start # "lost",
         Busy(r)' => Busy(r) \/ \A s \in Rec : rec[s].run = rec[r].run => ~ Busy(s),
         \A s \in Rec \ {r} : Busy(s)' => Busy(s),
         rec'[r].proc = "alive" /\ rec'[r].noted =>
           (Alive(r) /\ rec[r].noted /\ stateFile' = stateFile) \/ stateFile'[rec[r].run] = r,
         \/ stateFile' = stateFile
         \/ /\ \A u \in RecRun \ {rec[r].run} : stateFile'[u] = stateFile[u]
            /\ \/ Busy(r) /\ rec[r].start \notin {"none", "lost"}
               \/ stateFile[rec[r].run] = r /\ ~ Alive(r)
  PROVE  RecAlone'
<1>2. \A s \in Rec : rec'[s].run = rec[s].run /\ rec'[s].sim = rec[s].sim
  OBVIOUS
<1>3. OnePerRun'
  <2>1. ASSUME NEW s \in Rec, NEW q \in Rec, rec'[s].run = rec'[q].run
        PROVE  /\ rec'[s].sim = rec'[q].sim
               /\ Busy(s)' /\ Busy(q)' => s = q
               /\ rec'[s].start = "lost" => rec'[q].start \in {"none", "lost"}
    <3>1. rec[s].run = rec[q].run
      BY <1>2, <2>1
    <3>2. rec[s].sim = rec[q].sim /\ (Busy(s) /\ Busy(q) => s = q)
          /\ (rec[s].start = "lost" => rec[q].start \in {"none", "lost"})
      BY <3>1 DEF RecAlone, OnePerRun
    <3>3. Busy(s)' /\ Busy(q)' => s = q
      BY <3>1, <3>2
    <3>4. rec'[s].start = "lost" => rec'[q].start \in {"none", "lost"}
      BY <3>1, <3>2
    <3> QED
      BY <1>2, <3>2, <3>3, <3>4
  <2> QED
    BY <2>1 DEF OnePerRun
<1>4. RecReclaimable'
  <2> SUFFICES ASSUME NEW s \in Rec, rec'[s].proc = "alive", rec'[s].noted
               PROVE stateFile'[rec'[s].run] = s
    BY DEF RecReclaimable, Alive
  <2>1. CASE s = r
    BY <2>1 DEF RecAlone, RecReclaimable
  <2>2. CASE s # r
    <3>1. stateFile[rec[s].run] = s /\ Alive(s) /\ rec'[s].run = rec[s].run /\ rec[s].run \in RecRun
      BY <2>2 DEF RecAlone, RecReclaimable, Alive, RecInv, RecTypeOK, Capture
    <3>2. rec[s].run # rec[r].run \/ stateFile' = stateFile
      <4> SUFFICES ASSUME rec[s].run = rec[r].run, Busy(r), rec[r].start \notin {"none", "lost"} PROVE FALSE
        BY <2>2, <3>1
      <4>1. rec[s].start # "lost"
        BY DEF RecAlone, OnePerRun
      <4>2. Busy(s)
        BY <3>1, <4>1 DEF RecAlone, RecInv, DaemonKnows, OfThisDaemon, Alive, Busy
      <4> QED
        BY <2>2, <4>2 DEF RecAlone, OnePerRun
    <3> QED
      BY <3>1, <3>2
  <2> QED
    BY <2>1, <2>2
<1> QED
  BY <1>3, <1>4 DEF RecAlone

LEMMA RecordedIs ==
  ASSUME RecInv, NEW r \in Rec, NEW f, Recorded(r, f)
  PROVE  rec'[r] = f /\ \A s \in Rec \ {r} : rec'[s] = rec[s]
  BY DEF RecInv, RecTypeOK, Recorded

LEMMA RecStep == ASSUME RecInv, [RecNext]_recVars PROVE RecInv'
<1>0. /\ rec \in [Rec -> Capture] /\ ingests \in [Rec -> Nat] /\ poisoned \subseteq Sim /\ stuck \subseteq Sim
      /\ signalled \subseteq {"recorder"}
      /\ \A r \in Rec : CaptureIn(rec[r], ingests[r]) /\ rec[r].sim \in Sim /\ rec[r].run \in RecRun
  BY DEF RecInv, RecTypeOK, Capture, RecStrangersSafe
<1>a. ASSUME NEW r \in Rec, NEW f \in Capture, Recorded(r, f), MovesTo(r, f), CaptureIn(f, ingests[r]),
             ByTargetMoves(r, f), FileMoves(r, f), UNCHANGED <<ingests, daemon, signalled>>,
             poisoned' \subseteq Sim, stuck' \subseteq Sim
      PROVE  RecInv'
  BY <1>0, <1>a, OneMoves
<1>1. ASSUME NEW r \in Rec, RecReserve(r) PROVE RecInv'
  <2> DEFINE f == [rec[r] EXCEPT !.start = "reserved"]
  <2>a. f \in Capture
    <3>1. rec[r] \in Capture
      BY <1>0, <1>1
    <3> QED
      BY <3>1 DEF Capture
  <2>b. /\ f.start = "reserved" /\ f.proc = rec[r].proc /\ f.spool = rec[r].spool
        /\ (f.noted <=> rec[r].noted) /\ f.stop = rec[r].stop /\ (f.stopping <=> rec[r].stopping)
        /\ (f.sigint <=> rec[r].sigint) /\ (f.ok <=> rec[r].ok) /\ f.run = rec[r].run
        /\ f.sim = rec[r].sim
    <3>1. rec[r] \in Capture
      BY <1>0, <1>1
    <3> QED
      BY <3>1 DEF Capture
  <2>1. f \in Capture /\ CaptureIn(f, ingests[r])
    <3> HIDE DEF f
    <3> QED
      BY <1>0, <1>1, <2>a, <2>b DEF RecReserve, Capture, CaptureIn, Ready, Alive
  <2>2. MovesTo(r, f) /\ ByTargetMoves(r, f) /\ FileMoves(r, f)
    <3> HIDE DEF f
    <3> QED
      BY <1>0, <1>1, <2>a, <2>b DEF RecReserve, MovesTo, ByTargetMoves, FileMoves, Serving, Capture,
         OfThisDaemon, CaptureIn, Alive, Ready
  <2>3. Recorded(r, f) /\ UNCHANGED <<ingests, daemon, signalled>>
        /\ poisoned' \subseteq Sim /\ stuck' \subseteq Sim
    BY <1>0, <1>1 DEF RecReserve
  <2> HIDE DEF f
  <2> QED
    BY <1>a, <2>1, <2>2, <2>3
<1>2. ASSUME NEW r \in Rec, SpawnFails(r) PROVE RecInv'
  <2> DEFINE f == [rec[r] EXCEPT !.start = "failed"]
  <2>a. f \in Capture
    <3>1. rec[r] \in Capture
      BY <1>0, <1>2
    <3> QED
      BY <3>1 DEF Capture
  <2>b. /\ f.start = "failed" /\ f.proc = rec[r].proc /\ f.spool = rec[r].spool
        /\ (f.noted <=> rec[r].noted) /\ f.stop = rec[r].stop /\ (f.stopping <=> rec[r].stopping)
        /\ (f.sigint <=> rec[r].sigint) /\ (f.ok <=> rec[r].ok) /\ f.run = rec[r].run
        /\ f.sim = rec[r].sim
    <3>1. rec[r] \in Capture
      BY <1>0, <1>2
    <3> QED
      BY <3>1 DEF Capture
  <2>1. f \in Capture /\ CaptureIn(f, ingests[r])
    <3> HIDE DEF f
    <3> QED
      BY <1>0, <1>2, <2>a, <2>b DEF SpawnFails, Capture, CaptureIn, Ready, Alive
  <2>2. MovesTo(r, f) /\ ByTargetMoves(r, f) /\ FileMoves(r, f)
    <3> HIDE DEF f
    <3> QED
      BY <1>0, <1>2, <2>a, <2>b DEF SpawnFails, MovesTo, ByTargetMoves, FileMoves, Serving, Capture,
         OfThisDaemon, CaptureIn, Alive, Ready
  <2>3. Recorded(r, f) /\ UNCHANGED <<ingests, daemon, signalled>>
        /\ poisoned' \subseteq Sim /\ stuck' \subseteq Sim
    BY <1>0, <1>2 DEF SpawnFails
  <2> HIDE DEF f
  <2> QED
    BY <1>a, <2>1, <2>2, <2>3
<1>3. ASSUME NEW r \in Rec, Spawn(r) PROVE RecInv'
  <2> DEFINE inStuck == rec[r].sim \in stuck
             f == [rec[r] EXCEPT !.start = "spawned", !.proc = "alive", !.busy = inStuck, !.spool = "open"]
  <2>a. f \in Capture
    <3>1. rec[r] \in Capture
      BY <1>0, <1>3
    <3>2. inStuck \in BOOLEAN
      OBVIOUS
    <3> HIDE DEF inStuck
    <3> QED
      BY <3>1, <3>2 DEF Capture
  <2>b. /\ f.start = "spawned" /\ f.proc = "alive" /\ f.spool = "open"
        /\ (f.noted <=> rec[r].noted) /\ f.stop = rec[r].stop /\ (f.stopping <=> rec[r].stopping)
        /\ (f.sigint <=> rec[r].sigint) /\ (f.ok <=> rec[r].ok) /\ f.run = rec[r].run
        /\ f.sim = rec[r].sim
    <3>1. rec[r] \in Capture
      BY <1>0, <1>3
    <3>2. inStuck \in BOOLEAN
      OBVIOUS
    <3> HIDE DEF inStuck
    <3> QED
      BY <3>1, <3>2 DEF Capture
  <2>1. f \in Capture /\ CaptureIn(f, ingests[r])
    <3> HIDE DEF f
    <3> QED
      BY <1>0, <1>3, <2>a, <2>b DEF Spawn, Capture, CaptureIn, Ready, Alive
  <2>2. MovesTo(r, f) /\ ByTargetMoves(r, f) /\ FileMoves(r, f)
    <3> HIDE DEF f
    <3> QED
      BY <1>0, <1>3, <2>a, <2>b DEF Spawn, MovesTo, ByTargetMoves, FileMoves, Serving, Capture,
         OfThisDaemon, CaptureIn, Alive, Ready
  <2>3. Recorded(r, f) /\ UNCHANGED <<ingests, daemon, signalled>>
        /\ poisoned' \subseteq Sim /\ stuck' \subseteq Sim
    BY <1>0, <1>3 DEF Spawn
  <2> HIDE DEF f
  <2> QED
    BY <1>a, <2>1, <2>2, <2>3
<1>4. ASSUME NEW r \in Rec, WriteState(r) PROVE RecInv'
  <2> DEFINE f == [rec[r] EXCEPT !.start = "probing", !.noted = TRUE]
  <2>a. f \in Capture
    <3>1. rec[r] \in Capture
      BY <1>0, <1>4
    <3> QED
      BY <3>1 DEF Capture
  <2>b. /\ f.start = "probing" /\ f.proc = rec[r].proc /\ f.spool = rec[r].spool
        /\ f.noted /\ f.stop = rec[r].stop /\ (f.stopping <=> rec[r].stopping)
        /\ (f.sigint <=> rec[r].sigint) /\ (f.ok <=> rec[r].ok) /\ f.run = rec[r].run
        /\ f.sim = rec[r].sim
    <3>1. rec[r] \in Capture
      BY <1>0, <1>4
    <3> QED
      BY <3>1 DEF Capture
  <2>1. f \in Capture /\ CaptureIn(f, ingests[r])
    <3> HIDE DEF f
    <3> QED
      BY <1>0, <1>4, <2>a, <2>b DEF WriteState, Capture, CaptureIn, Ready, Alive
  <2>2. MovesTo(r, f) /\ ByTargetMoves(r, f) /\ FileMoves(r, f)
    <3> HIDE DEF f
    <3> QED
      BY <1>0, <1>4, <2>a, <2>b DEF WriteState, MovesTo, ByTargetMoves, FileMoves, Serving, Capture,
         OfThisDaemon, CaptureIn, Alive, Ready
  <2>3. Recorded(r, f) /\ UNCHANGED <<ingests, daemon, signalled>>
        /\ poisoned' \subseteq Sim /\ stuck' \subseteq Sim
    BY <1>0, <1>4 DEF WriteState
  <2> HIDE DEF f
  <2> QED
    BY <1>a, <2>1, <2>2, <2>3
<1>5. ASSUME NEW r \in Rec, ProbeEnds(r), rec[r].stopping PROVE RecInv'
  <2> DEFINE f == [rec[r] EXCEPT !.start = "done"]
  <2>a. f \in Capture
    <3>1. rec[r] \in Capture
      BY <1>0, <1>5
    <3> QED
      BY <3>1 DEF Capture
  <2>b. /\ f.start = "done" /\ f.proc = rec[r].proc /\ f.spool = rec[r].spool
        /\ (f.noted <=> rec[r].noted) /\ f.stop = rec[r].stop /\ (f.stopping <=> rec[r].stopping)
        /\ (f.sigint <=> rec[r].sigint) /\ (f.ok <=> rec[r].ok) /\ f.run = rec[r].run
        /\ f.sim = rec[r].sim
    <3>1. rec[r] \in Capture
      BY <1>0, <1>5
    <3> QED
      BY <3>1 DEF Capture
  <2>1. f \in Capture /\ CaptureIn(f, ingests[r])
    <3> HIDE DEF f
    <3> QED
      BY <1>0, <1>5, <2>a, <2>b DEF ProbeEnds, Capture, CaptureIn, Ready, Alive
  <2>2. MovesTo(r, f) /\ ByTargetMoves(r, f) /\ FileMoves(r, f)
    <3> HIDE DEF f
    <3> QED
      BY <1>0, <1>5, <2>a, <2>b DEF ProbeEnds, MovesTo, ByTargetMoves, FileMoves, Serving, Capture,
         OfThisDaemon, CaptureIn, Alive, Ready
  <2>3. Recorded(r, f) /\ UNCHANGED <<ingests, daemon, signalled>>
        /\ poisoned' \subseteq Sim /\ stuck' \subseteq Sim
    BY <1>0, <1>5 DEF ProbeEnds
  <2> HIDE DEF f
  <2> QED
    BY <1>a, <2>1, <2>2, <2>3
<1>6. ASSUME NEW r \in Rec, ProbeEnds(r), ~ rec[r].stopping, ~ Alive(r) PROVE RecInv'
  <2> DEFINE f == [rec[r] EXCEPT !.start = "dying"]
  <2>a. f \in Capture
    <3>1. rec[r] \in Capture
      BY <1>0, <1>6
    <3> QED
      BY <3>1 DEF Capture
  <2>b. /\ f.start = "dying" /\ f.proc = rec[r].proc /\ f.spool = rec[r].spool
        /\ (f.noted <=> rec[r].noted) /\ f.stop = rec[r].stop /\ (f.stopping <=> rec[r].stopping)
        /\ (f.sigint <=> rec[r].sigint) /\ (f.ok <=> rec[r].ok) /\ f.run = rec[r].run
        /\ f.sim = rec[r].sim
    <3>1. rec[r] \in Capture
      BY <1>0, <1>6
    <3> QED
      BY <3>1 DEF Capture
  <2>1. f \in Capture /\ CaptureIn(f, ingests[r])
    <3> HIDE DEF f
    <3> QED
      BY <1>0, <1>6, <2>a, <2>b DEF ProbeEnds, Capture, CaptureIn, Ready, Alive
  <2>2. MovesTo(r, f) /\ ByTargetMoves(r, f) /\ FileMoves(r, f)
    <3> HIDE DEF f
    <3> QED
      BY <1>0, <1>6, <2>a, <2>b DEF ProbeEnds, MovesTo, ByTargetMoves, FileMoves, Serving, Capture,
         OfThisDaemon, CaptureIn, Alive, Ready
  <2>3. Recorded(r, f) /\ UNCHANGED <<ingests, daemon, signalled>>
        /\ poisoned' \subseteq Sim /\ stuck' \subseteq Sim
    BY <1>0, <1>6 DEF ProbeEnds
  <2> HIDE DEF f
  <2> QED
    BY <1>a, <2>1, <2>2, <2>3
<1>7. ASSUME NEW r \in Rec, ProbeEnds(r), ~ rec[r].stopping, Alive(r) PROVE RecInv'
  <2> DEFINE f == [rec[r] EXCEPT !.start = "done", !.wd = TRUE]
  <2>a. f \in Capture
    <3>1. rec[r] \in Capture
      BY <1>0, <1>7
    <3> QED
      BY <3>1 DEF Capture
  <2>b. /\ f.start = "done" /\ f.proc = rec[r].proc /\ f.spool = rec[r].spool
        /\ (f.noted <=> rec[r].noted) /\ f.stop = rec[r].stop /\ (f.stopping <=> rec[r].stopping)
        /\ (f.sigint <=> rec[r].sigint) /\ (f.ok <=> rec[r].ok) /\ f.run = rec[r].run
        /\ f.sim = rec[r].sim
    <3>1. rec[r] \in Capture
      BY <1>0, <1>7
    <3> QED
      BY <3>1 DEF Capture
  <2>1. f \in Capture /\ CaptureIn(f, ingests[r])
    <3> HIDE DEF f
    <3> QED
      BY <1>0, <1>7, <2>a, <2>b DEF ProbeEnds, Capture, CaptureIn, Ready, Alive
  <2>2. MovesTo(r, f) /\ ByTargetMoves(r, f) /\ FileMoves(r, f)
    <3> HIDE DEF f
    <3> QED
      BY <1>0, <1>7, <2>a, <2>b DEF ProbeEnds, MovesTo, ByTargetMoves, FileMoves, Serving, Capture,
         OfThisDaemon, CaptureIn, Alive, Ready
  <2>3. Recorded(r, f) /\ UNCHANGED <<ingests, daemon, signalled>>
        /\ poisoned' \subseteq Sim /\ stuck' \subseteq Sim
    BY <1>0, <1>7 DEF ProbeEnds
  <2> HIDE DEF f
  <2> QED
    BY <1>a, <2>1, <2>2, <2>3
<1>8. ASSUME NEW r \in Rec, EarlyExit(r) PROVE RecInv'
  <2> DEFINE f == [rec[r] EXCEPT !.start = "failed", !.spool = "none"]
  <2>a. f \in Capture
    <3>1. rec[r] \in Capture
      BY <1>0, <1>8
    <3> QED
      BY <3>1 DEF Capture
  <2>b. /\ f.start = "failed" /\ f.proc = rec[r].proc /\ f.spool = "none"
        /\ (f.noted <=> rec[r].noted) /\ f.stop = rec[r].stop /\ (f.stopping <=> rec[r].stopping)
        /\ (f.sigint <=> rec[r].sigint) /\ (f.ok <=> rec[r].ok) /\ f.run = rec[r].run
        /\ f.sim = rec[r].sim
    <3>1. rec[r] \in Capture
      BY <1>0, <1>8
    <3> QED
      BY <3>1 DEF Capture
  <2>1. f \in Capture /\ CaptureIn(f, ingests[r])
    <3> HIDE DEF f
    <3> QED
      BY <1>0, <1>8, <2>a, <2>b DEF EarlyExit, Capture, CaptureIn, Ready, Alive
  <2>2. MovesTo(r, f) /\ ByTargetMoves(r, f) /\ FileMoves(r, f)
    <3> HIDE DEF f
    <3> QED
      BY <1>0, <1>8, <2>a, <2>b DEF EarlyExit, MovesTo, ByTargetMoves, FileMoves, Serving, Capture,
         OfThisDaemon, CaptureIn, Alive, Ready
  <2>3. Recorded(r, f) /\ UNCHANGED <<ingests, daemon, signalled>>
        /\ poisoned' \subseteq Sim /\ stuck' \subseteq Sim
    BY <1>0, <1>8 DEF EarlyExit
  <2> HIDE DEF f
  <2> QED
    BY <1>a, <2>1, <2>2, <2>3
<1>9. ASSUME NEW r \in Rec, Interrupt(r), rec[r].proc = "none" PROVE RecInv'
  <2> DEFINE f == [rec[r] EXCEPT !.stop = "ended"]
  <2>a. f \in Capture
    <3>1. rec[r] \in Capture
      BY <1>0, <1>9
    <3> QED
      BY <3>1 DEF Capture
  <2>b. /\ f.start = rec[r].start /\ f.proc = rec[r].proc /\ f.spool = rec[r].spool
        /\ (f.noted <=> rec[r].noted) /\ f.stop = "ended" /\ (f.stopping <=> rec[r].stopping)
        /\ (f.sigint <=> rec[r].sigint) /\ (f.ok <=> rec[r].ok) /\ f.run = rec[r].run
        /\ f.sim = rec[r].sim
    <3>1. rec[r] \in Capture
      BY <1>0, <1>9
    <3> QED
      BY <3>1 DEF Capture
  <2>1. f \in Capture /\ CaptureIn(f, ingests[r])
    <3> HIDE DEF f
    <3> QED
      BY <1>0, <1>9, <2>a, <2>b DEF Interrupt, Capture, CaptureIn, Ready, Alive
  <2>2. MovesTo(r, f) /\ ByTargetMoves(r, f) /\ FileMoves(r, f)
    <3> HIDE DEF f
    <3> QED
      BY <1>0, <1>9, <2>a, <2>b DEF Interrupt, MovesTo, ByTargetMoves, FileMoves, Serving, Capture,
         OfThisDaemon, CaptureIn, Alive, Ready
  <2>3. Recorded(r, f) /\ UNCHANGED <<ingests, daemon, signalled>>
        /\ poisoned' \subseteq Sim /\ stuck' \subseteq Sim
    BY <1>0, <1>9 DEF Interrupt
  <2> HIDE DEF f
  <2> QED
    BY <1>a, <2>1, <2>2, <2>3
<1>10. ASSUME NEW r \in Rec, Interrupt(r), rec[r].proc = "exited" PROVE RecInv'
  <2> DEFINE f == [rec[r] EXCEPT !.stop = "finish"]
  <2>a. f \in Capture
    <3>1. rec[r] \in Capture
      BY <1>0, <1>10
    <3> QED
      BY <3>1 DEF Capture
  <2>b. /\ f.start = rec[r].start /\ f.proc = rec[r].proc /\ f.spool = rec[r].spool
        /\ (f.noted <=> rec[r].noted) /\ f.stop = "finish" /\ (f.stopping <=> rec[r].stopping)
        /\ (f.sigint <=> rec[r].sigint) /\ (f.ok <=> rec[r].ok) /\ f.run = rec[r].run
        /\ f.sim = rec[r].sim
    <3>1. rec[r] \in Capture
      BY <1>0, <1>10
    <3> QED
      BY <3>1 DEF Capture
  <2>1. f \in Capture /\ CaptureIn(f, ingests[r])
    <3> HIDE DEF f
    <3> QED
      BY <1>0, <1>10, <2>a, <2>b DEF Interrupt, Capture, CaptureIn, Ready, Alive
  <2>2. MovesTo(r, f) /\ ByTargetMoves(r, f) /\ FileMoves(r, f)
    <3> HIDE DEF f
    <3> QED
      BY <1>0, <1>10, <2>a, <2>b DEF Interrupt, MovesTo, ByTargetMoves, FileMoves, Serving, Capture,
         OfThisDaemon, CaptureIn, Alive, Ready
  <2>3. Recorded(r, f) /\ UNCHANGED <<ingests, daemon, signalled>>
        /\ poisoned' \subseteq Sim /\ stuck' \subseteq Sim
    BY <1>0, <1>10 DEF Interrupt
  <2> HIDE DEF f
  <2> QED
    BY <1>a, <2>1, <2>2, <2>3
<1>11. ASSUME NEW r \in Rec, Interrupt(r), rec[r].proc \notin {"none", "exited"} PROVE RecInv'
  <2> DEFINE f == [rec[r] EXCEPT !.stop = "reap", !.sigint = TRUE]
  <2>a. f \in Capture
    <3>1. rec[r] \in Capture
      BY <1>0, <1>11
    <3> QED
      BY <3>1 DEF Capture
  <2>b. /\ f.start = rec[r].start /\ f.proc = rec[r].proc /\ f.spool = rec[r].spool
        /\ (f.noted <=> rec[r].noted) /\ f.stop = "reap" /\ (f.stopping <=> rec[r].stopping)
        /\ f.sigint /\ (f.ok <=> rec[r].ok) /\ f.run = rec[r].run
        /\ f.sim = rec[r].sim
    <3>1. rec[r] \in Capture
      BY <1>0, <1>11
    <3> QED
      BY <3>1 DEF Capture
  <2>1. f \in Capture /\ CaptureIn(f, ingests[r])
    <3> HIDE DEF f
    <3> QED
      BY <1>0, <1>11, <2>a, <2>b DEF Interrupt, Capture, CaptureIn, Ready, Alive
  <2>2. MovesTo(r, f) /\ ByTargetMoves(r, f) /\ FileMoves(r, f)
    <3> HIDE DEF f
    <3> QED
      BY <1>0, <1>11, <2>a, <2>b DEF Interrupt, MovesTo, ByTargetMoves, FileMoves, Serving, Capture,
         OfThisDaemon, CaptureIn, Alive, Ready
  <2>3. Recorded(r, f) /\ UNCHANGED <<ingests, daemon, signalled>>
        /\ poisoned' \subseteq Sim /\ stuck' \subseteq Sim
    BY <1>0, <1>11 DEF Interrupt
  <2> HIDE DEF f
  <2> QED
    BY <1>a, <2>1, <2>2, <2>3
<1>12. ASSUME NEW r \in Rec, Reap(r) PROVE RecInv'
  <2> DEFINE f == [rec[r] EXCEPT !.stop = "finish"]
  <2>a. f \in Capture
    <3>1. rec[r] \in Capture
      BY <1>0, <1>12
    <3> QED
      BY <3>1 DEF Capture
  <2>b. /\ f.start = rec[r].start /\ f.proc = rec[r].proc /\ f.spool = rec[r].spool
        /\ (f.noted <=> rec[r].noted) /\ f.stop = "finish" /\ (f.stopping <=> rec[r].stopping)
        /\ (f.sigint <=> rec[r].sigint) /\ (f.ok <=> rec[r].ok) /\ f.run = rec[r].run
        /\ f.sim = rec[r].sim
    <3>1. rec[r] \in Capture
      BY <1>0, <1>12
    <3> QED
      BY <3>1 DEF Capture
  <2>1. f \in Capture /\ CaptureIn(f, ingests[r])
    <3> HIDE DEF f
    <3> QED
      BY <1>0, <1>12, <2>a, <2>b DEF Reap, Capture, CaptureIn, Ready, Alive
  <2>2. MovesTo(r, f) /\ ByTargetMoves(r, f) /\ FileMoves(r, f)
    <3> HIDE DEF f
    <3> QED
      BY <1>0, <1>12, <2>a, <2>b DEF Reap, MovesTo, ByTargetMoves, FileMoves, Serving, Capture,
         OfThisDaemon, CaptureIn, Alive, Ready
  <2>3. Recorded(r, f) /\ UNCHANGED <<ingests, daemon, signalled>>
        /\ poisoned' \subseteq Sim /\ stuck' \subseteq Sim
    BY <1>0, <1>12 DEF Reap
  <2> HIDE DEF f
  <2> QED
    BY <1>a, <2>1, <2>2, <2>3
<1>13. ASSUME NEW r \in Rec, Kill(r) PROVE RecInv'
  <2> DEFINE f == [rec[r] EXCEPT !.stop = "finish", !.proc = "exited", !.spool = "invalid"]
  <2>a. f \in Capture
    <3>1. rec[r] \in Capture
      BY <1>0, <1>13
    <3> QED
      BY <3>1 DEF Capture
  <2>b. /\ f.start = rec[r].start /\ f.proc = "exited" /\ f.spool = "invalid"
        /\ (f.noted <=> rec[r].noted) /\ f.stop = "finish" /\ (f.stopping <=> rec[r].stopping)
        /\ (f.sigint <=> rec[r].sigint) /\ (f.ok <=> rec[r].ok) /\ f.run = rec[r].run
        /\ f.sim = rec[r].sim
    <3>1. rec[r] \in Capture
      BY <1>0, <1>13
    <3> QED
      BY <3>1 DEF Capture
  <2>1. f \in Capture /\ CaptureIn(f, ingests[r])
    <3> HIDE DEF f
    <3> QED
      BY <1>0, <1>13, <2>a, <2>b DEF Kill, Capture, CaptureIn, Ready, Alive
  <2>2. MovesTo(r, f) /\ ByTargetMoves(r, f) /\ FileMoves(r, f)
    <3> HIDE DEF f
    <3> QED
      BY <1>0, <1>13, <2>a, <2>b DEF Kill, MovesTo, ByTargetMoves, FileMoves, Serving, Capture,
         OfThisDaemon, CaptureIn, Alive, Ready
  <2>3. Recorded(r, f) /\ UNCHANGED <<ingests, daemon, signalled>>
        /\ poisoned' \subseteq Sim /\ stuck' \subseteq Sim
    BY <1>0, <1>13 DEF Kill
  <2> HIDE DEF f
  <2> QED
    BY <1>a, <2>1, <2>2, <2>3
<1>14. ASSUME NEW r \in Rec, Finish(r) PROVE RecInv'
  <2> DEFINE valid == rec[r].spool = "valid"
             f == [rec[r] EXCEPT !.stop = "ended", !.ok = valid]
  <2>a. f \in Capture
    <3>1. rec[r] \in Capture
      BY <1>0, <1>14
    <3>2. valid \in BOOLEAN
      OBVIOUS
    <3> HIDE DEF valid
    <3> QED
      BY <3>1, <3>2 DEF Capture
  <2>b. /\ f.start = rec[r].start /\ f.proc = rec[r].proc /\ f.spool = rec[r].spool
        /\ (f.noted <=> rec[r].noted) /\ f.stop = "ended" /\ (f.stopping <=> rec[r].stopping)
        /\ (f.sigint <=> rec[r].sigint) /\ (f.ok <=> valid) /\ f.run = rec[r].run
        /\ f.sim = rec[r].sim
    <3>1. rec[r] \in Capture
      BY <1>0, <1>14
    <3>2. valid \in BOOLEAN
      OBVIOUS
    <3> HIDE DEF valid
    <3> QED
      BY <3>1, <3>2 DEF Capture
  <2>1. f \in Capture /\ CaptureIn(f, ingests[r])
    <3> HIDE DEF f
    <3> QED
      BY <1>0, <1>14, <2>a, <2>b DEF Finish, Capture, CaptureIn, Ready, Alive
  <2>2. MovesTo(r, f) /\ ByTargetMoves(r, f) /\ FileMoves(r, f)
    <3> HIDE DEF f
    <3> QED
      BY <1>0, <1>14, <2>a, <2>b DEF Finish, MovesTo, ByTargetMoves, FileMoves, Serving, Capture,
         OfThisDaemon, CaptureIn, Alive, Ready
  <2>3. Recorded(r, f) /\ UNCHANGED <<ingests, daemon, signalled>>
        /\ poisoned' \subseteq Sim /\ stuck' \subseteq Sim
    BY <1>0, <1>14 DEF Finish
  <2> HIDE DEF f
  <2> QED
    BY <1>a, <2>1, <2>2, <2>3
<1>15. ASSUME NEW r \in Rec, PidReused(r) PROVE RecInv'
  <2> DEFINE f == [rec[r] EXCEPT !.proc = "reused"]
  <2>a. f \in Capture
    <3>1. rec[r] \in Capture
      BY <1>0, <1>15
    <3> QED
      BY <3>1 DEF Capture
  <2>b. /\ f.start = rec[r].start /\ f.proc = "reused" /\ f.spool = rec[r].spool
        /\ (f.noted <=> rec[r].noted) /\ f.stop = rec[r].stop /\ (f.stopping <=> rec[r].stopping)
        /\ (f.sigint <=> rec[r].sigint) /\ (f.ok <=> rec[r].ok) /\ f.run = rec[r].run
        /\ f.sim = rec[r].sim
    <3>1. rec[r] \in Capture
      BY <1>0, <1>15
    <3> QED
      BY <3>1 DEF Capture
  <2>1. f \in Capture /\ CaptureIn(f, ingests[r])
    <3> HIDE DEF f
    <3> QED
      BY <1>0, <1>15, <2>a, <2>b DEF RecInv, DaemonKnows, Serving, PidReused, Capture, CaptureIn, Ready, Alive
  <2>2. MovesTo(r, f) /\ ByTargetMoves(r, f) /\ FileMoves(r, f)
    <3> HIDE DEF f
    <3> QED
      BY <1>0, <1>15, <2>a, <2>b DEF RecInv, DaemonKnows, Serving, PidReused, MovesTo, ByTargetMoves, FileMoves, Serving, Capture,
         OfThisDaemon, CaptureIn, Alive, Ready
  <2>3. Recorded(r, f) /\ UNCHANGED <<ingests, daemon, signalled>>
        /\ poisoned' \subseteq Sim /\ stuck' \subseteq Sim
    BY <1>0, <1>15 DEF PidReused
  <2> HIDE DEF f
  <2> QED
    BY <1>a, <2>1, <2>2, <2>3
<1>16. ASSUME NEW r \in Rec, NEW who \in Stoppers, StopWins(r, who) PROVE RecInv'
  <2> DEFINE f == [rec[r] EXCEPT !.stopping = TRUE, !.stop = "wait", !.wd = FALSE]
  <2>a. f \in Capture
    <3>1. rec[r] \in Capture
      BY <1>0, <1>16
    <3> QED
      BY <3>1 DEF Capture
  <2>b. /\ f.start = rec[r].start /\ f.proc = rec[r].proc /\ f.spool = rec[r].spool
        /\ (f.noted <=> rec[r].noted) /\ f.stop = "wait" /\ f.stopping
        /\ (f.sigint <=> rec[r].sigint) /\ (f.ok <=> rec[r].ok) /\ f.run = rec[r].run
        /\ f.sim = rec[r].sim
    <3>1. rec[r] \in Capture
      BY <1>0, <1>16
    <3> QED
      BY <3>1 DEF Capture
  <2>1. f \in Capture /\ CaptureIn(f, ingests[r])
    <3> HIDE DEF f
    <3> QED
      BY <1>0, <1>16, <2>a, <2>b DEF StopWins, Capture, CaptureIn, Ready, Alive
  <2>2. MovesTo(r, f) /\ ByTargetMoves(r, f) /\ FileMoves(r, f)
    BY <1>0, <1>16 DEF StopWins, MovesTo, ByTargetMoves, FileMoves, Serving, Capture, OfThisDaemon
  <2>3. Recorded(r, f) /\ UNCHANGED <<ingests, daemon, signalled>>
        /\ poisoned' \subseteq Sim /\ stuck' \subseteq Sim
    BY <1>0, <1>16 DEF StopWins
  <2> HIDE DEF f
  <2> QED
    BY <1>a, <2>1, <2>2, <2>3
<1>17. ASSUME NEW r \in Rec, ChildExits(r) PROVE RecInv'
  <2>1. PICK v \in {"valid", "invalid"} :
          /\ v = "valid" => ~rec[r].busy /\ (rec[r].sigint \/ rec[r].start = "done")
          /\ Recorded(r, [rec[r] EXCEPT !.proc = "exited", !.spool = v])
    BY <1>17 DEF ChildExits
  <2> DEFINE f == [rec[r] EXCEPT !.proc = "exited", !.spool = v]
  <2>a. f \in Capture
    <3>1. rec[r] \in Capture
      BY <1>0, <1>17, <2>1
    <3> QED
      BY <3>1 DEF Capture
  <2>b. /\ f.start = rec[r].start /\ f.proc = "exited" /\ f.spool = v
        /\ (f.noted <=> rec[r].noted) /\ f.stop = rec[r].stop /\ (f.stopping <=> rec[r].stopping)
        /\ (f.sigint <=> rec[r].sigint) /\ (f.ok <=> rec[r].ok) /\ f.run = rec[r].run
        /\ f.sim = rec[r].sim
    <3>1. rec[r] \in Capture
      BY <1>0, <1>17, <2>1
    <3> QED
      BY <3>1 DEF Capture
  <2>2. f \in Capture /\ CaptureIn(f, ingests[r])
    <3> HIDE DEF f
    <3> QED
      BY <1>0, <1>17, <2>1, <2>a, <2>b DEF ChildExits, Capture, CaptureIn, Ready, Alive
  <2>3. MovesTo(r, f) /\ ByTargetMoves(r, f) /\ FileMoves(r, f)
    BY <1>0, <1>17 DEF ChildExits, MovesTo, ByTargetMoves, FileMoves, Serving, Capture, OfThisDaemon,
                     CaptureIn, Alive
  <2>4. Recorded(r, f) /\ UNCHANGED <<ingests, daemon, signalled>>
        /\ poisoned' \subseteq Sim /\ stuck' \subseteq Sim
    BY <1>0, <1>17, <2>1 DEF ChildExits
  <2> HIDE DEF f
  <2> QED
    BY <1>a, <2>2, <2>3, <2>4
<1>18. ASSUME NEW r \in Rec, Deliver(r) PROVE RecInv'
  <2>1. PICK stored \in BOOLEAN : Ingested(r, rec[r].ok, stored)
    BY <1>18 DEF Deliver
  <2> DEFINE f == [rec[r] EXCEPT !.stop = "delivered",
                    !.spool = IF rec[r].ok /\ ~stored THEN @ ELSE "none"]
  <2>2. Recorded(r, f) /\ UNCHANGED <<recByTarget, poisoned, stuck, stateFile, daemon, signalled>>
    BY <1>18, <2>1 DEF Deliver, Ingested
  <2>3. ingests' \in [Rec -> Nat] /\ (\A s \in Rec \ {r} : ingests'[s] = ingests[s])
        /\ ingests'[r] = IF rec[r].ok /\ stored THEN ingests[r] + 1 ELSE ingests[r]
    BY <1>0, <2>1 DEF Ingested
  <2>4. rec[r].stop = "ended" /\ Serving
    BY <1>18 DEF Deliver
  <2>5. ingests[r] = 0
    BY <1>0, <2>4 DEF CaptureIn
  <2>a. f \in Capture
    <3>1. rec[r] \in Capture
      BY <1>0, <2>3, <2>4, <2>5
    <3> QED
      BY <3>1 DEF Capture
  <2>b. /\ f.start = rec[r].start /\ f.proc = rec[r].proc /\ f.spool = IF rec[r].ok /\ ~ stored THEN rec[r].spool ELSE "none"
        /\ (f.noted <=> rec[r].noted) /\ f.stop = "delivered" /\ (f.stopping <=> rec[r].stopping)
        /\ (f.sigint <=> rec[r].sigint) /\ (f.ok <=> rec[r].ok) /\ f.run = rec[r].run
        /\ f.sim = rec[r].sim
    <3>1. rec[r] \in Capture
      BY <1>0, <2>3, <2>4, <2>5
    <3> QED
      BY <3>1 DEF Capture
  <2>6. f \in Capture /\ CaptureIn(f, ingests'[r])
    <3> HIDE DEF f
    <3> QED
      BY <1>0, <2>3, <2>4, <2>5, <2>a, <2>b DEF Capture, CaptureIn, Ready, Alive
  <2>7. MovesTo(r, f) /\ ByTargetMoves(r, f) /\ FileMoves(r, f)
    BY <1>0, <2>2, <2>4 DEF MovesTo, ByTargetMoves, FileMoves, Capture, OfThisDaemon, CaptureIn
  <2> HIDE DEF f
  <2> QED
    BY <1>0, <2>2, <2>3, <2>6, <2>7, OneMoves
<1>19. ASSUME NEW u \in RecRun, RecoverOne(u) PROVE RecInv'
  <2> DEFINE r == stateFile[u]
  <2>1. r \in Rec /\ daemon = "recovering" /\ UNCHANGED <<recByTarget, poisoned, stuck, daemon>>
        /\ rec[r].run = u
    BY <1>19 DEF RecoverOne, RecInv, RecTypeOK, FilesName
  <2>2. signalled' \subseteq {"recorder"}
    BY <1>0, <1>19 DEF RecoverOne, Ours
  <2>a. rec[r].start = "lost"
    BY <1>0, <1>19, <2>1 DEF RecInv, DaemonKnows, Serving, FilesName, CaptureIn, RecoverOne
  <2>3. ASSUME Recorded(r, [rec[r] EXCEPT !.sigint = TRUE]), UNCHANGED <<stateFile, ingests>>
        PROVE  RecInv'
    <3> DEFINE f == [rec[r] EXCEPT !.sigint = TRUE]
    <3>a. f \in Capture
      <4>1. rec[r] \in Capture
        BY <1>0, <2>1, <2>a
      <4> QED
        BY <4>1 DEF Capture
    <3>b. /\ f.start = rec[r].start /\ f.proc = rec[r].proc /\ f.spool = rec[r].spool
          /\ (f.noted <=> rec[r].noted) /\ f.stop = rec[r].stop /\ (f.stopping <=> rec[r].stopping)
          /\ f.sigint /\ (f.ok <=> rec[r].ok) /\ f.run = rec[r].run
          /\ f.sim = rec[r].sim
      <4>1. rec[r] \in Capture
        BY <1>0, <2>1, <2>a
      <4> QED
        BY <4>1 DEF Capture
    <3>1. f \in Capture /\ CaptureIn(f, ingests[r])
      <4> HIDE DEF f
      <4> QED
        BY <1>0, <2>1, <2>a, <3>a, <3>b DEF Capture, CaptureIn, Ready, Alive
    <3>2. MovesTo(r, f) /\ ByTargetMoves(r, f) /\ FileMoves(r, f)
      BY <1>0, <2>1, <2>3 DEF MovesTo, ByTargetMoves, FileMoves, Capture, OfThisDaemon
    <3>3. Recorded(r, f)
      BY <2>3
    <3> HIDE DEF f, r
    <3> QED
      BY <1>0, <2>1, <2>2, <2>3, <3>1, <3>2, <3>3, OneMoves
  <2>4. ASSUME ~ Alive(r), stateFile' = [stateFile EXCEPT ![u] = NoRec],
               NEW stored \in BOOLEAN, Ingested(r, rec[r].spool = "valid", stored)
        PROVE  RecInv'
    <3> DEFINE f == [rec[r] EXCEPT !.stop = "delivered",
                      !.spool = IF rec[r].spool = "valid" /\ ~stored THEN @ ELSE "none"]
    <3>1. Recorded(r, f)
      BY <2>4 DEF Ingested
    <3>2. ingests' \in [Rec -> Nat] /\ (\A s \in Rec \ {r} : ingests'[s] = ingests[s])
          /\ ingests'[r] = IF rec[r].spool = "valid" /\ stored THEN ingests[r] + 1 ELSE ingests[r]
      BY <1>0, <2>1, <2>4 DEF Ingested
    <3>3. rec[r].noted
      BY <1>19, <2>1 DEF RecInv, FilesName, RecoverOne
    <3>c. rec[r].proc \in {"exited", "reused"} \/ rec[r].spool # "valid"
      BY <1>0, <2>1, <2>4, <2>a, <3>3 DEF Capture, CaptureIn, Alive
    <3>d. rec[r].spool = "valid" => ingests[r] = 0
      BY <1>0, <2>1 DEF CaptureIn
    <3>a. f \in Capture
      <4>1. rec[r] \in Capture
        BY <1>0, <2>1, <2>4, <2>a, <3>2, <3>3, <3>c, <3>d
      <4> QED
        BY <4>1 DEF Capture
    <3>b. /\ f.start = rec[r].start /\ f.proc = rec[r].proc /\ f.spool = IF rec[r].spool = "valid" /\ ~ stored THEN rec[r].spool ELSE "none"
          /\ (f.noted <=> rec[r].noted) /\ f.stop = "delivered" /\ (f.stopping <=> rec[r].stopping)
          /\ (f.sigint <=> rec[r].sigint) /\ (f.ok <=> rec[r].ok) /\ f.run = rec[r].run
          /\ f.sim = rec[r].sim
      <4>1. rec[r] \in Capture
        BY <1>0, <2>1, <2>4, <2>a, <3>2, <3>3, <3>c, <3>d
      <4> QED
        BY <4>1 DEF Capture
    <3>4. f \in Capture /\ CaptureIn(f, ingests'[r])
      <4> HIDE DEF f
      <4> QED
        BY <1>0, <2>1, <2>4, <2>a, <3>2, <3>3, <3>c, <3>d, <3>a, <3>b DEF Capture, CaptureIn, Ready, Alive
    <3>5. MovesTo(r, f) /\ ByTargetMoves(r, f) /\ FileMoves(r, f)
      BY <1>0, <2>1, <2>4 DEF MovesTo, ByTargetMoves, FileMoves, Capture, OfThisDaemon
    <3> HIDE DEF f, r
    <3> QED
      BY <1>0, <2>1, <2>2, <3>1, <3>2, <3>4, <3>5, OneMoves
  <2> QED
    BY <1>19, <2>3, <2>4 DEF RecoverOne
<1>20. CASE Crash
  <2>1. \A r \in Rec : /\ rec'[r] \in Capture /\ CaptureIn(rec'[r], ingests[r])
                      /\ rec'[r].start \in {"none", "lost"} /\ rec'[r].run = rec[r].run
                      /\ rec'[r].noted = rec[r].noted /\ rec'[r].sim = rec[r].sim
    <3> SUFFICES ASSUME NEW r \in Rec
                 PROVE  /\ rec'[r] \in Capture /\ CaptureIn(rec'[r], ingests[r])
                        /\ rec'[r].start \in {"none", "lost"} /\ rec'[r].run = rec[r].run
                        /\ rec'[r].noted = rec[r].noted /\ rec'[r].sim = rec[r].sim
      OBVIOUS
    <3> DEFINE kept == IF rec[r].stop = "delivered" THEN rec[r].stop ELSE "no"
               f == [rec[r] EXCEPT !.start = "lost", !.wd = FALSE, !.stop = kept]
    <3>1. rec'[r] = IF rec[r].start = "none" THEN rec[r] ELSE f
      BY <1>20 DEF Crash
    <3>0. rec[r] \in Capture
      BY <1>0
    <3>k. kept \in {"delivered", "no"}
      OBVIOUS
    <3>a. f \in Capture
      BY <3>0 DEF Capture
    <3>b. /\ f.start = "lost" /\ f.proc = rec[r].proc /\ f.spool = rec[r].spool
          /\ (f.noted <=> rec[r].noted) /\ f.stop = kept /\ (f.stopping <=> rec[r].stopping)
          /\ (f.sigint <=> rec[r].sigint) /\ (f.ok <=> rec[r].ok) /\ f.run = rec[r].run
          /\ f.sim = rec[r].sim
      BY <3>0, <3>k DEF Capture
    <3>2. rec[r].start # "none" => f \in Capture /\ CaptureIn(f, ingests[r])
      <4> HIDE DEF f
      <4>1. rec[r].start # "none" => CaptureIn(f, ingests[r])
        BY <1>0, <3>0, <3>a, <3>b DEF Capture, CaptureIn
      <4> QED
        BY <3>a, <4>1
    <3>3. f.start = "lost" /\ f.run = rec[r].run /\ f.noted = rec[r].noted /\ f.sim = rec[r].sim
      BY <1>0 DEF Capture
    <3> HIDE DEF f
    <3> QED
      BY <1>0, <3>1, <3>2, <3>3
  <2>2. rec' = [r \in Rec |-> rec'[r]] /\ daemon' = "down" /\ recByTarget' = [t \in Sim |-> NoRec]
        /\ poisoned' = {} /\ UNCHANGED <<stuck, stateFile, ingests, signalled>>
    BY <1>20 DEF Crash
  <2>3. RecTypeOK' /\ FilesName' /\ RecStrangersSafe'
    BY <1>0, <2>1, <2>2 DEF RecInv, RecTypeOK, FilesName, RecStrangersSafe
  <2>4. DaemonKnows'
    BY <1>0, <2>1, <2>2 DEF DaemonKnows, Serving, OfThisDaemon, CaptureIn
  <2> QED
    BY <2>1, <2>2, <2>3, <2>4 DEF RecInv
<1>21. ASSUME NEW t \in Sim, ShutDownSim(t) PROVE RecInv'
  BY <1>0, <1>21 DEF ShutDownSim, RecInv, RecTypeOK, DaemonKnows, Serving, FilesName, RecStrangersSafe
<1>22. CASE StopAll
  BY <1>0, <1>22 DEF StopAll, RecInv, RecTypeOK, DaemonKnows, Serving, FilesName, RecStrangersSafe
<1>23. CASE Restart
  BY <1>0, <1>23 DEF Restart, RecInv, RecTypeOK, DaemonKnows, Serving, FilesName, RecStrangersSafe
<1>24. CASE Recovered
  BY <1>0, <1>24 DEF Recovered, RecInv, RecTypeOK, DaemonKnows, Serving, FilesName, RecStrangersSafe
<1>25. CASE UNCHANGED recVars
  BY <1>25 DEF recVars, RecInv, RecTypeOK, DaemonKnows, Serving, FilesName, RecStrangersSafe
<1> QED
  BY <1>1, <1>2, <1>3, <1>4, <1>5, <1>6, <1>7, <1>8, <1>9, <1>10, <1>11, <1>12, <1>13, <1>14, <1>15, <1>16, <1>17, <1>18, <1>19, <1>20, <1>21, <1>22, <1>23, <1>24, <1>25 DEF RecNext

LEMMA AloneStarts == RecInit => RecAlone
<1> SUFFICES ASSUME RecInit PROVE RecAlone
  OBVIOUS
<1>1. \A r \in Rec : rec[r].start = "none" /\ CaptureIn(rec[r], ingests[r])
  BY RecStarts DEF RecInit, RecInv
<1>2. \A r \in Rec : ~ Busy(r)
  BY <1>1, RecStarts, RecAssumption DEF RecInit, Busy, CaptureIn, RecInv, RecTypeOK, Capture
<1>3. OnePerRun
  BY <1>1, <1>2 DEF RecInit, OnePerRun
<1>4. RecReclaimable
  BY <1>1 DEF CaptureIn, RecReclaimable
<1> QED
  BY <1>3, <1>4, RecStarts DEF RecAlone

LEMMA AloneStep == ASSUME ~ Overlap, RecAlone, [RecNext]_recVars PROVE RecAlone'
<1>0. /\ RecInv /\ RecInv' /\ OnePerRun /\ RecReclaimable
      /\ \A r \in Rec : rec[r] \in Capture /\ CaptureIn(rec[r], ingests[r])
                        /\ rec[r].sim \in Sim /\ rec[r].run \in RecRun
      /\ recByTarget \in [Sim -> Rec \cup {NoRec}] /\ stateFile \in [RecRun -> Rec \cup {NoRec}]
  BY RecStep DEF RecAlone, RecInv, RecTypeOK, Capture
<1>1. ASSUME NEW r \in Rec, RecReserve(r) PROVE RecAlone'
  <2> DEFINE f == [rec[r] EXCEPT !.start = "reserved"]
  <2>1. Recorded(r, f)
    BY <1>1 DEF RecReserve
  <2>2. rec'[r] = f /\ \A s \in Rec \ {r} : rec'[s] = rec[s]
    <3> HIDE DEF f
    <3> QED
      BY <1>0, <2>1, RecordedIs
  <2>3. /\ rec'[r].start = "reserved" /\ rec'[r].proc = rec[r].proc
        /\ rec'[r].stop = rec[r].stop /\ (rec'[r].noted <=> rec[r].noted)
        /\ rec'[r].run = rec[r].run /\ rec'[r].sim = rec[r].sim
    <3>1. rec[r] \in Capture
      BY <1>0
    <3> QED
      BY <2>2, <3>1 DEF Capture
  <2> HIDE DEF f
  <2>4. /\ Busy(r)' => Busy(r) \/ \A s \in Rec : rec[s].run = rec[r].run => ~ Busy(s)
        /\ \A s \in Rec \ {r} : Busy(s)' => Busy(s)
    BY <1>0, <1>1, <2>2, <2>3, RecAssumption DEF RecReserve, Busy, Forgotten, Ready, Alive, CaptureIn, OnePerRun
  <2>5. /\ rec'[r].start # "lost" \/ rec[r].start = "lost"
        /\ \/ rec'[r].start = rec[r].start \/ rec[r].start \notin {"none", "lost"}
           \/ \A s \in Rec : rec[s].run = rec[r].run => rec[s].start # "lost"
    BY <1>1, <1>0, <2>3 DEF RecReserve, CaptureIn
  <2>6. rec'[r].proc = "alive" /\ rec'[r].noted =>
          (Alive(r) /\ rec[r].noted /\ stateFile' = stateFile) \/ stateFile'[rec[r].run] = r
    BY <1>0, <1>1, <2>3 DEF RecReserve, Alive, CaptureIn
  <2>7. \/ stateFile' = stateFile
        \/ /\ \A u \in RecRun \ {rec[r].run} : stateFile'[u] = stateFile[u]
           /\ Busy(r) /\ rec[r].start \notin {"none", "lost"}
    BY <1>0, <1>1 DEF RecReserve, Busy, CaptureIn
  <2> QED
    BY <1>0, <2>2, <2>3, <2>4, <2>5, <2>6, <2>7, OneAlone DEF RecAlone
<1>2. ASSUME NEW r \in Rec, SpawnFails(r) PROVE RecAlone'
  <2> DEFINE f == [rec[r] EXCEPT !.start = "failed"]
  <2>1. Recorded(r, f)
    BY <1>2 DEF SpawnFails
  <2>2. rec'[r] = f /\ \A s \in Rec \ {r} : rec'[s] = rec[s]
    <3> HIDE DEF f
    <3> QED
      BY <1>0, <2>1, RecordedIs
  <2>3. /\ rec'[r].start = "failed" /\ rec'[r].proc = rec[r].proc
        /\ rec'[r].stop = rec[r].stop /\ (rec'[r].noted <=> rec[r].noted)
        /\ rec'[r].run = rec[r].run /\ rec'[r].sim = rec[r].sim
    <3>1. rec[r] \in Capture
      BY <1>0
    <3> QED
      BY <2>2, <3>1 DEF Capture
  <2> HIDE DEF f
  <2>4. /\ Busy(r)' => Busy(r) \/ \A s \in Rec : rec[s].run = rec[r].run => ~ Busy(s)
        /\ \A s \in Rec \ {r} : Busy(s)' => Busy(s)
    BY <1>0, <1>2, <2>2, <2>3, RecAssumption DEF SpawnFails, Busy, Forgotten, Ready, Alive, CaptureIn, OnePerRun
  <2>5. /\ rec'[r].start # "lost" \/ rec[r].start = "lost"
        /\ \/ rec'[r].start = rec[r].start \/ rec[r].start \notin {"none", "lost"}
           \/ \A s \in Rec : rec[s].run = rec[r].run => rec[s].start # "lost"
    BY <1>2, <1>0, <2>3 DEF SpawnFails, CaptureIn
  <2>6. rec'[r].proc = "alive" /\ rec'[r].noted =>
          (Alive(r) /\ rec[r].noted /\ stateFile' = stateFile) \/ stateFile'[rec[r].run] = r
    BY <1>0, <1>2, <2>3 DEF SpawnFails, Alive, CaptureIn
  <2>7. \/ stateFile' = stateFile
        \/ /\ \A u \in RecRun \ {rec[r].run} : stateFile'[u] = stateFile[u]
           /\ Busy(r) /\ rec[r].start \notin {"none", "lost"}
    BY <1>0, <1>2 DEF SpawnFails, Busy, CaptureIn
  <2> QED
    BY <1>0, <2>2, <2>3, <2>4, <2>5, <2>6, <2>7, OneAlone DEF RecAlone
<1>3. ASSUME NEW r \in Rec, Spawn(r) PROVE RecAlone'
  <2> DEFINE f == [rec[r] EXCEPT !.start = "spawned", !.proc = "alive",
                             !.busy = rec[r].sim \in stuck, !.spool = "open"]
  <2>1. Recorded(r, f)
    BY <1>3 DEF Spawn
  <2>2. rec'[r] = f /\ \A s \in Rec \ {r} : rec'[s] = rec[s]
    <3> HIDE DEF f
    <3> QED
      BY <1>0, <2>1, RecordedIs
  <2>3. /\ rec'[r].start = "spawned" /\ rec'[r].proc = "alive"
        /\ rec'[r].stop = rec[r].stop /\ (rec'[r].noted <=> rec[r].noted)
        /\ rec'[r].run = rec[r].run /\ rec'[r].sim = rec[r].sim
    <3>1. rec[r] \in Capture
      BY <1>0
    <3> QED
      BY <2>2, <3>1 DEF Capture
  <2> HIDE DEF f
  <2>4. /\ Busy(r)' => Busy(r) \/ \A s \in Rec : rec[s].run = rec[r].run => ~ Busy(s)
        /\ \A s \in Rec \ {r} : Busy(s)' => Busy(s)
    BY <1>0, <1>3, <2>2, <2>3, RecAssumption DEF Spawn, Busy, Forgotten, Ready, Alive, CaptureIn, OnePerRun
  <2>5. /\ rec'[r].start # "lost" \/ rec[r].start = "lost"
        /\ \/ rec'[r].start = rec[r].start \/ rec[r].start \notin {"none", "lost"}
           \/ \A s \in Rec : rec[s].run = rec[r].run => rec[s].start # "lost"
    BY <1>3, <1>0, <2>3 DEF Spawn, CaptureIn
  <2>6. rec'[r].proc = "alive" /\ rec'[r].noted =>
          (Alive(r) /\ rec[r].noted /\ stateFile' = stateFile) \/ stateFile'[rec[r].run] = r
    BY <1>0, <1>3, <2>3 DEF Spawn, Alive, CaptureIn
  <2>7. \/ stateFile' = stateFile
        \/ /\ \A u \in RecRun \ {rec[r].run} : stateFile'[u] = stateFile[u]
           /\ Busy(r) /\ rec[r].start \notin {"none", "lost"}
    BY <1>0, <1>3 DEF Spawn, Busy, CaptureIn
  <2> QED
    BY <1>0, <2>2, <2>3, <2>4, <2>5, <2>6, <2>7, OneAlone DEF RecAlone
<1>4. ASSUME NEW r \in Rec, WriteState(r) PROVE RecAlone'
  <2> DEFINE f == [rec[r] EXCEPT !.start = "probing", !.noted = TRUE]
  <2>1. Recorded(r, f)
    BY <1>4 DEF WriteState
  <2>2. rec'[r] = f /\ \A s \in Rec \ {r} : rec'[s] = rec[s]
    <3> HIDE DEF f
    <3> QED
      BY <1>0, <2>1, RecordedIs
  <2>3. /\ rec'[r].start = "probing" /\ rec'[r].proc = rec[r].proc
        /\ rec'[r].stop = rec[r].stop /\ rec'[r].noted
        /\ rec'[r].run = rec[r].run /\ rec'[r].sim = rec[r].sim
    <3>1. rec[r] \in Capture
      BY <1>0
    <3> QED
      BY <2>2, <3>1 DEF Capture
  <2> HIDE DEF f
  <2>4. /\ Busy(r)' => Busy(r) \/ \A s \in Rec : rec[s].run = rec[r].run => ~ Busy(s)
        /\ \A s \in Rec \ {r} : Busy(s)' => Busy(s)
    BY <1>0, <1>4, <2>2, <2>3, RecAssumption DEF WriteState, Busy, Forgotten, Ready, Alive, CaptureIn, OnePerRun
  <2>5. /\ rec'[r].start # "lost" \/ rec[r].start = "lost"
        /\ \/ rec'[r].start = rec[r].start \/ rec[r].start \notin {"none", "lost"}
           \/ \A s \in Rec : rec[s].run = rec[r].run => rec[s].start # "lost"
    BY <1>4, <1>0, <2>3 DEF WriteState, CaptureIn
  <2>6. rec'[r].proc = "alive" /\ rec'[r].noted =>
          (Alive(r) /\ rec[r].noted /\ stateFile' = stateFile) \/ stateFile'[rec[r].run] = r
    BY <1>0, <1>4, <2>3 DEF WriteState, Alive, CaptureIn
  <2>7. \/ stateFile' = stateFile
        \/ /\ \A u \in RecRun \ {rec[r].run} : stateFile'[u] = stateFile[u]
           /\ Busy(r) /\ rec[r].start \notin {"none", "lost"}
    BY <1>0, <1>4 DEF WriteState, Busy, CaptureIn
  <2> QED
    BY <1>0, <2>2, <2>3, <2>4, <2>5, <2>6, <2>7, OneAlone DEF RecAlone
<1>5. ASSUME NEW r \in Rec, ProbeEnds(r), rec[r].stopping PROVE RecAlone'
  <2> DEFINE f == [rec[r] EXCEPT !.start = "done"]
  <2>1. Recorded(r, f)
    BY <1>5 DEF ProbeEnds
  <2>2. rec'[r] = f /\ \A s \in Rec \ {r} : rec'[s] = rec[s]
    <3> HIDE DEF f
    <3> QED
      BY <1>0, <2>1, RecordedIs
  <2>3. /\ rec'[r].start = "done" /\ rec'[r].proc = rec[r].proc
        /\ rec'[r].stop = rec[r].stop /\ (rec'[r].noted <=> rec[r].noted)
        /\ rec'[r].run = rec[r].run /\ rec'[r].sim = rec[r].sim
    <3>1. rec[r] \in Capture
      BY <1>0
    <3> QED
      BY <2>2, <3>1 DEF Capture
  <2> HIDE DEF f
  <2>4. /\ Busy(r)' => Busy(r) \/ \A s \in Rec : rec[s].run = rec[r].run => ~ Busy(s)
        /\ \A s \in Rec \ {r} : Busy(s)' => Busy(s)
    BY <1>0, <1>5, <2>2, <2>3, RecAssumption DEF ProbeEnds, Busy, Forgotten, Ready, Alive, CaptureIn, OnePerRun
  <2>5. /\ rec'[r].start # "lost" \/ rec[r].start = "lost"
        /\ \/ rec'[r].start = rec[r].start \/ rec[r].start \notin {"none", "lost"}
           \/ \A s \in Rec : rec[s].run = rec[r].run => rec[s].start # "lost"
    BY <1>5, <1>0, <2>3 DEF ProbeEnds, CaptureIn
  <2>6. rec'[r].proc = "alive" /\ rec'[r].noted =>
          (Alive(r) /\ rec[r].noted /\ stateFile' = stateFile) \/ stateFile'[rec[r].run] = r
    BY <1>0, <1>5, <2>3 DEF ProbeEnds, Alive, CaptureIn
  <2>7. \/ stateFile' = stateFile
        \/ /\ \A u \in RecRun \ {rec[r].run} : stateFile'[u] = stateFile[u]
           /\ Busy(r) /\ rec[r].start \notin {"none", "lost"}
    BY <1>0, <1>5 DEF ProbeEnds, Busy, CaptureIn
  <2> QED
    BY <1>0, <2>2, <2>3, <2>4, <2>5, <2>6, <2>7, OneAlone DEF RecAlone
<1>6. ASSUME NEW r \in Rec, ProbeEnds(r), ~ rec[r].stopping, ~ Alive(r) PROVE RecAlone'
  <2> DEFINE f == [rec[r] EXCEPT !.start = "dying"]
  <2>1. Recorded(r, f)
    BY <1>6 DEF ProbeEnds
  <2>2. rec'[r] = f /\ \A s \in Rec \ {r} : rec'[s] = rec[s]
    <3> HIDE DEF f
    <3> QED
      BY <1>0, <2>1, RecordedIs
  <2>3. /\ rec'[r].start = "dying" /\ rec'[r].proc = rec[r].proc
        /\ rec'[r].stop = rec[r].stop /\ (rec'[r].noted <=> rec[r].noted)
        /\ rec'[r].run = rec[r].run /\ rec'[r].sim = rec[r].sim
    <3>1. rec[r] \in Capture
      BY <1>0
    <3> QED
      BY <2>2, <3>1 DEF Capture
  <2> HIDE DEF f
  <2>4. /\ Busy(r)' => Busy(r) \/ \A s \in Rec : rec[s].run = rec[r].run => ~ Busy(s)
        /\ \A s \in Rec \ {r} : Busy(s)' => Busy(s)
    BY <1>0, <1>6, <2>2, <2>3, RecAssumption DEF ProbeEnds, Busy, Forgotten, Ready, Alive, CaptureIn, OnePerRun
  <2>5. /\ rec'[r].start # "lost" \/ rec[r].start = "lost"
        /\ \/ rec'[r].start = rec[r].start \/ rec[r].start \notin {"none", "lost"}
           \/ \A s \in Rec : rec[s].run = rec[r].run => rec[s].start # "lost"
    BY <1>6, <1>0, <2>3 DEF ProbeEnds, CaptureIn
  <2>6. rec'[r].proc = "alive" /\ rec'[r].noted =>
          (Alive(r) /\ rec[r].noted /\ stateFile' = stateFile) \/ stateFile'[rec[r].run] = r
    BY <1>0, <1>6, <2>3 DEF ProbeEnds, Alive, CaptureIn
  <2>7. \/ stateFile' = stateFile
        \/ /\ \A u \in RecRun \ {rec[r].run} : stateFile'[u] = stateFile[u]
           /\ Busy(r) /\ rec[r].start \notin {"none", "lost"}
    BY <1>0, <1>6 DEF ProbeEnds, Busy, CaptureIn
  <2> QED
    BY <1>0, <2>2, <2>3, <2>4, <2>5, <2>6, <2>7, OneAlone DEF RecAlone
<1>7. ASSUME NEW r \in Rec, ProbeEnds(r), ~ rec[r].stopping, Alive(r) PROVE RecAlone'
  <2> DEFINE f == [rec[r] EXCEPT !.start = "done", !.wd = TRUE]
  <2>1. Recorded(r, f)
    BY <1>7 DEF ProbeEnds
  <2>2. rec'[r] = f /\ \A s \in Rec \ {r} : rec'[s] = rec[s]
    <3> HIDE DEF f
    <3> QED
      BY <1>0, <2>1, RecordedIs
  <2>3. /\ rec'[r].start = "done" /\ rec'[r].proc = rec[r].proc
        /\ rec'[r].stop = rec[r].stop /\ (rec'[r].noted <=> rec[r].noted)
        /\ rec'[r].run = rec[r].run /\ rec'[r].sim = rec[r].sim
    <3>1. rec[r] \in Capture
      BY <1>0
    <3> QED
      BY <2>2, <3>1 DEF Capture
  <2> HIDE DEF f
  <2>4. /\ Busy(r)' => Busy(r) \/ \A s \in Rec : rec[s].run = rec[r].run => ~ Busy(s)
        /\ \A s \in Rec \ {r} : Busy(s)' => Busy(s)
    BY <1>0, <1>7, <2>2, <2>3, RecAssumption DEF ProbeEnds, Busy, Forgotten, Ready, Alive, CaptureIn, OnePerRun
  <2>5. /\ rec'[r].start # "lost" \/ rec[r].start = "lost"
        /\ \/ rec'[r].start = rec[r].start \/ rec[r].start \notin {"none", "lost"}
           \/ \A s \in Rec : rec[s].run = rec[r].run => rec[s].start # "lost"
    BY <1>7, <1>0, <2>3 DEF ProbeEnds, CaptureIn
  <2>6. rec'[r].proc = "alive" /\ rec'[r].noted =>
          (Alive(r) /\ rec[r].noted /\ stateFile' = stateFile) \/ stateFile'[rec[r].run] = r
    BY <1>0, <1>7, <2>3 DEF ProbeEnds, Alive, CaptureIn
  <2>7. \/ stateFile' = stateFile
        \/ /\ \A u \in RecRun \ {rec[r].run} : stateFile'[u] = stateFile[u]
           /\ Busy(r) /\ rec[r].start \notin {"none", "lost"}
    BY <1>0, <1>7 DEF ProbeEnds, Busy, CaptureIn
  <2> QED
    BY <1>0, <2>2, <2>3, <2>4, <2>5, <2>6, <2>7, OneAlone DEF RecAlone
<1>8. ASSUME NEW r \in Rec, EarlyExit(r) PROVE RecAlone'
  <2> DEFINE f == [rec[r] EXCEPT !.start = "failed", !.spool = "none"]
  <2>1. Recorded(r, f)
    BY <1>8 DEF EarlyExit
  <2>2. rec'[r] = f /\ \A s \in Rec \ {r} : rec'[s] = rec[s]
    <3> HIDE DEF f
    <3> QED
      BY <1>0, <2>1, RecordedIs
  <2>3. /\ rec'[r].start = "failed" /\ rec'[r].proc = rec[r].proc
        /\ rec'[r].stop = rec[r].stop /\ (rec'[r].noted <=> rec[r].noted)
        /\ rec'[r].run = rec[r].run /\ rec'[r].sim = rec[r].sim
    <3>1. rec[r] \in Capture
      BY <1>0
    <3> QED
      BY <2>2, <3>1 DEF Capture
  <2> HIDE DEF f
  <2>4. /\ Busy(r)' => Busy(r) \/ \A s \in Rec : rec[s].run = rec[r].run => ~ Busy(s)
        /\ \A s \in Rec \ {r} : Busy(s)' => Busy(s)
    BY <1>0, <1>8, <2>2, <2>3, RecAssumption DEF EarlyExit, Busy, Forgotten, Ready, Alive, CaptureIn, OnePerRun
  <2>5. /\ rec'[r].start # "lost" \/ rec[r].start = "lost"
        /\ \/ rec'[r].start = rec[r].start \/ rec[r].start \notin {"none", "lost"}
           \/ \A s \in Rec : rec[s].run = rec[r].run => rec[s].start # "lost"
    BY <1>8, <1>0, <2>3 DEF EarlyExit, CaptureIn
  <2>6. rec'[r].proc = "alive" /\ rec'[r].noted =>
          (Alive(r) /\ rec[r].noted /\ stateFile' = stateFile) \/ stateFile'[rec[r].run] = r
    BY <1>0, <1>8, <2>3 DEF EarlyExit, Alive, CaptureIn
  <2>7. \/ stateFile' = stateFile
        \/ /\ \A u \in RecRun \ {rec[r].run} : stateFile'[u] = stateFile[u]
           /\ Busy(r) /\ rec[r].start \notin {"none", "lost"}
    BY <1>0, <1>8 DEF EarlyExit, Busy, CaptureIn
  <2> QED
    BY <1>0, <2>2, <2>3, <2>4, <2>5, <2>6, <2>7, OneAlone DEF RecAlone
<1>9. ASSUME NEW r \in Rec, Interrupt(r), rec[r].proc = "none" PROVE RecAlone'
  <2> DEFINE f == [rec[r] EXCEPT !.stop = "ended"]
  <2>1. Recorded(r, f)
    BY <1>9 DEF Interrupt
  <2>2. rec'[r] = f /\ \A s \in Rec \ {r} : rec'[s] = rec[s]
    <3> HIDE DEF f
    <3> QED
      BY <1>0, <2>1, RecordedIs
  <2>3. /\ rec'[r].start = rec[r].start /\ rec'[r].proc = rec[r].proc
        /\ rec'[r].stop = "ended" /\ (rec'[r].noted <=> rec[r].noted)
        /\ rec'[r].run = rec[r].run /\ rec'[r].sim = rec[r].sim
    <3>1. rec[r] \in Capture
      BY <1>0
    <3> QED
      BY <2>2, <3>1 DEF Capture
  <2> HIDE DEF f
  <2>4. /\ Busy(r)' => Busy(r) \/ \A s \in Rec : rec[s].run = rec[r].run => ~ Busy(s)
        /\ \A s \in Rec \ {r} : Busy(s)' => Busy(s)
    BY <1>0, <1>9, <2>2, <2>3, RecAssumption DEF Interrupt, Busy, Forgotten, Ready, Alive, CaptureIn, OnePerRun
  <2>5. /\ rec'[r].start # "lost" \/ rec[r].start = "lost"
        /\ \/ rec'[r].start = rec[r].start \/ rec[r].start \notin {"none", "lost"}
           \/ \A s \in Rec : rec[s].run = rec[r].run => rec[s].start # "lost"
    BY <1>9, <1>0, <2>3 DEF Interrupt, CaptureIn
  <2>6. rec'[r].proc = "alive" /\ rec'[r].noted =>
          (Alive(r) /\ rec[r].noted /\ stateFile' = stateFile) \/ stateFile'[rec[r].run] = r
    BY <1>0, <1>9, <2>3 DEF Interrupt, Alive, CaptureIn
  <2>7. \/ stateFile' = stateFile
        \/ /\ \A u \in RecRun \ {rec[r].run} : stateFile'[u] = stateFile[u]
           /\ Busy(r) /\ rec[r].start \notin {"none", "lost"}
    BY <1>0, <1>9 DEF Interrupt, Busy, CaptureIn
  <2> QED
    BY <1>0, <2>2, <2>3, <2>4, <2>5, <2>6, <2>7, OneAlone DEF RecAlone
<1>10. ASSUME NEW r \in Rec, Interrupt(r), rec[r].proc = "exited" PROVE RecAlone'
  <2> DEFINE f == [rec[r] EXCEPT !.stop = "finish"]
  <2>1. Recorded(r, f)
    BY <1>10 DEF Interrupt
  <2>2. rec'[r] = f /\ \A s \in Rec \ {r} : rec'[s] = rec[s]
    <3> HIDE DEF f
    <3> QED
      BY <1>0, <2>1, RecordedIs
  <2>3. /\ rec'[r].start = rec[r].start /\ rec'[r].proc = rec[r].proc
        /\ rec'[r].stop = "finish" /\ (rec'[r].noted <=> rec[r].noted)
        /\ rec'[r].run = rec[r].run /\ rec'[r].sim = rec[r].sim
    <3>1. rec[r] \in Capture
      BY <1>0
    <3> QED
      BY <2>2, <3>1 DEF Capture
  <2> HIDE DEF f
  <2>4. /\ Busy(r)' => Busy(r) \/ \A s \in Rec : rec[s].run = rec[r].run => ~ Busy(s)
        /\ \A s \in Rec \ {r} : Busy(s)' => Busy(s)
    BY <1>0, <1>10, <2>2, <2>3, RecAssumption DEF Interrupt, Busy, Forgotten, Ready, Alive, CaptureIn, OnePerRun
  <2>5. /\ rec'[r].start # "lost" \/ rec[r].start = "lost"
        /\ \/ rec'[r].start = rec[r].start \/ rec[r].start \notin {"none", "lost"}
           \/ \A s \in Rec : rec[s].run = rec[r].run => rec[s].start # "lost"
    BY <1>10, <1>0, <2>3 DEF Interrupt, CaptureIn
  <2>6. rec'[r].proc = "alive" /\ rec'[r].noted =>
          (Alive(r) /\ rec[r].noted /\ stateFile' = stateFile) \/ stateFile'[rec[r].run] = r
    BY <1>0, <1>10, <2>3 DEF Interrupt, Alive, CaptureIn
  <2>7. \/ stateFile' = stateFile
        \/ /\ \A u \in RecRun \ {rec[r].run} : stateFile'[u] = stateFile[u]
           /\ Busy(r) /\ rec[r].start \notin {"none", "lost"}
    BY <1>0, <1>10 DEF Interrupt, Busy, CaptureIn
  <2> QED
    BY <1>0, <2>2, <2>3, <2>4, <2>5, <2>6, <2>7, OneAlone DEF RecAlone
<1>11. ASSUME NEW r \in Rec, Interrupt(r), rec[r].proc \notin {"none", "exited"} PROVE RecAlone'
  <2> DEFINE f == [rec[r] EXCEPT !.stop = "reap", !.sigint = TRUE]
  <2>1. Recorded(r, f)
    BY <1>11 DEF Interrupt
  <2>2. rec'[r] = f /\ \A s \in Rec \ {r} : rec'[s] = rec[s]
    <3> HIDE DEF f
    <3> QED
      BY <1>0, <2>1, RecordedIs
  <2>3. /\ rec'[r].start = rec[r].start /\ rec'[r].proc = rec[r].proc
        /\ rec'[r].stop = "reap" /\ (rec'[r].noted <=> rec[r].noted)
        /\ rec'[r].run = rec[r].run /\ rec'[r].sim = rec[r].sim
    <3>1. rec[r] \in Capture
      BY <1>0
    <3> QED
      BY <2>2, <3>1 DEF Capture
  <2> HIDE DEF f
  <2>4. /\ Busy(r)' => Busy(r) \/ \A s \in Rec : rec[s].run = rec[r].run => ~ Busy(s)
        /\ \A s \in Rec \ {r} : Busy(s)' => Busy(s)
    BY <1>0, <1>11, <2>2, <2>3, RecAssumption DEF Interrupt, Busy, Forgotten, Ready, Alive, CaptureIn, OnePerRun
  <2>5. /\ rec'[r].start # "lost" \/ rec[r].start = "lost"
        /\ \/ rec'[r].start = rec[r].start \/ rec[r].start \notin {"none", "lost"}
           \/ \A s \in Rec : rec[s].run = rec[r].run => rec[s].start # "lost"
    BY <1>11, <1>0, <2>3 DEF Interrupt, CaptureIn
  <2>6. rec'[r].proc = "alive" /\ rec'[r].noted =>
          (Alive(r) /\ rec[r].noted /\ stateFile' = stateFile) \/ stateFile'[rec[r].run] = r
    BY <1>0, <1>11, <2>3 DEF Interrupt, Alive, CaptureIn
  <2>7. \/ stateFile' = stateFile
        \/ /\ \A u \in RecRun \ {rec[r].run} : stateFile'[u] = stateFile[u]
           /\ Busy(r) /\ rec[r].start \notin {"none", "lost"}
    BY <1>0, <1>11 DEF Interrupt, Busy, CaptureIn
  <2> QED
    BY <1>0, <2>2, <2>3, <2>4, <2>5, <2>6, <2>7, OneAlone DEF RecAlone
<1>12. ASSUME NEW r \in Rec, Reap(r) PROVE RecAlone'
  <2> DEFINE f == [rec[r] EXCEPT !.stop = "finish"]
  <2>1. Recorded(r, f)
    BY <1>12 DEF Reap
  <2>2. rec'[r] = f /\ \A s \in Rec \ {r} : rec'[s] = rec[s]
    <3> HIDE DEF f
    <3> QED
      BY <1>0, <2>1, RecordedIs
  <2>3. /\ rec'[r].start = rec[r].start /\ rec'[r].proc = rec[r].proc
        /\ rec'[r].stop = "finish" /\ (rec'[r].noted <=> rec[r].noted)
        /\ rec'[r].run = rec[r].run /\ rec'[r].sim = rec[r].sim
    <3>1. rec[r] \in Capture
      BY <1>0
    <3> QED
      BY <2>2, <3>1 DEF Capture
  <2> HIDE DEF f
  <2>4. /\ Busy(r)' => Busy(r) \/ \A s \in Rec : rec[s].run = rec[r].run => ~ Busy(s)
        /\ \A s \in Rec \ {r} : Busy(s)' => Busy(s)
    BY <1>0, <1>12, <2>2, <2>3, RecAssumption DEF Reap, Busy, Forgotten, Ready, Alive, CaptureIn, OnePerRun
  <2>5. /\ rec'[r].start # "lost" \/ rec[r].start = "lost"
        /\ \/ rec'[r].start = rec[r].start \/ rec[r].start \notin {"none", "lost"}
           \/ \A s \in Rec : rec[s].run = rec[r].run => rec[s].start # "lost"
    BY <1>12, <1>0, <2>3 DEF Reap, CaptureIn
  <2>6. rec'[r].proc = "alive" /\ rec'[r].noted =>
          (Alive(r) /\ rec[r].noted /\ stateFile' = stateFile) \/ stateFile'[rec[r].run] = r
    BY <1>0, <1>12, <2>3 DEF Reap, Alive, CaptureIn
  <2>7. \/ stateFile' = stateFile
        \/ /\ \A u \in RecRun \ {rec[r].run} : stateFile'[u] = stateFile[u]
           /\ Busy(r) /\ rec[r].start \notin {"none", "lost"}
    BY <1>0, <1>12 DEF Reap, Busy, CaptureIn
  <2> QED
    BY <1>0, <2>2, <2>3, <2>4, <2>5, <2>6, <2>7, OneAlone DEF RecAlone
<1>13. ASSUME NEW r \in Rec, Kill(r) PROVE RecAlone'
  <2> DEFINE f == [rec[r] EXCEPT !.stop = "finish", !.proc = "exited", !.spool = "invalid"]
  <2>1. Recorded(r, f)
    BY <1>13 DEF Kill
  <2>2. rec'[r] = f /\ \A s \in Rec \ {r} : rec'[s] = rec[s]
    <3> HIDE DEF f
    <3> QED
      BY <1>0, <2>1, RecordedIs
  <2>3. /\ rec'[r].start = rec[r].start /\ rec'[r].proc = "exited"
        /\ rec'[r].stop = "finish" /\ (rec'[r].noted <=> rec[r].noted)
        /\ rec'[r].run = rec[r].run /\ rec'[r].sim = rec[r].sim
    <3>1. rec[r] \in Capture
      BY <1>0
    <3> QED
      BY <2>2, <3>1 DEF Capture
  <2> HIDE DEF f
  <2>4. /\ Busy(r)' => Busy(r) \/ \A s \in Rec : rec[s].run = rec[r].run => ~ Busy(s)
        /\ \A s \in Rec \ {r} : Busy(s)' => Busy(s)
    BY <1>0, <1>13, <2>2, <2>3, RecAssumption DEF Kill, Busy, Forgotten, Ready, Alive, CaptureIn, OnePerRun
  <2>5. /\ rec'[r].start # "lost" \/ rec[r].start = "lost"
        /\ \/ rec'[r].start = rec[r].start \/ rec[r].start \notin {"none", "lost"}
           \/ \A s \in Rec : rec[s].run = rec[r].run => rec[s].start # "lost"
    BY <1>13, <1>0, <2>3 DEF Kill, CaptureIn
  <2>6. rec'[r].proc = "alive" /\ rec'[r].noted =>
          (Alive(r) /\ rec[r].noted /\ stateFile' = stateFile) \/ stateFile'[rec[r].run] = r
    BY <1>0, <1>13, <2>3 DEF Kill, Alive, CaptureIn
  <2>7. \/ stateFile' = stateFile
        \/ /\ \A u \in RecRun \ {rec[r].run} : stateFile'[u] = stateFile[u]
           /\ Busy(r) /\ rec[r].start \notin {"none", "lost"}
    BY <1>0, <1>13 DEF Kill, Busy, CaptureIn
  <2> QED
    BY <1>0, <2>2, <2>3, <2>4, <2>5, <2>6, <2>7, OneAlone DEF RecAlone
<1>14. ASSUME NEW r \in Rec, Finish(r) PROVE RecAlone'
  <2> DEFINE f == [rec[r] EXCEPT !.stop = "ended", !.ok = rec[r].spool = "valid"]
  <2>1. Recorded(r, f)
    BY <1>14 DEF Finish
  <2>2. rec'[r] = f /\ \A s \in Rec \ {r} : rec'[s] = rec[s]
    <3> HIDE DEF f
    <3> QED
      BY <1>0, <2>1, RecordedIs
  <2>3. /\ rec'[r].start = rec[r].start /\ rec'[r].proc = rec[r].proc
        /\ rec'[r].stop = "ended" /\ (rec'[r].noted <=> rec[r].noted)
        /\ rec'[r].run = rec[r].run /\ rec'[r].sim = rec[r].sim
    <3>1. rec[r] \in Capture
      BY <1>0
    <3> QED
      BY <2>2, <3>1 DEF Capture
  <2> HIDE DEF f
  <2>4. /\ Busy(r)' => Busy(r) \/ \A s \in Rec : rec[s].run = rec[r].run => ~ Busy(s)
        /\ \A s \in Rec \ {r} : Busy(s)' => Busy(s)
    BY <1>0, <1>14, <2>2, <2>3, RecAssumption DEF Finish, Busy, Forgotten, Ready, Alive, CaptureIn, OnePerRun
  <2>5. /\ rec'[r].start # "lost" \/ rec[r].start = "lost"
        /\ \/ rec'[r].start = rec[r].start \/ rec[r].start \notin {"none", "lost"}
           \/ \A s \in Rec : rec[s].run = rec[r].run => rec[s].start # "lost"
    BY <1>14, <1>0, <2>3 DEF Finish, CaptureIn
  <2>6. rec'[r].proc = "alive" /\ rec'[r].noted =>
          (Alive(r) /\ rec[r].noted /\ stateFile' = stateFile) \/ stateFile'[rec[r].run] = r
    BY <1>0, <1>14, <2>3 DEF Finish, Alive, CaptureIn
  <2>7. \/ stateFile' = stateFile
        \/ /\ \A u \in RecRun \ {rec[r].run} : stateFile'[u] = stateFile[u]
           /\ Busy(r) /\ rec[r].start \notin {"none", "lost"}
    BY <1>0, <1>14 DEF Finish, Busy, CaptureIn
  <2> QED
    BY <1>0, <2>2, <2>3, <2>4, <2>5, <2>6, <2>7, OneAlone DEF RecAlone
<1>15. ASSUME NEW r \in Rec, PidReused(r) PROVE RecAlone'
  <2> DEFINE f == [rec[r] EXCEPT !.proc = "reused"]
  <2>1. Recorded(r, f)
    BY <1>15 DEF PidReused
  <2>2. rec'[r] = f /\ \A s \in Rec \ {r} : rec'[s] = rec[s]
    <3> HIDE DEF f
    <3> QED
      BY <1>0, <2>1, RecordedIs
  <2>3. /\ rec'[r].start = rec[r].start /\ rec'[r].proc = "reused"
        /\ rec'[r].stop = rec[r].stop /\ (rec'[r].noted <=> rec[r].noted)
        /\ rec'[r].run = rec[r].run /\ rec'[r].sim = rec[r].sim
    <3>1. rec[r] \in Capture
      BY <1>0
    <3> QED
      BY <2>2, <3>1 DEF Capture
  <2> HIDE DEF f
  <2>4. /\ Busy(r)' => Busy(r) \/ \A s \in Rec : rec[s].run = rec[r].run => ~ Busy(s)
        /\ \A s \in Rec \ {r} : Busy(s)' => Busy(s)
    BY <1>0, <1>15, <2>2, <2>3, RecAssumption DEF PidReused, Busy, Forgotten, Ready, Alive, CaptureIn, OnePerRun
  <2>5. /\ rec'[r].start # "lost" \/ rec[r].start = "lost"
        /\ \/ rec'[r].start = rec[r].start \/ rec[r].start \notin {"none", "lost"}
           \/ \A s \in Rec : rec[s].run = rec[r].run => rec[s].start # "lost"
    BY <1>15, <1>0, <2>3 DEF PidReused, CaptureIn
  <2>6. rec'[r].proc = "alive" /\ rec'[r].noted =>
          (Alive(r) /\ rec[r].noted /\ stateFile' = stateFile) \/ stateFile'[rec[r].run] = r
    BY <1>0, <1>15, <2>3 DEF PidReused, Alive, CaptureIn
  <2>7. \/ stateFile' = stateFile
        \/ /\ \A u \in RecRun \ {rec[r].run} : stateFile'[u] = stateFile[u]
           /\ Busy(r) /\ rec[r].start \notin {"none", "lost"}
    BY <1>0, <1>15 DEF PidReused, Busy, CaptureIn
  <2> QED
    BY <1>0, <2>2, <2>3, <2>4, <2>5, <2>6, <2>7, OneAlone DEF RecAlone
<1>16. ASSUME NEW r \in Rec, NEW who \in Stoppers, StopWins(r, who) PROVE RecAlone'
  <2> DEFINE f == [rec[r] EXCEPT !.stopping = TRUE, !.stop = "wait", !.wd = FALSE]
  <2>1. Recorded(r, f)
    BY <1>16 DEF StopWins
  <2>2. rec'[r] = f /\ \A s \in Rec \ {r} : rec'[s] = rec[s]
    <3> HIDE DEF f
    <3> QED
      BY <1>0, <2>1, RecordedIs
  <2>3. /\ rec'[r].start = rec[r].start /\ rec'[r].proc = rec[r].proc
        /\ rec'[r].stop = "wait" /\ (rec'[r].noted <=> rec[r].noted)
        /\ rec'[r].run = rec[r].run /\ rec'[r].sim = rec[r].sim
    <3>1. rec[r] \in Capture
      BY <1>0
    <3> QED
      BY <2>2, <3>1 DEF Capture
  <2> HIDE DEF f
  <2>4. /\ Busy(r)' => Busy(r) \/ \A s \in Rec : rec[s].run = rec[r].run => ~ Busy(s)
        /\ \A s \in Rec \ {r} : Busy(s)' => Busy(s)
    BY <1>0, <1>16, <2>2, <2>3, RecAssumption DEF StopWins, Busy, Forgotten, Ready, Alive, CaptureIn, OnePerRun
  <2>5. /\ rec'[r].start # "lost" \/ rec[r].start = "lost"
        /\ \/ rec'[r].start = rec[r].start \/ rec[r].start \notin {"none", "lost"}
           \/ \A s \in Rec : rec[s].run = rec[r].run => rec[s].start # "lost"
    BY <1>16, <1>0, <2>3 DEF StopWins, CaptureIn
  <2>6. rec'[r].proc = "alive" /\ rec'[r].noted =>
          (Alive(r) /\ rec[r].noted /\ stateFile' = stateFile) \/ stateFile'[rec[r].run] = r
    BY <1>0, <1>16, <2>3 DEF StopWins, Alive, CaptureIn
  <2>7. \/ stateFile' = stateFile
        \/ /\ \A u \in RecRun \ {rec[r].run} : stateFile'[u] = stateFile[u]
           /\ Busy(r) /\ rec[r].start \notin {"none", "lost"}
    BY <1>0, <1>16 DEF StopWins, Busy, CaptureIn
  <2> QED
    BY <1>0, <2>2, <2>3, <2>4, <2>5, <2>6, <2>7, OneAlone DEF RecAlone
<1>17. ASSUME NEW r \in Rec, ChildExits(r) PROVE RecAlone'
  <2>p. PICK v \in {"valid", "invalid"} : Recorded(r, [rec[r] EXCEPT !.proc = "exited", !.spool = v])
    BY <1>17 DEF ChildExits
  <2> DEFINE f == [rec[r] EXCEPT !.proc = "exited", !.spool = v]
  <2>1. Recorded(r, f)
    BY <1>17, <2>p DEF ChildExits
  <2>2. rec'[r] = f /\ \A s \in Rec \ {r} : rec'[s] = rec[s]
    <3> HIDE DEF f
    <3> QED
      BY <1>0, <2>1, RecordedIs
  <2>3. /\ rec'[r].start = rec[r].start /\ rec'[r].proc = "exited"
        /\ rec'[r].stop = rec[r].stop /\ (rec'[r].noted <=> rec[r].noted)
        /\ rec'[r].run = rec[r].run /\ rec'[r].sim = rec[r].sim
    <3>1. rec[r] \in Capture
      BY <1>0
    <3> QED
      BY <2>2, <3>1 DEF Capture
  <2> HIDE DEF f
  <2>4. /\ Busy(r)' => Busy(r) \/ \A s \in Rec : rec[s].run = rec[r].run => ~ Busy(s)
        /\ \A s \in Rec \ {r} : Busy(s)' => Busy(s)
    BY <1>0, <1>17, <2>2, <2>3, RecAssumption DEF ChildExits, Busy, Forgotten, Ready, Alive, CaptureIn, OnePerRun
  <2>5. /\ rec'[r].start # "lost" \/ rec[r].start = "lost"
        /\ \/ rec'[r].start = rec[r].start \/ rec[r].start \notin {"none", "lost"}
           \/ \A s \in Rec : rec[s].run = rec[r].run => rec[s].start # "lost"
    BY <1>17, <1>0, <2>3 DEF ChildExits, CaptureIn
  <2>6. rec'[r].proc = "alive" /\ rec'[r].noted =>
          (Alive(r) /\ rec[r].noted /\ stateFile' = stateFile) \/ stateFile'[rec[r].run] = r
    BY <1>0, <1>17, <2>3 DEF ChildExits, Alive, CaptureIn
  <2>7. \/ stateFile' = stateFile
        \/ /\ \A u \in RecRun \ {rec[r].run} : stateFile'[u] = stateFile[u]
           /\ Busy(r) /\ rec[r].start \notin {"none", "lost"}
    BY <1>0, <1>17 DEF ChildExits, Busy, CaptureIn
  <2> QED
    BY <1>0, <2>2, <2>3, <2>4, <2>5, <2>6, <2>7, OneAlone DEF RecAlone
<1>18. ASSUME NEW r \in Rec, Deliver(r) PROVE RecAlone'
  <2>p. PICK stored \in BOOLEAN : Recorded(r, [rec[r] EXCEPT !.stop = "delivered", !.spool = IF rec[r].ok /\ ~stored THEN @ ELSE "none"])
    BY <1>18 DEF Deliver, Ingested
  <2> DEFINE f == [rec[r] EXCEPT !.stop = "delivered", !.spool = IF rec[r].ok /\ ~stored THEN @ ELSE "none"]
  <2>1. Recorded(r, f)
    BY <1>18, <2>p DEF Deliver
  <2>2. rec'[r] = f /\ \A s \in Rec \ {r} : rec'[s] = rec[s]
    <3> HIDE DEF f
    <3> QED
      BY <1>0, <2>1, RecordedIs
  <2>3. /\ rec'[r].start = rec[r].start /\ rec'[r].proc = rec[r].proc
        /\ rec'[r].stop = "delivered" /\ (rec'[r].noted <=> rec[r].noted)
        /\ rec'[r].run = rec[r].run /\ rec'[r].sim = rec[r].sim
    <3>1. rec[r] \in Capture
      BY <1>0
    <3> QED
      BY <2>2, <3>1 DEF Capture
  <2> HIDE DEF f
  <2>4. /\ Busy(r)' => Busy(r) \/ \A s \in Rec : rec[s].run = rec[r].run => ~ Busy(s)
        /\ \A s \in Rec \ {r} : Busy(s)' => Busy(s)
    BY <1>0, <1>18, <2>2, <2>3, RecAssumption DEF Deliver, Busy, Forgotten, Ready, Alive, CaptureIn, OnePerRun
  <2>5. /\ rec'[r].start # "lost" \/ rec[r].start = "lost"
        /\ \/ rec'[r].start = rec[r].start \/ rec[r].start \notin {"none", "lost"}
           \/ \A s \in Rec : rec[s].run = rec[r].run => rec[s].start # "lost"
    BY <1>18, <1>0, <2>3 DEF Deliver, CaptureIn
  <2>6. rec'[r].proc = "alive" /\ rec'[r].noted =>
          (Alive(r) /\ rec[r].noted /\ stateFile' = stateFile) \/ stateFile'[rec[r].run] = r
    BY <1>0, <1>18, <2>3 DEF Deliver, Alive, CaptureIn
  <2>7. \/ stateFile' = stateFile
        \/ /\ \A u \in RecRun \ {rec[r].run} : stateFile'[u] = stateFile[u]
           /\ Busy(r) /\ rec[r].start \notin {"none", "lost"}
    BY <1>0, <1>18 DEF Deliver, Busy, CaptureIn
  <2> QED
    BY <1>0, <2>2, <2>3, <2>4, <2>5, <2>6, <2>7, OneAlone DEF RecAlone
<1>19. ASSUME NEW u \in RecRun, RecoverOne(u) PROVE RecAlone'
  <2> DEFINE r == stateFile[u]
  <2>1. r \in Rec /\ daemon = "recovering" /\ UNCHANGED <<recByTarget, poisoned, stuck, daemon>>
        /\ rec[r].run = u /\ r # NoRec
    BY <1>0, <1>19 DEF RecoverOne, RecInv, RecTypeOK, FilesName
  <2>2. rec[r].start = "lost"
    BY <1>0, <1>19, <2>1 DEF RecInv, DaemonKnows, Serving, FilesName, CaptureIn, RecoverOne
  <2>3. /\ \A s \in Rec \ {r} : rec'[s] = rec[s]
        /\ rec'[r].start = rec[r].start /\ rec'[r].proc = rec[r].proc
        /\ rec'[r].stop \in {rec[r].stop, "delivered"} /\ (rec'[r].noted <=> rec[r].noted)
        /\ rec'[r].run = rec[r].run /\ rec'[r].sim = rec[r].sim
    <3>0. rec[r] \in Capture
      BY <1>0, <2>1
    <3>1. CASE Recorded(r, [rec[r] EXCEPT !.sigint = TRUE])
      <4> DEFINE f == [rec[r] EXCEPT !.sigint = TRUE]
      <4>1. /\ f.start = rec[r].start /\ f.proc = rec[r].proc /\ f.stop = rec[r].stop
            /\ (f.noted <=> rec[r].noted) /\ f.run = rec[r].run /\ f.sim = rec[r].sim
        BY <3>0 DEF Capture
      <4>2. Recorded(r, f)
        BY <3>1
      <4> HIDE DEF f, r
      <4>3. rec'[r] = f /\ \A s \in Rec \ {r} : rec'[s] = rec[s]
        BY <1>0, <2>1, <4>2, RecordedIs
      <4> QED
        BY <4>1, <4>3
    <3>2. ASSUME NEW stored \in BOOLEAN, Ingested(r, rec[r].spool = "valid", stored)
          PROVE  /\ \A s \in Rec \ {r} : rec'[s] = rec[s]
                 /\ rec'[r].start = rec[r].start /\ rec'[r].proc = rec[r].proc
                 /\ rec'[r].stop \in {rec[r].stop, "delivered"} /\ (rec'[r].noted <=> rec[r].noted)
                 /\ rec'[r].run = rec[r].run /\ rec'[r].sim = rec[r].sim
      <4> DEFINE f == [rec[r] EXCEPT !.stop = "delivered",
                        !.spool = IF rec[r].spool = "valid" /\ ~stored THEN @ ELSE "none"]
      <4>1. /\ f.start = rec[r].start /\ f.proc = rec[r].proc /\ f.stop = "delivered"
            /\ (f.noted <=> rec[r].noted) /\ f.run = rec[r].run /\ f.sim = rec[r].sim
        BY <3>0 DEF Capture
      <4>2. Recorded(r, f)
        BY <3>2 DEF Ingested
      <4> HIDE DEF f, r
      <4>3. rec'[r] = f /\ \A s \in Rec \ {r} : rec'[s] = rec[s]
        BY <1>0, <2>1, <4>2, RecordedIs
      <4> QED
        BY <4>1, <4>3
    <3> QED
      BY <1>19, <3>1, <3>2 DEF RecoverOne
  <2>4. \A s \in Rec : Busy(s)' => Busy(s)
    BY <2>1, <2>3 DEF Busy
  <2>5. stateFile' = stateFile \/ (~ Alive(r) /\ \A w \in RecRun \ {u} : stateFile'[w] = stateFile[w])
    BY <1>0, <1>19 DEF RecoverOne
  <2>6. /\ rec'[r].proc = "alive" /\ rec'[r].noted =>
          (Alive(r) /\ rec[r].noted /\ stateFile' = stateFile) \/ stateFile'[rec[r].run] = r
        /\ \/ stateFile' = stateFile
           \/ /\ \A w \in RecRun \ {rec[r].run} : stateFile'[w] = stateFile[w]
              /\ stateFile[rec[r].run] = r /\ ~ Alive(r)
    BY <2>1, <2>3, <2>5 DEF Alive
  <2> HIDE DEF r
  <2> QED
    BY <1>0, <2>1, <2>2, <2>3, <2>4, <2>6, OneAlone DEF RecAlone
<1>20. CASE Crash
  <2>1. \A r \in Rec : /\ rec'[r].run = rec[r].run /\ rec'[r].sim = rec[r].sim
                      /\ rec'[r].start \in {"none", "lost"} /\ rec'[r].stop \in {"no", "delivered"}
                      /\ rec'[r].proc = rec[r].proc /\ (rec'[r].noted <=> rec[r].noted)
    <3> SUFFICES ASSUME NEW r \in Rec
                 PROVE  /\ rec'[r].run = rec[r].run /\ rec'[r].sim = rec[r].sim
                        /\ rec'[r].start \in {"none", "lost"} /\ rec'[r].stop \in {"no", "delivered"}
                        /\ rec'[r].proc = rec[r].proc /\ (rec'[r].noted <=> rec[r].noted)
      OBVIOUS
    <3> DEFINE kept == IF rec[r].stop = "delivered" THEN rec[r].stop ELSE "no"
               f == [rec[r] EXCEPT !.start = "lost", !.wd = FALSE, !.stop = kept]
    <3>1. rec'[r] = IF rec[r].start = "none" THEN rec[r] ELSE f
      BY <1>20 DEF Crash
    <3>2. kept \in {"no", "delivered"} /\ rec[r] \in Capture
      BY <1>0
    <3> HIDE DEF kept
    <3>3. /\ f.run = rec[r].run /\ f.sim = rec[r].sim /\ f.start = "lost" /\ f.stop \in {"no", "delivered"}
          /\ f.proc = rec[r].proc /\ (f.noted <=> rec[r].noted)
      BY <3>2 DEF Capture
    <3> HIDE DEF f
    <3> QED
      BY <1>0, <3>1, <3>3 DEF CaptureIn
  <2>2. recByTarget' = [t \in Sim |-> NoRec] /\ UNCHANGED stateFile
    BY <1>20 DEF Crash
  <2>3. \A r \in Rec : ~ Busy(r)'
    BY <1>0, <2>1, <2>2, RecAssumption DEF Busy
  <2>4. OnePerRun'
    BY <1>0, <2>1, <2>3 DEF OnePerRun
  <2>5. RecReclaimable'
    BY <1>0, <2>1, <2>2 DEF RecReclaimable, Alive
  <2> QED
    BY <1>0, <2>4, <2>5 DEF RecAlone
<1>21. CASE UNCHANGED <<rec, recByTarget, stateFile>>
  BY <1>0, <1>21 DEF RecAlone, OnePerRun, RecReclaimable, Busy, Alive
<1> QED
  BY <1>1, <1>2, <1>3, <1>4, <1>5, <1>6, <1>7, <1>8, <1>9, <1>10, <1>11, <1>12, <1>13, <1>14, <1>15, <1>16, <1>17, <1>18, <1>19, <1>20, <1>21 DEF RecNext, ShutDownSim, StopAll, Restart, Recovered, recVars

-----------------------------------------------------------------------------
(* A step of the services is one of the part that moves.                   *)

LEMMA ServicesMove ==
  ASSUME [ServicesNext]_servicesVars
  PROVE  /\ UNCHANGED part
         /\ Active("recorder") => [RecNext]_recVars
         /\ Active("stream") => [HubNext]_hubVars
         /\ Active("helpers") => [HelpNext]_helpVars
         /\ Active("journal") => [JnlNext]_jnlVars
         /\ Active("snapshots") => [SnpNext]_snpVars
         /\ Active("images") => [ImgNext]_imgVars
<1>1. CASE ServicesNext
  BY <1>1 DEF ServicesNext, Alone, Active
<1>2. CASE UNCHANGED servicesVars
  BY <1>2 DEF servicesVars
<1> QED
  BY <1>1, <1>2

-----------------------------------------------------------------------------
(* Whoever stops a recording, and however often the daemon crashes on the  *)
(* way: no segment is journalled twice, a valid one is journalled or still *)
(* on disk, StopAll leaves no child of this daemon behind, and a process   *)
(* that has a dead recorder's pid is never signalled; even when recordings *)
(* of one run overlap (Start, doStop, StopAll, Recover).                   *)
THEOREM RecordingsKept ==
  ServicesSpec => [](Active("recorder") =>
    RecOneIngest /\ RecNothingLost /\ RecNoChildLeft /\ RecStrangersSafe)
<1> DEFINE Inv == Active("recorder") => RecInv
<1>1. ServicesInit => Inv
  BY RecStarts DEF ServicesInit
<1>2. Inv /\ [ServicesNext]_servicesVars => Inv'
  BY ServicesMove, RecStep DEF Active
<1>3. Inv => (Active("recorder") =>
         RecOneIngest /\ RecNothingLost /\ RecNoChildLeft /\ RecStrangersSafe)
  BY RecHolds
<1> QED
  BY <1>1, <1>2, <1>3, PTL DEF ServicesSpec

(* When no run has two recordings at once, a valid recording is journalled *)
(* once or still to be found and no capture process is lost or mistaken    *)
(* for another; for any number of viewers, hubs, callers and entries, and  *)
(* any interleaving of timers, pumps, evictions and closes, a closed hub   *)
(* has no viewers, an attached viewer is served, a hub has one pump, an    *)
(* operation that is not idempotent runs at most once and no helper        *)
(* escapes the pool's Close (Start, doStop, Recover; Open, attach, the     *)
(* idle timer; acquire, evict, Close).                                     *)
THEOREM ChildrenAreSound ==
  ASSUME ~ Overlap
  PROVE  ServicesSpec => []ChildrenSound
<1> DEFINE Inv == /\ Active("recorder") => RecAlone
                  /\ Active("stream") => HubInv
                  /\ Active("helpers") => HelpInv
<1>1. ServicesInit => Inv
  BY AloneStarts, HubStarts, HelpStarts DEF ServicesInit
<1>2. Inv /\ [ServicesNext]_servicesVars => Inv'
  BY ServicesMove, AloneStep, HubStep, HelpStep DEF Active
<1>3. Inv => ChildrenSound
  BY RecHolds, HubHolds, HelpHolds DEF ChildrenSound, RecSafe, RecAlone
<1> QED
  BY <1>1, <1>2, <1>3, PTL DEF ServicesSpec

=============================================================================
