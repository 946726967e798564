------------------------------- MODULE Stream -------------------------------
(***************************************************************************)
(* Live streams (internal/stream): one hub per target, created by Open,    *)
(* whose capture pump runs while it has viewers, and which its idle timer  *)
(* reaps.  The manager's lock and the hub's are separate, and the timer,   *)
(* the pump and the viewers' handlers are goroutines of their own; each    *)
(* critical section is a step.                                             *)
(* The idle generation is a counter that only ever is compared with an     *)
(* earlier copy of itself, so a copy is "now" or, once the counter has     *)
(* moved, "old"; the same goes for pumpDone.                               *)
(***************************************************************************)
EXTENDS Naturals, FiniteSets

CONSTANTS
  Hub,         \* streams, each opened once
  HubTarget,   \* targets
  Viewer,
  NoHub,
  MaxStreams, MaxViewers,
  MaxOpens     \* bound: calls of Open

ASSUME HubAssumption ==
  /\ NoHub \notin Hub
  /\ MaxStreams \in Nat \ {0} /\ MaxViewers \in Nat \ {0} /\ MaxOpens \in Nat

Copy == {"now", "old"}

VARIABLES
  hub,      \* the hubs
  opens,    \* calls of Open so far
  watch     \* each viewer's handler: the hub it resolved, and its channel

hubVars == <<hub, opens, watch>>

HubRecord == [
  udid: HubTarget,
  reg: {"new", "in", "out"},     \* in byID and byUDID
  closed: BOOLEAN,
  viewers: SUBSET Viewer,
  timer: BOOLEAN,                \* lingerT is pending
  firing: SUBSET Copy,           \* timer callbacks before their lock
  reaping: SUBSET Copy,          \* ...and after it, on their way to reap
  pump: BOOLEAN,                 \* pumpStop # nil
  live: 0..2,                    \* pump goroutines nobody has cancelled
  settling: SUBSET Copy]         \* pumps that failed and will settle

HubTypeOK ==
  /\ hub \in [Hub -> HubRecord]
  /\ opens \in 0..MaxOpens
  /\ watch \in [Viewer -> [at: Hub \cup {NoHub}, chan: {"none", "open", "closed"}]]

HubInit ==
  /\ hub \in [Hub -> {[udid |-> t, reg |-> "new", closed |-> FALSE, viewers |-> {},
                       timer |-> FALSE, firing |-> {}, reaping |-> {},
                       pump |-> FALSE, live |-> 0, settling |-> {}]
                      : t \in HubTarget}]
  /\ opens = 0
  /\ watch = [v \in Viewer |-> [at |-> NoHub, chan |-> "none"]]

Registered == {h \in Hub : hub[h].reg = "in"}
Aged(copies) == IF copies = {} THEN {} ELSE {"old"}

(* idleGen++ *)
Bumped(r) == [r EXCEPT !.firing = Aged(@), !.reaping = Aged(@)]

Armed_IfPumping(r) == IF r.closed \/ ~r.pump THEN r ELSE [Bumped(r) EXCEPT !.timer = TRUE]

(* armLingerLocked *)
Armed(r) == IF r.closed THEN r ELSE [Bumped(r) EXCEPT !.timer = TRUE]

PumpStarted(r) == [r EXCEPT !.pump = TRUE, !.live = @ + 1]

(* stopPumpLocked: the registered pump is cancelled.  One that has failed  *)
(* meanwhile is past its look at ctx and will find pumpDone changed.       *)
PumpStopped(r) ==
  IF ~r.pump THEN r
  ELSE [r EXCEPT !.pump = FALSE, !.settling = Aged(@),
                 !.live = IF "now" \in r.settling THEN @ ELSE @ - 1]

Changed(h, r) == hub' = [hub EXCEPT ![h] = r]

(* Channels of the hub's viewers are closed: their handlers will return. *)
Disconnected(vs) ==
  watch' = [v \in Viewer |-> IF v \in vs THEN [watch[v] EXCEPT !.chan = "closed"]
                             ELSE watch[v]]

-----------------------------------------------------------------------------
(* Manager *)

(* Open: the target's hub or a new one, with a full linger window.  That   *)
(* the target is a booted, unparked simulator is openStream's check.       *)
Open(h) ==
  LET others == {g \in Registered : hub[g].udid = hub[h].udid /\ g # h} IN
  /\ opens < MaxOpens
  /\ \/ hub[h].reg = "in"
     \/ hub[h].reg = "new" /\ others = {} /\ Cardinality(Registered) < MaxStreams
  /\ Changed(h, LET r == [hub[h] EXCEPT !.reg = "in"] IN
                IF r.viewers = {} THEN Armed(r) ELSE r)
  /\ opens' = opens + 1
  /\ UNCHANGED watch

(* Close and CloseAll first unregister the hub ... *)
Unregister(h) ==
  /\ hub[h].reg = "in"
  /\ Changed(h, [hub[h] EXCEPT !.reg = "out"])
  /\ UNCHANGED <<opens, watch>>

(* ... and then tear it down. *)
TearDown(h) ==
  /\ hub[h].reg = "out" /\ ~hub[h].closed
  /\ Disconnected(hub[h].viewers)
  /\ Changed(h, PumpStopped([hub[h] EXCEPT !.closed = TRUE, !.timer = FALSE,
                                           !.viewers = {}]))
  /\ UNCHANGED opens

StillIdle_ByViewers(h, copy) == ~hub[h].closed /\ hub[h].viewers = {}

(* closeIfStillIdle's look *)
StillIdle(h, copy) == ~hub[h].closed /\ copy = "now" /\ hub[h].viewers = {}

(* reap, under both locks: the hub is closed and unregistered, or neither. *)
ReapHub(h, copy) ==
  /\ copy \in hub[h].reaping
  /\ LET r == [hub[h] EXCEPT !.reaping = @ \ {copy}] IN
     Changed(h, IF r.reg = "in" /\ StillIdle(h, copy)
                THEN PumpStopped([r EXCEPT !.closed = TRUE, !.timer = FALSE,
                                           !.reg = "out"])
                ELSE r)
  /\ UNCHANGED <<opens, watch>>

-----------------------------------------------------------------------------
(* Timer *)

TimerFires(h) ==
  /\ hub[h].timer
  /\ Changed(h, [hub[h] EXCEPT !.timer = FALSE, !.firing = @ \cup {"now"}])
  /\ UNCHANGED <<opens, watch>>

(* The callback under the hub's lock: still idle, so the pump stops and    *)
(* the owner is told, after the unlock.                                    *)
TimerCallback(h, copy) ==
  /\ copy \in hub[h].firing
  /\ LET r == [hub[h] EXCEPT !.firing = @ \ {copy}] IN
     Changed(h, IF StillIdle(h, copy)
                THEN PumpStopped([r EXCEPT !.reaping = @ \cup {copy}]) ELSE r)
  /\ UNCHANGED <<opens, watch>>

-----------------------------------------------------------------------------
(* Viewers *)

(* ServeMJPEG and ServeWS: the hub is resolved first ... *)
Resolve(v, h) ==
  /\ watch[v].at = NoHub /\ h \in Registered
  /\ watch' = [watch EXCEPT ![v].at = h]
  /\ UNCHANGED <<hub, opens>>

(* ... and attached to later; a closed or full one is refused. *)
Attach(v) ==
  LET h == watch[v].at IN
  /\ h # NoHub /\ watch[v].chan = "none"
  /\ \/ /\ ~hub[h].closed /\ Cardinality(hub[h].viewers) < MaxViewers
        /\ LET r == [Bumped(hub[h]) EXCEPT !.viewers = @ \cup {v}, !.timer = FALSE] IN
           Changed(h, IF r.pump THEN r ELSE PumpStarted(r))
        /\ watch' = [watch EXCEPT ![v].chan = "open"]
     \/ /\ hub[h].closed \/ Cardinality(hub[h].viewers) >= MaxViewers
        /\ watch' = [watch EXCEPT ![v].at = NoHub]
        /\ UNCHANGED hub
  /\ UNCHANGED opens

(* The handler ends, by itself or because its channel was closed. *)
Detach(v) ==
  LET h == watch[v].at IN
  /\ watch[v].chan # "none"
  /\ Changed(h, LET r == [hub[h] EXCEPT !.viewers = @ \ {v}] IN
                IF r.viewers = {} THEN Armed(r) ELSE r)
  /\ watch' = [watch EXCEPT ![v] = [at |-> NoHub, chan |-> "none"]]
  /\ UNCHANGED opens

(* broadcast drops a viewer that has accepted no frame for too long. *)
DropStalled(h, v) ==
  /\ hub[h].live > 0 /\ v \in hub[h].viewers
  /\ Changed(h, LET r == [hub[h] EXCEPT !.viewers = @ \ {v}] IN
                IF r.viewers = {} THEN Armed(r) ELSE r)
  /\ Disconnected({v})
  /\ UNCHANGED opens

-----------------------------------------------------------------------------
(* Pump *)

(* The source cannot be opened, or failed maxCaptureErrors times.  A pump  *)
(* whose context is not cancelled goes on to settle.                       *)
PumpFails(h) ==
  /\ hub[h].live > 0
  /\ Changed(h, [hub[h] EXCEPT !.live = @ - 1, !.settling = @ \cup {"now"}])
  /\ UNCHANGED <<opens, watch>>

Mine_AnyPump(copy) == TRUE

(* pumpDone still points at the pump that settles. *)
Mine(copy) == copy = "now"

Settle_LeavesViewers(h, copy) ==
  /\ copy \in hub[h].settling
  /\ Changed(h, [hub[h] EXCEPT !.settling = @ \ {copy},
                               !.pump = IF Mine(copy) THEN FALSE ELSE @])
  /\ UNCHANGED <<opens, watch>>

Settle(h, copy) ==
  /\ copy \in hub[h].settling
  /\ LET r == [hub[h] EXCEPT !.settling = @ \ {copy}] IN
     IF Mine(copy)
     THEN /\ Changed(h, Armed([r EXCEPT !.pump = FALSE, !.viewers = {}]))
          /\ Disconnected(r.viewers)
     ELSE Changed(h, r) /\ UNCHANGED watch
  /\ UNCHANGED opens

HubNext ==
  \/ \E h \in Hub :
       \/ Open(h) \/ Unregister(h) \/ TearDown(h) \/ TimerFires(h) \/ PumpFails(h)
       \/ \E c \in Copy : ReapHub(h, c) \/ TimerCallback(h, c) \/ Settle(h, c)
       \/ \E v \in Viewer : Resolve(v, h) \/ DropStalled(h, v)
  \/ \E v \in Viewer : Attach(v) \/ Detach(v)

(* Timers fire, callbacks and settling pumps run on, a handler whose       *)
(* channel is closed returns; viewers and sources owe nothing.             *)
HubServes(h) ==
  \/ TimerFires(h) \/ TearDown(h)
  \/ \E c \in Copy : TimerCallback(h, c) \/ ReapHub(h, c) \/ Settle(h, c)
ViewerReturns(v) == watch[v].chan # "open" /\ (Attach(v) \/ Detach(v))
HubFairness ==
  /\ \A h \in Hub : WF_hubVars(HubServes(h))
  /\ \A v \in Viewer : WF_hubVars(ViewerReturns(v))

HubSpec == HubInit /\ [][HubNext]_hubVars
HubFairSpec == HubSpec /\ HubFairness

-----------------------------------------------------------------------------
(* A viewer that resolved its hub before the idle timer reaped it is never *)
(* left on a hub nobody can find or stop: a closed hub has no viewer and   *)
(* captures nothing, and only a hub being torn down is unregistered.       *)
HubClosedIsQuiet ==
  \A h \in Hub :
    /\ hub[h].closed => hub[h].viewers = {} /\ hub[h].live = 0
    /\ hub[h].reg = "in" => ~hub[h].closed

(* A viewer never waits on a channel nobody writes to or closes: while it  *)
(* is attached, a pump captures or a failed one is about to disconnect it. *)
HubViewersServed ==
  \A h \in Hub : hub[h].viewers # {} => hub[h].live = 1 \/ "now" \in hub[h].settling

(* A target is never captured twice for one hub, nor by a pump that the    *)
(* hub has lost track of and so can never stop.                            *)
HubOnePump ==
  \A h \in Hub : hub[h].live <= 1 /\ (hub[h].live = 1 => hub[h].pump)

(* Open and attach give a stream a full linger window: a callback of an    *)
(* older timer, however late it gets the locks, never reaps a hub whose    *)
(* timer has been armed again or which has viewers.                        *)
HubFullWindow ==
  \A h \in Hub : (hub[h].reg = "in" /\ hub'[h].reg = "out" /\ hub'[h].closed) =>
                    ~hub[h].timer /\ hub[h].viewers = {}

HubSafe == HubClosedIsQuiet /\ HubViewersServed /\ HubOnePump

(* An open stream without viewers does not hold one of the MaxStreams      *)
(* slots for ever, whatever its pump did and however Open, attach and the  *)
(* timer interleaved.                                                      *)
HubIdleIsReaped ==
  \A h \in Hub : hub[h].reg = "in" ~> (hub[h].reg = "out" \/ hub[h].viewers # {})
=============================================================================
