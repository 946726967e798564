-------------------------------- MODULE Pool --------------------------------
(***************************************************************************)
(* The life of one simulator under the warm pool (internal/warm): client   *)
(* boots through the guard, adoption (Add), the post-lease reset, the      *)
(* watchdog's recycle and rebuild, the janitor's reclaim of simulators the *)
(* daemon booted, and its reaping of abandoned ones by their fleet lock.   *)
(* The destructive paths take the lease manager's hold (Reserve) and give  *)
(* the target back as leasable or as quarantined.  All state is kept per   *)
(* UDID; what simulators share, the caps on boots, is module Boots, and    *)
(* here a gate may refuse at any time.  A pass of time is a step: a grace  *)
(* or a backoff that runs out.                                             *)
(***************************************************************************)
EXTENDS Naturals

CONSTANT SlowChecks   \* may others act between reclaimIdle's checks and its hold?
ASSUME PoolAssumption == SlowChecks \in BOOLEAN

VARIABLES
  up,         \* the simulator: off, coming, on, or parked
  holder,     \* the lease manager's view: free, leased, quarantined, held
  took,       \* the hold displaced a quarantine
  oldData,    \* ghost: an earlier holder's data is on the simulator
  unclean,    \* the lease manager's dirty mark
  configured, \* named by --pool-sims
  member,     \* Pool.members
  ours,       \* Pool.daemonBooted
  awake,      \* Pool.awakeUntil lies ahead
  isDown,     \* Pool.down
  used,       \* a viewer's stream or a live recording
  fleetLock,  \* the sim-<udid> file of the fleet lock protocol
  idleMark,   \* Pool.idleSince is set
  staleMark,  \* Pool.staleSince is set
  backoff,    \* Pool.rebuildWait in minutes, and whether rebuildNext has passed
  doing,      \* where each of the daemon's goroutines is with this simulator
  byClient    \* ghost: a client's boot was issued since the last shutdown

simVars == <<up, holder, took, oldData, unclean>>
markVars == <<member, ours, awake, isDown, idleMark, staleMark, backoff>>
envVars == <<configured, used, fleetLock>>
poolVars == <<simVars, markVars, envVars, doing, byClient>>

(* The guard's caller, the boot it started, the janitor, the goroutine of  *)
(* OnLeaseEnd, the watchdog's two jobs, the provisioner, and the reset.    *)
Rebuilder == {"rebuild", "recycle"}
Reclaimer == {"janitor", "ended"}
Actor == {"guard", "boot", "adopt", "reset"} \cup Rebuilder \cup Reclaimer

PoolTypeOK ==
  /\ up \in {"off", "coming", "on", "parked"}
  /\ holder \in {"free", "leased", "quarantined", "held"}
  /\ took \in BOOLEAN /\ oldData \in BOOLEAN /\ unclean \in BOOLEAN
  /\ configured \in BOOLEAN /\ member \in BOOLEAN /\ ours \in BOOLEAN
  /\ awake \in BOOLEAN /\ isDown \in BOOLEAN /\ used \in BOOLEAN
  /\ fleetLock \in {"fresh", "stale", "missing", "malformed", "no dir"}
  /\ idleMark \in BOOLEAN /\ staleMark \in BOOLEAN
  /\ backoff \in [wait: {0, 2, 4, 8, 16, 30}, due: BOOLEAN]
  /\ doing \in [Actor -> {"idle", "marking", "queued", "waiting", "due", "saw on",
                          "saw off", "stopping", "wiping", "booting", "reclaim",
                          "reap"}]
  /\ byClient \in BOOLEAN

NoBackoff == [wait |-> 0, due |-> TRUE]
PoolInit ==
  /\ up \in {"off", "on"} /\ holder = "free" /\ took = FALSE
  /\ oldData = FALSE /\ unclean = FALSE
  /\ configured \in BOOLEAN
  /\ member = FALSE /\ ours = FALSE /\ awake = FALSE /\ isDown = FALSE
  /\ used = FALSE /\ fleetLock = "missing"
  /\ idleMark = FALSE /\ staleMark = FALSE /\ backoff = NoBackoff
  /\ doing = [a \in Actor |-> "idle"]
  /\ byClient = FALSE

Goes(a, step) == doing' = [doing EXCEPT ![a] = step]
Busy == \E a \in {"boot", "adopt", "reset"} \cup Rebuilder : doing[a] # "idle"
InUseNow == holder = "leased" \/ Busy \/ awake \/ used

(* The pool's hold on the target (Reserve), and how it is given back: as   *)
(* leasable, a takeover's dirty mark cleared (Unreserve), or quarantined.  *)
Take ==
  /\ holder \in {"free", "quarantined"}
  /\ took' = (holder = "quarantined")
  /\ holder' = "held"
GiveBack(rebuilt) ==
  /\ holder' = IF rebuilt THEN "free" ELSE "quarantined"
  /\ unclean' = IF rebuilt /\ took THEN FALSE ELSE unclean
  /\ took' = FALSE

-----------------------------------------------------------------------------
(* Clients.  GuardedRegistry.Boot: a boot is accepted or refused; the wake *)
(* grace is marked after BootAsync returns.                                *)
GuardBoot ==
  /\ doing["guard"] = "idle" /\ holder \in {"free", "leased"}
  /\ IF up \in {"on", "parked"}
     THEN /\ up' = "on" /\ UNCHANGED doing
          /\ awake' = TRUE /\ isDown' = IF member \/ up = "parked" THEN FALSE ELSE isDown
     ELSE /\ doing["boot"] = "idle"
          /\ doing' = [doing EXCEPT !["boot"] = "queued", !["guard"] = "marking"]
          /\ UNCHANGED <<up, awake, isDown>>
  /\ UNCHANGED <<holder, took, oldData, unclean, member, ours, idleMark, staleMark,
                 backoff, envVars, byClient>>

GuardMarks ==
  /\ doing["guard"] = "marking" /\ Goes("guard", "idle")
  /\ awake' = TRUE
  /\ isDown' = IF member THEN FALSE ELSE isDown
  /\ UNCHANGED <<simVars, member, ours, idleMark, staleMark, backoff, envVars, byClient>>

(* The background boot: issued, and owned by the daemon from then on unless *)
(* the pool owns it; or refused.  It then waits for Booted, or gives up.    *)
BootIssue_OwnsWhenUp ==
  /\ doing["boot"] = "queued"
  /\ up' = IF up = "off" THEN "coming" ELSE up
  /\ byClient' = TRUE /\ Goes("boot", "waiting")
  /\ UNCHANGED <<holder, took, oldData, unclean, markVars, envVars>>
BootIssue ==
  /\ doing["boot"] = "queued"
  /\ up' = IF up = "off" THEN "coming" ELSE up
  /\ ours' = IF member THEN ours ELSE TRUE
  /\ byClient' = TRUE /\ Goes("boot", "waiting")
  /\ UNCHANGED <<holder, took, oldData, unclean, member, awake, isDown, idleMark,
                 staleMark, backoff, envVars>>
BootRefused ==
  /\ doing["boot"] = "queued" /\ Goes("boot", "idle")
  /\ UNCHANGED <<simVars, markVars, envVars, byClient>>
BootEnds ==
  /\ doing["boot"] = "waiting" /\ Goes("boot", "idle")
  /\ UNCHANGED <<simVars, markVars, envVars, byClient>>

(* SafeShutdown: a member is marked intentionally down, and the grace and  *)
(* the janitor's record go (forgetDaemonBooted drops the record as well).  *)
Forgets == ours' = FALSE /\ idleMark' = FALSE
ShutOff ==
  /\ up' = "off" /\ byClient' = FALSE
  /\ isDown' = IF member THEN TRUE ELSE isDown
  /\ awake' = FALSE /\ Forgets
ClientShutdown ==
  /\ up \in {"on", "parked"} /\ holder \in {"free", "leased"}
  /\ ShutOff
  /\ UNCHANGED <<holder, took, oldData, unclean, member, staleMark, backoff, envVars,
                 doing>>

(* A grant thaws the target and ends the wake grace (OnGrant); its holder  *)
(* writes data.  A dirty target is erased by the lease manager first.      *)
GrantLease ==
  /\ holder = "free"
  /\ holder' = "leased" /\ oldData' = TRUE /\ unclean' = FALSE
  /\ up' = IF up = "parked" THEN "on" ELSE up
  /\ awake' = FALSE
  /\ UNCHANGED <<took, member, ours, isDown, idleMark, staleMark, backoff, envVars,
                 doing, byClient>>

(* The lease ends.  Without a reset the target is free but dirty; a reset  *)
(* runs under the lease manager's own hold.  Either way OnLeaseEnd runs on *)
(* a goroutine of its own, of which one at a time is followed here.        *)
Noticed == [doing EXCEPT !["ended"] = IF @ = "idle" THEN "due" ELSE @]
LeaseEnds ==
  /\ holder = "leased" /\ holder' = "free" /\ unclean' = TRUE
  /\ doing' = Noticed
  /\ UNCHANGED <<up, took, oldData, markVars, envVars, byClient>>
LeaseResets ==
  /\ holder = "leased" /\ holder' = "held" /\ doing["reset"] = "idle"
  /\ doing' = [Noticed EXCEPT !["reset"] = "wiping"]
  /\ UNCHANGED <<up, took, oldData, unclean, markVars, envVars, byClient>>

-----------------------------------------------------------------------------
(* Rebuilding.  Erase wipes a simulator that is shut down; rePark clears   *)
(* the grace and the intentional shutdown, boots under the gate and parks. *)
Wiped == up' = "off" /\ oldData' = FALSE /\ byClient' = FALSE
Rejoins(ok) ==
  /\ awake' = FALSE /\ isDown' = FALSE
  /\ up' \in IF ~ok THEN {up} ELSE IF used THEN {"on"} ELSE {"on", "parked"}

(* The lease's reset, OnReleased included: a member is rebuilt; a target   *)
(* that could not be wiped or brought back is quarantined.                 *)
ResetWipes(ok) ==
  /\ doing["reset"] = "wiping"
  /\ IF ok THEN Wiped /\ Goes("reset", "booting") /\ UNCHANGED <<holder, took, unclean>>
     ELSE /\ GiveBack(FALSE) /\ Goes("reset", "idle")
          /\ UNCHANGED <<up, oldData, byClient>>
  /\ UNCHANGED <<markVars, envVars>>
ResetRebuilds(ok) ==
  /\ doing["reset"] = "booting" /\ Goes("reset", "idle")
  /\ IF member THEN Rejoins(ok) /\ GiveBack(ok)
     ELSE UNCHANGED <<up, awake, isDown>> /\ GiveBack(TRUE)
  /\ UNCHANGED <<oldData, member, ours, idleMark, staleMark, backoff, envVars, byClient>>

(* Pool.Add: a takeover is erased first, and is leasable again only if the *)
(* whole adoption succeeded; a free target goes back free whatever failed. *)
AddStarts ==
  /\ configured /\ ~member /\ doing["adopt"] = "idle" /\ Take
  /\ Goes("adopt", IF took' THEN "wiping" ELSE "booting")
  /\ UNCHANGED <<up, oldData, unclean, markVars, envVars, byClient>>
AddWipes(ok) ==
  /\ doing["adopt"] = "wiping"
  /\ IF ok THEN Wiped /\ Goes("adopt", "booting") /\ UNCHANGED <<holder, took, unclean>>
     ELSE GiveBack(FALSE) /\ Goes("adopt", "idle") /\ UNCHANGED <<up, oldData, byClient>>
  /\ UNCHANGED <<markVars, envVars>>
AddFails ==      \* the parked cap, or bootGated
  /\ doing["adopt"] = "booting" /\ Goes("adopt", "idle") /\ GiveBack(~took)
  /\ UNCHANGED <<up, oldData, markVars, envVars, byClient>>
Add(parked) ==   \* booted, a member from here on; the park may still fail
  /\ doing["adopt"] = "booting" /\ Goes("adopt", "idle")
  /\ member' = TRUE /\ ours' = FALSE /\ idleMark' = FALSE
  /\ up' = IF parked /\ ~used /\ ~awake THEN "parked" ELSE "on"
  /\ GiveBack(~took \/ parked)
  /\ UNCHANGED <<oldData, awake, isDown, staleMark, backoff, envVars, byClient>>

(* The watchdog: a member that is off and due is rebuilt, one over its     *)
(* footprint is recycled (unless it is recording); both erase, and mark    *)
(* the target clean when they succeed.  A rebuild that fails, or that the  *)
(* gate refuses up front, waits twice as long before the next.  An idle    *)
(* member is parked (module Park).                                         *)
Longer == [wait |-> IF backoff.wait = 0 THEN 2
                    ELSE IF 2 * backoff.wait > 30 THEN 30 ELSE 2 * backoff.wait,
           due |-> FALSE]
Idling == member /\ ~Busy /\ holder # "leased"
Rebuildable == Idling /\ up = "off" /\ ~awake /\ ~isDown /\ backoff.due
WatchdogTakes ==
  /\ Idling /\ Take
  /\ \/ Rebuildable /\ Goes("rebuild", "wiping")
     \/ up \in {"on", "parked"} /\ Goes("recycle", "wiping")
  /\ UNCHANGED <<up, oldData, unclean, markVars, envVars, byClient>>
Defers(a) == backoff' = IF a = "rebuild" THEN Longer ELSE backoff
WatchdogWipes(a, ok) ==
  /\ doing[a] = "wiping"
  /\ IF ok THEN /\ Wiped /\ Goes(a, "booting")
                /\ UNCHANGED <<holder, took, unclean, backoff>>
     ELSE /\ GiveBack(FALSE) /\ Goes(a, "idle") /\ Defers(a)
          /\ UNCHANGED <<up, oldData, byClient>>
  /\ UNCHANGED <<member, ours, awake, isDown, idleMark, staleMark, envVars>>
WatchdogRebuilds(a, ok) ==
  /\ doing[a] = "booting" /\ Goes(a, "idle")
  /\ Rejoins(ok)
  /\ holder' = IF ok THEN "free" ELSE "quarantined"
  /\ unclean' = IF ok THEN FALSE ELSE unclean      \* notifyClean
  /\ took' = FALSE
  /\ IF ok THEN backoff' = IF a = "rebuild" THEN NoBackoff ELSE backoff ELSE Defers(a)
  /\ UNCHANGED <<oldData, member, ours, idleMark, staleMark, envVars, byClient>>
RebuildWaits ==
  /\ \/ Rebuildable /\ backoff' = Longer
     \/ ~backoff.due /\ backoff' = [backoff EXCEPT !.due = TRUE]
  /\ UNCHANGED <<simVars, member, ours, awake, isDown, idleMark, staleMark, envVars,
                 doing, byClient>>
WatchdogParks ==
  /\ Idling /\ up = "on" /\ ~awake /\ ~isDown /\ ~used /\ up' = "parked"
  /\ UNCHANGED <<holder, took, oldData, unclean, markVars, envVars, doing, byClient>>

-----------------------------------------------------------------------------
(* The janitor's sweep over the simulators the daemon booted: one in use   *)
(* loses its idle mark, an idle one gets it, and one marked for a full     *)
(* grace is reclaimed.  OnLeaseEnd ends the wake grace and reclaims at     *)
(* once.                                                                   *)
SweepMarks ==
  /\ doing["janitor"] = "idle" /\ ours /\ idleMark' = ~InUseNow /\ idleMark' # idleMark
  /\ UNCHANGED <<simVars, member, ours, awake, isDown, staleMark, backoff, envVars,
                 doing, byClient>>
OnLeaseEnd ==
  /\ doing["ended"] = "due"
  /\ awake' = IF member THEN awake ELSE FALSE
  /\ Goes("ended", IF ~member /\ ours THEN "reclaim" ELSE "idle")
  /\ UNCHANGED <<simVars, member, ours, isDown, idleMark, staleMark, backoff, envVars,
                 byClient>>

(* reclaimIdle: its checks and the query of the simulator's state; then    *)
(* the record of one that is off is dropped, or the hold is taken and      *)
(* streams, recordings and transitions are looked at again.                *)
ReclaimLooks(a) ==
  /\ \/ a = "janitor" /\ doing[a] = "idle" /\ ours /\ idleMark /\ ~InUseNow
     \/ a = "ended" /\ doing[a] = "reclaim"
  /\ Goes(a, IF member \/ InUseNow \/ up = "coming" THEN "idle"
             ELSE IF up = "off" THEN "saw off" ELSE "saw on")
  /\ UNCHANGED <<simVars, markVars, envVars, byClient>>
ReclaimForgets(a) ==
  /\ doing[a] = "saw off" /\ Goes(a, "idle") /\ Forgets
  /\ UNCHANGED <<simVars, member, awake, isDown, staleMark, backoff, envVars, byClient>>
ReclaimHolds(a) ==
  /\ doing[a] = "saw on"
  /\ IF holder \in {"free", "quarantined"} /\ ~used /\ ~Busy
     THEN Take /\ Goes(a, "stopping")
     ELSE Goes(a, "idle") /\ UNCHANGED <<holder, took>>
  /\ UNCHANGED <<up, oldData, unclean, markVars, envVars, byClient>>

(* A reclaim never erases: what it took from quarantine stays there. *)
ReclaimRelease_AsFree == GiveBack(TRUE)
ReclaimRelease == GiveBack(~took)
ReclaimStops(a, ok) ==
  /\ doing[a] = "stopping" /\ Goes(a, "idle") /\ ReclaimRelease
  /\ IF ok THEN ShutOff ELSE UNCHANGED <<up, byClient, isDown, awake, ours, idleMark>>
  /\ UNCHANGED <<oldData, member, staleMark, backoff, envVars>>

(* The fleet locks of unmanaged simulators: a fresh or a malformed lock,   *)
(* use, a lost directory or a simulator that left the set clears the mark; *)
(* after a full grace the lock is read again and the simulator shut down.  *)
Unmanaged == up = "on" /\ ~member /\ ~ours /\ ~configured
PoolAbandoned == Unmanaged /\ fleetLock \in {"stale", "missing"} /\ ~InUseNow
ReapMarks ==
  /\ doing["janitor"] = "idle"
  /\ staleMark' = PoolAbandoned /\ staleMark' # staleMark
  /\ UNCHANGED <<simVars, member, ours, awake, isDown, idleMark, backoff, envVars,
                 doing, byClient>>
ReapHolds ==
  /\ doing["janitor"] = "idle" /\ staleMark /\ PoolAbandoned
  /\ Take /\ Goes("janitor", "reap")
  /\ UNCHANGED <<up, oldData, unclean, markVars, envVars, byClient>>
ReapStops(ok) ==
  /\ doing["janitor"] = "reap" /\ Goes("janitor", "idle") /\ ReclaimRelease
  /\ IF ok /\ ~used THEN ShutOff
     ELSE UNCHANGED <<up, byClient, isDown, awake, ours, idleMark>>
  /\ staleMark' = (staleMark /\ up' # "off")
  /\ UNCHANGED <<oldData, member, backoff, envVars>>

-----------------------------------------------------------------------------
(* The host: a boot completes, a simulator dies or is booted by another    *)
(* agent, the wake grace ends, viewers come and go, agents take locks.     *)
HostStep ==
  \/ /\ \/ up = "coming" /\ up' = "on" /\ UNCHANGED byClient
        \/ up # "off" /\ up' = "off" /\ byClient' = FALSE
        \/ up = "off" /\ up' = "on" /\ UNCHANGED byClient
     /\ UNCHANGED <<holder, took, oldData, unclean, markVars, envVars, doing>>
  \/ /\ awake /\ awake' = FALSE
     /\ UNCHANGED <<simVars, member, ours, isDown, idleMark, staleMark, backoff, envVars,
                    doing, byClient>>
  \/ /\ used' = ~used /\ (used' => up = "on")
     /\ UNCHANGED <<simVars, markVars, configured, fleetLock, doing, byClient>>
  \/ /\ fleetLock' \in {"fresh", "stale", "missing", "malformed", "no dir"}
     /\ UNCHANGED <<simVars, markVars, configured, used, doing, byClient>>

Others ==
  \/ GuardBoot \/ GuardMarks \/ BootIssue \/ BootRefused \/ BootEnds
  \/ ClientShutdown \/ GrantLease \/ LeaseEnds \/ LeaseResets
  \/ AddStarts \/ AddFails \/ WatchdogTakes \/ RebuildWaits \/ WatchdogParks
  \/ SweepMarks \/ OnLeaseEnd \/ ReapMarks \/ ReapHolds \/ HostStep
  \/ \E ok \in BOOLEAN :
       \/ ResetWipes(ok) \/ ResetRebuilds(ok) \/ AddWipes(ok) \/ Add(ok)
       \/ ReapStops(ok)
       \/ \E a \in Rebuilder : WatchdogWipes(a, ok) \/ WatchdogRebuilds(a, ok)

Reclaim ==
  \E a \in Reclaimer :
    \/ ReclaimLooks(a) \/ ReclaimForgets(a) \/ ReclaimHolds(a)
    \/ \E ok \in BOOLEAN : ReclaimStops(a, ok)

Looked == \E a \in Reclaimer : doing[a] \in {"saw on", "saw off"}

PoolNext == Reclaim \/ ((SlowChecks \/ ~Looked) /\ Others)
PoolSpec == PoolInit /\ [][PoolNext]_poolVars

-----------------------------------------------------------------------------
(* Whatever took the target over and however it ended, a target the lease  *)
(* manager may grant carries no earlier holder's data that the manager     *)
(* does not know to erase (Add, Recycle, rebuild, reclaimIdle, reset).     *)
PoolCleanGrants == holder = "free" /\ oldData => unclean

(* A boot a client asked for never loses its owner: while the simulator it *)
(* started is up or coming up, the pool or the janitor's ledger answers    *)
(* for it (markDaemonBooted, forgetDaemonBooted, Add).                     *)
PoolBootsOwned == up # "off" /\ byClient => member \/ ours

PoolSafe == PoolCleanGrants /\ PoolBootsOwned
=============================================================================
