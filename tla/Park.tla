-------------------------------- MODULE Park --------------------------------
(***************************************************************************)
(* Parking and thawing one member of the warm pool (internal/warm): its    *)
(* process tree is SIGSTOPped while nobody uses it and SIGCONTed the       *)
(* moment a lease is granted.  The actors are goroutines that share the    *)
(* pool's tables but no lock over a whole operation:                       *)
(*   watchdog  the idle re-park of sweepFootprints                         *)
(*   reset     the reset after a lease, which ends in rePark               *)
(*   grant     OnGrant, called after the lease manager granted a lease     *)
(*   boot      Guard.Boot, up to its answer                                *)
(*   booter    the goroutine BootAsync leaves behind                       *)
(*   shutdown  SafeShutdown                                                *)
(*   viewer    the opening of a stream                                     *)
(*   closer    Close                                                       *)
(* Every access to a table under a mutex, and every signal, is one step:   *)
(* no lock of the code spans a park or a thaw.  Overtaking = FALSE adds    *)
(* the lock that is missing, so that the two halves of the question can    *)
(* be told apart: whether parkIdle's looks before and after the park are   *)
(* enough if parks and thaws exclude each other, and what happens because  *)
(* they do not.                                                            *)
(***************************************************************************)
EXTENDS Naturals, FiniteSets

CONSTANTS
  Pid,          \* the simulator's process tree
  Actors,       \* the goroutines that take part
  Overtaking,   \* a Park or a Thaw may be overtaken by another one
  SignalsFail   \* a signal may fail for a reason other than ESRCH

Proc == {"watchdog", "reset", "grant", "boot", "booter", "shutdown", "viewer",
         "closer"}
Parkers == {"watchdog", "reset"}

ASSUME ParkAssumption ==
  /\ Pid # {}
  /\ Actors \subseteq Proc
  /\ Overtaking \in BOOLEAN
  /\ SignalsFail \in BOOLEAN

Labels == {"off",
  "thaw", "cont", "forget",                           \* Thaw
  "park", "depth", "look", "seq", "list", "stop",     \* parkIdle
  "enter", "recheck", "leave",
  "weigh", "drop", "idle",                            \* sweepFootprints
  "wipe", "rebuild", "reboot", "end", "failed",       \* resetFn
  "wake", "booting", "halt",                          \* Boot, SafeShutdown
  "open", "join", "closed"}                           \* Open, Close

VARIABLES
  up,       \* the simulator is Booted
  stopped,  \* the PIDs of its tree that are SIGSTOPped
  ledger,   \* Parker.parked: "none", or a tree that is "live" or "dead"
  lease,    \* the target in the lease manager
  notify,   \* a grant whose OnGrant has not run yet
  busy,     \* Pool.busy
  awake,    \* awakeUntil lies ahead
  down,     \* Pool.down
  watched,  \* a stream or recording is live
  closed,   \* Pool.closed
  parking,  \* the goroutines Pool.parking counts
  pc,       \* where each goroutine is
  ret,      \* where it goes when its Thaw succeeds
  todo,     \* the PIDs it still has to signal
  cached,   \* the tree these PIDs belong to, as in ledger
  erred,    \* the goroutines one of whose calls failed
  broken,   \* history: a SIGCONT of a living process has failed
  busy0,    \* parkIdle's snapshot of busy
  regranted \* goroutines whose snapshot of grantSeq is out of date

simVars == <<up, stopped, ledger>>
poolVars == <<lease, notify, busy, awake, down, watched, closed>>
parkVars == <<parking, busy0, regranted>>
thawVars == <<ret, todo, cached, erred, broken>>
vars == <<simVars, poolVars, parkVars, thawVars, pc>>

Slots == {"free", "active", "resetting", "quarantined", "reserved"}

TypeOK ==
  /\ up \in BOOLEAN
  /\ stopped \in SUBSET Pid
  /\ ledger \in {"none", "live", "dead"}
  /\ lease \in Slots
  /\ notify \in BOOLEAN
  /\ busy \in Nat
  /\ awake \in BOOLEAN /\ down \in BOOLEAN /\ watched \in BOOLEAN
  /\ closed \in BOOLEAN
  /\ parking \in SUBSET Parkers
  /\ pc \in [Proc -> Labels]
  /\ ret \in [Proc -> Labels]
  /\ todo \in [Proc -> SUBSET Pid]
  /\ cached \in [Proc -> {"live", "dead"}]
  /\ erred \in SUBSET Proc
  /\ broken \in BOOLEAN
  /\ busy0 \in [Parkers -> Nat]
  /\ regranted \in SUBSET Parkers

(* Membership is recorded before the first park: a booted, idle member. *)
Init ==
  /\ up = TRUE /\ stopped = {} /\ ledger = "none"
  /\ lease = "free" /\ notify = FALSE /\ busy = 0
  /\ awake = FALSE /\ down = FALSE /\ watched = FALSE /\ closed = FALSE
  /\ parking = {} /\ regranted = {}
  /\ pc = [p \in Proc |-> "off"]
  /\ ret = [p \in Proc |-> "off"]
  /\ todo = [p \in Proc |-> {}]
  /\ cached = [p \in Proc |-> "dead"]
  /\ erred = {} /\ broken = FALSE
  /\ busy0 = [p \in Parkers |-> 0]

At(p, label) == pc[p] = label
Goto(p, label) == pc' = [pc EXCEPT ![p] = label]
Off(p) == At(p, "off")
MayStart(p) == p \in Actors /\ Off(p)

(* The simulator's processes exit: what was known of its tree is of a tree *)
(* that is gone, and signals to it go nowhere (ESRCH, not an error).       *)
TreeDies ==
  /\ up' = FALSE /\ stopped' = {}
  /\ ledger' = IF ledger = "live" THEN "dead" ELSE ledger
  /\ cached' = [p \in Proc |-> "dead"]

-----------------------------------------------------------------------------
(* Parker.Thaw: read the cached tree, SIGCONT it, forget it.               *)

(* The steps of Park, Thaw and the watchdog's ForgetParked between what     *)
(* they read and the ledger they write.                                    *)
InParker(p) == pc[p] \in {"stop", "cont", "forget", "drop"}

(* May p begin one?  In the code always. *)
MayBegin(p) == Overtaking \/ \A q \in Proc : ~InParker(q)

ThawTo(p, label) == ret' = [ret EXCEPT ![p] = label]

(* Where a goroutine goes when its Thaw fails. *)
ThawFailedAt(p) ==
  CASE ret[p] = "leave" -> "leave"
    [] ret[p] \in {"park", "halt"} -> "end"
    [] ret[p] = "wipe" -> "failed"
    [] ret[p] = "closed" -> "closed"
    [] OTHER -> "off"

ThawRead(p) ==
  /\ At(p, "thaw")
  /\ \/ /\ ledger = "none"
        /\ Goto(p, ret[p]) /\ ThawTo(p, "off")
        /\ UNCHANGED <<todo, cached, erred>>
     \/ /\ ledger # "none" /\ MayBegin(p)
        /\ Goto(p, "cont")
        /\ todo' = [todo EXCEPT ![p] = Pid]
        /\ cached' = [cached EXCEPT ![p] = ledger]
        /\ erred' = erred \ {p}
        /\ UNCHANGED ret
  /\ UNCHANGED <<simVars, poolVars, parkVars, broken>>

ThawSignal(p, i) ==
  /\ At(p, "cont") /\ i \in todo[p]
  /\ todo' = [todo EXCEPT ![p] = @ \ {i}]
  /\ \/ /\ stopped' = IF cached[p] = "live" THEN stopped \ {i} ELSE stopped
        /\ UNCHANGED <<erred, broken>>
     \/ /\ SignalsFail /\ cached[p] = "live"
        /\ erred' = erred \cup {p} /\ broken' = TRUE
        /\ UNCHANGED stopped
  /\ UNCHANGED <<up, ledger, poolVars, parkVars, ret, cached, pc>>

(* Variant: a failed thaw forgets the tree as well. *)
KeepsEntry_Never(p) == FALSE

(* A tree that may still be stopped stays in the ledger. *)
KeepsEntry(p) == p \in erred

ThawDone(p) ==
  /\ At(p, "cont") /\ todo[p] = {}
  /\ cached' = [cached EXCEPT ![p] = "dead"]
  /\ \/ ~KeepsEntry(p) /\ Goto(p, "forget") /\ UNCHANGED ret
     \/ KeepsEntry(p) /\ Goto(p, ThawFailedAt(p)) /\ ThawTo(p, "off")
  /\ UNCHANGED <<simVars, poolVars, parkVars, todo, erred, broken>>

ThawForget(p) ==
  /\ At(p, "forget")
  /\ ledger' = "none"
  /\ Goto(p, ret[p]) /\ ThawTo(p, "off")
  /\ UNCHANGED <<up, stopped, poolVars, parkVars, todo, cached, erred, broken>>

Thaw(p) ==
  \/ ThawRead(p)
  \/ \E i \in Pid : ThawSignal(p, i)
  \/ ThawDone(p)
  \/ ThawForget(p)

-----------------------------------------------------------------------------
(* Pool.parkIdle, with Parker.Park inside it.                              *)

ParkedBy(p) == IF p = "reset" THEN "end" ELSE "off"

MayEnter == ~closed

ParkEnter(p) ==
  /\ At(p, "park")
  /\ IF MayEnter THEN parking' = parking \cup {p} /\ Goto(p, "depth")
                 ELSE parking' = parking /\ Goto(p, ParkedBy(p))
  /\ UNCHANGED <<simVars, poolVars, busy0, regranted, thawVars>>

ParkDepth(p) ==
  /\ At(p, "depth")
  /\ busy0' = [busy0 EXCEPT ![p] = busy]
  /\ Goto(p, "look")
  /\ UNCHANGED <<simVars, poolVars, parking, regranted, thawVars>>

InUse == lease = "active" \/ watched

ParkLook(p) ==
  /\ At(p, "look")
  /\ Goto(p, IF InUse THEN "leave" ELSE "seq")
  /\ UNCHANGED <<simVars, poolVars, parkVars, thawVars>>

ParkSeq(p) ==
  /\ At(p, "seq")
  /\ Goto(p, "list")
  /\ UNCHANGED <<simVars, poolVars, parkVars, thawVars>>

(* The process listing; ErrNotRunning without a tree. *)
ParkList(p) ==
  /\ At(p, "list") /\ MayBegin(p)
  /\ IF up THEN /\ Goto(p, "stop")
                /\ todo' = [todo EXCEPT ![p] = Pid]
                /\ cached' = [cached EXCEPT ![p] = "live"]
                /\ UNCHANGED erred
           ELSE /\ Goto(p, "leave")
                /\ erred' = erred \cup {p}
                /\ UNCHANGED <<todo, cached>>
  /\ UNCHANGED <<simVars, poolVars, parkVars, ret, broken>>

ParkSignal(p, i) ==
  /\ At(p, "stop") /\ i \in todo[p]
  /\ todo' = [todo EXCEPT ![p] = @ \ {i}]
  /\ stopped' = IF cached[p] = "live" THEN stopped \cup {i} ELSE stopped
  /\ UNCHANGED <<up, ledger, poolVars, parkVars, ret, cached, erred, broken, pc>>

(* A SIGSTOP failed: the whole tree is continued again. *)
ParkRollback(p) ==
  /\ At(p, "stop") /\ todo[p] # {} /\ SignalsFail /\ cached[p] = "live"
  /\ stopped' = {}
  /\ todo' = [todo EXCEPT ![p] = {}]
  /\ cached' = [cached EXCEPT ![p] = "dead"]
  /\ erred' = erred \cup {p}
  /\ Goto(p, "leave")
  /\ UNCHANGED <<up, ledger, poolVars, parkVars, ret, broken>>

ParkLedger(p) ==
  /\ At(p, "stop") /\ todo[p] = {}
  /\ ledger' = cached[p]
  /\ cached' = [cached EXCEPT ![p] = "dead"]
  /\ Goto(p, "enter")
  /\ UNCHANGED <<up, stopped, poolVars, parkVars, ret, todo, erred, broken>>

(* Variant: a grant during the park is not noticed. *)
LandedMidPark_Grantless(p) == closed

(* What may have happened during the park: in the code's order, ...        *)
LandedMidPark(p) == closed \/ p \in regranted \/ lease = "active"

ThawBack(p) == Goto(p, "thaw") /\ ThawTo(p, "leave")

ParkRecheck(p) ==
  /\ At(p, "enter")
  /\ \/ LandedMidPark(p) /\ ThawBack(p)
     \/ ~LandedMidPark(p) /\ Goto(p, "recheck") /\ UNCHANGED ret
  /\ UNCHANGED <<simVars, poolVars, parkVars, todo, cached, erred, broken>>

(* ... and the reads that follow. *)
UsedMidPark(p) == busy > busy0[p] \/ awake \/ watched

ParkRecheckUse(p) ==
  /\ At(p, "recheck")
  /\ \/ UsedMidPark(p) /\ ThawBack(p)
     \/ ~UsedMidPark(p) /\ Goto(p, "leave") /\ UNCHANGED ret
  /\ UNCHANGED <<simVars, poolVars, parkVars, todo, cached, erred, broken>>

ParkLeave(p) ==
  /\ At(p, "leave")
  /\ parking' = parking \ {p}
  /\ regranted' = regranted \ {p}
  /\ busy0' = [busy0 EXCEPT ![p] = 0]
  /\ erred' = IF p = "reset" THEN erred ELSE erred \ {p}
  /\ Goto(p, ParkedBy(p))
  /\ UNCHANGED <<simVars, poolVars, ret, todo, cached, broken>>

ParkIdle(p) ==
  \/ ParkEnter(p) \/ ParkDepth(p) \/ ParkLook(p) \/ ParkSeq(p)
  \/ ParkList(p)
  \/ \E i \in Pid : ParkSignal(p, i)
  \/ ParkRollback(p) \/ ParkLedger(p)
  \/ ParkRecheck(p) \/ ParkRecheckUse(p)
  \/ ParkLeave(p)

-----------------------------------------------------------------------------
(* One member's turn in the watchdog's sweepFootprints; the rebuild and    *)
(* recycle branches are left out.                                          *)

SweepStart ==
  /\ MayStart("watchdog") /\ busy = 0
  /\ Goto("watchdog", "weigh")
  /\ UNCHANGED <<simVars, poolVars, parkVars, thawVars>>

(* The ledger entry and the process listing; the footprint is under its    *)
(* cap.  A fresh listing confirms that a tree is dead.                     *)
SweepWeigh ==
  /\ At("watchdog", "weigh")
  /\ \/ ledger = "dead" /\ MayBegin("watchdog") /\ Goto("watchdog", "drop")
     \/ ledger = "none" /\ Goto("watchdog", "idle")
     \/ ledger = "live" /\ Goto("watchdog", "off")
  /\ UNCHANGED <<simVars, poolVars, parkVars, thawVars>>

SweepDrop ==
  /\ At("watchdog", "drop")
  /\ ledger' = "none"
  /\ Goto("watchdog", "idle")
  /\ UNCHANGED <<up, stopped, poolVars, parkVars, thawVars>>

(* An idle member the registry reports Booted is parked. *)
SweepIdle ==
  /\ At("watchdog", "idle")
  /\ Goto("watchdog", IF lease # "active" /\ ~awake /\ ~down /\ up
                      THEN "park" ELSE "off")
  /\ UNCHANGED <<simVars, poolVars, parkVars, thawVars>>

Sweep == SweepStart \/ SweepWeigh \/ SweepDrop \/ SweepIdle

-----------------------------------------------------------------------------
(* Leases: granted, then announced to the pool outside the manager's       *)
(* mutex; released with or without a reset.                                *)

Grant ==
  /\ lease = "free" /\ ~notify /\ MayStart("grant")
  /\ lease' = "active" /\ notify' = TRUE
  /\ UNCHANGED <<simVars, busy, awake, down, watched, closed, parkVars,
                 thawVars, pc>>

Release ==
  /\ lease = "active"
  /\ \/ lease' = "free"
     \/ lease' = "resetting" /\ "reset" \in Actors
  /\ UNCHANGED <<simVars, notify, busy, awake, down, watched, closed,
                 parkVars, thawVars, pc>>

(* OnGrant advances grantSeq: every snapshot of it is now old. *)
Regrant == regranted \cup {p \in Parkers : pc[p] \in {"list", "stop", "enter"}}

OnGrant ==
  /\ notify /\ Off("grant")
  /\ notify' = FALSE
  /\ regranted' = Regrant
  /\ awake' = FALSE
  /\ Goto("grant", "thaw") /\ ThawTo("grant", "off")
  /\ UNCHANGED <<simVars, lease, busy, down, watched, closed, parking, busy0,
                 todo, cached, erred, broken>>

-----------------------------------------------------------------------------
(* The reset of an ended lease (resetFn of cmd/manzanasd): one transition  *)
(* from the thaw to the re-park, and OnReleased's inside it.               *)

(* Variant: the reset is no transition. *)
Begin_Not == busy
Begin == busy + 1

ResetStart ==
  /\ lease = "resetting" /\ MayStart("reset")
  /\ busy' = Begin
  /\ Goto("reset", "thaw") /\ ThawTo("reset", "wipe")
  /\ UNCHANGED <<simVars, lease, notify, awake, down, watched, closed,
                 parkVars, todo, cached, erred, broken>>

(* The state engine's reset: simctl shutdown, then erase; it may fail. *)
ResetWipe ==
  /\ At("reset", "wipe")
  /\ TreeDies
  /\ \E next \in {"rebuild", "failed"} : Goto("reset", next)
  /\ UNCHANGED <<poolVars, parkVars, ret, todo, erred, broken>>

(* It leaves the simulator booted or shut down; OnReleased takes over.  *)
ResetRebuild ==
  /\ At("reset", "rebuild")
  /\ up' \in {up, TRUE}
  /\ busy' = Begin
  /\ awake' = FALSE /\ down' = FALSE
  /\ Goto("reset", "reboot")
  /\ UNCHANGED <<stopped, ledger, lease, notify, watched, closed, parkVars,
                 thawVars>>

(* bootGated: a booted simulator is thawed if parked, another one booted,  *)
(* unless the gates refuse.                                                *)
ResetReboot ==
  /\ At("reset", "reboot")
  /\ \/ /\ up /\ Goto("reset", "thaw") /\ ThawTo("reset", "park")
        /\ UNCHANGED up
     \/ ~up /\ up' = TRUE /\ Goto("reset", "park") /\ UNCHANGED ret
     \/ ~up /\ Goto("reset", "end") /\ UNCHANGED <<up, ret>>
  /\ erred' = IF pc'["reset"] = "end" THEN erred \cup {"reset"} ELSE erred
  /\ UNCHANGED <<stopped, ledger, poolVars, parkVars, todo, cached, broken>>

(* A failed reset quarantines the simulator, a failed re-park only one     *)
(* that is not booted.                                                     *)
ResetEnd ==
  /\ \/ /\ At("reset", "end")
        /\ busy' = busy - 2
        /\ lease' = IF up \/ "reset" \notin erred THEN "free" ELSE "quarantined"
     \/ At("reset", "failed") /\ busy' = busy - 1 /\ lease' = "quarantined"
  /\ erred' = erred \ {"reset"}
  /\ Goto("reset", "off")
  /\ UNCHANGED <<simVars, notify, awake, down, watched, closed, parkVars,
                 ret, todo, cached, broken>>

ClearQuarantine ==
  /\ lease = "quarantined"
  /\ lease' = "free"
  /\ UNCHANGED <<simVars, notify, busy, awake, down, watched, closed,
                 parkVars, thawVars, pc>>

Reset == ResetStart \/ ResetWipe \/ ResetRebuild \/ ResetReboot \/ ResetEnd

-----------------------------------------------------------------------------
(* Guard.Boot and SafeShutdown, for the holder of a lease or, under a      *)
(* Reserve hold, for the dashboard.  (That the dashboard refuses a parked  *)
(* target is looked up before, and a park may end in between.)             *)

Admit ==
  \/ lease = "active" /\ lease' = "active"
  \/ lease = "free" /\ lease' = "reserved"

Dismiss == lease' = IF lease = "reserved" THEN "free" ELSE lease

NoOther == Off("boot") /\ Off("shutdown")

(* A parked simulator is thawed; one that is down is booted by a goroutine *)
(* of its own, one at a time here; a booted one is left as it is.          *)
BootStart ==
  /\ "boot" \in Actors /\ NoOther /\ Admit
  /\ \/ /\ ledger # "none"
        /\ Goto("boot", "thaw") /\ ThawTo("boot", "wake") /\ UNCHANGED busy
     \/ /\ ledger = "none" /\ up
        /\ Goto("boot", "wake") /\ UNCHANGED <<ret, busy>>
     \/ /\ ledger = "none" /\ ~up /\ MayStart("booter")
        /\ busy' = Begin
        /\ pc' = [pc EXCEPT !["boot"] = "wake", !["booter"] = "booting"]
        /\ UNCHANGED ret
  /\ UNCHANGED <<simVars, notify, awake, down, watched, closed, parkVars,
                 todo, cached, erred, broken>>

(* An accepted boot cancels a shutdown and earns the wake grace. *)
BootWake ==
  /\ At("boot", "wake")
  /\ awake' = TRUE /\ down' = FALSE
  /\ Dismiss
  /\ Goto("boot", "off")
  /\ UNCHANGED <<simVars, notify, busy, watched, closed, parkVars, thawVars>>

(* The background half of BootAsync; it may fail. *)
BootDone ==
  /\ At("booter", "booting")
  /\ up' \in {up, TRUE}
  /\ busy' = busy - 1
  /\ Goto("booter", "off")
  /\ UNCHANGED <<stopped, ledger, lease, notify, awake, down, watched, closed,
                 parkVars, thawVars>>

ShutdownStart ==
  /\ "shutdown" \in Actors /\ NoOther /\ Admit
  /\ busy' = Begin
  /\ Goto("shutdown", "thaw") /\ ThawTo("shutdown", "halt")
  /\ UNCHANGED <<simVars, notify, awake, down, watched, closed, parkVars,
                 todo, cached, erred, broken>>

(* The member is marked down unless simctl fails. *)
ShutdownHalt ==
  /\ At("shutdown", "halt")
  /\ \/ TreeDies /\ down' = TRUE /\ awake' = FALSE
     \/ UNCHANGED <<simVars, cached, down, awake>>
  /\ Goto("shutdown", "end")
  /\ UNCHANGED <<lease, notify, busy, watched, closed, parkVars, ret, todo, erred, broken>>

ShutdownEnd ==
  /\ At("shutdown", "end")
  /\ busy' = busy - 1
  /\ Dismiss
  /\ Goto("shutdown", "off")
  /\ UNCHANGED <<simVars, notify, awake, down, watched, closed, parkVars,
                 thawVars>>

Operate ==
  BootStart \/ BootWake \/ BootDone \/ ShutdownStart \/ ShutdownHalt \/ ShutdownEnd

-----------------------------------------------------------------------------
(* Streams: a simulator that is down or parked is refused, then the stream *)
(* opens.                                                                  *)
WatchStart ==
  /\ MayStart("viewer") /\ ~watched /\ up /\ ledger = "none"
  /\ Goto("viewer", "open")
  /\ UNCHANGED <<simVars, poolVars, parkVars, thawVars>>

WatchOpen ==
  /\ At("viewer", "open")
  /\ watched' = TRUE
  /\ Goto("viewer", "off")
  /\ UNCHANGED <<simVars, lease, notify, busy, awake, down, closed, parkVars,
                 thawVars>>

WatchStop ==
  /\ watched /\ watched' = FALSE
  /\ UNCHANGED <<simVars, lease, notify, busy, awake, down, closed, parkVars,
                 thawVars, pc>>

AwakeLapses ==
  /\ awake /\ awake' = FALSE
  /\ UNCHANGED <<simVars, lease, notify, busy, down, watched, closed, parkVars,
                 thawVars, pc>>

Watch == WatchStart \/ WatchOpen \/ WatchStop \/ AwakeLapses

-----------------------------------------------------------------------------
(* Close: no new park, wait for the running ones, thaw what is parked. *)
CloseStart ==
  /\ MayStart("closer")
  /\ closed' = TRUE
  /\ Goto("closer", "join")
  /\ UNCHANGED <<simVars, lease, notify, busy, awake, down, watched, parkVars,
                 thawVars>>

(* Variant: running parks are not joined. *)
Joined_Never == TRUE
Joined == parking = {}

CloseJoin ==
  /\ At("closer", "join") /\ Joined
  /\ Goto("closer", "thaw") /\ ThawTo("closer", "closed")
  /\ UNCHANGED <<simVars, poolVars, parkVars, todo, cached, erred, broken>>

(* The processes a daemon that starts finds stopped in the pool's trees    *)
(* are continued (RecoverFrozenParks).                                     *)
(* Variant: they are not.                                                  *)
LeftFrozen_All == stopped
LeftFrozen == {}

(* The daemon crashes, or exits after Close, and starts again: nothing but *)
(* the simulator survives.                                                 *)
Restart ==
  /\ up' = up /\ stopped' = LeftFrozen /\ ledger' = "none"
  /\ lease' = "free" /\ notify' = FALSE /\ busy' = 0
  /\ awake' = FALSE /\ down' = FALSE /\ watched' = FALSE /\ closed' = FALSE
  /\ parking' = {} /\ regranted' = {}
  /\ pc' = [p \in Proc |-> "off"]
  /\ ret' = [p \in Proc |-> "off"]
  /\ todo' = [p \in Proc |-> {}]
  /\ cached' = [p \in Proc |-> "dead"]
  /\ erred' = {} /\ broken' = FALSE
  /\ busy0' = [p \in Parkers |-> 0]

Leases == Grant \/ Release \/ OnGrant \/ ClearQuarantine

Running ==
  \/ \E p \in Proc : Thaw(p)
  \/ \E p \in Parkers : ParkIdle(p)
  \/ Sweep \/ Leases \/ Reset \/ Operate \/ Watch
  \/ CloseStart \/ CloseJoin

Next ==
  \/ ~At("closer", "closed") /\ Running
  \/ Restart

Spec == Init /\ [][Next]_vars

(* Goroutines that have something to do go on, in the end; nothing is      *)
(* assumed of clients, viewers, operators, or crashes.                     *)
Fairness ==
  /\ \A p \in Proc : WF_vars(Thaw(p))
  /\ \A p \in Parkers : WF_vars(ParkIdle(p))
  /\ WF_vars(OnGrant)

FairSpec == Spec /\ Fairness
-----------------------------------------------------------------------------
(* Properties. *)

(* No goroutine is between its first signal and its ledger update. *)
Settled == \A p \in Proc : ~InParker(p)

(* A stopped tree is in the ledger whenever no park or thaw is under way,  *)
(* also after failed signals and after a crash: Close and the next grant   *)
(* will find it (Park, Thaw, RecoverFrozenParks).                          *)
FrozenIsInLedger == Settled /\ stopped # {} => ledger = "live"

(* Neither has a goroutine still to look again or to thaw. *)
Quiet == Settled /\ \A p \in Proc : pc[p] \notin {"thaw", "enter", "recheck"}

(* A holder whose grant was announced works on a running tree, whatever    *)
(* parks, resets and boots its grant met (parkIdle's second look).  The    *)
(* comment on parkIdle: "it thaws right back so the holder never sees a    *)
(* frozen sim".  Unless a SIGCONT failed.                                  *)
HolderNeverFrozen ==
  Quiet /\ ~notify /\ ~broken /\ lease = "active" => stopped = {}

(* When Close returns nothing is left stopped (parking, parkDone).  Close   *)
(* cannot help a SIGCONT that fails: checked without signal failures.      *)
ClosedIsThawed == At("closer", "closed") => stopped = {}

(* The grant reaches a parked simulator: it runs, or the lease is over.    *)
GrantThaws == lease = "active" ~> stopped = {} \/ lease # "active"

(* The comment on SafeShutdown says "never shut a parked sim down: it      *)
(* wedges": no tree is stopped when a reset or a shutdown takes it down.   *)
NeverShutDownFrozen == [][up /\ ~up' => stopped = {}]_vars
=============================================================================
