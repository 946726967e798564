------------------------------ MODULE Targets ------------------------------
(***************************************************************************)
(* What the daemon does to one target on request (internal/server          *)
(* handlers_targets.go, handlers_actions.go, handlers_dash.go, server.go): *)
(* boot, boot?wait=true, shutdown and action batches under a lease, the    *)
(* dashboard's boot and shutdown under a reservation, and the ledger of    *)
(* shutdowns that a later target_not_booted error quotes.                  *)
(* The leases themselves come and go by the rules of module Lease.         *)
(***************************************************************************)
EXTENDS Integers, FiniteSets

CONSTANTS
    TLease,          \* leases that may hold the target, one after the other
    TCall,           \* requests in flight
    NoTLease,        \* nobody
    maxBootWaiters,  \* room of bootWaitSlots
    MaxBatch         \* bound: actions of a batch

Dash == "dash"
ASSUME TgtAssumption ==
  /\ maxBootWaiters \in Nat /\ MaxBatch \in Nat \ {0}
  /\ NoTLease \notin TLease /\ Dash \notin TLease \cup {NoTLease}

CallOps == {"boot", "wait", "shutdown", "batch", "stopBatch"}
IdleCall == [op |-> "boot", by |-> NoTLease, at |-> "idle", left |-> 0, first |-> TRUE, slot |-> FALSE]

VARIABLES
    tHolder,        \* the lease that holds the target, Dash for a reservation, or nobody
    tOver,          \* leases that have ended
    tPaused,        \* is the holder paused?
    tPower,         \* is the target booted?
    tGate,          \* do the boot gates admit a boot?
    lastShutdown,   \* does the ledger hold a shutdown of this target?
    tCalls,         \* the requests
    waitByLease,    \* leases with a boot wait in flight
    bootWaitSlots,  \* waiter slots taken
    tDownBy,        \* history: what took the target down last
    tRaced,         \* history: have a boot and a shutdown overlapped?
    tLate           \* history: attempts of a request on a target its lease no longer held
tLeaseVars == <<tHolder, tOver, tPaused>>
tgtVars == <<tLeaseVars, tPower, tGate, lastShutdown, tCalls, waitByLease, bootWaitSlots,
             tDownBy, tRaced, tLate>>

CallPlaces == {"idle", "entering", "slotting", "checking", "booting", "clearing", "sleeping",
               "shutting", "noting", "dispatching", "acting", "leaving", "left"}

TgtTypeOK ==
    /\ tHolder \in TLease \cup {Dash, NoTLease} /\ tOver \subseteq TLease
    /\ {tPaused, tPower, tGate, lastShutdown, tRaced} \subseteq BOOLEAN
    /\ tCalls \in [TCall -> [op : CallOps, by : TLease \cup {Dash, NoTLease}, at : CallPlaces,
                             left : 0..MaxBatch, first : BOOLEAN, slot : BOOLEAN]]
    /\ waitByLease \subseteq TLease /\ bootWaitSlots \in 0..maxBootWaiters
    /\ tDownBy \in {"daemon", "outside"} /\ tLate \in [TCall -> 0..2]

TgtInit ==
    /\ tHolder = NoTLease /\ tOver = {} /\ tPaused = FALSE
    /\ tPower = FALSE /\ tGate = TRUE /\ lastShutdown = FALSE
    /\ tCalls = [c \in TCall |-> IdleCall]
    /\ waitByLease = {} /\ bootWaitSlots = 0
    /\ tDownBy = "outside" /\ tRaced = FALSE /\ tLate = [c \in TCall |-> 0]

-----------------------------------------------------------------------------
(* Around the requests: leases start, pause, resume and end; the load      *)
(* moves the boot gates; the simulator dies or is shut down by hand.       *)
LeaseMoves ==
    /\ \/ /\ tHolder = NoTLease
          /\ \E l \in TLease \ tOver : tHolder' = l
          /\ tPaused' = FALSE /\ UNCHANGED tOver
       \/ tHolder \in TLease /\ tPaused' = ~tPaused /\ UNCHANGED <<tHolder, tOver>>
       \/ /\ tHolder \in TLease /\ tHolder' = NoTLease /\ tOver' = tOver \cup {tHolder}
          /\ tPaused' = FALSE
    /\ UNCHANGED <<tPower, tGate, lastShutdown, tCalls, waitByLease, bootWaitSlots, tDownBy, tRaced, tLate>>

GateMoves ==
    /\ tGate' = ~tGate
    /\ UNCHANGED <<tLeaseVars, tPower, lastShutdown, tCalls, waitByLease, bootWaitSlots, tDownBy, tRaced, tLate>>

GoesDown ==
    /\ tPower /\ tPower' = FALSE /\ tDownBy' = "outside"
    /\ UNCHANGED <<tLeaseVars, tGate, lastShutdown, tCalls, waitByLease, bootWaitSlots, tRaced, tLate>>

-----------------------------------------------------------------------------
At(c, p) == tCalls[c].at = p
Goes(c, p) == tCalls' = [tCalls EXCEPT ![c].at = p]
Ends(c) == tCalls' = [tCalls EXCEPT ![c] = IdleCall]
Holds(c) == tHolder = tCalls[c].by
(* An attempt on the target, charged to the request when it came too late. *)
Attempts(c) ==
    tLate' = IF Holds(c) THEN tLate ELSE [tLate EXCEPT ![c] = IF @ = 2 THEN 2 ELSE @ + 1]

Booting(c) == tCalls[c].at \in {"booting", "clearing"}
Shutting(c) == tCalls[c].at \in {"shutting", "noting"}
Races(c, ops) ==
    tRaced' = (tRaced \/ \E d \in TCall \ {c} : IF ops = "boot" THEN Shutting(d)
                                                ELSE Shutting(d) \/ Booting(d))

FirstPlace(op) ==
    CASE op = "boot" -> "booting"
      [] op = "wait" -> "entering"
      [] op = "shutdown" -> "shutting"
      [] OTHER -> "dispatching"

(* A request under a lease: requireLease wants it active on this target.   *)
CallStarts(c) ==
    /\ At(c, "idle") /\ tHolder \in TLease
    /\ \E op \in CallOps, n \in 1..MaxBatch :
          /\ op \notin {"batch", "stopBatch"} => n = 1
          /\ tCalls' = [tCalls EXCEPT ![c] = [op |-> op, by |-> tHolder, at |-> FirstPlace(op),
                                              left |-> n, first |-> TRUE, slot |-> FALSE]]
    /\ tLate' = [tLate EXCEPT ![c] = 0]
    /\ UNCHANGED <<tLeaseVars, tPower, tGate, lastShutdown, waitByLease, bootWaitSlots, tDownBy, tRaced>>

(* The dashboard's boot and shutdown hold a reservation, so no lease is    *)
(* granted meanwhile; an occupied target is refused.                       *)
DashStarts(c) ==
    /\ At(c, "idle") /\ tHolder = NoTLease /\ tHolder' = Dash
    /\ \E op \in {"boot", "shutdown"} :
          tCalls' = [tCalls EXCEPT ![c] = [op |-> op, by |-> Dash, at |-> FirstPlace(op),
                                           left |-> 0, first |-> TRUE, slot |-> FALSE]]
    /\ tLate' = [tLate EXCEPT ![c] = 0]
    /\ UNCHANGED <<tOver, tPaused, tPower, tGate, lastShutdown, waitByLease, bootWaitSlots, tDownBy, tRaced>>

(* bootTargetWait: one wait per lease, then a slot; without a slot it is a *)
(* single attempt.                                                         *)
WaitEnters(c) ==
    /\ At(c, "entering")
    /\ IF tCalls[c].by \in waitByLease
       THEN Ends(c) /\ UNCHANGED waitByLease
       ELSE Goes(c, "slotting") /\ waitByLease' = waitByLease \cup {tCalls[c].by}
    /\ UNCHANGED <<tLeaseVars, tPower, tGate, lastShutdown, bootWaitSlots, tDownBy, tRaced, tLate>>

WaitTakesSlot(c) ==
    /\ At(c, "slotting")
    /\ IF bootWaitSlots < maxBootWaiters
       THEN /\ tCalls' = [tCalls EXCEPT ![c].at = "checking", ![c].slot = TRUE]
            /\ bootWaitSlots' = bootWaitSlots + 1
       ELSE Goes(c, "booting") /\ UNCHANGED bootWaitSlots
    /\ UNCHANGED <<tLeaseVars, tPower, tGate, lastShutdown, waitByLease, tDownBy, tRaced, tLate>>

(* Each attempt of the wait: is the lease still there, and, after the      *)
(* first, would the gates admit a boot?                                    *)
Revalidates_Once(c) == tCalls[c].first => Holds(c)
Revalidates(c) == Holds(c)
WaitChecks(c) ==
    /\ At(c, "checking")
    /\ Goes(c, IF ~Revalidates(c) THEN "leaving"
                 ELSE IF tCalls[c].first \/ tGate THEN "booting"
                 ELSE "sleeping")
    /\ UNCHANGED <<tLeaseVars, tPower, tGate, lastShutdown, waitByLease, bootWaitSlots, tDownBy, tRaced, tLate>>

(* The poll interval passes, or the request or its budget ends. *)
WaitSleeps(c) ==
    /\ At(c, "sleeping")
    /\ \/ Goes(c, "checking")
       \/ Goes(c, "leaving")
    /\ UNCHANGED <<tLeaseVars, tPower, tGate, lastShutdown, waitByLease, bootWaitSlots, tDownBy, tRaced, tLate>>

(* bootTarget: the registry's boot is admitted, refused by the gates, or   *)
(* fails.  Only a wait with a slot tries again.                            *)
Boots(c) ==
    /\ At(c, "booting") /\ Attempts(c) /\ Races(c, "boot")
    /\ \/ tGate /\ tPower' = TRUE /\ Goes(c, "clearing")
       \/ /\ ~tGate /\ UNCHANGED tPower
          /\ tCalls' = [tCalls EXCEPT ![c].at = IF tCalls[c].slot THEN "sleeping" ELSE "leaving",
                                      ![c].first = FALSE]
       \/ tGate /\ UNCHANGED tPower /\ Goes(c, "leaving")
    /\ UNCHANGED <<tLeaseVars, tGate, lastShutdown, waitByLease, bootWaitSlots, tDownBy>>

Cleared_Kept(note) == note
Cleared(note) == FALSE
ClearsNote(c) ==
    /\ At(c, "clearing") /\ Goes(c, "leaving") /\ Races(c, "boot")
    /\ lastShutdown' = Cleared(lastShutdown)
    /\ UNCHANGED <<tLeaseVars, tPower, tGate, waitByLease, bootWaitSlots, tDownBy, tLate>>

(* shutdownTarget: the registry's shutdown, then the ledger entry. *)
Shuts(c) ==
    /\ At(c, "shutting") /\ Attempts(c) /\ Races(c, "shutdown")
    /\ \/ /\ Goes(c, "noting") /\ tPower' = FALSE
          /\ tDownBy' = "daemon"
       \/ Goes(c, "leaving") /\ UNCHANGED <<tPower, tDownBy>>
    /\ UNCHANGED <<tLeaseVars, tGate, lastShutdown, waitByLease, bootWaitSlots>>

NotesShutdown(c) ==
    /\ At(c, "noting") /\ Goes(c, "leaving") /\ Races(c, "shutdown")
    /\ lastShutdown' = TRUE
    /\ UNCHANGED <<tLeaseVars, tPower, tGate, waitByLease, bootWaitSlots, tDownBy, tLate>>

(* The deferred calls of a wait: its slot first, then its lease's mark.    *)
(* The dashboard's reservation is lifted when its handler returns.         *)
SlotsAfter_WhenBooted(c) == IF tCalls[c].slot /\ tPower THEN bootWaitSlots - 1 ELSE bootWaitSlots
SlotsAfter(c) == IF tCalls[c].slot THEN bootWaitSlots - 1 ELSE bootWaitSlots
CallLeaves(c) ==
    /\ At(c, "leaving")
    /\ bootWaitSlots' = SlotsAfter(c)
    /\ IF tCalls[c].op = "wait"
       THEN tCalls' = [tCalls EXCEPT ![c].at = "left", ![c].slot = FALSE]
       ELSE Ends(c)
    /\ tHolder' = IF tCalls[c].by = Dash THEN NoTLease ELSE tHolder
    /\ UNCHANGED <<tOver, tPaused, tPower, tGate, lastShutdown, waitByLease, tDownBy, tRaced, tLate>>

WaitLeft(c) ==
    /\ At(c, "left") /\ Ends(c)
    /\ waitByLease' = waitByLease \ {tCalls[c].by}
    /\ UNCHANGED <<tLeaseVars, tPower, tGate, lastShutdown, bootWaitSlots, tDownBy, tRaced, tLate>>

(* dispatchActionBatch: the budget, then each action looks its lease up    *)
(* anew; a paused lease admits only observation, whose dispatch has no     *)
(* effect on the target.  A refused or failed action ends a batch that     *)
(* stops on errors.                                                        *)
AfterAction(c, failed) ==
    LET over == tCalls[c].left = 1 \/ (failed /\ tCalls[c].op = "stopBatch")
    IN  IF over THEN Ends(c)
        ELSE tCalls' = [tCalls EXCEPT ![c].at = "dispatching", ![c].left = @ - 1, ![c].first = FALSE]

Admits(c, readOnly) == Revalidates(c) /\ (~tPaused \/ readOnly)
Dispatches(c) ==
    /\ At(c, "dispatching")
    /\ \/ \E readOnly \in BOOLEAN :
             /\ Admits(c, readOnly)
             /\ IF readOnly THEN AfterAction(c, ~tPower) ELSE Goes(c, "acting")
       \/ ~Admits(c, FALSE) /\ AfterAction(c, TRUE)
       \/ Ends(c)
    /\ UNCHANGED <<tLeaseVars, tPower, tGate, lastShutdown, waitByLease, bootWaitSlots, tDownBy, tRaced, tLate>>

Acts(c) ==
    /\ At(c, "acting") /\ Attempts(c)
    /\ \E failed \in BOOLEAN : (~tPower => failed) /\ AfterAction(c, failed)
    /\ UNCHANGED <<tLeaseVars, tPower, tGate, lastShutdown, waitByLease, bootWaitSlots, tDownBy, tRaced>>

-----------------------------------------------------------------------------
TgtNext ==
    \/ LeaseMoves \/ GateMoves \/ GoesDown
    \/ \E c \in TCall :
          \/ CallStarts(c) \/ DashStarts(c)
          \/ WaitEnters(c) \/ WaitTakesSlot(c) \/ WaitChecks(c) \/ WaitSleeps(c)
          \/ Boots(c) \/ ClearsNote(c) \/ Shuts(c) \/ NotesShutdown(c)
          \/ CallLeaves(c) \/ WaitLeft(c) \/ Dispatches(c) \/ Acts(c)

TgtSpec == TgtInit /\ [][TgtNext]_tgtVars

-----------------------------------------------------------------------------
(* Every path out of bootTargetWait gives back exactly the slot and the    *)
(* lease mark it took: the refused, the single-attempt, the aborted, the   *)
(* accepted and the exhausted wait.                                        *)
TgtWaitsExact ==
    LET waiting == {c \in TCall : tCalls[c].op = "wait" /\ tCalls[c].at \notin {"idle", "entering"}}
    IN  /\ bootWaitSlots = Cardinality({c \in TCall : tCalls[c].slot})
        /\ waitByLease = {tCalls[c].by : c \in waiting}
        /\ \A c, d \in waiting : tCalls[c].by = tCalls[d].by => c = d

(* A boot wait and a batch look their lease up again before every attempt, *)
(* so a request whose lease has ended touches the target at most once      *)
(* more: the attempt that was already past its check.                      *)
TgtLateOnce == \A c \in TCall : tLate[c] <= 1

(* No boot or shutdown is in flight. *)
TgtQuiet == \A c \in TCall : ~Booting(c) /\ ~Shutting(c)

(* A successful boot drops the entry of the shutdown it undid and a crash  *)
(* afterwards is not blamed on it, as long as no boot overlapped a         *)
(* shutdown.                                                               *)
TgtBlames == TgtQuiet /\ ~tRaced => (lastShutdown => tDownBy = "daemon") /\ (tPower => ~lastShutdown)

TgtSafe == TgtWaitsExact /\ TgtLateOnce /\ TgtBlames
=============================================================================
