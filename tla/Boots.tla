------------------------------- MODULE Boots --------------------------------
(***************************************************************************)
(* Booting simulators under the host's limits (internal/warm: BootAsync,   *)
(* bootGated, GateBoot, GateBootCheap and the boot slots of pool.go, the   *)
(* guarded Boot of guard.go).  The gate is checked, a slot is waited for,  *)
(* the gate is checked again, the boot is issued and the slot is kept      *)
(* until the simulator is seen Booted or the wait ends; every step of a    *)
(* request interleaves with the others and with the simulators themselves. *)
(* Disk and load are one condition of the host.                            *)
(***************************************************************************)
EXTENDS Naturals, FiniteSets

CONSTANTS
  BootSim,             \* the simulators of the host
  Request,             \* boot requests
  NoSim,
  MaxBootedRunning,    \* CapacityClass
  MaxConcurrentBoots

ASSUME BootAssumption ==
  /\ NoSim \notin BootSim /\ IsFiniteSet(BootSim) /\ IsFiniteSet(Request)
  /\ MaxBootedRunning \in Nat \ {0} /\ MaxConcurrentBoots \in Nat \ {0}

VARIABLES
  simState,   \* each simulator: off, coming (Booting), on, or parked
  request,    \* each request: where it is, its simulator, and whether it is
              \* the background boot of BootAsync or the call bootGated
  bootErr,    \* Pool.bootErr
  strained,   \* the disk or the load gate refuses
  cached,     \* Pool.running at the last count, "old" once past its TTL
  promised,   \* history: a client was told 202 and knows no outcome yet
  ungated     \* history: simulators running by a way the gate never counts

bootVars == <<simState, request, bootErr, strained, cached, promised, ungated>>

NoRequest == [at |-> "none", sim |-> NoSim, sync |-> FALSE]
Running == {s \in BootSim : simState[s] = "on"}

BootTypeOK ==
  /\ simState \in [BootSim -> {"off", "coming", "on", "parked"}]
  /\ request \in [Request -> [at: {"none", "queued", "slot", "gated", "waiting"},
                              sim: BootSim \cup {NoSim}, sync: BOOLEAN]]
  /\ bootErr \in [BootSim -> BOOLEAN]
  /\ strained \in BOOLEAN
  /\ cached \in {"old", "low", "full"}
  /\ promised \in [BootSim -> BOOLEAN]
  /\ ungated \subseteq BootSim

BootInit ==
  /\ simState \in [BootSim -> {"off", "on"}]
  /\ request = [q \in Request |-> NoRequest]
  /\ bootErr = [s \in BootSim |-> FALSE]
  /\ strained = FALSE
  /\ cached = "old"
  /\ promised = [s \in BootSim |-> FALSE]
  /\ ungated = Running

(* runningCount leaves out the simulator about to boot, and refreshes the  *)
(* cached total, which includes it.                                        *)
Gate(s) == ~strained /\ Cardinality(Running \ {s}) < MaxBootedRunning
Counted == cached' = IF strained THEN cached
                     ELSE IF Cardinality(Running) >= MaxBootedRunning
                          THEN "full" ELSE "low"

(* The pre-check of a caller that waits for capacity: only a fresh count   *)
(* at the cap refuses; an old one lets the caller try.                     *)
GateBootCheap == ~strained /\ cached # "full"

Holders == {q \in Request : request[q].at \in {"slot", "gated", "waiting"}}

At(q, where) == request' = [request EXCEPT ![q].at = where]
Finished(q) == request' = [request EXCEPT ![q] = NoRequest]

(* A failure in the background is remembered; bootGated returns it.        *)
Failed_Silent(q) ==
  /\ Finished(q)
  /\ bootErr' = IF request[q].sync \/ request[q].at = "waiting" THEN bootErr
                ELSE [bootErr EXCEPT ![request[q].sim] = TRUE]
Failed(q) ==
  /\ Finished(q)
  /\ bootErr' = IF request[q].sync THEN bootErr
                ELSE [bootErr EXCEPT ![request[q].sim] = TRUE]
SeenUp(s) ==
  /\ bootErr' = [bootErr EXCEPT ![s] = FALSE]
  /\ promised' = [promised EXCEPT ![s] = FALSE]

-----------------------------------------------------------------------------
(* GuardedRegistry.Boot and BootAsync.  A parked simulator is thawed, one  *)
(* that is up is left alone, and a failure recorded since the last request *)
(* is handed to this caller and forgotten.                                 *)
ThawParked(s) ==
  /\ simState[s] = "parked"
  /\ simState' = [simState EXCEPT ![s] = "on"]
  /\ ungated' = ungated \cup {s}
  /\ SeenUp(s)
  /\ UNCHANGED <<request, strained, cached>>

AlreadyUp(s) ==
  /\ simState[s] = "on" /\ (bootErr[s] \/ promised[s])
  /\ SeenUp(s)
  /\ UNCHANGED <<simState, request, strained, cached, ungated>>

TellFailure(s) ==
  /\ simState[s] \in {"off", "coming"} /\ bootErr[s]
  /\ SeenUp(s)
  /\ UNCHANGED <<simState, request, strained, cached, ungated>>

BootAsync(q, s) ==
  /\ request[q] = NoRequest
  /\ simState[s] \in {"off", "coming"} /\ ~bootErr[s]
  /\ Gate(s) /\ Counted
  /\ request' = [request EXCEPT ![q] = [at |-> "queued", sim |-> s, sync |-> FALSE]]
  /\ promised' = [promised EXCEPT ![s] = TRUE]
  /\ UNCHANGED <<simState, bootErr, strained, ungated>>

(* The same request from a caller that waits for capacity (the server's    *)
(* boot wait): it tries only when the cheap gates allow.                   *)
BootWaited(q, s) == GateBootCheap /\ BootAsync(q, s)

(* A refused request changes only the cached count. *)
GateRefused(s) ==
  /\ simState[s] \in {"off", "coming"} /\ ~bootErr[s] /\ ~Gate(s) /\ Counted
  /\ UNCHANGED <<simState, request, bootErr, strained, promised, ungated>>

(* Add, rePark and Recycle call bootGated, which asks for a slot first.    *)
BootGated(q, s) ==
  /\ request[q] = NoRequest
  /\ request' = [request EXCEPT ![q] = [at |-> "queued", sim |-> s, sync |-> TRUE]]
  /\ UNCHANGED <<simState, bootErr, strained, cached, promised, ungated>>

TakeSlot(q) ==
  /\ request[q].at = "queued"
  /\ Cardinality(Holders) < MaxConcurrentBoots
  /\ At(q, "slot")
  /\ UNCHANGED <<simState, bootErr, strained, cached, promised, ungated>>

NoSlotInTime(q) ==
  /\ request[q].at = "queued"
  /\ Cardinality(Holders) >= MaxConcurrentBoots
  /\ Failed(q)
  /\ UNCHANGED <<simState, strained, cached, promised, ungated>>

(* With the slot: bootGated returns early for a simulator that is up (and  *)
(* thaws a parked one); then both check the gate again.                    *)
FoundUp(q) ==
  LET s == request[q].sim IN
  /\ request[q].at = "slot" /\ request[q].sync
  /\ simState[s] \in {"on", "parked"}
  /\ simState' = [simState EXCEPT ![s] = "on"]
  /\ ungated' = IF simState[s] = "parked" THEN ungated \cup {s} ELSE ungated
  /\ SeenUp(s) /\ Finished(q)
  /\ UNCHANGED <<strained, cached>>

MustBoot(q) ==
  /\ request[q].at = "slot"
  /\ request[q].sync => simState[request[q].sim] \in {"off", "coming"}

Recheck_Unchecked(q) ==
  /\ MustBoot(q) /\ At(q, "gated") /\ Counted
  /\ UNCHANGED <<simState, bootErr, strained, promised, ungated>>
Recheck(q) ==
  /\ MustBoot(q) /\ Gate(request[q].sim) /\ At(q, "gated") /\ Counted
  /\ UNCHANGED <<simState, bootErr, strained, promised, ungated>>

RecheckRefused(q) ==
  /\ MustBoot(q) /\ ~Gate(request[q].sim) /\ Failed(q) /\ Counted
  /\ UNCHANGED <<simState, strained, promised, ungated>>

(* simctl boot starts the simulator and is a no-op on one that is up. *)
Issue(q) ==
  LET s == request[q].sim IN
  /\ request[q].at = "gated"
  /\ simState' = IF simState[s] = "off" THEN [simState EXCEPT ![s] = "coming"]
                 ELSE simState
  /\ ungated' = IF simState[s] = "coming" THEN ungated \ {s} ELSE ungated
  /\ At(q, "waiting")
  /\ UNCHANGED <<bootErr, strained, cached, promised>>

IssueFails(q) ==
  /\ request[q].at = "gated" /\ Failed(q)
  /\ UNCHANGED <<simState, strained, cached, promised, ungated>>

(* waitBooted: the simulator is seen Booted, or the wait ends and the slot *)
(* goes to the next request while the simulator may still come up.         *)
Booted(q) ==
  /\ request[q].at = "waiting" /\ simState[request[q].sim] \in {"on", "parked"}
  /\ SeenUp(request[q].sim) /\ Finished(q)
  /\ UNCHANGED <<simState, strained, cached, ungated>>

GiveUp(q) ==
  LET s == request[q].sim IN
  /\ request[q].at = "waiting" /\ simState[s] \in {"off", "coming"}
  /\ Failed(q)
  /\ ungated' = IF simState[s] = "coming" THEN ungated \cup {s} ELSE ungated
  /\ UNCHANGED <<simState, strained, cached, promised>>

-----------------------------------------------------------------------------
(* The host: a boot completes; another agent boots a simulator; one is     *)
(* shut down, parked, or thawed for a grant; load and disk change; the     *)
(* cached count ages.                                                      *)
ComesUp(s) ==
  /\ simState[s] = "coming" /\ simState' = [simState EXCEPT ![s] = "on"]
  /\ UNCHANGED <<request, bootErr, strained, cached, promised, ungated>>
ForeignBoot(s) ==
  /\ simState[s] = "off" /\ simState' = [simState EXCEPT ![s] = "on"]
  /\ ungated' = ungated \cup {s}
  /\ UNCHANGED <<request, bootErr, strained, cached, promised>>
GoesDown(s) ==
  /\ simState[s] \in {"on", "coming"} /\ simState' = [simState EXCEPT ![s] = "off"]
  /\ ungated' = ungated \ {s}
  /\ UNCHANGED <<request, bootErr, strained, cached, promised>>
GoesParked(s) ==
  /\ simState[s] = "on" /\ simState' = [simState EXCEPT ![s] = "parked"]
  /\ ungated' = ungated \ {s}
  /\ UNCHANGED <<request, bootErr, strained, cached, promised>>
ThawForGrant(s) ==
  /\ simState[s] = "parked" /\ simState' = [simState EXCEPT ![s] = "on"]
  /\ ungated' = ungated \cup {s}
  /\ UNCHANGED <<request, bootErr, strained, cached, promised>>
HostChanges ==
  /\ \/ strained' = ~strained /\ UNCHANGED cached
     \/ cached # "old" /\ cached' = "old" /\ UNCHANGED strained
  /\ UNCHANGED <<simState, request, bootErr, promised, ungated>>

BootNext ==
  \/ \E s \in BootSim :
       \/ ThawParked(s) \/ AlreadyUp(s) \/ TellFailure(s) \/ GateRefused(s)
       \/ ComesUp(s) \/ ForeignBoot(s) \/ GoesDown(s) \/ GoesParked(s)
       \/ ThawForGrant(s)
       \/ \E q \in Request : BootAsync(q, s) \/ BootWaited(q, s) \/ BootGated(q, s)
  \/ \E q \in Request :
       \/ TakeSlot(q) \/ NoSlotInTime(q) \/ FoundUp(q) \/ Recheck(q)
       \/ RecheckRefused(q) \/ Issue(q) \/ IssueFails(q) \/ Booted(q) \/ GiveUp(q)
  \/ HostChanges

BootSpec == BootInit /\ [][BootNext]_bootVars

-----------------------------------------------------------------------------
(* However requests queue up, the simulators that gated boots brought up   *)
(* never exceed the running cap by more than the boots the class allows    *)
(* side by side; thawed simulators, other agents' boots and boots the wait *)
(* gave up on come on top, because the gate never sees them (GateBoot).    *)
BootCapHeld ==
  Cardinality(Running \ ungated) <= MaxBootedRunning + MaxConcurrentBoots - 1

(* No accepted boot dies in silence: while its client still polls, the     *)
(* boot is in flight or its failure waits for the next request (bootErr).  *)
BootFailuresTold ==
  \A s \in BootSim : promised[s] =>
    bootErr[s] \/ \E q \in Request : request[q].sim = s /\ ~request[q].sync

BootSafe == BootCapHeld /\ BootFailuresTold
=============================================================================
