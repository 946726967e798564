---------------------------- MODULE TargetService ----------------------------
(***************************************************************************)
(* What the lease manager promises, without queues, deadlines or resets: a *)
(* target has at most one holder; it is either free, held by one lease, or *)
(* withheld (being reset, quarantined or reserved for pool work); only a   *)
(* free target is handed out; and a lease waits, holds and ends, once.     *)
(***************************************************************************)
CONSTANTS Lease, Target

VARIABLES
  slot,   \* target -> the lease holding it, "free" or "withheld"
  phase   \* lease -> "new", "waiting", "holding" or "done"

svars == <<slot, phase>>

SInit ==
  /\ slot = [t \in Target |-> "free"]
  /\ phase = [l \in Lease |-> "new"]

(* Some waiting leases give up. *)
GivingUp(S) == \A l \in S : phase[l] = "waiting"

Ask(l) ==
  /\ phase[l] = "new"
  /\ phase' = [phase EXCEPT ![l] = "waiting"]
  /\ UNCHANGED slot

GiveUp(S) ==
  /\ GivingUp(S)
  /\ phase' = [x \in Lease |-> IF x \in S THEN "done" ELSE phase[x]]
  /\ UNCHANGED slot

(* A free target is handed to a new or a waiting lease; waiting leases     *)
(* found abandoned on the way give up.                                     *)
Hand(l, t, S) ==
  /\ phase[l] \in {"new", "waiting"} /\ slot[t] = "free"
  /\ GivingUp(S) /\ l \notin S
  /\ slot' = [slot EXCEPT ![t] = l]
  /\ phase' = [x \in Lease |-> IF x \in S THEN "done"
                               ELSE IF x = l THEN "holding" ELSE phase[x]]

(* The holder's lease ends; the target is free, or withheld first. *)
HandBack(l, t, after) ==
  /\ slot[t] = l /\ phase[l] = "holding"
  /\ slot' = [slot EXCEPT ![t] = after]
  /\ phase' = [phase EXCEPT ![l] = "done"]

(* A free target is withheld (for a reset or a reservation), possibly on   *)
(* behalf of a lease that is or starts waiting for it.                     *)
Withhold(t, S, A) ==
  /\ slot[t] = "free" /\ GivingUp(S)
  /\ \A l \in A : phase[l] = "new"
  /\ slot' = [slot EXCEPT ![t] = "withheld"]
  /\ phase' = [x \in Lease |-> IF x \in S THEN "done"
                               ELSE IF x \in A THEN "waiting" ELSE phase[x]]

Restore(t) ==
  /\ slot[t] = "withheld"
  /\ slot' = [slot EXCEPT ![t] = "free"]
  /\ UNCHANGED phase

SNext ==
  \/ \E l \in Lease : Ask(l)
  \/ \E S \in SUBSET Lease : GiveUp(S)
  \/ \E l \in Lease, t \in Target, S \in SUBSET Lease : Hand(l, t, S)
  \/ \E l \in Lease, t \in Target, after \in {"free", "withheld"} :
       HandBack(l, t, after)
  \/ \E t \in Target, S \in SUBSET Lease, A \in SUBSET Lease : Withhold(t, S, A)
  \/ \E t \in Target : Restore(t)

SSpec == SInit /\ [][SNext]_svars
=============================================================================
