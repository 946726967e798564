--------------------------- MODULE LeaseRefinement ---------------------------
(***************************************************************************)
(* The lease manager implements the target service of TargetService, and,  *)
(* in the setting where it is claimed, leaves no target idle.              *)
(***************************************************************************)
EXTENDS LeaseProofs

(* The refinement mapping, value by value. *)
Phase(s) == IF s = "unborn" THEN "new"
            ELSE IF s = "queued" THEN "waiting"
            ELSE IF s = "active" THEN "holding" ELSE "done"

Slot(v) == IF v = resetSentinel \/ v = reserveSentinel THEN "withheld" ELSE v

LEMMA Mapping ==
  /\ phaseOf = [l \in Lease |-> Phase(state[l])]
  /\ slotOf = [t \in Target |-> Slot(byTarget[t])]
  /\ phaseOf' = [l \in Lease |-> Phase(state'[l])]
  /\ slotOf' = [t \in Target |-> Slot(byTarget'[t])]
<1>1. ASSUME NEW l \in Lease
      PROVE  /\ phaseOf[l] = Phase(state[l])
             /\ phaseOf'[l] = Phase(state'[l])
  BY DEF phaseOf, Phase
<1> QED
  BY <1>1 DEF phaseOf, slotOf, Slot

(* One target changes hands. *)
LEMMA SlotChange ==
  ASSUME TypeOK, NEW t \in Target, NEW v, byTarget' = [byTarget EXCEPT ![t] = v]
  PROVE  slotOf' = [slotOf EXCEPT ![t] = Slot(v)]
  BY Mapping DEF TypeOK

(* One lease changes its state. *)
LEMMA PhaseChange ==
  ASSUME TypeOK, NEW l \in Lease, NEW s, state' = [state EXCEPT ![l] = s]
  PROVE  phaseOf' = [phaseOf EXCEPT ![l] = Phase(s)]
  BY Mapping DEF TypeOK

LEMMA Slots ==
  /\ Slot(free) = "free"
  /\ Slot(resetSentinel) = "withheld" /\ Slot(reserveSentinel) = "withheld"
  /\ \A l \in Lease : Slot(l) = l
  BY LeaseAssumption DEF Slot, free, resetSentinel, reserveSentinel

(* Every step of the manager is a step of the service or leaves it alone. *)
LEMMA StepService == OwnInv /\ [Next]_vars => [Service!SNext]_Service!svars
<1> SUFFICES ASSUME OwnInv, [Next]_vars
             PROVE  Service!SNext \/ UNCHANGED <<slotOf, phaseOf>>
  BY DEF Service!svars
<1> USE Mapping, Slots
    DEF OwnInv, leaseVars, queueVars, targetVars, jobVars, Service!GivingUp
<1>1. ASSUME PromoteNone
      PROVE  Service!SNext
  <2> DEFINE S == IF promoting \in known
                  THEN SilentIn(UNION {queue[k] : k \in Key}, promoting) ELSE {}
  <2>1. \A x \in S : x \in Lease /\ state[x] = "queued"
    BY SilentAreQueued
  <2>2. state' = [l \in Lease |-> IF l \in S THEN "expired" ELSE state[l]]
          /\ byTarget' = byTarget
    BY <1>1 DEF PromoteNone
  <2> HIDE DEF S
  <2>3. Service!GiveUp(S)
    BY <2>1, <2>2 DEF Service!GiveUp, Phase
  <2> QED
    BY <2>1, <2>3 DEF Service!SNext
<1>2. ASSUME NEW l \in Lease, NEW K \in SUBSET Key, PromoteErase(l, K)
      PROVE  Service!SNext
  <2> DEFINE S == SilentIn(WalkedOver(l, K), promoting)
             t == promoting
  <2>1. key[l] \in Key /\ \A x \in S : x \in Lease /\ state[x] = "queued"
    BY <1>2, SilentAreQueued DEF PromoteErase, QueuedHaveKeys
  <2>2. state' = [x \in Lease |-> IF x \in S THEN "expired" ELSE state[x]]
          /\ byTarget' = [byTarget EXCEPT ![t] = resetSentinel]
    BY <1>2 DEF PromoteErase, StartReset
  <2>3. t \in Target /\ byTarget[t] = free
    BY <1>2 DEF PromoteErase, LockOK, TypeOK
  <2> HIDE DEF S, t
  <2>4. slotOf[t] = "free" /\ slotOf' = [slotOf EXCEPT ![t] = "withheld"]
    <3>1. slotOf' = [slotOf EXCEPT ![t] = Slot(resetSentinel)]
      BY <2>2, <2>3, SlotChange
    <3> QED
      BY <2>2, <2>3, <3>1
  <2>5. phaseOf' = [x \in Lease |-> IF x \in S THEN "done" ELSE phaseOf[x]]
    BY <2>2 DEF Phase
  <2>6. \A x \in S : phaseOf[x] = "waiting"
    BY <2>1 DEF Phase
  <2>7. Service!Withhold(t, S, {})
    BY <2>4, <2>5, <2>6 DEF Service!Withhold
  <2> QED
    BY <2>1, <2>3, <2>7 DEF Service!SNext
<1>3. ASSUME NEW l \in Lease, NEW K \in SUBSET Key, PromoteGrant(l, K)
      PROVE  Service!SNext
  <2> DEFINE S == SilentIn(WalkedOver(l, K), promoting)
             t == promoting
  <2>1. key[l] \in Key /\ \A x \in S : x \in Lease /\ state[x] = "queued"
    BY <1>3, SilentAreQueued DEF PromoteGrant, QueuedHaveKeys
  <2>2. /\ state' = [x \in Lease |-> IF x \in S THEN "expired"
                                     ELSE IF x = l THEN "active" ELSE state[x]]
        /\ byTarget' = [byTarget EXCEPT ![t] = l]
        /\ state[l] = "queued" /\ l \notin S
    BY <1>3 DEF PromoteGrant, Assign, First, Stops, SilentIn
  <2>3. t \in Target /\ byTarget[t] = free
    BY <1>3 DEF PromoteGrant, LockOK, TypeOK
  <2> HIDE DEF S, t
  <2>4. slotOf[t] = "free" /\ slotOf' = [slotOf EXCEPT ![t] = l]
    <3>1. slotOf' = [slotOf EXCEPT ![t] = Slot(l)]
      BY <2>2, <2>3, SlotChange
    <3> QED
      BY <2>2, <2>3, <3>1
  <2>5. phaseOf' = [x \in Lease |-> IF x \in S THEN "done"
                                     ELSE IF x = l THEN "holding" ELSE phaseOf[x]]
    BY <2>2 DEF Phase
  <2>6. phaseOf[l] = "waiting" /\ \A x \in S : phaseOf[x] = "waiting"
    BY <2>1, <2>2 DEF Phase
  <2>7. Service!Hand(l, t, S)
    BY <2>2, <2>4, <2>5, <2>6 DEF Service!Hand
  <2> QED
    BY <2>1, <2>3, <2>7 DEF Service!SNext
<1>4. ASSUME NEW l \in Lease, state[l] = "queued", NEW s \in Terminal,
             state' = [state EXCEPT ![l] = s], byTarget' = byTarget
      PROVE  Service!SNext
  <2>1. Service!GiveUp({l})
    BY <1>4 DEF Service!GiveUp, Phase, Terminal, TypeOK
  <2> QED
    BY <2>1 DEF Service!SNext
<1>5. ASSUME NEW l \in Lease, state[l] = "active", NEW s \in Terminal,
             state' = [state EXCEPT ![l] = s],
             NEW v \in {free, resetSentinel},
             byTarget' = [byTarget EXCEPT ![target[l]] = v]
      PROVE  Service!SNext
  <2>1. target[l] \in Target /\ byTarget[target[l]] = l
    BY <1>5 DEF HoldersHaveTargets, Ownership
  <2>2. /\ slotOf[target[l]] = l
        /\ slotOf' = [slotOf EXCEPT ![target[l]] = Slot(v)]
    BY <1>5, <2>1, SlotChange
  <2>3. phaseOf[l] = "holding" /\ phaseOf' = [phaseOf EXCEPT ![l] = "done"]
    BY <1>5, PhaseChange DEF Phase, Terminal
  <2>4. Service!HandBack(l, target[l], Slot(v))
    BY <2>2, <2>3 DEF Service!HandBack
  <2>5. Slot(v) \in {"free", "withheld"}
    OBVIOUS
  <2> QED
    BY <2>1, <2>4, <2>5 DEF Service!SNext
<1>6. ASSUME NEW t \in Target, byTarget[t] \in {resetSentinel, reserveSentinel},
             byTarget' = [byTarget EXCEPT ![t] = free], state' = state
      PROVE  Service!SNext
  <2>1. Service!Restore(t)
    BY <1>6, SlotChange DEF Service!Restore
  <2> QED
    BY <2>1 DEF Service!SNext
<1>7. ASSUME NEW l \in Lease, ExpireQueued(l)
      PROVE  Service!SNext
  BY <1>7, <1>4 DEF ExpireQueued, EndQueued, Abandoned, Terminal
<1>8. ASSUME NEW l \in Lease, ExpireActive(l)
      PROVE  Service!SNext
  BY <1>8, <1>5 DEF ExpireActive, EndActive, StartReset, Overdue, Terminal
<1>9. ASSUME NEW l \in Lease, Collect(l)
      PROVE  UNCHANGED <<slotOf, phaseOf>>
  BY <1>9 DEF Collect, Phase, Terminal, TypeOK
<1>10. ASSUME NEW t \in Target, AcquireGrant(t)
      PROVE  Service!SNext
  <2>1. /\ op.l \in Lease /\ state[op.l] = "unborn" /\ byTarget[t] = free
        /\ state' = [state EXCEPT ![op.l] = "active"]
        /\ byTarget' = [byTarget EXCEPT ![t] = op.l]
    BY <1>10 DEF AcquireGrant, AcquireBody, Body, AcquireFree, LockOK, Born, Assign
  <2>2. slotOf[t] = "free" /\ slotOf' = [slotOf EXCEPT ![t] = op.l]
    <3>1. slotOf' = [slotOf EXCEPT ![t] = Slot(op.l)]
      BY <2>1, SlotChange
    <3> QED
      BY <2>1, <3>1
  <2>3. /\ phaseOf[op.l] = "new"
        /\ phaseOf' = [x \in Lease |-> IF x = op.l THEN "holding" ELSE phaseOf[x]]
    BY <2>1 DEF Phase, TypeOK
  <2>4. Service!Hand(op.l, t, {})
    BY <2>2, <2>3 DEF Service!Hand
  <2> QED
    BY <2>1, <2>4 DEF Service!SNext
<1>11. ASSUME NEW t \in Target, AcquireErase(t)
      PROVE  Service!SNext
  <2>1. /\ op.l \in Lease /\ state[op.l] = "unborn" /\ byTarget[t] = free
        /\ state' = [state EXCEPT ![op.l] = "queued"]
        /\ byTarget' = [byTarget EXCEPT ![t] = resetSentinel]
    BY <1>11 DEF AcquireErase, AcquireBody, Body, AcquireFree, LockOK, Enqueue,
         Born, StartReset
  <2>2. slotOf[t] = "free" /\ slotOf' = [slotOf EXCEPT ![t] = "withheld"]
    <3>1. slotOf' = [slotOf EXCEPT ![t] = Slot(resetSentinel)]
      BY <2>1, SlotChange
    <3> QED
      BY <2>1, <3>1
  <2>3. /\ phaseOf[op.l] = "new"
        /\ phaseOf' = [x \in Lease |-> IF x = op.l THEN "waiting" ELSE phaseOf[x]]
    BY <2>1 DEF Phase, TypeOK
  <2>4. Service!Withhold(t, {}, {op.l})
    BY <2>2, <2>3 DEF Service!Withhold
  <2> QED
    BY <2>1, <2>4 DEF Service!SNext
<1>12. ASSUME AcquireQueue
      PROVE  Service!SNext
  <2>1. /\ op.l \in Lease /\ state[op.l] = "unborn" /\ byTarget' = byTarget
        /\ state' = [state EXCEPT ![op.l] = "queued"]
    BY <1>12 DEF AcquireQueue, AcquireBody, Body, LockOK, Enqueue, Born
  <2>2. Service!Ask(op.l)
    BY <2>1, PhaseChange DEF Service!Ask, Phase
  <2> QED
    BY <2>1, <2>2 DEF Service!SNext
<1>13. ASSUME ReleaseActive
      PROVE  Service!SNext
  BY <1>13, <1>5 DEF ReleaseActive, Body, LockOK, EndActive, StartReset, Terminal
<1>14. ASSUME ReleaseQueued
      PROVE  Service!SNext
  BY <1>14, <1>4 DEF ReleaseQueued, Body, LockOK, EndQueued, Terminal
<1>15. ASSUME NEW t \in Target, FinishReset(t)
      PROVE  Service!SNext \/ UNCHANGED <<slotOf, phaseOf>>
  BY <1>15, <1>6 DEF FinishReset, HeldForReset
<1>16. ASSUME NEW t \in Target, Reserve(t)
      PROVE  Service!SNext \/ UNCHANGED <<slotOf, phaseOf>>
  <2>1. slotOf' = [slotOf EXCEPT ![t] = "withheld"] /\ phaseOf' = phaseOf
    BY <1>16, SlotChange DEF Reserve
  <2>2. CASE byTarget[t] = free
    <3>1. Service!Withhold(t, {}, {})
      BY <2>1, <2>2 DEF Service!Withhold, phaseOf
    <3> QED
      BY <3>1 DEF Service!SNext
  <2>3. CASE byTarget[t] # free
    BY <1>16, <2>1, <2>3 DEF Reserve, Reservable
  <2> QED
    BY <2>2, <2>3
<1>17. ASSUME NEW t \in Target, NEW broken \in BOOLEAN, Quarantine(t, broken)
      PROVE  UNCHANGED <<slotOf, phaseOf>>
  BY <1>17, SlotChange DEF Quarantine
<1>18. ASSUME NEW t \in Target, Unreserve(t)
      PROVE  Service!SNext
  BY <1>18, <1>6 DEF Unreserve
<1>19. ASSUME state' = state, byTarget' = byTarget
      PROVE  UNCHANGED <<slotOf, phaseOf>>
  BY <1>19
<1>20. ASSUME \/ UNCHANGED coreVars
              \/ \E t \in Target : MarkClean(t)
              \/ \E l \in Lease, t \in Target, ok \in BOOLEAN : ResetDone(l, t, ok)
       PROVE  UNCHANGED <<slotOf, phaseOf>>
  BY <1>20, <1>19 DEF coreVars, MarkClean, ResetDone
<1> HIDE Mapping, Slots
<1> QED
  BY StepCases, <1>1, <1>2, <1>3, <1>7, <1>8, <1>9, <1>10, <1>11, <1>12, <1>13,
     <1>14, <1>15, <1>16, <1>17, <1>18, <1>20
  DEF CoreStep

(* The lease manager implements the target service: one holder per target, *)
(* only free targets handed out, every lease waits, holds and ends once    *)
(* (byTarget and State in every method of Manager).                        *)
THEOREM ManagerImplementsService == Spec => ImplementsService
<1>1. Init => Service!SInit
  BY Mapping, Slots DEF Init, Service!SInit, Phase
<1> QED
  BY <1>1, StepService, OwnInvariant, PTL DEF Spec, ImplementsService, Service!SSpec

-----------------------------------------------------------------------------
(* No target idles while a lease that could use it waits.  Inside a method *)
(* a free target with a taker is about to be offered to the queues, by     *)
(* promoteLocked or by the loop of Acquire.  Silence plays no part in the  *)
(* inductive invariant: a silent lease that could use the target ends with *)
(* the walk.                                                               *)
NoErases == op.r # "erase" /\ \A l \in Lease : reset[l] # "erase"

OffersInAcquire == offer # {} => op.kind = "acquire"

NoIdleTarget ==
  \A l \in Lease, t \in known :
    state[l] = "queued" /\ CanTake(l, t) /\ byTarget[t] = free
      => t \in offer \/ t = promoting

WorkInv == NoErases /\ OffersInAcquire /\ NoIdleTarget

LEMMA OpResets ==
  /\ Idle.r = "none" /\ Promotion.r = "none"
  /\ \A l, kind : On(kind, l).r = "none"
  BY DEF Idle, Promotion, On

(* A step that brings no new waiting lease and frees or forgets no target  *)
(* without offering it.                                                    *)
LEMMA StillBusy ==
  ASSUME NoIdleTarget, known' = known,
         \A l \in Lease : state'[l] = "queued" =>
           state[l] = "queued" /\ key'[l] = key[l] /\ reset'[l] = reset[l],
         \A t \in known : byTarget'[t] = free /\ t \notin offer' /\ t # promoting'
           => byTarget[t] = free /\ t \notin offer /\ t # promoting
  PROVE  NoIdleTarget'
  BY DEF NoIdleTarget, CanTake, Suits

(* A target just freed is the one that is promoted next. *)
LEMMA FreedIsOffered ==
  ASSUME TypeOK, NoIdleTarget, known' = known, NEW t \in Target,
         byTarget' = [byTarget EXCEPT ![t] = free], promoting' = t,
         promoting = NoTarget, offer' = offer,
         \A l \in Lease : state'[l] = "queued" =>
           state[l] = "queued" /\ key'[l] = key[l] /\ reset'[l] = reset[l]
  PROVE  NoIdleTarget'
  BY StillBusy, LeaseAssumption DEF TypeOK

LEMMA StepNoErases ==
  ASSUME "erase" \notin Asked, OwnInv, NoErases, [Next]_vars
  PROVE  NoErases'
<1> USE OpResets DEF OwnInv, TypeOK, NoErases, leaseVars, lockVars
<1>1. CASE Promote
  BY <1>1 DEF Promote, PromoteNone, PromoteErase, PromoteGrant, EndPromotion
<1>2. CASE Expire
  <2>1. ASSUME NEW l \in Lease, ExpireActive(l)
        PROVE  NoErases'
    BY <2>1 DEF ExpireActive, EndActive
  <2> QED
    BY <1>2, <2>1 DEF Expire, ExpireQueued, OpenGrace, Collect
<1>3. CASE Sweep \/ SweepDone
  BY <1>3 DEF Sweep, SweepDone, Lock
<1>4. CASE AcquireStep
  <2>1. ASSUME NEW l \in Lease, NEW k \in Key, NEW r \in Asked, NEW listing \in Listings,
               Acquire(l, k, r, listing)
        PROVE  NoErases'
    BY <2>1 DEF Acquire, Lock
  <2>2. ASSUME NEW t \in Target, AcquireOffer(t) \/ AcquireGrant(t) \/ AcquireErase(t)
        PROVE  NoErases'
    BY <2>2 DEF AcquireOffer, AcquireGrant, AcquireErase, Enqueue, Born
  <2>3. CASE AcquireNoMatch \/ AcquireQueue
    BY <2>3 DEF AcquireNoMatch, AcquireQueue, Enqueue, Born
  <2> QED
    BY <1>4, <2>1, <2>2, <2>3 DEF AcquireStep
<1>5. CASE CallStep
  <2>1. ASSUME NEW l \in Lease,
               \E kind \in {"get", "renew", "pause", "resume", "release"} : Call(kind, l)
        PROVE  NoErases'
    BY <2>1 DEF Call, Lock
  <2>2. CASE GetBody \/ RenewBody \/ PauseBody \/ ResumeBody
    BY <2>2 DEF GetBody, RenewBody, PauseBody, ResumeBody
  <2>3. CASE ReleaseActive \/ ReleaseQueued \/ ReleaseTooLate
    BY <2>3 DEF ReleaseActive, ReleaseQueued, ReleaseTooLate, EndActive
  <2> QED
    BY <1>5, <2>1, <2>2, <2>3 DEF CallStep
<1>6. CASE ResetStep
  BY <1>6 DEF ResetStep, ResetDone
<1>7. CASE TargetStep
  BY <1>7 DEF TargetStep, ClearQuarantine, FinishReset, Reserve, Quarantine,
       Unreserve, MarkClean
<1>8. CASE \E l \in Lease : Tick(l)
  BY <1>8 DEF Tick
<1>9. CASE UNCHANGED vars
  BY <1>9 DEF vars
<1> QED
  BY <1>1, <1>2, <1>3, <1>4, <1>5, <1>6, <1>7, <1>8, <1>9 DEF Next

LEMMA StepOffers ==
  ASSUME OwnInv, OffersInAcquire, [Next]_vars
  PROVE  OffersInAcquire'
<1> USE OpFields DEF OffersInAcquire, lockVars
<1>1. CASE Promote
  BY <1>1 DEF Promote, PromoteNone, PromoteErase, PromoteGrant, EndPromotion
<1>2. CASE Expire
  <2>1. ASSUME NEW l \in Lease, ExpireActive(l)
        PROVE  OffersInAcquire'
    BY <2>1 DEF ExpireActive, EndActive, Expiring
  <2> QED
    BY <1>2, <2>1 DEF Expire, ExpireQueued, OpenGrace, Collect
<1>3. CASE Sweep \/ SweepDone
  BY <1>3 DEF Sweep, SweepDone, Lock, Body
<1>4. CASE AcquireStep
  <2>1. ASSUME NEW l \in Lease, NEW k \in Key, NEW r \in Asked, NEW listing \in Listings,
               Acquire(l, k, r, listing)
        PROVE  OffersInAcquire'
    BY <2>1 DEF Acquire, Lock
  <2>2. ASSUME NEW t \in Target, AcquireOffer(t) \/ AcquireGrant(t) \/ AcquireErase(t)
        PROVE  OffersInAcquire'
    BY <2>2 DEF AcquireOffer, AcquireGrant, AcquireErase, AcquireBody, Body
  <2>3. CASE AcquireNoMatch \/ AcquireQueue
    BY <2>3 DEF AcquireNoMatch, AcquireQueue, AcquireBody
  <2> QED
    BY <1>4, <2>1, <2>2, <2>3 DEF AcquireStep
<1>5. CASE CallStep
  <2>1. ASSUME NEW l \in Lease,
               \E kind \in {"get", "renew", "pause", "resume", "release"} : Call(kind, l)
        PROVE  OffersInAcquire'
    BY <2>1 DEF Call, Lock
  <2>2. CASE GetBody \/ RenewBody \/ PauseBody \/ ResumeBody
    BY <2>2 DEF GetBody, RenewBody, PauseBody, ResumeBody, Body
  <2>3. CASE ReleaseActive \/ ReleaseQueued \/ ReleaseTooLate
    BY <2>3 DEF ReleaseActive, ReleaseQueued, ReleaseTooLate, Body
  <2> QED
    BY <1>5, <2>1, <2>2, <2>3 DEF CallStep
<1>6. CASE ResetStep
  BY <1>6 DEF ResetStep, ResetDone
<1>7. CASE TargetStep
  BY <1>7 DEF TargetStep, ClearQuarantine, FinishReset, Reserve, Quarantine,
       Unreserve, MarkClean
<1>8. CASE \E l \in Lease : Tick(l)
  BY <1>8 DEF Tick
<1>9. CASE UNCHANGED vars
  BY <1>9 DEF vars
<1> QED
  BY <1>1, <1>2, <1>3, <1>4, <1>5, <1>6, <1>7, <1>8, <1>9 DEF Next

LEMMA StepNoIdle ==
  ASSUME Device = {}, OwnInv, WorkInv, [Next]_vars
  PROVE  NoIdleTarget'
<1> USE DEF OwnInv, WorkInv, leaseVars, queueVars, targetVars, jobVars,
            lockVars, histVars
<1>0. op = Idle => promoting = NoTarget
  BY OpFields DEF LockOK
<1>1. ASSUME PromoteNone
      PROVE  NoIdleTarget'
  <2> SUFFICES ASSUME NEW l \in Lease, NEW t \in known, state'[l] = "queued",
                      CanTake(l, t)', byTarget'[t] = free
               PROVE  t \in offer' \/ t = promoting'
    BY <1>1 DEF PromoteNone, NoIdleTarget
  <2>1. state[l] = "queued" /\ CanTake(l, t) /\ byTarget[t] = free
    BY <1>1 DEF PromoteNone, CanTake, Suits
  <2>2. CASE t # promoting
    BY <1>1, <2>1, <2>2 DEF PromoteNone, NoIdleTarget
  <2>3. CASE t = promoting
    <3>1. key[l] \in Key /\ l \in queue[key[l]]
      BY <2>1 DEF QueuedHaveKeys, QueueMembers
    <3>2. ~Stops(l, t)
      BY <1>1, <2>3, <3>1 DEF PromoteNone, Dry
    <3>3. Silent(l)
      BY <2>1, <3>2 DEF Stops, NeedsErase, NoErases
    <3>4. l \in SilentIn(UNION {queue[k] : k \in Key}, t)
      BY <2>1, <3>1, <3>3 DEF SilentIn
    <3> QED
      BY <1>1, <2>3, <3>4 DEF PromoteNone
  <2> QED
    BY <2>2, <2>3
<1>2. ASSUME NEW l \in Lease, NEW K \in SUBSET Key,
             PromoteErase(l, K) \/ PromoteGrant(l, K)
      PROVE  NoIdleTarget'
  <2>1. byTarget'[promoting] # free
    BY <1>2, LeaseAssumption DEF PromoteErase, PromoteGrant, StartReset, Assign,
         TypeOK, resetSentinel, free
  <2>2. \A t \in Target : t # promoting => byTarget'[t] = byTarget[t]
    BY <1>2 DEF PromoteErase, PromoteGrant, StartReset, Assign, TypeOK
  <2> QED
    BY <1>2, <2>1, <2>2, StillBusy DEF PromoteErase, PromoteGrant, TypeOK
<1>3. ASSUME NEW l \in Lease, ExpireActive(l)
      PROVE  NoIdleTarget'
  <2>1. target[l] \in Target /\ promoting = NoTarget
    BY <1>3 DEF ExpireActive, Overdue, HoldersHaveTargets, Expiring
  <2>2. \A x \in Lease : state'[x] = "queued" => state[x] = "queued"
    BY <1>3 DEF ExpireActive, EndActive, TypeOK
  <2>3. CASE NeedsReset(l)
    BY <1>3, <2>1, <2>2, <2>3, StillBusy
    DEF ExpireActive, EndActive, StartReset, TypeOK, resetSentinel, free
  <2>4. CASE ~NeedsReset(l)
    BY <1>3, <2>1, <2>2, <2>4, FreedIsOffered DEF ExpireActive, EndActive
  <2> QED
    BY <2>3, <2>4
<1>4. ASSUME NEW l \in Lease, ExpireQueued(l) \/ OpenGrace(l) \/ Collect(l)
      PROVE  NoIdleTarget'
  <2>1. \A x \in Lease : state'[x] = "queued" => state[x] = "queued"
    BY <1>4 DEF ExpireQueued, EndQueued, OpenGrace, Collect, TypeOK
  <2> QED
    BY <1>4, <2>1, StillBusy DEF ExpireQueued, OpenGrace, Collect
<1>5. ASSUME NEW l \in Lease, NEW k \in Key, NEW r \in Asked, NEW listing \in Listings,
             Acquire(l, k, r, listing)
      PROVE  NoIdleTarget'
  BY <1>5 DEF Acquire, NoIdleTarget
<1>6. ASSUME NEW t \in Target, AcquireOffer(t)
      PROVE  NoIdleTarget'
  BY <1>6, StillBusy, LeaseAssumption DEF AcquireOffer, Offered, Body, TypeOK
<1>7. ASSUME NEW t \in Target, AcquireGrant(t)
      PROVE  NoIdleTarget'
  <2>1. \A x \in Lease : state'[x] = "queued" =>
          state[x] = "queued" /\ key'[x] = key[x] /\ reset'[x] = reset[x]
    BY <1>7 DEF AcquireGrant, AcquireBody, Body, LockOK, Born, TypeOK
  <2>2. \A x \in known : byTarget'[x] = free => byTarget[x] = free
    BY <1>7, LeaseAssumption DEF AcquireGrant, AcquireBody, Body, LockOK, Assign, TypeOK
  <2> QED
    BY <1>7, <2>1, <2>2, StillBusy DEF AcquireGrant
<1>8. ASSUME NEW t \in Target, AcquireErase(t)
      PROVE  NoIdleTarget'
  BY <1>8 DEF AcquireErase, NeedsErase, NoErases
<1>9. ASSUME AcquireQueue
      PROVE  NoIdleTarget'
  <2> SUFFICES ASSUME NEW l \in Lease, NEW t \in known, state'[l] = "queued",
                      CanTake(l, t)', byTarget'[t] = free
               PROVE  t \in offer' \/ t = promoting'
    BY <1>9 DEF AcquireQueue, NoIdleTarget
  <2>1. /\ op.l \in Lease /\ op.k \in Key /\ state[op.l] = "unborn"
        /\ offer = {} /\ promoting = NoTarget /\ t \in Target /\ byTarget[t] = free
    BY <1>9 DEF AcquireQueue, AcquireBody, Body, LockOK, TypeOK
  <2>2. t # promoting /\ t \notin offer
    BY <2>1, LeaseAssumption
  <2>3. CASE l # op.l
    <3>1. state[l] = "queued" /\ CanTake(l, t)
      BY <1>9, <2>1, <2>3 DEF AcquireQueue, Enqueue, Born, CanTake, Suits, TypeOK
    <3> QED
      BY <2>1, <2>2, <3>1 DEF NoIdleTarget
  <2>4. CASE l = op.l
    <3>1. Suits(op.k, op.r, t) /\ t \in Matches[op.k]
      BY <1>9, <2>1, <2>4 DEF AcquireQueue, Enqueue, Born, CanTake, Suits, TypeOK
    <3>2. queue[op.k] # {}
      BY <1>9, <2>1, <3>1 DEF AcquireQueue, AcquireFree, AcquireMatching, NoErases
    <3>3. PICK x \in queue[op.k] : TRUE
      BY <3>2
    <3>4. x \in Lease /\ state[x] = "queued" /\ key[x] = op.k
      BY <2>1, <3>3 DEF TypeOK, QueueMembers
    <3>5. CanTake(x, t)
      BY <3>1, <3>4 DEF CanTake, Suits
    <3> QED
      BY <2>1, <2>2, <3>4, <3>5 DEF NoIdleTarget
  <2> QED
    BY <2>3, <2>4
<1>10. ASSUME ReleaseActive
      PROVE  NoIdleTarget'
  <2>1. op.l \in Lease /\ target[op.l] \in Target /\ promoting = NoTarget
    BY <1>10 DEF ReleaseActive, Body, LockOK, HoldersHaveTargets
  <2>2. \A x \in Lease : state'[x] = "queued" => state[x] = "queued"
    BY <1>10 DEF ReleaseActive, EndActive, TypeOK
  <2>3. CASE NeedsReset(op.l)
    BY <1>10, <2>1, <2>2, <2>3, StillBusy
    DEF ReleaseActive, EndActive, StartReset, TypeOK, resetSentinel, free
  <2>4. CASE ~NeedsReset(op.l)
    BY <1>10, <2>1, <2>2, <2>4, FreedIsOffered DEF ReleaseActive, EndActive
  <2> QED
    BY <2>3, <2>4
<1>11. ASSUME ReleaseQueued
      PROVE  NoIdleTarget'
  <2>1. \A x \in Lease : state'[x] = "queued" => state[x] = "queued"
    BY <1>11 DEF ReleaseQueued, EndQueued, TypeOK
  <2> QED
    BY <1>11, <2>1, StillBusy DEF ReleaseQueued
<1>12. ASSUME NEW t \in Target, FinishReset(t) \/ Unreserve(t)
      PROVE  NoIdleTarget'
  <2>1. CASE byTarget' = [byTarget EXCEPT ![t] = free] /\ promoting' = t
    BY <1>12, <1>0, <2>1, FreedIsOffered DEF FinishReset, Unreserve
  <2>2. CASE byTarget' = byTarget /\ promoting' = NoTarget
    BY <1>12, <1>0, <2>2, StillBusy DEF FinishReset, Unreserve
  <2> QED
    BY <1>12, <2>1, <2>2 DEF FinishReset, Unreserve
<1>13. ASSUME NEW t \in Target, NEW broken \in BOOLEAN,
              Reserve(t) \/ Quarantine(t, broken)
      PROVE  NoIdleTarget'
  <2>1. \A x \in Target : byTarget'[x] = free => byTarget[x] = free
    BY <1>13 DEF Reserve, Quarantine, TypeOK, resetSentinel, reserveSentinel, free
  <2> QED
    BY <1>13, <2>1, StillBusy DEF Reserve, Quarantine, TypeOK
<1>14. ASSUME UNCHANGED <<state, key, reset, byTarget, known, offer, promoting>>
      PROVE  NoIdleTarget'
  BY <1>14, StillBusy
<1>15. ASSUME CallStep, ~ReleaseActive, ~ReleaseQueued
      PROVE  UNCHANGED <<state, key, reset, byTarget, known, offer, promoting>>
  <2>1. CASE \E l \in Lease, kind \in {"get", "renew", "pause", "resume", "release"} :
               Call(kind, l)
    BY <2>1 DEF Call
  <2>2. CASE GetBody \/ RenewBody \/ PauseBody \/ ResumeBody \/ ReleaseTooLate
    BY <2>2 DEF GetBody, RenewBody, PauseBody, ResumeBody, ReleaseTooLate
  <2> QED
    BY <1>15, <2>1, <2>2 DEF CallStep
<1>16. ASSUME \/ Sweep \/ SweepDone \/ AcquireNoMatch \/ ResetStep
              \/ \E t \in Target : ClearQuarantine(t) \/ MarkClean(t)
              \/ \E l \in Lease : Tick(l)
              \/ UNCHANGED vars
      PROVE  UNCHANGED <<state, key, reset, byTarget, known, offer, promoting>>
  BY <1>16 DEF Sweep, SweepDone, AcquireNoMatch, ResetStep, ResetDone,
       ClearQuarantine, MarkClean, Tick, vars
<1> QED
  BY <1>1, <1>2, <1>3, <1>4, <1>5, <1>6, <1>7, <1>8, <1>9, <1>10, <1>11, <1>12,
     <1>13, <1>14, <1>15, <1>16
  DEF Next, Promote, Expire, AcquireStep, CallStep, TargetStep

(* Between two methods a free target the manager knows of has no willing   *)
(* taker, while nobody asks for reset "erase" and no target is a device    *)
(* (promoteLocked after every release; Acquire's offer of free targets).   *)
THEOREM NoTargetIdles ==
  ASSUME "erase" \notin Asked, Device = {}
  PROVE  Spec => []WorkConserving
<1>1. Init => WorkInv
  BY DEF Init, WorkInv, NoErases, OffersInAcquire, NoIdleTarget, Idle
<1>2. OwnInv /\ WorkInv /\ [Next]_vars => WorkInv'
  BY StepNoErases, StepOffers, StepNoIdle DEF WorkInv
<1>3. OwnInv /\ WorkInv => WorkConserving
  BY OpFields, LeaseAssumption
  DEF OwnInv, TypeOK, LockOK, WorkInv, OffersInAcquire, NoIdleTarget, WorkConserving
<1> QED
  BY <1>1, <1>2, <1>3, OwnInvariant, PTL DEF Spec
=============================================================================
