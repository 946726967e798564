----------------------------- MODULE LeaseProofs -----------------------------
(***************************************************************************)
(* Proofs about the lease manager, for any number of leases, targets and   *)
(* request keys, any registry listings, with or without a grace window,    *)
(* and whatever operators and the pool do: who owns a target, and what     *)
(* that makes possible, the order of the queues, the resets, clean grants, *)
(* fairness among the waiting, and the refinement of the abstract target   *)
(* service.                                                                *)
(***************************************************************************)
EXTENDS Lease, TLAPS

(* TypeOK is inductive once the mutex's holder is known to carry its       *)
(* arguments: the body of a method works on a lease (and, for Acquire, a   *)
(* key), and only an active lease, which has a target, is ended as one.    *)
LockOK ==
  /\ op.kind \in {"acquire", "get", "renew", "pause", "resume", "release"}
       => op.l \in Lease
  /\ op.kind = "acquire" => op.k \in Key /\ state[op.l] = "unborn"
  /\ promoting # NoTarget => byTarget[promoting] = free /\ op.kind # "idle"

HoldersHaveTargets == \A l \in Lease : state[l] = "active" => target[l] \in Target

(* The queues hold exactly the queued leases, each under its own key: the  *)
(* first conjunct of QueueExact.                                           *)
QueueMembers ==
  \A l \in Lease, k \in Key : l \in queue[k] <=> state[l] = "queued" /\ key[l] = k

QueuedHaveKeys == \A l \in Lease : state[l] = "queued" => key[l] \in Key

OwnInv == TypeOK /\ LockOK /\ HoldersHaveTargets /\ QueueMembers
            /\ QueuedHaveKeys /\ Ownership

LEMMA InitOwn == Init => OwnInv
<1> SUFFICES ASSUME Init PROVE OwnInv
  OBVIOUS
<1> USE LeaseAssumption DEF Init
<1>1. TypeOK
  <2>1. op \in Op
    BY DEF Idle, Op, Resets, NoLease, NoKey
  <2> QED
    BY <2>1 DEF TypeOK, States, Live, Terminal, Resets
<1>2. LockOK
  BY DEF LockOK, Idle
<1>3. HoldersHaveTargets /\ QueueMembers /\ QueuedHaveKeys
  BY DEF HoldersHaveTargets, QueueMembers, QueuedHaveKeys
<1>4. Ownership
  BY DEF Ownership, free
<1> QED
  BY <1>1, <1>2, <1>3, <1>4 DEF OwnInv

(* The values op takes, and what their fields are. *)
LEMMA OpTypes ==
  /\ Idle \in Op /\ Promotion \in Op
  /\ \A l \in Lease \cup {NoLease} :
       \A kind \in {"sweep", "get", "renew", "pause", "resume", "release"} :
         On(kind, l) \in Op
  /\ \A l \in Lease, k \in Key, r \in Resets :
       [kind |-> "acquire", l |-> l, k |-> k, r |-> r] \in Op
  BY DEF Op, Idle, Promotion, On, Resets

LEMMA OpFields ==
  /\ Idle.kind = "idle" /\ Promotion.kind = "promote"
  /\ \A l, kind : On(kind, l).kind = kind /\ On(kind, l).l = l
  /\ \A o \in Op : o.r \in Resets /\ o.k \in Key \cup {NoKey}
  BY DEF Op, Idle, Promotion, On

LEMMA StateTypes ==
  {"unborn", "queued", "active", "released", "expired", "collected"} = States
  BY DEF States, Live, Terminal

(* The leases a promotion expires were all queued. *)
LEMMA SilentAreQueued ==
  ASSUME TypeOK, QueueMembers, NEW t, NEW K \in SUBSET Key
  PROVE  /\ \A x \in SilentIn(UNION {queue[k] : k \in K}, t) :
              x \in Lease /\ state[x] = "queued"
         /\ \A l \in Lease : key[l] \in Key =>
              \A x \in SilentIn(WalkedOver(l, K), t) :
                x \in Lease /\ state[x] = "queued"
<1>1. \A k \in Key : \A x \in queue[k] : x \in Lease /\ state[x] = "queued"
  BY DEF TypeOK, QueueMembers
<1>2. ASSUME NEW x \in UNION {queue[k] : k \in K}
      PROVE  x \in Lease /\ state[x] = "queued"
  <2>1. PICK k \in K : x \in queue[k]
    OBVIOUS
  <2> QED
    BY <1>1, <2>1
<1>3. ASSUME NEW l \in Lease, key[l] \in Key, NEW x \in WalkedOver(l, K)
      PROVE  x \in Lease /\ state[x] = "queued"
  <2>1. x \in UNION {queue[k] : k \in K} \/ x \in queue[key[l]]
    BY <1>3 DEF WalkedOver
  <2> QED
    BY <1>1, <1>2, <1>3, <2>1
<1> QED
  BY <1>2, <1>3 DEF SilentIn

(* Every step preserves the types. *)
LEMMA StepType == OwnInv /\ [Next]_vars => TypeOK'
<1> SUFFICES ASSUME TypeOK, LockOK, HoldersHaveTargets, [Next]_vars
             PROVE  TypeOK'
  BY DEF OwnInv
<1> USE LeaseAssumption, OpTypes, StateTypes
    DEF TypeOK, leaseVars, queueVars, targetVars, jobVars, lockVars, histVars
<1>1. ASSUME PromoteNone
      PROVE  TypeOK'
  BY <1>1 DEF PromoteNone, Dequeue, ForgetPreGrant, EndPromotion
<1>2. ASSUME NEW l \in Lease, NEW K \in SUBSET Key,
             PromoteErase(l, K)
      PROVE  TypeOK'
  BY <1>2 DEF PromoteErase, Dequeue, ForgetPreGrant, EndPromotion, StartReset
<1>3. ASSUME NEW l \in Lease, NEW K \in SUBSET Key,
             PromoteGrant(l, K)
      PROVE  TypeOK'
  BY <1>3 DEF PromoteGrant, Dequeue, ForgetPreGrant, EndPromotion, Assign
<1>4. ASSUME NEW l \in Lease,
             ExpireQueued(l)
      PROVE  TypeOK'
  BY <1>4 DEF ExpireQueued, EndQueued, Dequeue, ForgetPreGrant
<1>5. ASSUME NEW l \in Lease,
             OpenGrace(l)
      PROVE  TypeOK'
  BY <1>5 DEF OpenGrace
<1>6. ASSUME NEW l \in Lease,
             ExpireActive(l)
      PROVE  TypeOK'
  BY <1>6 DEF ExpireActive, Overdue, EndActive, StartReset, ClearPause,
         HoldersHaveTargets
<1>7. ASSUME NEW l \in Lease,
             Collect(l)
      PROVE  TypeOK'
  BY <1>7 DEF Collect
<1>8. ASSUME Sweep
      PROVE  TypeOK'
  BY <1>8 DEF Sweep, Lock
<1>9. ASSUME SweepDone
      PROVE  TypeOK'
  BY <1>9 DEF SweepDone
<1>10. ASSUME NEW l \in Lease, NEW k \in Key, NEW r \in Asked,
             NEW listing \in Listings,
             Acquire(l, k, r, listing)
      PROVE  TypeOK'
  BY <1>10 DEF Acquire, Lock, Resets
<1>11. ASSUME NEW t \in Target,
             AcquireOffer(t)
      PROVE  TypeOK'
  BY <1>11 DEF AcquireOffer, Offered
<1>12. ASSUME NEW t \in Target,
             AcquireGrant(t)
      PROVE  TypeOK'
  BY <1>12, OpFields DEF AcquireGrant, AcquireBody, Body, LockOK, Born, Assign
<1>13. ASSUME NEW t \in Target,
             AcquireErase(t)
      PROVE  TypeOK'
  BY <1>13, OpFields
  DEF AcquireErase, AcquireBody, Body, LockOK, Enqueue, Born, StartReset
<1>14. ASSUME AcquireNoMatch
      PROVE  TypeOK'
  BY <1>14 DEF AcquireNoMatch
<1>15. ASSUME AcquireQueue
      PROVE  TypeOK'
  BY <1>15, OpFields
  DEF AcquireQueue, AcquireBody, Body, LockOK, Enqueue, Born
<1>16. ASSUME NEW l \in Lease,
             NEW kind \in {"get", "renew", "pause", "resume", "release"},
             Call(kind, l)
      PROVE  TypeOK'
  BY <1>16 DEF Call, Lock
<1>17. ASSUME GetBody
      PROVE  TypeOK'
  BY <1>17 DEF GetBody, Body, LockOK
<1>18. ASSUME RenewBody
      PROVE  TypeOK'
  BY <1>18 DEF RenewBody, Body, LockOK
<1>19. ASSUME PauseBody
      PROVE  TypeOK'
  BY <1>19 DEF PauseBody, Body, LockOK
<1>20. ASSUME ResumeBody
      PROVE  TypeOK'
  BY <1>20 DEF ResumeBody, Body, LockOK
<1>21. ASSUME ReleaseActive
      PROVE  TypeOK'
  BY <1>21 DEF ReleaseActive, Body, LockOK, EndActive, StartReset, ClearPause,
         HoldersHaveTargets
<1>22. ASSUME ReleaseQueued
      PROVE  TypeOK'
  BY <1>22 DEF ReleaseQueued, Body, LockOK, EndQueued, Dequeue, ForgetPreGrant
<1>23. ASSUME ReleaseTooLate
      PROVE  TypeOK'
  BY <1>23 DEF ReleaseTooLate
<1>24. ASSUME NEW l \in Lease, NEW t \in Target, NEW ok \in BOOLEAN,
             ResetDone(l, t, ok)
      PROVE  TypeOK'
  BY <1>24 DEF ResetDone, WillFinish
<1>25. ASSUME NEW t \in Target,
             ClearQuarantine(t)
      PROVE  TypeOK'
  BY <1>25 DEF ClearQuarantine
<1>26. ASSUME NEW t \in Target,
             FinishReset(t)
      PROVE  TypeOK'
  BY <1>26 DEF FinishReset, HeldForReset
<1>27. ASSUME NEW t \in Target,
             Reserve(t)
      PROVE  TypeOK'
  BY <1>27 DEF Reserve
<1>28. ASSUME NEW t \in Target, NEW broken \in BOOLEAN,
             Quarantine(t, broken)
      PROVE  TypeOK'
  BY <1>28 DEF Quarantine
<1>29. ASSUME NEW t \in Target,
             Unreserve(t)
      PROVE  TypeOK'
  BY <1>29 DEF Unreserve
<1>30. ASSUME NEW t \in Target,
             MarkClean(t)
      PROVE  TypeOK'
  BY <1>30 DEF MarkClean
<1>31. ASSUME NEW l \in Lease,
             Tick(l)
      PROVE  TypeOK'
  BY <1>31 DEF Tick
<1>32. CASE UNCHANGED vars
  BY <1>32 DEF vars
<1>33. CASE Promote
  BY <1>33, <1>1, <1>2, <1>3 DEF Promote
<1>34. CASE Expire
  BY <1>34, <1>4, <1>5, <1>6, <1>7 DEF Expire
<1>35. CASE AcquireStep
  BY <1>35, <1>10, <1>11, <1>12, <1>13, <1>14, <1>15 DEF AcquireStep
<1>36. CASE CallStep
  BY <1>36, <1>16, <1>17, <1>18, <1>19, <1>20, <1>21, <1>22, <1>23 DEF CallStep
<1>37. CASE ResetStep
  BY <1>37, <1>24 DEF ResetStep
<1>38. CASE TargetStep
  BY <1>38, <1>25, <1>26, <1>27, <1>28, <1>29, <1>30 DEF TargetStep
<1> QED
  BY <1>8, <1>9, <1>31, <1>32, <1>33, <1>34, <1>35, <1>36, <1>37, <1>38 DEF Next

(* The mutex: the method that holds it keeps its arguments, an Acquire's   *)
(* lease stays unborn until its body runs, and a target being promoted is  *)
(* free until somebody takes it.                                           *)
LEMMA StepLock == OwnInv /\ [Next]_vars => LockOK'
<1> SUFFICES ASSUME TypeOK, LockOK, HoldersHaveTargets, QueueMembers,
                    QueuedHaveKeys, [Next]_vars
             PROVE  LockOK'
  BY DEF OwnInv
<1> USE LeaseAssumption, OpFields
    DEF TypeOK, LockOK, leaseVars, queueVars, targetVars, jobVars, lockVars,
        histVars
<1>1. ASSUME PromoteNone
      PROVE  LockOK'
  <2>1. \A x \in SilentIn(UNION {queue[k] : k \in Key}, promoting) :
          x \in Lease /\ state[x] = "queued"
    BY SilentAreQueued
  <2> QED
    BY <1>1, <2>1 DEF PromoteNone, EndPromotion
<1>2. ASSUME NEW l \in Lease, NEW K \in SUBSET Key,
             PromoteErase(l, K)
      PROVE  LockOK'
  BY <1>2, SilentAreQueued DEF PromoteErase, EndPromotion, QueuedHaveKeys
<1>3. ASSUME NEW l \in Lease, NEW K \in SUBSET Key,
             PromoteGrant(l, K)
      PROVE  LockOK'
  BY <1>3, SilentAreQueued DEF PromoteGrant, EndPromotion, QueuedHaveKeys
<1>4. ASSUME NEW l \in Lease,
             ExpireQueued(l)
      PROVE  LockOK'
  BY <1>4 DEF ExpireQueued, Expiring, Abandoned, EndQueued
<1>5. ASSUME NEW l \in Lease,
             OpenGrace(l)
      PROVE  LockOK'
  BY <1>5 DEF OpenGrace, Expiring
<1>6. ASSUME NEW l \in Lease,
             ExpireActive(l)
      PROVE  LockOK'
  BY <1>6 DEF ExpireActive, Expiring, Overdue, EndActive, HoldersHaveTargets
<1>7. ASSUME NEW l \in Lease,
             Collect(l)
      PROVE  LockOK'
  BY <1>7 DEF Collect, Expiring, Terminal
<1>8. ASSUME Sweep
      PROVE  LockOK'
  BY <1>8 DEF Sweep, Lock
<1>9. ASSUME SweepDone
      PROVE  LockOK'
  BY <1>9 DEF SweepDone, Body
<1>10. ASSUME NEW l \in Lease, NEW k \in Key, NEW r \in Asked,
             NEW listing \in Listings,
             Acquire(l, k, r, listing)
      PROVE  LockOK'
  BY <1>10 DEF Acquire, Lock
<1>11. ASSUME NEW t \in Target,
             AcquireOffer(t)
      PROVE  LockOK'
  BY <1>11 DEF AcquireOffer, Body, Offered
<1>12. ASSUME NEW t \in Target,
             AcquireGrant(t)
      PROVE  LockOK'
  BY <1>12 DEF AcquireGrant, AcquireBody, Body
<1>13. ASSUME NEW t \in Target,
             AcquireErase(t)
      PROVE  LockOK'
  BY <1>13 DEF AcquireErase, AcquireBody, Body
<1>14. ASSUME AcquireNoMatch
      PROVE  LockOK'
  BY <1>14 DEF AcquireNoMatch, AcquireBody, Body
<1>15. ASSUME AcquireQueue
      PROVE  LockOK'
  BY <1>15 DEF AcquireQueue, AcquireBody, Body
<1>16. ASSUME NEW l \in Lease,
             NEW kind \in {"get", "renew", "pause", "resume", "release"},
             Call(kind, l)
      PROVE  LockOK'
  BY <1>16 DEF Call, Lock
<1>17. ASSUME GetBody
      PROVE  LockOK'
  BY <1>17 DEF GetBody, Body
<1>18. ASSUME RenewBody
      PROVE  LockOK'
  BY <1>18 DEF RenewBody, Body
<1>19. ASSUME PauseBody
      PROVE  LockOK'
  BY <1>19 DEF PauseBody, Body
<1>20. ASSUME ResumeBody
      PROVE  LockOK'
  BY <1>20 DEF ResumeBody, Body
<1>21. ASSUME ReleaseActive
      PROVE  LockOK'
  BY <1>21 DEF ReleaseActive, Body, EndActive, StartReset, HoldersHaveTargets
<1>22. ASSUME ReleaseQueued
      PROVE  LockOK'
  BY <1>22 DEF ReleaseQueued, Body
<1>23. ASSUME ReleaseTooLate
      PROVE  LockOK'
  BY <1>23 DEF ReleaseTooLate, Body
<1>24. ASSUME NEW l \in Lease, NEW t \in Target, NEW ok \in BOOLEAN,
             ResetDone(l, t, ok)
      PROVE  LockOK'
  BY <1>24 DEF ResetDone
<1>25. ASSUME NEW t \in Target,
             ClearQuarantine(t)
      PROVE  LockOK'
  BY <1>25 DEF ClearQuarantine
<1>26. ASSUME NEW t \in Target,
             FinishReset(t)
      PROVE  LockOK'
  BY <1>26 DEF FinishReset, HeldForReset
<1>27. ASSUME NEW t \in Target,
             Reserve(t)
      PROVE  LockOK'
  BY <1>27 DEF Reserve
<1>28. ASSUME NEW t \in Target, NEW broken \in BOOLEAN,
             Quarantine(t, broken)
      PROVE  LockOK'
  BY <1>28 DEF Quarantine
<1>29. ASSUME NEW t \in Target,
             Unreserve(t)
      PROVE  LockOK'
  BY <1>29 DEF Unreserve
<1>30. ASSUME NEW t \in Target,
             MarkClean(t)
      PROVE  LockOK'
  BY <1>30 DEF MarkClean
<1>31. ASSUME NEW l \in Lease,
             Tick(l)
      PROVE  LockOK'
  BY <1>31 DEF Tick
<1>32. CASE UNCHANGED vars
  BY <1>32 DEF vars
<1>33. CASE Promote
  BY <1>33, <1>1, <1>2, <1>3 DEF Promote
<1>34. CASE Expire
  BY <1>34, <1>4, <1>5, <1>6, <1>7 DEF Expire
<1>35. CASE AcquireStep
  BY <1>35, <1>10, <1>11, <1>12, <1>13, <1>14, <1>15 DEF AcquireStep
<1>36. CASE CallStep
  BY <1>36, <1>16, <1>17, <1>18, <1>19, <1>20, <1>21, <1>22, <1>23 DEF CallStep
<1>37. CASE ResetStep
  BY <1>37, <1>24 DEF ResetStep
<1>38. CASE TargetStep
  BY <1>38, <1>25, <1>26, <1>27, <1>28, <1>29, <1>30 DEF TargetStep
<1> QED
  BY <1>8, <1>9, <1>31, <1>32, <1>33, <1>34, <1>35, <1>36, <1>37, <1>38 DEF Next

(* What most steps leave alone, and the steps that do not. *)
coreVars == <<state, key, reset, target, byTarget, queue, ahead, preGrant,
              jobs, resetInFlight, dirty, soiled>>

CoreStep ==
  \/ PromoteNone
  \/ \E l \in Lease, K \in SUBSET Key : PromoteErase(l, K)
  \/ \E l \in Lease, K \in SUBSET Key : PromoteGrant(l, K)
  \/ \E l \in Lease : ExpireQueued(l)
  \/ \E l \in Lease : ExpireActive(l)
  \/ \E l \in Lease : Collect(l)
  \/ \E t \in Target : AcquireGrant(t)
  \/ \E t \in Target : AcquireErase(t)
  \/ AcquireQueue
  \/ ReleaseActive
  \/ ReleaseQueued
  \/ \E l \in Lease, t \in Target, ok \in BOOLEAN : ResetDone(l, t, ok)
  \/ \E t \in Target : FinishReset(t)
  \/ \E t \in Target : Reserve(t)
  \/ \E t \in Target, broken \in BOOLEAN : Quarantine(t, broken)
  \/ \E t \in Target : Unreserve(t)
  \/ \E t \in Target : MarkClean(t)

LEMMA StepCases == [Next]_vars => CoreStep \/ UNCHANGED coreVars
<1> SUFFICES ASSUME [Next]_vars, ~CoreStep PROVE UNCHANGED coreVars
  OBVIOUS
<1> USE DEF coreVars, leaseVars, queueVars, targetVars, jobVars, histVars
<1>1. CASE Promote
  BY <1>1 DEF Promote, CoreStep
<1>2. CASE Expire
  BY <1>2 DEF Expire, CoreStep, OpenGrace
<1>3. CASE Sweep \/ SweepDone
  BY <1>3 DEF Sweep, SweepDone
<1>4. CASE AcquireStep
  BY <1>4 DEF AcquireStep, CoreStep, Acquire, AcquireOffer, AcquireNoMatch
<1>5. CASE CallStep
  <2>1. CASE \E l \in Lease, kind \in {"get", "renew", "pause", "resume", "release"} :
               Call(kind, l)
    BY <2>1 DEF Call
  <2>2. CASE GetBody \/ RenewBody \/ PauseBody \/ ResumeBody \/ ReleaseTooLate
    BY <2>2 DEF GetBody, RenewBody, PauseBody, ResumeBody, ReleaseTooLate
  <2> QED
    BY <1>5, <2>1, <2>2 DEF CallStep, CoreStep
<1>6. CASE ResetStep
  BY <1>6 DEF ResetStep, CoreStep
<1>7. CASE TargetStep
  BY <1>7 DEF TargetStep, CoreStep, ClearQuarantine
<1>8. CASE \E l \in Lease : Tick(l)
  BY <1>8 DEF Tick
<1>9. CASE UNCHANGED vars
  BY <1>9 DEF vars
<1> QED
  BY <1>1, <1>2, <1>3, <1>4, <1>5, <1>6, <1>7, <1>8, <1>9 DEF Next

(* The queues and the leases' states move together. *)
LEMMA StepQueue == OwnInv /\ [Next]_vars => QueueMembers' /\ QueuedHaveKeys'
<1> SUFFICES ASSUME TypeOK, LockOK, QueueMembers, QueuedHaveKeys, [Next]_vars
             PROVE  QueueMembers' /\ QueuedHaveKeys'
  BY DEF OwnInv
<1> USE DEF TypeOK, QueueMembers, QueuedHaveKeys, leaseVars, queueVars
<1>1. ASSUME PromoteNone
      PROVE  QueueMembers' /\ QueuedHaveKeys'
  BY <1>1, SilentAreQueued DEF PromoteNone, Dequeue
<1>2. ASSUME NEW l \in Lease, NEW K \in SUBSET Key,
             PromoteErase(l, K)
      PROVE  QueueMembers' /\ QueuedHaveKeys'
  BY <1>2, SilentAreQueued DEF PromoteErase, Dequeue
<1>3. ASSUME NEW l \in Lease, NEW K \in SUBSET Key,
             PromoteGrant(l, K)
      PROVE  QueueMembers' /\ QueuedHaveKeys'
  BY <1>3, SilentAreQueued DEF PromoteGrant, Dequeue
<1>4. ASSUME NEW l \in Lease,
             ExpireQueued(l)
      PROVE  QueueMembers' /\ QueuedHaveKeys'
  BY <1>4 DEF ExpireQueued, EndQueued, Dequeue, Abandoned
<1>5. ASSUME NEW l \in Lease,
             ExpireActive(l)
      PROVE  QueueMembers' /\ QueuedHaveKeys'
  BY <1>5 DEF ExpireActive, Overdue, EndActive
<1>6. ASSUME NEW l \in Lease,
             Collect(l)
      PROVE  QueueMembers' /\ QueuedHaveKeys'
  BY <1>6 DEF Collect, Terminal
<1>7. ASSUME NEW t \in Target,
             AcquireGrant(t)
      PROVE  QueueMembers' /\ QueuedHaveKeys'
  BY <1>7 DEF AcquireGrant, AcquireBody, Body, LockOK, Born
<1>8. ASSUME NEW t \in Target,
             AcquireErase(t)
      PROVE  QueueMembers' /\ QueuedHaveKeys'
  BY <1>8 DEF AcquireErase, AcquireBody, Body, LockOK, Enqueue, Born
<1>9. ASSUME AcquireQueue
      PROVE  QueueMembers' /\ QueuedHaveKeys'
  BY <1>9 DEF AcquireQueue, AcquireBody, Body, LockOK, Enqueue, Born
<1>10. ASSUME ReleaseActive
      PROVE  QueueMembers' /\ QueuedHaveKeys'
  BY <1>10 DEF ReleaseActive, Body, LockOK, EndActive
<1>11. ASSUME ReleaseQueued
      PROVE  QueueMembers' /\ QueuedHaveKeys'
  BY <1>11 DEF ReleaseQueued, Body, LockOK, EndQueued, Dequeue
<1>12. ASSUME NEW l \in Lease, NEW t \in Target, NEW ok \in BOOLEAN,
             ResetDone(l, t, ok)
      PROVE  QueueMembers' /\ QueuedHaveKeys'
  BY <1>12 DEF ResetDone
<1>13. ASSUME NEW t \in Target,
             FinishReset(t)
      PROVE  QueueMembers' /\ QueuedHaveKeys'
  BY <1>13 DEF FinishReset
<1>14. ASSUME NEW t \in Target,
             Reserve(t)
      PROVE  QueueMembers' /\ QueuedHaveKeys'
  BY <1>14 DEF Reserve
<1>15. ASSUME NEW t \in Target, NEW broken \in BOOLEAN,
             Quarantine(t, broken)
      PROVE  QueueMembers' /\ QueuedHaveKeys'
  BY <1>15 DEF Quarantine
<1>16. ASSUME NEW t \in Target,
             Unreserve(t)
      PROVE  QueueMembers' /\ QueuedHaveKeys'
  BY <1>16 DEF Unreserve
<1>17. ASSUME NEW t \in Target,
             MarkClean(t)
      PROVE  QueueMembers' /\ QueuedHaveKeys'
  BY <1>17 DEF MarkClean
<1>18. CASE UNCHANGED coreVars
  BY <1>18 DEF coreVars
<1> QED
  BY StepCases, <1>1, <1>2, <1>3, <1>4, <1>5, <1>6, <1>7, <1>8, <1>9, <1>10,
     <1>11, <1>12, <1>13, <1>14, <1>15, <1>16, <1>17, <1>18
  DEF CoreStep

(* byTarget and the leases move together. *)
LEMMA StepOwner == OwnInv /\ [Next]_vars => HoldersHaveTargets' /\ Ownership'
<1> SUFFICES ASSUME TypeOK, LockOK, HoldersHaveTargets, QueueMembers,
                    QueuedHaveKeys, Ownership, [Next]_vars
             PROVE  HoldersHaveTargets' /\ Ownership'
  BY DEF OwnInv
<1> USE LeaseAssumption
    DEF TypeOK, HoldersHaveTargets, Ownership, leaseVars, targetVars
<1>1. ASSUME PromoteNone
      PROVE  HoldersHaveTargets' /\ Ownership'
  BY <1>1, SilentAreQueued DEF PromoteNone
<1>2. ASSUME NEW l \in Lease, NEW K \in SUBSET Key,
             PromoteErase(l, K)
      PROVE  HoldersHaveTargets' /\ Ownership'
  BY <1>2, SilentAreQueued DEF PromoteErase, StartReset, LockOK, QueuedHaveKeys
<1>3. ASSUME NEW l \in Lease, NEW K \in SUBSET Key,
             PromoteGrant(l, K)
      PROVE  HoldersHaveTargets' /\ Ownership'
  <2> DEFINE S == SilentIn(WalkedOver(l, K), promoting)
  <2>1. l \notin S /\ \A x \in S : x \in Lease /\ state[x] = "queued"
    BY <1>3, SilentAreQueued DEF PromoteGrant, QueuedHaveKeys, First, Stops, SilentIn
  <2>2. promoting \in Target /\ byTarget[promoting] = free
    BY <1>3 DEF PromoteGrant, LockOK
  <2>3. \A x \in Lease : state'[x] = IF x \in S THEN "expired"
                                    ELSE IF x = l THEN "active" ELSE state[x]
    BY <1>3 DEF PromoteGrant
  <2> QED
    BY <1>3, <2>1, <2>2, <2>3 DEF PromoteGrant, Assign
<1>4. ASSUME NEW l \in Lease,
             ExpireQueued(l)
      PROVE  HoldersHaveTargets' /\ Ownership'
  BY <1>4 DEF ExpireQueued, EndQueued, Abandoned
<1>5. ASSUME NEW l \in Lease,
             ExpireActive(l)
      PROVE  HoldersHaveTargets' /\ Ownership'
  BY <1>5 DEF ExpireActive, Overdue, EndActive, StartReset
<1>6. ASSUME NEW l \in Lease,
             Collect(l)
      PROVE  HoldersHaveTargets' /\ Ownership'
  BY <1>6 DEF Collect, Terminal
<1>7. ASSUME NEW t \in Target,
             AcquireGrant(t)
      PROVE  HoldersHaveTargets' /\ Ownership'
  BY <1>7 DEF AcquireGrant, AcquireBody, Body, LockOK, Born, Assign,
         AcquireFree, AcquireMatching
<1>8. ASSUME NEW t \in Target,
             AcquireErase(t)
      PROVE  HoldersHaveTargets' /\ Ownership'
  BY <1>8 DEF AcquireErase, AcquireBody, Body, LockOK, Enqueue, Born,
         StartReset, AcquireFree, AcquireMatching
<1>9. ASSUME AcquireQueue
      PROVE  HoldersHaveTargets' /\ Ownership'
  BY <1>9 DEF AcquireQueue, AcquireBody, Body, LockOK, Enqueue, Born
<1>10. ASSUME ReleaseActive
      PROVE  HoldersHaveTargets' /\ Ownership'
  BY <1>10 DEF ReleaseActive, Body, LockOK, EndActive, StartReset
<1>11. ASSUME ReleaseQueued
      PROVE  HoldersHaveTargets' /\ Ownership'
  BY <1>11 DEF ReleaseQueued, Body, LockOK, EndQueued
<1>12. ASSUME NEW l \in Lease, NEW t \in Target, NEW ok \in BOOLEAN,
             ResetDone(l, t, ok)
      PROVE  HoldersHaveTargets' /\ Ownership'
  BY <1>12 DEF ResetDone
<1>13. ASSUME NEW t \in Target,
             FinishReset(t)
      PROVE  HoldersHaveTargets' /\ Ownership'
  BY <1>13 DEF FinishReset, HeldForReset
<1>14. ASSUME NEW t \in Target,
             Reserve(t)
      PROVE  HoldersHaveTargets' /\ Ownership'
  BY <1>14 DEF Reserve, Reservable
<1>15. ASSUME NEW t \in Target, NEW broken \in BOOLEAN,
             Quarantine(t, broken)
      PROVE  HoldersHaveTargets' /\ Ownership'
  BY <1>15 DEF Quarantine
<1>16. ASSUME NEW t \in Target,
             Unreserve(t)
      PROVE  HoldersHaveTargets' /\ Ownership'
  BY <1>16 DEF Unreserve
<1>17. ASSUME NEW t \in Target,
             MarkClean(t)
      PROVE  HoldersHaveTargets' /\ Ownership'
  BY <1>17 DEF MarkClean
<1>18. CASE UNCHANGED coreVars
  BY <1>18 DEF coreVars
<1> QED
  BY StepCases, <1>1, <1>2, <1>3, <1>4, <1>5, <1>6, <1>7, <1>8, <1>9, <1>10,
     <1>11, <1>12, <1>13, <1>14, <1>15, <1>16, <1>17, <1>18
  DEF CoreStep

LEMMA StepOwn == OwnInv /\ [Next]_vars => OwnInv'
  BY StepType, StepLock, StepQueue, StepOwner DEF OwnInv

(* The inductive invariant holds throughout. *)
LEMMA OwnInvariant == Spec => []OwnInv
  BY InitOwn, StepOwn, PTL DEF Spec

(* Type correctness of the lease manager. *)
THEOREM TypeCorrect == Spec => []TypeOK
<1>1. OwnInv => TypeOK
  BY DEF OwnInv
<1> QED
  BY <1>1, OwnInvariant, PTL

(* A lease is active exactly when its target's slot names it: no target is *)
(* ever assigned twice, whatever the interleaving of grants, expiries,     *)
(* resets, operators and the pool (byTarget).                              *)
THEOREM ExclusiveOwnership == Spec => []Ownership
<1>1. OwnInv => Ownership
  BY DEF OwnInv
<1> QED
  BY <1>1, OwnInvariant, PTL

-----------------------------------------------------------------------------
(* The order of the queues: the other conjuncts of QueueExact. *)
QueueOrder ==
  /\ \A l \in Lease : ahead[l] # {} => state[l] = "queued" /\ ahead[l] \subseteq queue[key[l]]
  /\ \A k \in Key : \A l, m \in queue[k] :
       l # m => (l \in ahead[m] <=> m \notin ahead[l])
  /\ \A l \in Lease : l \notin ahead[l]
  /\ \A l \in Lease : \A m \in ahead[l] : ahead[m] \subseteq ahead[l]

(* Taking leases that end out of the queues keeps the others in order. *)
LEMMA DequeueOrder ==
  ASSUME TypeOK, QueuedHaveKeys, QueueOrder, NEW S,
         Dequeue(S), key' = key,
         \A l \in Lease \ S : state[l] = "queued" => state'[l] = "queued"
  PROVE  QueueOrder'
<1> USE DEF TypeOK, QueueOrder, Dequeue
<1>1. ASSUME NEW l \in Lease, ahead'[l] # {}
      PROVE  state'[l] = "queued" /\ ahead'[l] \subseteq queue'[key'[l]]
  <2>1. l \notin S /\ ahead[l] # {} /\ ahead'[l] = ahead[l] \ S
    BY <1>1
  <2>2. state[l] = "queued" /\ ahead[l] \subseteq queue[key[l]]
    BY <2>1
  <2> QED
    BY <2>1, <2>2 DEF QueuedHaveKeys
<1>2. \A k \in Key : \A l, m \in queue'[k] :
        l # m => (l \in ahead'[m] <=> m \notin ahead'[l])
  OBVIOUS
<1>3. \A l \in Lease : l \notin ahead'[l]
  OBVIOUS
<1>4. ASSUME NEW l \in Lease, NEW m \in ahead'[l]
      PROVE  ahead'[m] \subseteq ahead'[l]
  <2>1. l \notin S /\ m \in ahead[l] /\ m \notin S /\ m \in Lease
    OBVIOUS
  <2> QED
    BY <2>1
<1> QED
  BY <1>1, <1>2, <1>3, <1>4

(* A newcomer goes to the end of its queue. *)
LEMMA EnqueueOrder ==
  ASSUME TypeOK, LockOK, QueueMembers, QueuedHaveKeys, QueueOrder,
         op.kind = "acquire", Enqueue(op.l)
  PROVE  QueueOrder'
<1> USE DEF TypeOK, QueueOrder, Enqueue, Born
<1>1. op.l \in Lease /\ op.k \in Key /\ state[op.l] = "unborn"
  BY DEF LockOK
<1>2. \A k \in Key : op.l \notin queue[k]
  BY <1>1 DEF QueueMembers
<1>3. \A x \in Lease : op.l \notin ahead[x]
  BY <1>2 DEF QueuedHaveKeys
<1>4. ASSUME NEW l \in Lease, ahead'[l] # {}
      PROVE  state'[l] = "queued" /\ ahead'[l] \subseteq queue'[key'[l]]
  <2>1. CASE l = op.l
    BY <1>1, <2>1
  <2>2. CASE l # op.l
    BY <1>1, <1>4, <2>2 DEF QueuedHaveKeys
  <2> QED
    BY <2>1, <2>2
<1>5. ASSUME NEW k \in Key, NEW l \in queue'[k], NEW m \in queue'[k], l # m
      PROVE  l \in ahead'[m] <=> m \notin ahead'[l]
  <2>1. \A x \in queue'[k] : x # op.l => x \in queue[k] /\ x \in Lease
    BY <1>1
  <2>2. op.l \in queue'[k] => k = op.k
    BY <1>1, <1>2
  <2> QED
    BY <1>1, <1>2, <1>3, <1>5, <2>1, <2>2
<1>6. \A l \in Lease : l \notin ahead'[l]
  BY <1>1, <1>2
<1>7. ASSUME NEW l \in Lease, NEW m \in ahead'[l]
      PROVE  ahead'[m] \subseteq ahead'[l]
  <2>1. CASE l = op.l
    <3>1. m \in queue[op.k] /\ m \in Lease /\ m # op.l /\ ahead'[l] = queue[op.k]
      BY <1>1, <1>2, <2>1
    <3>2. key[m] = op.k /\ ahead'[m] = ahead[m]
      BY <1>1, <3>1 DEF QueueMembers
    <3> QED
      BY <3>1, <3>2
  <2>2. CASE l # op.l
    <3>1. ahead'[l] = ahead[l] /\ m \in ahead[l] /\ m \in Lease /\ m # op.l
      BY <1>1, <1>3, <2>2
    <3> QED
      BY <1>1, <3>1
  <2> QED
    BY <2>1, <2>2
<1> QED
  BY <1>4, <1>5, <1>6, <1>7

(* No step disturbs the order of the queues. *)
LEMMA StepOrder == OwnInv /\ QueueOrder /\ [Next]_vars => QueueOrder'
<1> SUFFICES ASSUME TypeOK, LockOK, QueueMembers, QueuedHaveKeys,
                    QueueOrder, [Next]_vars
             PROVE  QueueOrder'
  BY DEF OwnInv
<1> USE DEF TypeOK, QueuedHaveKeys, leaseVars, queueVars
<1>1. ASSUME PromoteNone
      PROVE  QueueOrder'
  BY <1>1, DequeueOrder DEF PromoteNone
<1>2. ASSUME NEW l \in Lease, NEW K \in SUBSET Key, PromoteErase(l, K)
      PROVE  QueueOrder'
  BY <1>2, DequeueOrder DEF PromoteErase
<1>3. ASSUME NEW l \in Lease, NEW K \in SUBSET Key, PromoteGrant(l, K)
      PROVE  QueueOrder'
  BY <1>3, DequeueOrder DEF PromoteGrant
<1>4. ASSUME NEW l \in Lease, ExpireQueued(l)
      PROVE  QueueOrder'
  BY <1>4, DequeueOrder DEF ExpireQueued, EndQueued
<1>5. ASSUME NEW l \in Lease, ExpireActive(l)
      PROVE  QueueOrder'
  BY <1>5 DEF ExpireActive, Overdue, EndActive, QueueOrder
<1>6. ASSUME NEW l \in Lease, Collect(l)
      PROVE  QueueOrder'
  BY <1>6 DEF Collect, Terminal, QueueOrder
<1>7. ASSUME NEW t \in Target, AcquireGrant(t)
      PROVE  QueueOrder'
  BY <1>7 DEF AcquireGrant, AcquireBody, Body, LockOK, Born, QueueOrder
<1>8. ASSUME NEW t \in Target, AcquireErase(t)
      PROVE  QueueOrder'
  BY <1>8, EnqueueOrder DEF AcquireErase, AcquireBody, Body
<1>9. ASSUME AcquireQueue
      PROVE  QueueOrder'
  BY <1>9, EnqueueOrder DEF AcquireQueue, AcquireBody, Body
<1>10. ASSUME ReleaseActive
      PROVE  QueueOrder'
  BY <1>10 DEF ReleaseActive, Body, LockOK, EndActive, QueueOrder
<1>11. ASSUME ReleaseQueued
      PROVE  QueueOrder'
  BY <1>11, DequeueOrder DEF ReleaseQueued, EndQueued, Body, LockOK
<1>12. ASSUME NEW l \in Lease, NEW t \in Target, NEW ok \in BOOLEAN,
             ResetDone(l, t, ok)
      PROVE  QueueOrder'
  BY <1>12 DEF ResetDone, QueueOrder
<1>13. ASSUME NEW t \in Target, FinishReset(t)
      PROVE  QueueOrder'
  BY <1>13 DEF FinishReset, QueueOrder
<1>14. ASSUME NEW t \in Target, Reserve(t)
      PROVE  QueueOrder'
  BY <1>14 DEF Reserve, QueueOrder
<1>15. ASSUME NEW t \in Target, NEW broken \in BOOLEAN,
             Quarantine(t, broken)
      PROVE  QueueOrder'
  BY <1>15 DEF Quarantine, QueueOrder
<1>16. ASSUME NEW t \in Target, Unreserve(t)
      PROVE  QueueOrder'
  BY <1>16 DEF Unreserve, QueueOrder
<1>17. ASSUME NEW t \in Target, MarkClean(t)
      PROVE  QueueOrder'
  BY <1>17 DEF MarkClean, QueueOrder
<1>18. CASE UNCHANGED coreVars
  BY <1>18 DEF coreVars, QueueOrder
<1> QED
  BY StepCases, <1>1, <1>2, <1>3, <1>4, <1>5, <1>6, <1>7, <1>8, <1>9, <1>10,
     <1>11, <1>12, <1>13, <1>14, <1>15, <1>16, <1>17, <1>18
  DEF CoreStep

(* A lease that does not exist yet has left no trace. *)
Newborn ==
  \A l \in Lease : state[l] = "unborn" =>
    /\ l \notin polled /\ preGrant[l] = NoTarget
    /\ \A t \in Target : <<l, t>> \notin jobs

(* Besides, the steps that leave leases, queues and slots alone note the   *)
(* polls of queued leases only, and announce a FinishReset only for a      *)
(* target an operator clears.                                              *)
QuietStep ==
  /\ UNCHANGED coreVars
  /\ \A l \in polled' : l \in polled \/ state[l] = "queued"
  /\ \A t \in Private : finishing'[t] = finishing[t]

LEMMA QuietCases == TypeOK /\ [Next]_vars => CoreStep \/ QuietStep
<1> SUFFICES ASSUME TypeOK, [Next]_vars, ~CoreStep PROVE QuietStep
  OBVIOUS
<1>1. UNCHANGED coreVars
  BY StepCases
<1> USE <1>1 DEF QuietStep, coreVars, leaseVars, queueVars, targetVars, jobVars, histVars
<1>2. CASE Promote
  BY <1>2 DEF Promote, CoreStep
<1>3. CASE Expire
  BY <1>3 DEF Expire, CoreStep, OpenGrace
<1>4. CASE Sweep \/ SweepDone
  BY <1>4 DEF Sweep, SweepDone
<1>5. CASE AcquireStep
  BY <1>5 DEF AcquireStep, CoreStep, Acquire, AcquireOffer, AcquireNoMatch
<1>6. CASE CallStep
  <2>1. CASE \E l \in Lease, kind \in {"get", "renew", "pause", "resume", "release"} :
               Call(kind, l)
    BY <2>1 DEF Call
  <2>2. CASE RenewBody \/ PauseBody \/ ResumeBody \/ ReleaseTooLate
    BY <2>2 DEF RenewBody, PauseBody, ResumeBody, ReleaseTooLate
  <2>3. CASE GetBody
    BY <2>3 DEF GetBody
  <2> QED
    BY <1>6, <2>1, <2>2, <2>3 DEF CallStep, CoreStep
<1>7. CASE ResetStep
  BY <1>7 DEF ResetStep, CoreStep
<1>8. CASE TargetStep
  <2>1. CASE \E t \in Target : ClearQuarantine(t)
    BY <2>1 DEF ClearQuarantine, Private, TypeOK
  <2> QED
    BY <1>8, <2>1 DEF TargetStep, CoreStep
<1>9. CASE \E l \in Lease : Tick(l)
  BY <1>9 DEF Tick
<1>10. CASE UNCHANGED vars
  BY <1>10 DEF vars
<1> QED
  BY <1>2, <1>3, <1>4, <1>5, <1>6, <1>7, <1>8, <1>9, <1>10 DEF Next

(* Leases are used only once they are born. *)
LEMMA StepNewborn == OwnInv /\ Newborn /\ [Next]_vars => Newborn'
<1> SUFFICES ASSUME TypeOK, LockOK, QueueMembers, QueuedHaveKeys, Newborn, [Next]_vars
             PROVE  Newborn'
  BY DEF OwnInv
<1> USE DEF TypeOK, Newborn, leaseVars, queueVars, jobVars
<1>1. ASSUME PromoteNone
      PROVE  Newborn'
  BY <1>1, SilentAreQueued DEF PromoteNone, Dequeue, ForgetPreGrant
<1>2. ASSUME NEW l \in Lease, NEW K \in SUBSET Key, PromoteErase(l, K)
      PROVE  Newborn'
  BY <1>2, SilentAreQueued DEF PromoteErase, Dequeue, ForgetPreGrant,
       StartReset
<1>3. ASSUME NEW l \in Lease, NEW K \in SUBSET Key, PromoteGrant(l, K)
      PROVE  Newborn'
  BY <1>3, SilentAreQueued DEF PromoteGrant, Dequeue, ForgetPreGrant
<1>4. ASSUME NEW l \in Lease, ExpireQueued(l)
      PROVE  Newborn'
  BY <1>4 DEF ExpireQueued, EndQueued, Dequeue, ForgetPreGrant
<1>5. ASSUME NEW l \in Lease, ExpireActive(l)
      PROVE  Newborn'
  BY <1>5 DEF ExpireActive, Overdue, EndActive, StartReset
<1>6. ASSUME NEW l \in Lease, Collect(l)
      PROVE  Newborn'
  BY <1>6 DEF Collect, Terminal
<1>7. ASSUME NEW t \in Target, AcquireGrant(t)
      PROVE  Newborn'
  BY <1>7 DEF AcquireGrant, AcquireBody, Body, LockOK, Born
<1>8. ASSUME NEW t \in Target, AcquireErase(t)
      PROVE  Newborn'
  BY <1>8 DEF AcquireErase, AcquireBody, Body, LockOK, Enqueue, Born,
       StartReset
<1>9. ASSUME AcquireQueue
      PROVE  Newborn'
  BY <1>9 DEF AcquireQueue, AcquireBody, Body, LockOK, Enqueue, Born
<1>10. ASSUME ReleaseActive
      PROVE  Newborn'
  BY <1>10 DEF ReleaseActive, Body, LockOK, EndActive, StartReset
<1>11. ASSUME ReleaseQueued
      PROVE  Newborn'
  BY <1>11 DEF ReleaseQueued, EndQueued, Dequeue, ForgetPreGrant, Body, LockOK
<1>12. ASSUME NEW l \in Lease, NEW t \in Target, NEW ok \in BOOLEAN,
             ResetDone(l, t, ok)
      PROVE  Newborn'
  BY <1>12 DEF ResetDone
<1>13. ASSUME NEW t \in Target, FinishReset(t)
      PROVE  Newborn'
  BY <1>13 DEF FinishReset
<1>14. ASSUME NEW t \in Target, Reserve(t)
      PROVE  Newborn'
  BY <1>14 DEF Reserve
<1>15. ASSUME NEW t \in Target, NEW broken \in BOOLEAN,
             Quarantine(t, broken)
      PROVE  Newborn'
  BY <1>15 DEF Quarantine
<1>16. ASSUME NEW t \in Target, Unreserve(t)
      PROVE  Newborn'
  BY <1>16 DEF Unreserve
<1>17. ASSUME NEW t \in Target, MarkClean(t)
      PROVE  Newborn'
  BY <1>17 DEF MarkClean
<1>18. CASE QuietStep
  BY <1>18 DEF QuietStep, coreVars
<1> QED
  BY QuietCases, <1>1, <1>2, <1>3, <1>4, <1>5, <1>6, <1>7, <1>8, <1>9, <1>10,
     <1>11, <1>12, <1>13, <1>14, <1>15, <1>16, <1>17, <1>18
  DEF CoreStep

(* A queued lease has at most one erase running, and knows of it. *)
LEMMA StepErases == OwnInv /\ Newborn /\ OneErasePerLease /\ [Next]_vars => OneErasePerLease'
<1> SUFFICES ASSUME TypeOK, LockOK, QueueMembers, QueuedHaveKeys,
                    Newborn, OneErasePerLease, [Next]_vars
             PROVE  OneErasePerLease'
  BY DEF OwnInv
<1> USE DEF TypeOK, OneErasePerLease, leaseVars, queueVars, jobVars
<1>1. ASSUME PromoteNone
      PROVE  OneErasePerLease'
  BY <1>1, SilentAreQueued DEF PromoteNone, ForgetPreGrant
<1>2. ASSUME NEW l \in Lease, NEW K \in SUBSET Key, PromoteErase(l, K)
      PROVE  OneErasePerLease'
  <2> DEFINE S == SilentIn(WalkedOver(l, K), promoting)
  <2>1. l \notin S /\ preGrant[l] = NoTarget /\ state[l] = "queued"
    BY <1>2 DEF PromoteErase, First, Stops, SilentIn
  <2>2. promoting \in Target /\ NoTarget \notin Target
    BY <1>2, LeaseAssumption DEF PromoteErase
  <2>3. /\ jobs' = jobs \cup {<<l, promoting>>}
        /\ preGrant' = [ForgetPreGrant(S) EXCEPT ![l] = promoting]
        /\ state' = [x \in Lease |-> IF x \in S THEN "expired" ELSE state[x]]
    BY <1>2 DEF PromoteErase, StartReset
  <2>4. ASSUME NEW x \in Lease, NEW t \in Target, state'[x] = "queued"
        PROVE  <<x, t>> \in jobs' <=> preGrant'[x] = t
    <3>1. x \notin S /\ state[x] = "queued"
      BY <2>3, <2>4
    <3>2. CASE x = l
      BY <2>1, <2>2, <2>3, <3>2 DEF ForgetPreGrant
    <3>3. CASE x # l
      BY <2>3, <3>1, <3>3 DEF ForgetPreGrant
    <3> QED
      BY <3>2, <3>3
  <2> QED
    BY <2>4
<1>3. ASSUME NEW l \in Lease, NEW K \in SUBSET Key, PromoteGrant(l, K)
      PROVE  OneErasePerLease'
  BY <1>3, SilentAreQueued DEF PromoteGrant, ForgetPreGrant
<1>4. ASSUME NEW l \in Lease, ExpireQueued(l)
      PROVE  OneErasePerLease'
  BY <1>4 DEF ExpireQueued, EndQueued, ForgetPreGrant
<1>5. ASSUME NEW l \in Lease, ExpireActive(l)
      PROVE  OneErasePerLease'
  BY <1>5 DEF ExpireActive, Overdue, EndActive, StartReset
<1>6. ASSUME NEW l \in Lease, Collect(l)
      PROVE  OneErasePerLease'
  BY <1>6 DEF Collect, Terminal
<1>7. ASSUME NEW t \in Target, AcquireGrant(t)
      PROVE  OneErasePerLease'
  BY <1>7 DEF AcquireGrant, AcquireBody, Body, LockOK, Born
<1>8. ASSUME NEW t \in Target, AcquireErase(t)
      PROVE  OneErasePerLease'
  BY <1>8 DEF AcquireErase, AcquireBody, Body, LockOK, Enqueue, Born,
       StartReset, Newborn
<1>9. ASSUME AcquireQueue
      PROVE  OneErasePerLease'
  BY <1>9, LeaseAssumption DEF AcquireQueue, AcquireBody, Body, LockOK,
       Enqueue, Born, Newborn
<1>10. ASSUME ReleaseActive
      PROVE  OneErasePerLease'
  BY <1>10 DEF ReleaseActive, Body, LockOK, EndActive, StartReset
<1>11. ASSUME ReleaseQueued
      PROVE  OneErasePerLease'
  BY <1>11 DEF ReleaseQueued, EndQueued, ForgetPreGrant, Body, LockOK
<1>12. ASSUME NEW l \in Lease, NEW t \in Target, NEW ok \in BOOLEAN,
             ResetDone(l, t, ok)
      PROVE  OneErasePerLease'
  BY <1>12, LeaseAssumption DEF ResetDone
<1>13. ASSUME NEW t \in Target, FinishReset(t)
      PROVE  OneErasePerLease'
  BY <1>13 DEF FinishReset
<1>14. ASSUME NEW t \in Target, Reserve(t)
      PROVE  OneErasePerLease'
  BY <1>14 DEF Reserve
<1>15. ASSUME NEW t \in Target, NEW broken \in BOOLEAN,
             Quarantine(t, broken)
      PROVE  OneErasePerLease'
  BY <1>15 DEF Quarantine
<1>16. ASSUME NEW t \in Target, Unreserve(t)
      PROVE  OneErasePerLease'
  BY <1>16 DEF Unreserve
<1>17. ASSUME NEW t \in Target, MarkClean(t)
      PROVE  OneErasePerLease'
  BY <1>17 DEF MarkClean
<1>18. CASE UNCHANGED coreVars
  BY <1>18 DEF coreVars
<1> QED
  BY StepCases, <1>1, <1>2, <1>3, <1>4, <1>5, <1>6, <1>7, <1>8, <1>9, <1>10,
     <1>11, <1>12, <1>13, <1>14, <1>15, <1>16, <1>17, <1>18, SMTT(30)
  DEF CoreStep

(* Whatever brings a lease to a target looks at its reset first. *)
LEMMA StepDevices == OwnInv /\ NoResetOnDevice /\ [Next]_vars => NoResetOnDevice'
<1> SUFFICES ASSUME TypeOK, LockOK, HoldersHaveTargets, QueueMembers,
                    QueuedHaveKeys, NoResetOnDevice, [Next]_vars
             PROVE  NoResetOnDevice'
  BY DEF OwnInv
<1> USE DEF TypeOK, NoResetOnDevice, leaseVars, queueVars, jobVars
<1>1. ASSUME PromoteNone
      PROVE  NoResetOnDevice'
  BY <1>1, SilentAreQueued DEF PromoteNone
<1>2. ASSUME NEW l \in Lease, NEW K \in SUBSET Key, PromoteErase(l, K)
      PROVE  NoResetOnDevice'
  BY <1>2, SilentAreQueued DEF PromoteErase, First, Stops, CanTake, Suits,
       NeedsErase, StartReset
<1>3. ASSUME NEW l \in Lease, NEW K \in SUBSET Key, PromoteGrant(l, K)
      PROVE  NoResetOnDevice'
  BY <1>3, SilentAreQueued DEF PromoteGrant, First, Stops, CanTake, Suits,
       Assign
<1>4. ASSUME NEW l \in Lease, ExpireQueued(l)
      PROVE  NoResetOnDevice'
  BY <1>4 DEF ExpireQueued, EndQueued
<1>5. ASSUME NEW l \in Lease, ExpireActive(l)
      PROVE  NoResetOnDevice'
  BY <1>5 DEF ExpireActive, Overdue, EndActive, StartReset, NeedsReset
<1>6. ASSUME NEW l \in Lease, Collect(l)
      PROVE  NoResetOnDevice'
  BY <1>6 DEF Collect, Terminal
<1>7. ASSUME NEW t \in Target, AcquireGrant(t)
      PROVE  NoResetOnDevice'
  BY <1>7 DEF AcquireGrant, AcquireBody, Body, LockOK, Born, Assign,
       AcquireFree, AcquireMatching, Suits
<1>8. ASSUME NEW t \in Target, AcquireErase(t)
      PROVE  NoResetOnDevice'
  BY <1>8 DEF AcquireErase, AcquireBody, Body, LockOK, Enqueue, Born,
       StartReset, AcquireFree, AcquireMatching, Suits, NeedsErase
<1>9. ASSUME AcquireQueue
      PROVE  NoResetOnDevice'
  BY <1>9 DEF AcquireQueue, AcquireBody, Body, LockOK, Enqueue, Born
<1>10. ASSUME ReleaseActive
      PROVE  NoResetOnDevice'
  BY <1>10 DEF ReleaseActive, Body, LockOK, EndActive, StartReset, NeedsReset
<1>11. ASSUME ReleaseQueued
      PROVE  NoResetOnDevice'
  BY <1>11 DEF ReleaseQueued, EndQueued, Body, LockOK
<1>12. ASSUME NEW l \in Lease, NEW t \in Target, NEW ok \in BOOLEAN,
             ResetDone(l, t, ok)
      PROVE  NoResetOnDevice'
  BY <1>12 DEF ResetDone
<1>13. ASSUME NEW t \in Target, FinishReset(t)
      PROVE  NoResetOnDevice'
  BY <1>13 DEF FinishReset
<1>14. ASSUME NEW t \in Target, Reserve(t)
      PROVE  NoResetOnDevice'
  BY <1>14 DEF Reserve
<1>15. ASSUME NEW t \in Target, NEW broken \in BOOLEAN,
             Quarantine(t, broken)
      PROVE  NoResetOnDevice'
  BY <1>15 DEF Quarantine
<1>16. ASSUME NEW t \in Target, Unreserve(t)
      PROVE  NoResetOnDevice'
  BY <1>16 DEF Unreserve
<1>17. ASSUME NEW t \in Target, MarkClean(t)
      PROVE  NoResetOnDevice'
  BY <1>17 DEF MarkClean
<1>18. CASE UNCHANGED coreVars
  BY <1>18 DEF coreVars
<1> QED
  BY StepCases, <1>1, <1>2, <1>3, <1>4, <1>5, <1>6, <1>7, <1>8, <1>9, <1>10,
     <1>11, <1>12, <1>13, <1>14, <1>15, <1>16, <1>17, <1>18
  DEF CoreStep

-----------------------------------------------------------------------------
(* The resets of the targets only the manager frees.  A running reset is   *)
(* the only one of its target and holds it by the sentinel, and so does    *)
(* the one FinishReset that is due after it; a target used since its last  *)
(* wipe is marked so.                                                      *)
HeldInReset(t) ==
  /\ t \in resetInFlight <=> \E l \in Lease : <<l, t>> \in jobs
  /\ \A l, m \in Lease : <<l, t>> \in jobs /\ <<m, t>> \in jobs => l = m
  /\ t \in resetInFlight => byTarget[t] = resetSentinel
  /\ finishing[t] # 0 =>
       finishing[t] = 1 /\ t \notin resetInFlight /\ byTarget[t] = resetSentinel

ResetHolds == \A t \in Private : HeldInReset(t)

UseIsMarked == \A t \in Private : t \in soiled => t \in dirty

(* What a step leaves alone for one target. *)
LEMMA ResetUntouched ==
  ASSUME NEW x \in Private, HeldInReset(x),
         byTarget'[x] = byTarget[x], finishing'[x] = finishing[x],
         x \in resetInFlight' <=> x \in resetInFlight,
         \A m \in Lease : <<m, x>> \in jobs' <=> <<m, x>> \in jobs
  PROVE  HeldInReset(x)'
  BY DEF HeldInReset

(* Another value in byTarget for a target that no reset is running on or   *)
(* about to free.                                                          *)
LEMMA HolderChanges ==
  ASSUME TypeOK, ResetHolds, NEW t \in Target, NEW v,
         t \in Private => byTarget[t] # resetSentinel,
         byTarget' = [byTarget EXCEPT ![t] = v],
         UNCHANGED <<resetInFlight, jobs, finishing>>
  PROVE  ResetHolds'
<1> SUFFICES ASSUME NEW x \in Private
             PROVE  HeldInReset(x)'
  BY DEF ResetHolds
<1>1. CASE x = t
  BY <1>1 DEF ResetHolds, HeldInReset
<1>2. CASE x # t
  BY <1>2, ResetUntouched DEF TypeOK, ResetHolds, Private
<1> QED
  BY <1>1, <1>2

(* A reset starts on a target that nothing resets or is about to free. *)
LEMMA StartResetHolds ==
  ASSUME TypeOK, ResetHolds, NEW l \in Lease, NEW t \in Target,
         byTarget[t] # resetSentinel, StartReset(l, t), finishing' = finishing
  PROVE  ResetHolds'
<1> SUFFICES ASSUME NEW x \in Private
             PROVE  HeldInReset(x)'
  BY DEF ResetHolds
<1>1. CASE x = t
  <2>1. t \notin resetInFlight /\ finishing[t] = 0
    BY <1>1 DEF ResetHolds, HeldInReset
  <2>2. \A m \in Lease : <<m, t>> \in jobs' <=> m = l
    BY <1>1, <2>1 DEF ResetHolds, HeldInReset, StartReset
  <2>3. t \in resetInFlight' /\ byTarget'[t] = resetSentinel
    BY DEF TypeOK, StartReset
  <2> QED
    BY <1>1, <2>1, <2>2, <2>3 DEF HeldInReset
<1>2. CASE x # t
  BY <1>2, ResetUntouched DEF TypeOK, StartReset, ResetHolds, Private
<1> QED
  BY <1>1, <1>2

(* No step frees, grants or resets such a target while it is reset. *)
LEMMA StepResets == OwnInv /\ ResetHolds /\ [Next]_vars => ResetHolds'
<1> SUFFICES ASSUME TypeOK, LockOK, HoldersHaveTargets, Ownership,
                    ResetHolds, [Next]_vars
             PROVE  ResetHolds'
  BY DEF OwnInv
<1> USE DEF TypeOK, leaseVars, queueVars, targetVars, jobVars
<1>1. ASSUME PromoteNone
      PROVE  ResetHolds'
  BY <1>1 DEF PromoteNone, ResetHolds, HeldInReset
<1>2. ASSUME NEW l \in Lease, NEW K \in SUBSET Key, PromoteErase(l, K)
      PROVE  ResetHolds'
  BY <1>2, StartResetHolds, LeaseAssumption DEF PromoteErase, LockOK,
       resetSentinel, free
<1>3. ASSUME NEW l \in Lease, NEW K \in SUBSET Key, PromoteGrant(l, K)
      PROVE  ResetHolds'
  BY <1>3, HolderChanges DEF PromoteGrant, LockOK, Assign, resetSentinel, free
<1>4. ASSUME NEW l \in Lease, ExpireQueued(l)
      PROVE  ResetHolds'
  BY <1>4 DEF ExpireQueued, ResetHolds, HeldInReset
<1>5. ASSUME NEW l \in Lease, ExpireActive(l)
      PROVE  ResetHolds'
  <2>1. l \in Lease /\ target[l] \in Target
          /\ byTarget[target[l]] = l
    BY <1>5 DEF ExpireActive, Overdue, HoldersHaveTargets, Ownership
  <2>2. byTarget[target[l]] # resetSentinel
    BY <2>1, LeaseAssumption
  <2>3. CASE NeedsReset(l)
    BY <1>5, <2>1, <2>2, <2>3, StartResetHolds DEF ExpireActive, EndActive
  <2>4. CASE ~NeedsReset(l)
    BY <1>5, <2>1, <2>2, <2>4, HolderChanges DEF ExpireActive, EndActive
  <2> QED
    BY <2>3, <2>4
<1>6. ASSUME NEW l \in Lease, Collect(l)
      PROVE  ResetHolds'
  BY <1>6 DEF Collect, ResetHolds, HeldInReset
<1>7. ASSUME NEW t \in Target, AcquireGrant(t)
      PROVE  ResetHolds'
  BY <1>7, HolderChanges DEF AcquireGrant, Assign, AcquireFree,
       AcquireMatching, resetSentinel, free
<1>8. ASSUME NEW t \in Target, AcquireErase(t)
      PROVE  ResetHolds'
  BY <1>8, StartResetHolds DEF AcquireErase, AcquireBody, Body, LockOK,
       AcquireFree, AcquireMatching, resetSentinel, free
<1>9. ASSUME AcquireQueue
      PROVE  ResetHolds'
  BY <1>9 DEF AcquireQueue, ResetHolds, HeldInReset
<1>10. ASSUME ReleaseActive
      PROVE  ResetHolds'
  <2>1. op.l \in Lease /\ target[op.l] \in Target
          /\ byTarget[target[op.l]] = op.l
    BY <1>10 DEF ReleaseActive, Body, LockOK, HoldersHaveTargets, Ownership
  <2>2. byTarget[target[op.l]] # resetSentinel
    BY <2>1, LeaseAssumption
  <2>3. CASE NeedsReset(op.l)
    BY <1>10, <2>1, <2>2, <2>3, StartResetHolds DEF ReleaseActive, EndActive
  <2>4. CASE ~NeedsReset(op.l)
    BY <1>10, <2>1, <2>2, <2>4, HolderChanges DEF ReleaseActive, EndActive
  <2> QED
    BY <2>3, <2>4
<1>11. ASSUME ReleaseQueued
      PROVE  ResetHolds'
  BY <1>11 DEF ReleaseQueued, ResetHolds, HeldInReset
<1>12. ASSUME NEW l \in Lease, NEW t \in Target, NEW ok \in BOOLEAN,
             ResetDone(l, t, ok)
      PROVE  ResetHolds'
  <2> SUFFICES ASSUME NEW x \in Private
               PROVE  HeldInReset(x)'
    BY DEF ResetHolds
  <2>1. CASE x = t
    <3>1. t \in resetInFlight /\ byTarget[t] = resetSentinel /\ finishing[t] = 0
      BY <1>12, <2>1 DEF ResetDone, ResetHolds, HeldInReset
    <3>2. \A m \in Lease : <<m, t>> \notin jobs'
      BY <1>12, <2>1 DEF ResetDone, ResetHolds, HeldInReset
    <3>3. t \notin resetInFlight' /\ byTarget'[t] = resetSentinel
      BY <1>12, <3>1 DEF ResetDone
    <3>4. finishing'[t] \in {0, 1}
      BY <1>12, <3>1 DEF ResetDone, WillFinish
    <3> QED
      BY <2>1, <3>2, <3>3, <3>4 DEF HeldInReset
  <2>2. CASE x # t
    <3>1. finishing'[x] = finishing[x]
      BY <1>12, <2>2 DEF ResetDone, WillFinish
    <3> QED
      BY <1>12, <2>2, <3>1, ResetUntouched DEF ResetDone, ResetHolds
  <2> QED
    BY <2>1, <2>2
<1>13. ASSUME NEW t \in Target, FinishReset(t)
      PROVE  ResetHolds'
  <2> SUFFICES ASSUME NEW x \in Private
               PROVE  HeldInReset(x)'
    BY DEF ResetHolds
  <2>1. CASE x = t
    <3>1. finishing[t] = 1 /\ t \notin resetInFlight
      BY <1>13, <2>1 DEF FinishReset, ResetHolds, HeldInReset
    <3>2. finishing'[t] = 0 /\ t \notin resetInFlight'
      BY <1>13, <3>1 DEF FinishReset
    <3> QED
      BY <1>13, <2>1, <3>2 DEF FinishReset, ResetHolds, HeldInReset
  <2>2. CASE x # t
    BY <1>13, <2>2, ResetUntouched DEF FinishReset, ResetHolds, Private
  <2> QED
    BY <2>1, <2>2
<1>14. ASSUME NEW t \in Target, Reserve(t)
      PROVE  ResetHolds'
  BY <1>14, HolderChanges DEF Reserve, Private
<1>15. ASSUME NEW t \in Target, NEW broken \in BOOLEAN,
             Quarantine(t, broken)
      PROVE  ResetHolds'
  BY <1>15, HolderChanges DEF Quarantine, resetSentinel, reserveSentinel
<1>16. ASSUME NEW t \in Target, Unreserve(t)
      PROVE  ResetHolds'
  BY <1>16, HolderChanges DEF Unreserve, resetSentinel, reserveSentinel
<1>17. ASSUME NEW t \in Target, MarkClean(t)
      PROVE  ResetHolds'
  BY <1>17 DEF MarkClean, ResetHolds, HeldInReset
<1>18. CASE QuietStep
  BY <1>18 DEF QuietStep, coreVars, ResetHolds, HeldInReset
<1> QED
  BY QuietCases, <1>1, <1>2, <1>3, <1>4, <1>5, <1>6, <1>7, <1>8, <1>9, <1>10,
     <1>11, <1>12, <1>13, <1>14, <1>15, <1>16, <1>17, <1>18
  DEF CoreStep

(* Every use is marked, and a mark goes only with a wipe. *)
LEMMA StepMarks == OwnInv /\ ResetHolds /\ UseIsMarked /\ [Next]_vars => UseIsMarked'
<1> SUFFICES ASSUME TypeOK, ResetHolds, UseIsMarked, [Next]_vars
             PROVE  UseIsMarked'
  BY DEF OwnInv
<1> USE DEF TypeOK, UseIsMarked, targetVars, histVars
<1>1. ASSUME PromoteNone
      PROVE  UseIsMarked'
  BY <1>1 DEF PromoteNone
<1>2. ASSUME NEW l \in Lease, NEW K \in SUBSET Key, PromoteErase(l, K)
      PROVE  UseIsMarked'
  BY <1>2 DEF PromoteErase
<1>3. ASSUME NEW l \in Lease, NEW K \in SUBSET Key, PromoteGrant(l, K)
      PROVE  UseIsMarked'
  BY <1>3 DEF PromoteGrant, Assign
<1>4. ASSUME NEW l \in Lease, ExpireQueued(l)
      PROVE  UseIsMarked'
  BY <1>4 DEF ExpireQueued
<1>5. ASSUME NEW l \in Lease, ExpireActive(l)
      PROVE  UseIsMarked'
  BY <1>5 DEF ExpireActive
<1>6. ASSUME NEW l \in Lease, Collect(l)
      PROVE  UseIsMarked'
  BY <1>6 DEF Collect
<1>7. ASSUME NEW t \in Target, AcquireGrant(t)
      PROVE  UseIsMarked'
  BY <1>7 DEF AcquireGrant, Assign
<1>8. ASSUME NEW t \in Target, AcquireErase(t)
      PROVE  UseIsMarked'
  BY <1>8 DEF AcquireErase
<1>9. ASSUME AcquireQueue
      PROVE  UseIsMarked'
  BY <1>9 DEF AcquireQueue
<1>10. ASSUME ReleaseActive
      PROVE  UseIsMarked'
  BY <1>10 DEF ReleaseActive
<1>11. ASSUME ReleaseQueued
      PROVE  UseIsMarked'
  BY <1>11 DEF ReleaseQueued
<1>12. ASSUME NEW l \in Lease, NEW t \in Target, NEW ok \in BOOLEAN,
             ResetDone(l, t, ok)
      PROVE  UseIsMarked'
  <2> SUFFICES ASSUME NEW x \in Private, x \in soiled'
               PROVE  x \in dirty'
    OBVIOUS
  <2>1. x = t => byTarget[t] = resetSentinel
    BY <1>12 DEF ResetDone, ResetHolds, HeldInReset
  <2> QED
    BY <1>12, <2>1, LeaseAssumption DEF ResetDone
<1>13. ASSUME NEW t \in Target, FinishReset(t)
      PROVE  UseIsMarked'
  BY <1>13 DEF FinishReset
<1>14. ASSUME NEW t \in Target, Reserve(t)
      PROVE  UseIsMarked'
  BY <1>14 DEF Reserve
<1>15. ASSUME NEW t \in Target, NEW broken \in BOOLEAN,
             Quarantine(t, broken)
      PROVE  UseIsMarked'
  BY <1>15 DEF Quarantine
<1>16. ASSUME NEW t \in Target, Unreserve(t)
      PROVE  UseIsMarked'
  BY <1>16 DEF Unreserve
<1>17. ASSUME NEW t \in Target, MarkClean(t)
      PROVE  UseIsMarked'
  BY <1>17 DEF MarkClean
<1>18. CASE UNCHANGED coreVars
  BY <1>18 DEF coreVars
<1> QED
  BY StepCases, <1>1, <1>2, <1>3, <1>4, <1>5, <1>6, <1>7, <1>8, <1>9, <1>10,
     <1>11, <1>12, <1>13, <1>14, <1>15, <1>16, <1>17, <1>18
  DEF CoreStep

-----------------------------------------------------------------------------
(* The inductive invariant of the lease manager. *)
LeaseInv ==
  /\ OwnInv /\ QueueOrder /\ Newborn
  /\ OneErasePerLease /\ NoResetOnDevice /\ ResetHolds /\ UseIsMarked

LEMMA LeaseInvariant == Spec => []LeaseInv
<1>1. Init => LeaseInv
  <2> SUFFICES ASSUME Init PROVE LeaseInv
    OBVIOUS
  <2>1. OwnInv
    BY InitOwn
  <2>2. QueueOrder /\ Newborn /\ OneErasePerLease /\ NoResetOnDevice
    BY LeaseAssumption DEF Init, QueueOrder, Newborn, OneErasePerLease, NoResetOnDevice
  <2>3. ResetHolds /\ UseIsMarked
    BY DEF Init, ResetHolds, HeldInReset, UseIsMarked, Private
  <2> QED
    BY <2>1, <2>2, <2>3 DEF LeaseInv
<1>2. LeaseInv /\ [Next]_vars => LeaseInv'
  BY StepOwn, StepOrder, StepNewborn, StepErases, StepDevices, StepResets,
     StepMarks
  DEF LeaseInv
<1> QED
  BY <1>1, <1>2, PTL DEF Spec

(* The queues hold exactly the queued leases, each once, under its own key *)
(* and in one total order (m.queues, removeFromQueueLocked).               *)
THEOREM QueuesAreExact == Spec => []QueueExact
<1>1. LeaseInv => QueueExact
  BY DEF LeaseInv, OwnInv, QueueMembers, QueueOrder, QueueExact
<1> QED
  BY <1>1, LeaseInvariant, PTL

(* A queued lease never has two targets erased for it, and its pre-grant   *)
(* mark lasts exactly as long as the erase (preGrant).                     *)
THEOREM OneErase == Spec => []OneErasePerLease
<1>1. LeaseInv => OneErasePerLease
  BY DEF LeaseInv
<1> QED
  BY <1>1, LeaseInvariant, PTL

(* No reset ever reaches a physical device (Acquire, promoteLocked). *)
THEOREM DevicesAreNeverReset == Spec => []NoResetOnDevice
<1>1. LeaseInv => NoResetOnDevice
  BY DEF LeaseInv
<1> QED
  BY <1>1, LeaseInvariant, PTL

(* Nobody is granted a target mid-wipe, unless an operator or the pool     *)
(* touches it (resetInFlight, the reset sentinel).                         *)
THEOREM ResetsHoldTheirTarget == Spec => []MidResetHeld
<1>1. LeaseInv => MidResetHeld
  BY DEF LeaseInv, ResetHolds, HeldInReset, MidResetHeld
<1> QED
  BY <1>1, LeaseInvariant, PTL

-----------------------------------------------------------------------------
(* What a step may do. *)

(* A lease becomes active by a promotion or at the end of its own Acquire, *)
(* and only the expiry pass makes an active lease expired.                 *)
LEMMA GrantSteps ==
  ASSUME OwnInv, [Next]_vars, NEW l \in Lease,
         state[l] # "active", state'[l] = "active"
  PROVE  \/ \E K \in SUBSET Key : PromoteGrant(l, K)
         \/ l = op.l /\ \E t \in Target : AcquireGrant(t)
<1> USE DEF OwnInv, TypeOK, leaseVars
<1>1. ASSUME NEW m \in Lease, NEW K \in SUBSET Key, PromoteGrant(m, K), m # l
      PROVE  FALSE
  BY <1>1 DEF PromoteGrant
<1>2. ASSUME NEW t \in Target, AcquireGrant(t), l # op.l
      PROVE  FALSE
  BY <1>2 DEF AcquireGrant, Born
<1>3. ASSUME PromoteNone
      PROVE  FALSE
  BY <1>3 DEF PromoteNone
<1>4. ASSUME NEW m \in Lease, NEW K \in SUBSET Key, PromoteErase(m, K)
      PROVE  FALSE
  BY <1>4 DEF PromoteErase
<1>5. ASSUME NEW m \in Lease, ExpireQueued(m) \/ ExpireActive(m) \/ Collect(m)
      PROVE  FALSE
  BY <1>5 DEF ExpireQueued, ExpireActive, Collect, EndQueued, EndActive
<1>6. ASSUME \/ \E t \in Target : AcquireErase(t)
             \/ AcquireQueue
      PROVE  FALSE
  BY <1>6 DEF AcquireErase, AcquireQueue, Enqueue, Born
<1>7. ASSUME ReleaseActive \/ ReleaseQueued
      PROVE  FALSE
  BY <1>7 DEF ReleaseActive, ReleaseQueued, EndActive, EndQueued
<1>8. ASSUME NEW m \in Lease, NEW t \in Target, NEW ok \in BOOLEAN, ResetDone(m, t, ok)
      PROVE  FALSE
  BY <1>8 DEF ResetDone
<1>9. ASSUME NEW t \in Target,
             \/ FinishReset(t) \/ Reserve(t) \/ Unreserve(t) \/ MarkClean(t)
             \/ \E broken \in BOOLEAN : Quarantine(t, broken)
      PROVE  FALSE
  BY <1>9 DEF FinishReset, Reserve, Unreserve, MarkClean, Quarantine
<1>10. ASSUME UNCHANGED coreVars
      PROVE  FALSE
  BY <1>10 DEF coreVars
<1> QED
  BY StepCases, <1>1, <1>2, <1>3, <1>4, <1>5, <1>6, <1>7, <1>8, <1>9, <1>10
  DEF CoreStep

LEMMA ExpirySteps ==
  ASSUME OwnInv, [Next]_vars, NEW l \in Lease,
         state[l] = "active", state'[l] = "expired"
  PROVE  ExpireActive(l)
<1> USE DEF OwnInv, TypeOK, leaseVars
<1>1. ASSUME NEW m \in Lease, ExpireActive(m), m # l
      PROVE  FALSE
  BY <1>1 DEF ExpireActive, EndActive
<1>2. \A K \in SUBSET Key : \A t :
         /\ l \notin SilentIn(UNION {queue[k] : k \in K}, t)
         /\ \A m \in Lease : key[m] \in Key => l \notin SilentIn(WalkedOver(m, K), t)
  BY SilentAreQueued
<1>3. ASSUME PromoteNone
      PROVE  FALSE
  BY <1>3, <1>2 DEF PromoteNone
<1>4. ASSUME NEW m \in Lease, NEW K \in SUBSET Key,
             PromoteErase(m, K) \/ PromoteGrant(m, K)
      PROVE  FALSE
  BY <1>4, <1>2 DEF PromoteErase, PromoteGrant, QueuedHaveKeys
<1>5. ASSUME NEW m \in Lease, ExpireQueued(m) \/ Collect(m)
      PROVE  FALSE
  BY <1>5 DEF ExpireQueued, Collect, EndQueued, Abandoned
<1>6. ASSUME \/ \E t \in Target : AcquireGrant(t) \/ AcquireErase(t)
             \/ AcquireQueue
      PROVE  FALSE
  BY <1>6 DEF AcquireGrant, AcquireErase, AcquireQueue, Enqueue, Born
<1>7. ASSUME ReleaseActive \/ ReleaseQueued
      PROVE  FALSE
  BY <1>7 DEF ReleaseActive, ReleaseQueued, EndActive, EndQueued
<1>8. ASSUME NEW m \in Lease, NEW t \in Target, NEW ok \in BOOLEAN, ResetDone(m, t, ok)
      PROVE  FALSE
  BY <1>8 DEF ResetDone
<1>9. ASSUME NEW t \in Target,
             \/ FinishReset(t) \/ Reserve(t) \/ Unreserve(t) \/ MarkClean(t)
             \/ \E broken \in BOOLEAN : Quarantine(t, broken)
      PROVE  FALSE
  BY <1>9 DEF FinishReset, Reserve, Unreserve, MarkClean, Quarantine
<1>10. ASSUME UNCHANGED coreVars
      PROVE  FALSE
  BY <1>10 DEF coreVars
<1> QED
  BY StepCases, <1>1, <1>3, <1>4, <1>5, <1>6, <1>7, <1>8, <1>9, <1>10
  DEF CoreStep

(* A lease that asked for reset "erase" gets a target wiped since its last *)
(* use: promoteLocked and Acquire erase a dirty one first, and dirty never *)
(* misses a use of a target only the manager frees.                        *)
THEOREM ErasedBeforeGrant == Spec => EraseGrantIsClean
<1>1. ASSUME LeaseInv, [Next]_vars, NEW l \in Lease,
             state[l] # "active", state'[l] = "active",
             reset'[l] = "erase", target'[l] \in Private
      PROVE  target'[l] \notin soiled
  <2> USE <1>1 DEF LeaseInv, OwnInv, TypeOK, UseIsMarked, NeedsErase
  <2>1. CASE \E K \in SUBSET Key : PromoteGrant(l, K)
    BY <2>1 DEF PromoteGrant, Assign
  <2>2. CASE l = op.l /\ \E t \in Target : AcquireGrant(t)
    BY <2>2 DEF AcquireGrant, Assign, Born
  <2> QED
    BY <2>1, <2>2, GrantSteps
<1>2. LeaseInv /\ [Next]_vars =>
        [\A l \in Lease : state[l] # "active" /\ state'[l] = "active"
            /\ reset'[l] = "erase" /\ target'[l] \in Private
          => target'[l] \notin soiled]_vars
  BY <1>1
<1> QED
  BY <1>2, LeaseInvariant, PTL DEF Spec, EraseGrantIsClean

(* promoteLocked passes over a waiting lease only when it cannot use the   *)
(* target, waits for its own erase, or ends with it.                       *)
THEOREM GrantsAreFIFO == Spec => FIFOPerKey
<1>1. ASSUME LeaseInv, [Next]_vars, NEW l \in Lease,
             state[l] = "queued", state'[l] = "active", NEW x \in ahead[l]
      PROVE  \/ state'[x] \notin Live
             \/ preGrant[x] # NoTarget
             \/ reset[x] # "none" /\ target'[l] \in Device
  <2> USE <1>1 DEF LeaseInv, OwnInv, TypeOK
  <2>1. PICK K \in SUBSET Key : PromoteGrant(l, K)
    <3>1. ~(l = op.l /\ \E t \in Target : AcquireGrant(t))
      BY DEF AcquireGrant, AcquireBody, Body, LockOK
    <3> QED
      BY <3>1, GrantSteps
  <2>2. key[l] \in Key /\ ahead[l] \subseteq queue[key[l]]
    BY DEF QueuedHaveKeys, QueueOrder
  <2>3. x \in Lease /\ x \in queue[key[l]] \cap ahead[l] /\ key[x] = key[l]
    BY <2>2 DEF QueueMembers
  <2>4. ~Stops(x, promoting) /\ CanTake(l, promoting)
    BY <2>1, <2>3 DEF PromoteGrant, First, Stops
  <2>5. target'[l] = promoting
    BY <2>1 DEF PromoteGrant, Assign
  <2>6. CASE ~CanTake(x, promoting)
    BY <2>3, <2>4, <2>5, <2>6 DEF CanTake, Suits
  <2>7. CASE CanTake(x, promoting) /\ Silent(x)
    <3>1. x \in SilentIn(WalkedOver(l, K), promoting)
      BY <2>3, <2>7 DEF SilentIn, WalkedOver
    <3> QED
      BY <2>1, <2>3, <3>1 DEF PromoteGrant, Live
  <2>8. CASE CanTake(x, promoting) /\ ~Silent(x)
    BY <2>4, <2>8 DEF Stops
  <2> QED
    BY <2>6, <2>7, <2>8
<1>2. LeaseInv /\ [Next]_vars =>
        [\A l \in Lease : state[l] = "queued" /\ state'[l] = "active" =>
           \A x \in ahead[l] :
             \/ state'[x] \notin Live
             \/ preGrant[x] # NoTarget
             \/ reset[x] # "none" /\ target'[l] \in Device]_vars
  BY <1>1
<1> QED
  BY <1>2, LeaseInvariant, PTL DEF Spec, FIFOPerKey

(* Acquire never overtakes a lease that waits with the same key. *)
THEOREM NewcomersQueue == Spec => NoQueueJumping
<1>1. ASSUME LeaseInv, [Next]_vars, NEW l \in Lease,
             state[l] = "unborn", state'[l] = "active", NEW x \in Lease
      PROVE  ~(state[x] = "queued" /\ key[x] = key'[l])
  <2> USE <1>1 DEF LeaseInv, OwnInv, TypeOK
  <2>1. PICK t \in Target : l = op.l /\ AcquireGrant(t)
    <3>1. ~\E K \in SUBSET Key : PromoteGrant(l, K)
      BY DEF PromoteGrant
    <3> QED
      BY <3>1, GrantSteps
  <2>2. op.k \in Key /\ key'[l] = op.k /\ t \in AcquireFree
    BY <2>1 DEF AcquireGrant, AcquireBody, Body, LockOK, Born
  <2>3. queue[op.k] = {}
    BY <2>2 DEF AcquireFree
  <2> QED
    BY <2>2, <2>3 DEF QueueMembers
<1>2. LeaseInv /\ [Next]_vars =>
        [\A l \in Lease : state[l] = "unborn" /\ state'[l] = "active" =>
           \A x \in Lease : ~(state[x] = "queued" /\ key[x] = key'[l])]_vars
  BY <1>1
<1> QED
  BY <1>2, LeaseInvariant, PTL DEF Spec, NoQueueJumping

(* No target goes to a lease whose owner fell silent, nor to one that has  *)
(* ended (queueOwnerSilentLocked).                                         *)
THEOREM SilentGetNothing == Spec => NoGrantToTheSilent
<1>1. ASSUME LeaseInv, [Next]_vars, NEW l \in Lease,
             state'[l] = "active", state[l] # "active"
      PROVE  state[l] \in {"unborn", "queued"} /\ ~Silent(l)
  <2> USE <1>1 DEF LeaseInv, OwnInv
  <2>1. CASE \E K \in SUBSET Key : PromoteGrant(l, K)
    BY <2>1 DEF PromoteGrant, First, Stops
  <2>2. CASE l = op.l /\ \E t \in Target : AcquireGrant(t)
    BY <2>2 DEF AcquireGrant, AcquireBody, Body, LockOK, Newborn, Silent
  <2> QED
    BY <2>1, <2>2, GrantSteps
<1>2. LeaseInv /\ [Next]_vars =>
        [\A l \in Lease : state'[l] = "active" /\ state[l] # "active" =>
           state[l] \in {"unborn", "queued"} /\ ~Silent(l)]_vars
  BY <1>1
<1> QED
  BY <1>2, LeaseInvariant, PTL DEF Spec, NoGrantToTheSilent

(* A lease expires only past its grace window, and warned (expireLocked). *)
THEOREM NoSuddenExpiry == Spec => ExpiryIsWarned
<1>1. ASSUME LeaseInv, [Next]_vars, NEW l \in Lease,
             state[l] = "active", state'[l] = "expired"
      PROVE  age[l] = "gone" /\ (Grace => l \in warned')
  <2>1. ExpireActive(l)
    BY <1>1, ExpirySteps DEF LeaseInv
  <2> QED
    BY <2>1 DEF ExpireActive, PastGrace
<1>2. LeaseInv /\ [Next]_vars =>
        [\A l \in Lease : state[l] = "active" /\ state'[l] = "expired" =>
           age[l] = "gone" /\ (Grace => l \in warned')]_vars
  BY <1>1
<1> QED
  BY <1>2, LeaseInvariant, PTL DEF Spec, ExpiryIsWarned

=============================================================================
