---------------------------- MODULE ServerProofs ----------------------------
(***************************************************************************)
(* What is proved, for every value of their constants, of what the server  *)
(* runs for its clients: asynchronous runs, their steps and the            *)
(* specifications exported from a journal, the operations on a target,     *)
(* WebSocket connections and journal tails.                                *)
(***************************************************************************)
EXTENDS MCServer, FiniteSetTheorems, TLAPS

-----------------------------------------------------------------------------
(* Asynchronous runs.                                                      *)

InFlight == {j \in Job : pc[j] \notin {"none", "done"}}
BeforeShot == {"none", "start", "acquire", "waiting", "boot", "prepare", "steps"}

(* What a run's lease may be at each point of executeRun, and why it is    *)
(* released, with its export or its error, when the run is published.      *)
JobAt(j) ==
  /\ submitter[j] = "none" => pc[j] = "none"
  /\ pc[j] = "none" => run[j].state = "none"
  /\ pc[j] \in {"none", "start", "acquire"} => grant[j] = "none"
  /\ run[j].state \in {"passed", "failed"} => pc[j] \in {"finish", "done"}
  /\ pc[j] = "abandon" => run[j].err
  /\ pc[j] \in {"publish", "finish", "done"} => grant[j] \notin LiveGrant
  /\ pc[j] = "publish" => grant[j] = "none" \/ run[j].err \/ run[j].export
  /\ pc[j] \in {"finish", "done"} => grant[j] = "none" \/ run[j].export

(* A lease is held no longer than its run has been going on. *)
JobTime(j) ==
  /\ pc[j] \in BeforeShot => shooting[j] = 0
  /\ pc[j] \in BeforeShot \cup Stages => held[j] <= spent[j] + shooting[j]

RunsInv ==
  /\ RunsTypeOK /\ RunsSlots /\ IsFiniteSet(InFlight)
  /\ \A j \in Job : JobAt(j) /\ JobTime(j)

(* When the margin covers the final screenshot, no lease expires before    *)
(* its run is through with it.                                             *)
RunsLeased == \A j \in Job : pc[j] \in BeforeShot \cup Stages => grant[j] # "expired"

LEMMA RunsStarts == ASSUME RunsInit PROVE RunsInv /\ RunsLeased
<1> USE RunsAssumption
<1>0. /\ \A j \in Job : run[j] = NoRunYet /\ pc[j] = "none" /\ grant[j] = "none" /\ spent[j] = 0
                        /\ held[j] = 0 /\ shooting[j] = 0 /\ submitter[j] = "none"
      /\ active = 0 /\ order = <<>>
  BY DEF RunsInit
<1>1. RunsTypeOK
  <2>1. NoRunYet \in [state: {"none", "pending", "running", "passed", "failed"},
                     stage: {"", "acquire", "release"} \cup Stages, err: BOOLEAN, export: BOOLEAN]
    BY DEF NoRunYet
  <2>2. 0 \in 0..runSeconds /\ 0 \in 0..TTL /\ 0 \in 0..stepSeconds /\ 0 \in 0..maxConcurrentRuns
    BY DEF TTL
  <2> HIDE DEF NoRunYet, TTL
  <2>3. <<>> \in Seq(Job)
    OBVIOUS
  <2> QED
    BY <2>1, <2>2, <2>3 DEF RunsInit, RunsTypeOK
<1>2. InFlight = {}
  BY <1>0 DEF InFlight
<1>3. RunsSlots /\ IsFiniteSet(InFlight)
  <2>1. active = Cardinality({j \in Job : pc[j] \notin {"none", "done"}})
    BY <1>0, <1>2, FS_EmptySet DEF InFlight
  <2> QED
    BY <2>1, <1>0, <1>2, FS_EmptySet DEF RunsSlots
<1>4. \A j \in Job : JobAt(j) /\ JobTime(j)
  <2> SUFFICES ASSUME NEW j \in Job PROVE JobAt(j) /\ JobTime(j)
    OBVIOUS
  <2>1. JobAt(j)
    <3>1. run[j].state = "none"
      <4>1. run[j] = NoRunYet
        BY <1>0
      <4>2. NoRunYet.state = "none"
        BY DEF NoRunYet
      <4> QED
        BY <4>1, <4>2
    <3>2. pc[j] = "none" /\ grant[j] = "none"
      BY <1>0
    <3> QED
      BY <3>1, <3>2 DEF JobAt, LiveGrant
  <2>2. JobTime(j)
    BY <1>0 DEF JobTime
  <2> QED
    BY <2>1, <2>2
<1>5. RunsLeased
  BY <1>0 DEF RunsLeased
<1> QED
  BY <1>1, <1>3, <1>4, <1>5 DEF RunsInv

(* One job goes on, and stays in flight or out of it. *)
LEMMA Runs_One ==
  ASSUME RunsInv, NEW j \in Job, RunsTypeOK', UNCHANGED <<order, active>>,
         pc'[j] \in {"none", "done"} <=> pc[j] \in {"none", "done"},
         \A k \in Job : k # j => /\ pc'[k] = pc[k] /\ run'[k] = run[k] /\ grant'[k] = grant[k]
                                 /\ submitter'[k] = submitter[k],
         UNCHANGED <<spent, held, shooting>>,
         JobAt(j)', JobTime(j)'
  PROVE  RunsInv'
<1>1. \A k \in Job : pc'[k] \notin {"none", "done"} <=> pc[k] \notin {"none", "done"}
  BY Zenon
<1>2. InFlight' = InFlight
  BY <1>1, Zenon DEF InFlight
<1>3. RunsSlots'
  BY <1>1, <1>2 DEF RunsInv, RunsSlots, InFlight
<1>4. \A k \in Job : JobAt(k)' /\ JobTime(k)'
  <2> SUFFICES ASSUME NEW k \in Job, k # j PROVE JobAt(k)' /\ JobTime(k)'
    OBVIOUS
  <2>1. JobAt(k) /\ JobTime(k)
    BY DEF RunsInv
  <2> QED
    BY <2>1 DEF JobAt, JobTime
<1> QED
  BY <1>2, <1>3, <1>4 DEF RunsInv

(* Taking a slot: what is retained of a sequence of runs. *)
UpTo(K, i) == Cardinality({k \in K : k <= i})

LEMMA Ranks ==
  ASSUME NEW K, K \subseteq Nat, IsFiniteSet(K)
  PROVE  /\ Cardinality(K) \in Nat
         /\ \A i \in K : UpTo(K, i) \in 1..Cardinality(K)
         /\ \A i, k \in K : i < k => UpTo(K, i) < UpTo(K, k)
         /\ \A n \in 1..Cardinality(K) : \E i \in K : UpTo(K, i) = n
<1> DEFINE D(x) == {k \in K : k <= x}
           m == Cardinality(K)
           f == [x \in K |-> UpTo(K, x)]
<1>0. m \in Nat
  BY FS_CardinalityType
<1>1. ASSUME NEW x \in K PROVE IsFiniteSet(D(x)) /\ UpTo(K, x) \in 1..m
  <2>1. D(x) \subseteq K /\ x \in D(x)
    OBVIOUS
  <2>2. IsFiniteSet(D(x)) /\ Cardinality(D(x)) <= m /\ Cardinality(D(x)) \in Nat
    BY <2>1, FS_Subset, FS_CardinalityType
  <2>3. Cardinality(D(x)) # 0
    BY <2>1, <2>2, FS_EmptySet
  <2> QED
    BY <2>2, <2>3, <1>0 DEF UpTo
<1>2. ASSUME NEW x \in K, NEW y \in K, x < y PROVE UpTo(K, x) < UpTo(K, y)
  <2> DEFINE A == D(x)  B == D(y)
  <2>0. x \in Nat /\ y \in Nat /\ \A k \in K : k \in Nat
    OBVIOUS
  <2>1. A \subseteq B /\ y \in B /\ y \notin A
    <3>1. \A k \in K : k <= x => k <= y
      BY <2>0, <1>2
    <3>2. ~ (y <= x) /\ y <= y
      BY <2>0, <1>2
    <3> QED
      BY <3>1, <3>2
  <2>2. IsFiniteSet(B) /\ IsFiniteSet(A)
    BY <1>1
  <2>3. UpTo(K, x) = Cardinality(A) /\ UpTo(K, y) = Cardinality(B)
    BY DEF UpTo
  <2> HIDE DEF A, B
  <2>4. Cardinality(A) <= Cardinality(B) /\ Cardinality(A) # Cardinality(B)
    BY <2>1, <2>2, FS_Subset
  <2>5. Cardinality(A) \in Nat /\ Cardinality(B) \in Nat
    BY <2>2, FS_CardinalityType
  <2> QED
    BY <2>3, <2>4, <2>5
<1> HIDE DEF D, m
<1>3. f \in Injection(K, 1..m)
  <2>1. f \in [K -> 1..m]
    BY <1>1
  <2>2. \A x, y \in K : f[x] = f[y] => x = y
    <3> SUFFICES ASSUME NEW x \in K, NEW y \in K, x # y PROVE f[x] # f[y]
      OBVIOUS
    <3>1. x < y \/ y < x
      OBVIOUS
    <3>2. UpTo(K, x) \in Nat /\ UpTo(K, y) \in Nat
      BY <1>0, <1>1
    <3> QED
      BY <3>1, <3>2, <1>2
  <2> QED
    BY <2>1, <2>2 DEF Injection, IsInjective
<1>4. IsFiniteSet(1..m) /\ Cardinality(1..m) = m
  BY <1>0, FS_Interval
<1>5. f \in Surjection(K, 1..m)
  BY <1>3, <1>4, FS_Injection DEF m
<1>6. \A n \in 1..m : \E i \in K : f[i] = n
  BY <1>5 DEF Surjection
<1> QED
  BY <1>0, <1>1, <1>2, <1>6 DEF m

LEMMA Runs_Pruned ==
  ASSUME NEW s \in Seq(Job)
  PROVE  /\ Pruned(s) \in Seq(Job)
         /\ \A i \in DOMAIN s : pc[s[i]] # "done" => \E n \in DOMAIN Pruned(s) : Pruned(s)[n] = s[i]
<1> DEFINE old(i) == Cardinality({k \in Finished(s) : k >= i}) > maxFinishedRuns
           keep == {i \in DOMAIN s : i \notin Finished(s) \/ ~ old(i)}
           at(n) == CHOOSE i \in keep : Cardinality({k \in keep : k <= i}) = n
           m == Cardinality(keep)
<1>1. Pruned(s) = [n \in 1..m |-> s[at(n)]]
  BY DEF Pruned
<1>2. DOMAIN s = 1..Len(s) /\ Len(s) \in Nat /\ IsFiniteSet(1..Len(s))
  BY FS_Interval
<1>3. keep \subseteq DOMAIN s /\ keep \subseteq Nat /\ IsFiniteSet(keep)
  <2>1. keep \subseteq 1..Len(s) /\ keep \subseteq DOMAIN s
    BY <1>2, Zenon
  <2> HIDE DEF keep
  <2>2. IsFiniteSet(keep)
    BY <2>1, <1>2, FS_Subset
  <2> QED
    BY <2>1, <2>2, <1>2
<1>4. \A i \in DOMAIN s : pc[s[i]] # "done" => i \in keep
  BY DEF Finished
<1> DEFINE K == keep
<1> HIDE DEF keep
<1>5. /\ m \in Nat
      /\ \A i \in K : UpTo(K, i) \in 1..m
      /\ \A i, k \in K : i < k => UpTo(K, i) < UpTo(K, k)
      /\ \A n \in 1..m : \E i \in K : UpTo(K, i) = n
  BY <1>3, Ranks
<1>6. \A n : at(n) = CHOOSE i \in K : UpTo(K, i) = n
  BY DEF UpTo
<1> HIDE DEF m, K, at
<1>7. K = keep
  BY DEF K
<1>8. \A n \in 1..m : at(n) \in K /\ UpTo(K, at(n)) = n
  BY <1>5, <1>6
<1>9. \A n \in 1..m : s[at(n)] \in Job
  BY <1>3, <1>7, <1>8
<1>10. Pruned(s) \in [1..m -> Job]
  BY <1>1, <1>9
<1>11. Pruned(s) \in Seq(Job)
  BY <1>5, <1>10
<1>12. ASSUME NEW i \in DOMAIN s, pc[s[i]] # "done"
       PROVE  \E n \in DOMAIN Pruned(s) : Pruned(s)[n] = s[i]
  <2>1. i \in K
    BY <1>4, <1>7, <1>12
  <2>2. UpTo(K, i) \in 1..m
    BY <2>1, <1>5
  <2>3. PICK n \in 1..m : n = UpTo(K, i)
    BY <2>2
  <2>4. at(n) \in K /\ UpTo(K, at(n)) = n
    BY <1>8
  <2>5. at(n) = i
    <3>1. at(n) \in Nat /\ i \in Nat /\ UpTo(K, i) \in Nat
      BY <1>3, <1>7, <2>1, <2>2, <2>4, <1>5
    <3>2. ~ (at(n) < i) /\ ~ (i < at(n))
      BY <1>5, <2>1, <2>3, <2>4, <3>1
    <3> QED
      BY <3>1, <3>2
  <2>6. Pruned(s)[n] = s[i] /\ n \in DOMAIN Pruned(s)
    BY <1>1, <2>5
  <2> QED
    BY <2>6
<1> QED
  BY <1>11, <1>12

LEMMA Runs_Created ==
  ASSUME RunsInv, NEW j \in Job, NEW mode \in {"sync", "async"}, CreateRun(j, mode)
  PROVE  RunsInv' /\ (RunsLeased => RunsLeased')
<1> USE RunsAssumption
<1>0. PICK s : s = Append(order, j)
  OBVIOUS
<1>1. /\ submitter[j] = "none" /\ active < maxConcurrentRuns /\ active' = active + 1
      /\ run' = [run EXCEPT ![j] = [NoRunYet EXCEPT !.state = "pending"]]
      /\ order' = Pruned(s) /\ pc' = [pc EXCEPT ![j] = "start"]
      /\ submitter' = [submitter EXCEPT ![j] = mode] /\ UNCHANGED <<grant, spent, held, shooting>>
  BY <1>0 DEF CreateRun, Room
<1>2. RunsTypeOK /\ RunsSlots /\ JobAt(j) /\ JobTime(j) /\ active = Cardinality(InFlight) /\ IsFiniteSet(InFlight)
  BY DEF RunsInv, RunsSlots, InFlight
<1>3. pc[j] = "none" /\ grant[j] = "none" /\ run[j].state = "none"
  BY <1>1, <1>2 DEF JobAt
<1>4. s \in Seq(Job) /\ s[Len(order) + 1] = j /\ Len(order) + 1 \in DOMAIN s
      /\ \A i \in DOMAIN order : i \in DOMAIN s /\ s[i] = order[i]
  <2>1. order \in Seq(Job)
    BY <1>2 DEF RunsTypeOK
  <2> QED
    BY <2>1, <1>0
<1>5. /\ order' \in Seq(Job)
      /\ \A i \in DOMAIN s : pc[s[i]] # "done" => \E n \in DOMAIN order' : order'[n] = s[i]
  BY <1>1, <1>4, Runs_Pruned
<1>6. /\ pc'[j] = "start" /\ \A k \in Job : k # j => pc'[k] = pc[k]
      /\ run'[j] = [NoRunYet EXCEPT !.state = "pending"] /\ submitter'[j] = mode
      /\ \A k \in Job : k # j => run'[k] = run[k] /\ submitter'[k] = submitter[k]
  BY <1>1, <1>2 DEF RunsTypeOK
<1>7. RunsTypeOK'
  <2>1. [NoRunYet EXCEPT !.state = "pending"] \in
          [state: {"none", "pending", "running", "passed", "failed"},
           stage: {"", "acquire", "release"} \cup Stages, err: BOOLEAN, export: BOOLEAN]
    BY DEF NoRunYet
  <2>2. active' \in 0..maxConcurrentRuns
    <3>1. active \in 0..maxConcurrentRuns
      BY <1>2 DEF RunsTypeOK
    <3> QED
      BY <3>1, <1>1
  <2> HIDE DEF NoRunYet
  <2> QED
    BY <2>1, <2>2, <1>1, <1>2, <1>5 DEF RunsTypeOK
<1>8. InFlight' = InFlight \cup {j} /\ j \notin InFlight
  BY <1>3, <1>6 DEF InFlight
<1>9. IsFiniteSet(InFlight') /\ Cardinality(InFlight') = Cardinality(InFlight) + 1
  BY <1>2, <1>8, FS_AddElement
<1>10. RunsSlots'
  <2>1. active' = Cardinality(InFlight')
    BY <1>1, <1>2, <1>9
  <2>2. ASSUME NEW k \in Job, pc'[k] \notin {"none", "done"} PROVE \E i \in DOMAIN order' : order'[i] = k
    <3>1. CASE k = j
      BY <3>1, <1>3, <1>4, <1>5
    <3>2. CASE k # j
      <4>1. \E i \in DOMAIN order : order[i] = k
        BY <2>2, <3>2, <1>2, <1>6 DEF RunsSlots
      <4>2. pc[k] # "done"
        BY <2>2, <3>2, <1>6
      <4> QED
        BY <4>1, <4>2, <1>4, <1>5
    <3> QED
      BY <3>1, <3>2
  <2> QED
    BY <2>1, <2>2 DEF RunsSlots, InFlight
<1>11. \A k \in Job : JobAt(k)' /\ JobTime(k)'
  <2>1. JobAt(j)' /\ JobTime(j)'
    <3>1. JobAt(j)'
      <4>1. run'[j].state = "pending"
        BY <1>6 DEF NoRunYet
      <4>2. pc'[j] = "start" /\ grant'[j] = "none" /\ submitter'[j] # "none"
        BY <1>1, <1>3, <1>6
      <4> QED
        BY <4>1, <4>2 DEF JobAt, LiveGrant
    <3>2. shooting[j] = 0 /\ held[j] <= spent[j] + shooting[j]
      BY <1>2, <1>3 DEF JobTime, BeforeShot
    <3>3. JobTime(j)'
      BY <3>2, <1>1 DEF JobTime
    <3> QED
      BY <3>1, <3>3
  <2>2. ASSUME NEW k \in Job, k # j PROVE JobAt(k)' /\ JobTime(k)'
    <3>1. JobAt(k) /\ JobTime(k)
      BY DEF RunsInv
    <3> QED
      BY <3>1, <1>1, <1>6, <2>2 DEF JobAt, JobTime
  <2> QED
    BY <2>1, <2>2
<1>12. RunsLeased => RunsLeased'
  <2>1. \A k \in Job : grant'[k] # "expired" \/ (k # j /\ grant'[k] = grant[k])
    BY <1>1, <1>3
  <2> QED
    BY <2>1, <1>6 DEF RunsLeased
<1> QED
  BY <1>7, <1>9, <1>10, <1>11, <1>12 DEF RunsInv

(* The clients, the other runs and the lease manager. *)
LEMMA Runs_Around ==
  ASSUME RunsInv, NEW j \in Job,
         \/ RefuseSpec(j) \/ Overloaded(j) \/ ClientLeaves(j) \/ ClientAnswered(j)
         \/ PromoteJob(j) \/ EndedElsewhere(j)
  PROVE  RunsInv' /\ (RunsLeased => RunsLeased')
<1> USE RunsAssumption
<1>1. RunsTypeOK /\ JobAt(j) /\ JobTime(j)
  BY DEF RunsInv
<1>2. UNCHANGED <<run, pc, spent, held, shooting, active, order>>
  BY DEF RefuseSpec, Overloaded, ClientLeaves, ClientAnswered, PromoteJob, EndedElsewhere
<1>3. RunsTypeOK' /\ \A k \in Job : k # j => grant'[k] = grant[k] /\ submitter'[k] = submitter[k]
  BY <1>1, <1>2 DEF RefuseSpec, Overloaded, ClientLeaves, ClientAnswered, PromoteJob, EndedElsewhere,
                    RunsTypeOK, LiveGrant
<1>4. /\ submitter'[j] = "none" => submitter[j] = "none"
      /\ grant'[j] # "none" => grant[j] # "none"
      /\ grant'[j] \in LiveGrant => grant[j] \in LiveGrant
      /\ grant'[j] = "expired" => grant[j] = "expired"
      /\ grant[j] = "none" => grant'[j] = "none"
  BY <1>1 DEF RefuseSpec, Overloaded, ClientLeaves, ClientAnswered, PromoteJob, EndedElsewhere,
              RunsTypeOK, LiveGrant
<1>5. JobAt(j)'
  BY <1>1, <1>2, <1>4 DEF JobAt
<1>6. JobTime(j)'
  BY <1>1, <1>2 DEF JobTime
<1>7. RunsLeased => RunsLeased'
  BY <1>2, <1>3, <1>4 DEF RunsLeased
<1> QED
  BY <1>2, <1>3, <1>5, <1>6, <1>7, Runs_One

(* A step of executeRun. *)
LEMMA Runs_Goes ==
  ASSUME RunsInv, NEW j \in Job, NEW where,
         where \in {"acquire", "waiting", "release", "abandon", "publish", "finish"} \cup Stages,
         pc[j] \notin {"none", "done"}, Goto(j, where), RunsTypeOK',
         UNCHANGED <<spent, held, shooting, active, order, submitter>>,
         \A k \in Job : k # j => run'[k] = run[k] /\ grant'[k] = grant[k],
         JobAt(j)',
         where \in BeforeShot => pc[j] \in BeforeShot,
         where \in Stages => pc[j] \in BeforeShot \cup Stages,
         where \in BeforeShot \cup Stages => grant'[j] = grant[j] \/ grant'[j] # "expired"
  PROVE  RunsInv' /\ (RunsLeased => RunsLeased')
<1>1. RunsTypeOK /\ JobTime(j)
  BY DEF RunsInv
<1>2. pc'[j] = where /\ \A k \in Job : k # j => pc'[k] = pc[k]
  BY <1>1 DEF Goto, RunsTypeOK
<1>3. pc'[j] \notin {"none", "done"}
  BY <1>2 DEF Stages
<1>4. JobTime(j)'
  BY <1>1, <1>2 DEF JobTime, BeforeShot
<1>5. RunsInv'
  BY <1>2, <1>3, <1>4, Runs_One
<1>6. RunsLeased => RunsLeased'
  BY <1>2 DEF RunsLeased, BeforeShot
<1> QED
  BY <1>5, <1>6

LEMMA Runs_Steps ==
  ASSUME RunsInv, NEW j \in Job, RunStepOf(j), ~ FinishJob(j)
  PROVE  RunsInv' /\ (RunsLeased => RunsLeased')
<1> USE RunsAssumption
<1>1. RunsTypeOK /\ JobAt(j)
  BY DEF RunsInv
<1>2. UNCHANGED <<spent, held, shooting, active, order, submitter>>
  BY DEF RunStepOf, StartRun, AcquireRefused, AcquireLeased, AcquireWaits, WaitSeesGrant, WaitSeesEnd,
         WaitGivesUp, AbandonQueuedLease, StageDone, StageFails, StepsFail, StagePanics, RunRelease, FinishRun
<1> DEFINE Rec == [state: {"none", "pending", "running", "passed", "failed"},
                   stage: {"", "acquire", "release"} \cup Stages, err: BOOLEAN, export: BOOLEAN]
           Grants == {"none", "queued", "active", "over", "expired"}
(* What a step may do to the job, as new values of its three fields. *)
<1>3. ASSUME NEW where, where \in {"acquire", "waiting", "release", "abandon", "publish", "finish"} \cup Stages,
             pc[j] \notin {"none", "done"}, Goto(j, where),
             run'[j] \in Rec, grant'[j] \in Grants,
             run' = [run EXCEPT ![j] = run'[j]], grant' = [grant EXCEPT ![j] = grant'[j]],
             JobAt(j)',
             where \in BeforeShot => pc[j] \in BeforeShot,
             where \in Stages => pc[j] \in BeforeShot \cup Stages,
             where \in BeforeShot \cup Stages => grant'[j] = grant[j] \/ grant'[j] # "expired"
      PROVE  RunsInv' /\ (RunsLeased => RunsLeased')
  <2>1. \A k \in Job : k # j => run'[k] = run[k] /\ grant'[k] = grant[k]
    BY <1>1, <1>3 DEF RunsTypeOK
  <2>2. run' \in [Job -> Rec] /\ grant' \in [Job -> Grants]
    BY <1>1, <1>3 DEF RunsTypeOK
  <2>3. pc' \in [Job -> {"none", "start", "acquire", "waiting", "release", "abandon", "publish",
                     "finish", "done"} \cup Stages]
    BY <1>1, <1>3 DEF RunsTypeOK, Goto
  <2>4. RunsTypeOK'
    BY <2>2, <2>3, <1>1, <1>2 DEF RunsTypeOK
  <2> QED
    BY <2>1, <2>4, <1>2, <1>3, Runs_Goes
<1>a. /\ run \in [Job -> Rec] /\ grant \in [Job -> Grants] /\ run[j] \in Rec /\ grant[j] \in Grants
      /\ pc[j] \in {"none", "start", "acquire", "waiting", "release", "abandon", "publish",
                     "finish", "done"} \cup Stages
      /\ pc \in [Job -> {"none", "start", "acquire", "waiting", "release", "abandon", "publish",
                     "finish", "done"} \cup Stages]
  BY <1>1 DEF RunsTypeOK
<1> HIDE DEF Rec
<1>4. CASE StartRun(j)
  <2>1. pc[j] = "start" /\ Goto(j, "acquire") /\ grant' = grant
        /\ run' = [run EXCEPT ![j].state = "running", ![j].stage = "acquire"]
    BY <1>4 DEF StartRun
  <2>2. run'[j] \in Rec /\ run'[j].state = "running" /\ run' = [run EXCEPT ![j] = run'[j]]
    BY <2>1, <1>a DEF Rec
  <2>3. pc'[j] = "acquire" /\ grant' = [grant EXCEPT ![j] = grant'[j]]
    BY <2>1, <1>a DEF Goto
  <2>4. JobAt(j)'
    BY <2>1, <2>2, <2>3, <1>1, <1>2 DEF JobAt, LiveGrant
  <2> QED
    BY <2>1, <2>2, <2>3, <2>4, <1>a, <1>3 DEF BeforeShot, Stages
<1>5. CASE AcquireRefused(j)
  <2>1. pc[j] = "acquire" /\ Goto(j, "publish") /\ grant' \in {grant, [grant EXCEPT ![j] = "over"]}
        /\ run' = [run EXCEPT ![j].err = TRUE]
    BY <1>5 DEF AcquireRefused, Fails
  <2>2. run'[j] \in Rec /\ run'[j].err /\ run'[j].state = run[j].state /\ run' = [run EXCEPT ![j] = run'[j]]
    BY <2>1, <1>a DEF Rec
  <2>3. pc'[j] = "publish" /\ grant' = [grant EXCEPT ![j] = grant'[j]] /\ grant'[j] \in {"none", "over"}
    BY <2>1, <1>1, <1>a DEF Goto, JobAt
  <2>4. JobAt(j)'
    BY <2>1, <2>2, <2>3, <1>1, <1>2 DEF JobAt, LiveGrant
  <2> QED
    BY <2>1, <2>2, <2>3, <2>4, <1>a, <1>3 DEF BeforeShot, Stages
<1>6. CASE AcquireLeased(j)
  <2>1. pc[j] = "acquire" /\ Goto(j, "boot") /\ grant' = [grant EXCEPT ![j] = "active"]
        /\ run' = [run EXCEPT ![j].stage = "boot"]
    BY <1>6 DEF AcquireLeased
  <2>2. run'[j] \in Rec /\ run'[j].state = run[j].state /\ run' = [run EXCEPT ![j] = run'[j]]
    BY <2>1, <1>a DEF Rec, Stages
  <2>3. pc'[j] = "boot" /\ grant' = [grant EXCEPT ![j] = grant'[j]] /\ grant'[j] = "active"
    BY <2>1, <1>a DEF Goto
  <2>4. JobAt(j)'
    BY <2>1, <2>2, <2>3, <1>1, <1>2 DEF JobAt, LiveGrant
  <2> QED
    BY <2>1, <2>2, <2>3, <2>4, <1>a, <1>3 DEF BeforeShot, Stages
<1>7. CASE AcquireWaits(j)
  <2>1. pc[j] = "acquire" /\ Goto(j, "waiting") /\ grant' = [grant EXCEPT ![j] = "queued"] /\ run' = run
    BY <1>7 DEF AcquireWaits
  <2>2. run'[j] \in Rec /\ run' = [run EXCEPT ![j] = run'[j]]
    BY <2>1, <1>a DEF Rec
  <2>3. pc'[j] = "waiting" /\ grant' = [grant EXCEPT ![j] = grant'[j]] /\ grant'[j] = "queued"
    BY <2>1, <1>a DEF Goto
  <2>4. JobAt(j)'
    BY <2>1, <2>2, <2>3, <1>1, <1>2 DEF JobAt, LiveGrant
  <2> QED
    BY <2>1, <2>2, <2>3, <2>4, <1>a, <1>3 DEF BeforeShot, Stages
<1>8. CASE WaitSeesGrant(j)
  <2>1. pc[j] = "waiting" /\ Goto(j, "boot") /\ grant' = grant /\ grant[j] = "active"
        /\ run' = [run EXCEPT ![j].stage = "boot"]
    BY <1>8 DEF WaitSeesGrant
  <2>2. run'[j] \in Rec /\ run'[j].state = run[j].state /\ run' = [run EXCEPT ![j] = run'[j]]
    BY <2>1, <1>a DEF Rec, Stages
  <2>3. pc'[j] = "boot" /\ grant' = [grant EXCEPT ![j] = grant'[j]]
    BY <2>1, <1>a DEF Goto
  <2>4. JobAt(j)'
    BY <2>1, <2>2, <2>3, <1>1, <1>2 DEF JobAt, LiveGrant
  <2> QED
    BY <2>1, <2>2, <2>3, <2>4, <1>a, <1>3 DEF BeforeShot, Stages
<1>9. CASE WaitSeesEnd(j) \/ WaitGivesUp(j) \/ StageFails(j) \/ StepsFail(j) \/ StagePanics(j)
  <2>1. PICK where : /\ Goto(j, where) /\ grant' = grant
                     /\ run' = [run EXCEPT ![j].err = TRUE]
                     /\ \/ pc[j] = "waiting" /\ grant[j] \notin LiveGrant /\ where = "publish"
                        \/ pc[j] = "waiting" /\ where = "abandon"
                        \/ pc[j] \in Stages /\ where = "release"
                        \/ pc[j] = "steps" /\ where = "shot"
    BY <1>9, Zenon DEF WaitSeesEnd, WaitGivesUp, StageFails, StepsFail, StagePanics, Fails, Stages
  <2>2. run'[j] \in Rec /\ run'[j].err /\ run'[j].state = run[j].state /\ run' = [run EXCEPT ![j] = run'[j]]
    BY <2>1, <1>a DEF Rec
  <2>3. pc'[j] = where /\ grant' = [grant EXCEPT ![j] = grant'[j]] /\ grant'[j] = grant[j]
    BY <2>1, <1>a DEF Goto
  <2>4. JobAt(j)'
    BY <2>1, <2>2, <2>3, <1>1, <1>2 DEF JobAt, LiveGrant, Stages
  <2> QED
    BY <2>1, <2>2, <2>3, <2>4, <1>a, <1>3 DEF BeforeShot, Stages
<1>10. CASE AbandonQueuedLease(j)
  <2>1. pc[j] = "abandon" /\ Goto(j, "publish") /\ run' = run
        /\ grant' = [grant EXCEPT ![j] = IF grant[j] \in LiveGrant THEN "over" ELSE grant[j]]
    BY <1>10, <1>a DEF AbandonQueuedLease
  <2>2. run'[j] \in Rec /\ run' = [run EXCEPT ![j] = run'[j]] /\ run'[j] = run[j]
    BY <2>1, <1>a DEF Rec
  <2>3. pc'[j] = "publish" /\ grant' = [grant EXCEPT ![j] = grant'[j]] /\ grant'[j] \notin LiveGrant
        /\ grant'[j] \in Grants
    BY <2>1, <1>a DEF Goto, LiveGrant
  <2>4. JobAt(j)'
    BY <2>1, <2>2, <2>3, <1>1, <1>2 DEF JobAt
  <2> QED
    BY <2>1, <2>2, <2>3, <2>4, <1>a, <1>3 DEF BeforeShot, Stages
<1>11. CASE StageDone(j)
  <2>1. PICK where : /\ pc[j] \in Stages /\ Goto(j, where) /\ grant' = grant /\ where = NextStage[pc[j]]
                     /\ run' = [run EXCEPT ![j].stage = IF run[j].err THEN run[j].stage ELSE where]
    BY <1>11, <1>a DEF StageDone
  <2>2. /\ where \in Stages \cup {"release"} /\ where # "boot"
        /\ where \in BeforeShot => pc[j] \in BeforeShot
    BY <2>1 DEF NextStage, Stages, BeforeShot
  <2>3. run'[j] \in Rec /\ run'[j].state = run[j].state /\ run' = [run EXCEPT ![j] = run'[j]]
    BY <2>1, <2>2, <1>a DEF Rec
  <2>4. pc'[j] = where /\ grant' = [grant EXCEPT ![j] = grant'[j]] /\ grant'[j] = grant[j]
    BY <2>1, <1>a DEF Goto
  <2>5. JobAt(j)'
    BY <2>1, <2>2, <2>3, <2>4, <1>1, <1>2 DEF JobAt, LiveGrant, Stages
  <2> QED
    BY <2>1, <2>2, <2>3, <2>4, <2>5, <1>a, <1>3 DEF BeforeShot, Stages
<1>12. CASE RunRelease(j)
  <2>1. /\ pc[j] = "release" /\ Goto(j, "publish")
        /\ grant' = [grant EXCEPT ![j] = IF grant[j] \in LiveGrant THEN "over" ELSE grant[j]]
        /\ run' = [run EXCEPT ![j].stage = IF run[j].err THEN run[j].stage ELSE "release", ![j].export = TRUE]
    BY <1>12, <1>a DEF RunRelease
  <2>2. run'[j] \in Rec /\ run'[j].export /\ run'[j].state = run[j].state /\ run' = [run EXCEPT ![j] = run'[j]]
    BY <2>1, <1>a DEF Rec
  <2>3. pc'[j] = "publish" /\ grant' = [grant EXCEPT ![j] = grant'[j]] /\ grant'[j] \notin LiveGrant
        /\ grant'[j] \in Grants
    BY <2>1, <1>a DEF Goto, LiveGrant
  <2>4. JobAt(j)'
    BY <2>1, <2>2, <2>3, <1>1, <1>2 DEF JobAt
  <2> QED
    BY <2>1, <2>2, <2>3, <2>4, <1>a, <1>3 DEF BeforeShot, Stages
<1>13. CASE FinishRun(j)
  <2> DEFINE e == run[j].export \/ (run[j].err /\ grant[j] # "none")
             st == IF run[j].err THEN "failed" ELSE "passed"
             sg == IF run[j].err THEN run[j].stage ELSE ""
  <2>1. /\ pc[j] = "publish" /\ Goto(j, "finish") /\ grant' = grant
        /\ run' = [run EXCEPT ![j].state = st, ![j].stage = sg, ![j].export = e]
    BY <1>13, <1>a DEF FinishRun
  <2>2. e \in BOOLEAN /\ st \in {"failed", "passed"} /\ sg \in {"", "acquire", "release"} \cup Stages
    BY <1>a DEF Rec
  <2>3. grant[j] = "none" \/ e
    BY <1>1, <2>1 DEF JobAt
  <2> HIDE DEF e, st, sg
  <2>4. run'[j] \in Rec /\ run'[j].export = e /\ run' = [run EXCEPT ![j] = run'[j]]
    BY <2>1, <2>2, <1>a DEF Rec
  <2>5. pc'[j] = "finish" /\ grant' = [grant EXCEPT ![j] = grant'[j]] /\ grant'[j] = grant[j]
    BY <2>1, <1>a DEF Goto
  <2>6. JobAt(j)'
    BY <2>1, <2>3, <2>4, <2>5, <1>1, <1>2 DEF JobAt
  <2> QED
    BY <2>1, <2>4, <2>5, <2>6, <1>a, <1>3 DEF BeforeShot, Stages
<1> QED
  BY <1>4, <1>5, <1>6, <1>7, <1>8, <1>9, <1>10, <1>11, <1>12, <1>13 DEF RunStepOf

LEMMA Runs_Finish == ASSUME RunsInv, NEW j \in Job, FinishJob(j) PROVE RunsInv' /\ (RunsLeased => RunsLeased')
<1> USE RunsAssumption
<1>1. /\ pc[j] = "finish" /\ pc' = [pc EXCEPT ![j] = "done"] /\ active' = active - 1
      /\ UNCHANGED <<run, grant, spent, held, shooting, order, submitter>>
  BY DEF FinishJob, Goto
<1>2. RunsTypeOK /\ RunsSlots /\ active = Cardinality(InFlight) /\ IsFiniteSet(InFlight)
  BY DEF RunsInv, RunsSlots, InFlight
<1>3. pc'[j] = "done" /\ \A k \in Job : k # j => pc'[k] = pc[k]
  BY <1>1, <1>2 DEF RunsTypeOK
<1>4. InFlight' = InFlight \ {j} /\ j \in InFlight
  BY <1>1, <1>3 DEF InFlight
<1>5. IsFiniteSet(InFlight') /\ Cardinality(InFlight') = Cardinality(InFlight) - 1
      /\ Cardinality(InFlight') \in Nat
  BY <1>2, <1>4, FS_RemoveElement, FS_CardinalityType
<1>6. active' \in 0..maxConcurrentRuns /\ active' = Cardinality(InFlight')
  <2>1. active \in 0..maxConcurrentRuns
    BY <1>2 DEF RunsTypeOK
  <2> QED
    BY <2>1, <1>1, <1>2, <1>5
<1>7. RunsTypeOK'
  BY <1>1, <1>2, <1>6 DEF RunsTypeOK
<1>8. RunsSlots'
  BY <1>1, <1>2, <1>3, <1>6 DEF RunsSlots, InFlight
<1>9. \A k \in Job : JobAt(k)' /\ JobTime(k)'
  <2> SUFFICES ASSUME NEW k \in Job PROVE JobAt(k)' /\ JobTime(k)'
    OBVIOUS
  <2>1. JobAt(k) /\ JobTime(k)
    BY DEF RunsInv
  <2>2. CASE k = j
    BY <2>1, <2>2, <1>1, <1>3 DEF JobAt, JobTime, BeforeShot, Stages
  <2>3. CASE k # j
    BY <2>1, <2>3, <1>1, <1>3 DEF JobAt, JobTime
  <2> QED
    BY <2>2, <2>3
<1>10. RunsLeased => RunsLeased'
  BY <1>1, <1>3 DEF RunsLeased, BeforeShot, Stages
<1> QED
  BY <1>5, <1>7, <1>8, <1>9, <1>10 DEF RunsInv

LEMMA Runs_Time ==
  ASSUME RunsInv, TimePasses
  PROVE  RunsInv' /\ (RunsLeased /\ stepSeconds < runLeaseTTLMargin => RunsLeased')
<1> USE RunsAssumption
<1>0. TTL \in Nat /\ TTL = runSeconds + runLeaseTTLMargin
  BY DEF TTL
<1> HIDE DEF TTL
<1>1. RunsTypeOK /\ RunsSlots /\ IsFiniteSet(InFlight)
  BY DEF RunsInv
<1>2. UNCHANGED <<run, pc, active, order, submitter>>
  BY DEF TimePasses
<1>3. \A j \in Job :
        /\ pc[j] \in {"none", "waiting", "done"} \cup Stages
        /\ Running(j) => spent[j] < runSeconds /\ spent'[j] = spent[j] + 1
        /\ ~ Running(j) => spent'[j] = spent[j]
        /\ pc[j] = "shot" => shooting[j] < stepSeconds /\ shooting'[j] = shooting[j] + 1
        /\ pc[j] # "shot" => shooting'[j] = shooting[j]
        /\ held'[j] = IF grant[j] = "active" /\ held[j] < TTL THEN held[j] + 1 ELSE held[j]
        /\ grant'[j] = IF grant[j] = "active" /\ held[j] + 1 >= TTL THEN "expired" ELSE grant[j]
  BY DEF TimePasses
<1>4. \A j \in Job : /\ spent[j] \in 0..runSeconds /\ held[j] \in 0..TTL /\ shooting[j] \in 0..stepSeconds
                     /\ grant[j] \in {"none", "queued", "active", "over", "expired"}
                     /\ JobAt(j) /\ JobTime(j)
  BY <1>1 DEF RunsInv, RunsTypeOK
<1>5. \A j \in Job : /\ spent'[j] \in 0..runSeconds /\ held'[j] \in 0..TTL /\ shooting'[j] \in 0..stepSeconds
                     /\ grant'[j] \in {"none", "queued", "active", "over", "expired"}
  BY <1>0, <1>3, <1>4
<1>6. RunsTypeOK'
  <2>1. /\ grant' \in [Job -> {"none", "queued", "active", "over", "expired"}]
        /\ spent' \in [Job -> 0..runSeconds] /\ held' \in [Job -> 0..TTL]
        /\ shooting' \in [Job -> 0..stepSeconds]
    BY <1>5 DEF TimePasses
  <2> QED
    BY <2>1, <1>1, <1>2 DEF RunsTypeOK, TTL
<1>7. RunsSlots' /\ IsFiniteSet(InFlight')
  BY <1>1, <1>2 DEF RunsSlots, InFlight
<1>8. \A j \in Job : JobAt(j)'
  <2> SUFFICES ASSUME NEW j \in Job PROVE JobAt(j)'
    OBVIOUS
  <2>1. JobAt(j) /\ (grant'[j] = grant[j] \/ (grant[j] = "active" /\ grant'[j] = "expired"))
    BY <1>3, <1>4
  <2> QED
    BY <2>1, <1>2 DEF JobAt, LiveGrant
<1>9. \A j \in Job : JobTime(j)'
  <2> SUFFICES ASSUME NEW j \in Job PROVE JobTime(j)'
    OBVIOUS
  <2>1. JobTime(j) /\ JobAt(j)
    BY <1>4
  <2>2. CASE Running(j)
    <3>1. spent'[j] = spent[j] + 1 /\ pc[j] # "shot" /\ pc[j] \in BeforeShot /\ shooting'[j] = shooting[j]
      BY <2>2, <1>3 DEF Running, BeforeShot
    <3>2. shooting[j] = 0 /\ held[j] <= spent[j] + shooting[j] /\ held'[j] <= held[j] + 1
      BY <2>1, <3>1, <1>3, <1>4 DEF JobTime
    <3>3. held'[j] <= spent'[j] + shooting'[j]
      BY <3>1, <3>2, <1>4, <1>5
    <3> QED
      BY <3>1, <3>2, <3>3, <1>2 DEF JobTime
  <2>3. CASE pc[j] = "shot"
    <3>1. spent'[j] = spent[j] /\ shooting'[j] = shooting[j] + 1
      BY <2>3, <1>3 DEF Running
    <3>2. held[j] <= spent[j] + shooting[j] /\ held'[j] <= held[j] + 1
      BY <2>1, <2>3, <1>3, <1>4 DEF JobTime, Stages
    <3>3. held'[j] <= spent'[j] + shooting'[j]
      BY <3>1, <3>2, <1>4, <1>5
    <3> QED
      BY <2>3, <3>3, <1>2 DEF JobTime, BeforeShot
  <2>4. CASE ~ Running(j) /\ pc[j] # "shot"
    <3>1. pc[j] \in {"none", "done"} /\ spent'[j] = spent[j] /\ shooting'[j] = shooting[j]
      BY <2>4, <1>3 DEF Running, Stages
    <3>2. pc[j] = "none" => held'[j] = held[j]
      BY <2>1, <1>3 DEF JobAt
    <3> QED
      BY <2>1, <3>1, <3>2, <1>2 DEF JobTime, BeforeShot, Stages
  <2> QED
    BY <2>2, <2>3, <2>4
<1>10. ASSUME RunsLeased, stepSeconds < runLeaseTTLMargin PROVE RunsLeased'
  <2> SUFFICES ASSUME NEW j \in Job, pc[j] \in BeforeShot \cup Stages PROVE grant'[j] # "expired"
    BY <1>2 DEF RunsLeased
  <2>1. JobTime(j) /\ JobAt(j) /\ grant[j] # "expired"
    BY <1>4, <1>10 DEF RunsLeased
  <2>2. CASE grant[j] # "active"
    BY <2>1, <2>2, <1>3
  <2>3. CASE grant[j] = "active"
    <3>1. pc[j] # "none"
      BY <2>1, <2>3 DEF JobAt
    <3>2. Running(j) \/ pc[j] = "shot"
      BY <3>1, <1>3 DEF Running, Stages, BeforeShot
    <3>3. held[j] <= spent[j] + shooting[j]
      BY <2>1 DEF JobTime
    <3>4. CASE Running(j)
      <4>1. shooting[j] = 0 /\ spent[j] < runSeconds
        BY <2>1, <3>4, <1>3 DEF JobTime, Running, BeforeShot
      <4>2. ~ (held[j] + 1 >= TTL)
        BY <3>3, <4>1, <1>0, <1>4, <1>10
      <4> QED
        BY <4>2, <2>1, <1>3
    <3>5. CASE pc[j] = "shot"
      <4>1. shooting[j] < stepSeconds
        BY <3>5, <1>3
      <4>2. ~ (held[j] + 1 >= TTL)
        BY <3>3, <4>1, <1>0, <1>4, <1>10
      <4> QED
        BY <4>2, <2>1, <1>3
    <3> QED
      BY <3>2, <3>4, <3>5
  <2> QED
    BY <2>2, <2>3
<1> QED
  BY <1>1, <1>6, <1>7, <1>8, <1>9, <1>10 DEF RunsInv

LEMMA RunsStep ==
  ASSUME RunsInv, [RunsNext]_runsVars
  PROVE  RunsInv' /\ (RunsLeased /\ stepSeconds < runLeaseTTLMargin => RunsLeased')
<1>1. CASE UNCHANGED runsVars
  <2>1. \A j \in Job : (JobAt(j)' <=> JobAt(j)) /\ (JobTime(j)' <=> JobTime(j))
    BY <1>1 DEF runsVars, JobAt, JobTime
  <2>2. InFlight' = InFlight
    BY <1>1 DEF runsVars, InFlight
  <2> QED
    BY <1>1, <2>1, <2>2 DEF runsVars, RunsInv, RunsTypeOK, RunsSlots, RunsLeased
<1>2. CASE TimePasses
  BY <1>2, Runs_Time
<1>3. ASSUME NEW j \in Job, \/ \E mode \in {"sync", "async"} : CreateRun(j, mode)
                            \/ RefuseSpec(j) \/ Overloaded(j) \/ ClientLeaves(j) \/ ClientAnswered(j)
                            \/ RunStepOf(j) \/ PromoteJob(j) \/ EndedElsewhere(j)
      PROVE  RunsInv' /\ (RunsLeased => RunsLeased')
  BY <1>3, Runs_Created, Runs_Around, Runs_Steps, Runs_Finish
<1> QED
  BY <1>1, <1>2, <1>3 DEF RunsNext

(* A run's end is published after its release, with its export. *)
LEMMA Runs_Released == ASSUME RunsInv PROVE RunsReleasedFirst
<1> SUFFICES ASSUME NEW j \in Job, run[j].state \in {"passed", "failed"}
             PROVE  grant[j] \notin LiveGrant /\ (grant[j] # "none" => run[j].export)
  BY DEF RunsReleasedFirst
<1> QED
  BY DEF RunsInv, JobAt

LEMMA Runs_Safe == ASSUME RunsInv, RunsLeased PROVE RunsSafe
BY Runs_Released DEF RunsInv, RunsLeased, RunsLeaseOutlives, RunsSafe

-----------------------------------------------------------------------------
(* The steps of a run.                                                     *)

(* The loop is halted exactly when a step that did not opt into going on   *)
(* has failed.                                                             *)
StepResult == {Skipped} \cup UNION {Outcomes(st) : st \in StepDecl}
StepsHalt ==
  /\ results \in Seq(StepResult)
  /\ halted <=> \E i \in DOMAIN results : FailsRun(results[i]) /\ ~ spec[i].coe

StepsInv == StepsTypeOK /\ StepsStop /\ StepsHalt

LEMMA StepsStarts == ASSUME StepsInit PROVE StepsInv
<1> USE StepsAssumption
<1>1. StepsTypeOK
  <2>1. <<>> \in Seq(StepDecl) /\ Len(<<>>) = 0 /\ DOMAIN <<>> = {}
    OBVIOUS
  <2>2. spec = <<>> /\ results = <<>> /\ halted = FALSE /\ firstErr = FALSE
    BY DEF StepsInit
  <2>3. \A i \in DOMAIN results : results[i] \in Outcomes(spec[i]) \cup {Skipped}
    BY <2>1, <2>2, Zenon
  <2>4. spec \in Seq(StepDecl) /\ Len(spec) <= MaxSteps /\ Len(results) = Len(spec)
    BY <2>1, <2>2
  <2>5. halted \in BOOLEAN /\ firstErr \in BOOLEAN
    BY <2>2
  <2> QED
    BY <2>3, <2>4, <2>5 DEF StepsTypeOK
<1>2. StepsStop
  BY DEF StepsInit, StepsStop, Executed
<1>3. StepsHalt
  BY DEF StepsInit, StepsHalt
<1> QED
  BY <1>1, <1>2, <1>3 DEF StepsInv

(* What follows from the appended step alone. *)
LEMMA Steps_Append ==
  ASSUME StepsInv, Len(spec) < MaxSteps, NEW st \in StepDecl, NEW res \in Outcomes(st) \cup {Skipped},
         spec' = Append(spec, st), results' = Append(results, res)
  PROVE  /\ spec' \in Seq(StepDecl) /\ Len(spec') <= MaxSteps /\ results' \in Seq(StepResult)
         /\ Len(results') = Len(spec') /\ DOMAIN results' = 1..(Len(results) + 1)
         /\ DOMAIN results = 1..Len(results) /\ Len(results) \in Nat
         /\ \A i \in 1..Len(results) : results'[i] = results[i] /\ spec'[i] = spec[i]
         /\ results'[Len(results) + 1] = res /\ spec'[Len(results) + 1] = st
         /\ \A i \in DOMAIN results' : results'[i] \in Outcomes(spec'[i]) \cup {Skipped}
<1> USE StepsAssumption
<1>1. spec \in Seq(StepDecl) /\ results \in Seq(StepResult) /\ Len(results) = Len(spec)
  BY DEF StepsInv, StepsTypeOK, StepsHalt
<1>2. res \in StepResult
  <2>1. CASE res = Skipped
    BY <2>1, Zenon DEF StepResult
  <2>2. CASE res \in Outcomes(st)
    <3>1. Outcomes(st) \in {Outcomes(s) : s \in StepDecl}
      OBVIOUS
    <3> HIDE DEF Outcomes
    <3> QED
      BY <2>2, <3>1 DEF StepResult
  <2> QED
    BY <2>1, <2>2
<1>3. \A i \in DOMAIN results : results[i] \in Outcomes(spec[i]) \cup {Skipped}
  BY DEF StepsInv, StepsTypeOK
<1> QED
  BY <1>1, <1>2, <1>3

LEMMA Steps_Skip == ASSUME StepsInv, NEW st \in StepDecl, SkipStep(st) PROVE StepsInv'
<1> USE StepsAssumption
<1>1. /\ spec' \in Seq(StepDecl) /\ Len(spec') <= MaxSteps /\ results' \in Seq(StepResult)
      /\ Len(results') = Len(spec') /\ DOMAIN results' = 1..(Len(results) + 1)
      /\ DOMAIN results = 1..Len(results) /\ Len(results) \in Nat
      /\ \A i \in 1..Len(results) : results'[i] = results[i] /\ spec'[i] = spec[i]
      /\ results'[Len(results) + 1] = Skipped /\ spec'[Len(results) + 1] = st
      /\ \A i \in DOMAIN results' : results'[i] \in Outcomes(spec'[i]) \cup {Skipped}
  BY Steps_Append DEF SkipStep
<1>2. ~ FailsRun(Skipped) /\ Skipped.status = "skipped"
  BY DEF FailsRun, Skipped
<1>3. UNCHANGED <<halted, firstErr>> /\ halted /\ ~ st.coe
  BY DEF SkipStep
<1>4. StepsTypeOK'
  BY <1>1, <1>3 DEF StepsTypeOK, StepsInv
<1>5. StepsHalt'
  BY <1>1, <1>2, <1>3 DEF StepsHalt, StepsInv
<1>6. StepsStop'
  <2>1. \A j \in 1..Len(results) : (j \notin Executed') <=> (j \notin Executed)
    BY <1>1 DEF Executed
  <2>2. Len(results) + 1 \notin Executed'
    BY <1>1, <1>2 DEF Executed
  <2>3. \E i \in 1..Len(results) : FailsRun(results'[i]) /\ ~ spec'[i].coe
    BY <1>1, <1>3 DEF StepsHalt, StepsInv
  <2>4. \A j \in DOMAIN results' :
         (j \notin Executed') <=>
         (~ spec'[j].coe /\ \E i \in 1..(j - 1) : FailsRun(results'[i]) /\ ~ spec'[i].coe)
    <3> SUFFICES ASSUME NEW j \in 1..(Len(results) + 1)
                 PROVE  (j \notin Executed') <=>
                        (~ spec'[j].coe /\ \E i \in 1..(j - 1) : FailsRun(results'[i]) /\ ~ spec'[i].coe)
      BY <1>1
    <3>1. CASE j = Len(results) + 1
      BY <1>1, <1>3, <2>2, <2>3, <3>1
    <3>2. CASE j \in 1..Len(results)
      <4>1. (j \notin Executed) <=>
            (~ spec[j].coe /\ \E i \in 1..(j - 1) : FailsRun(results[i]) /\ ~ spec[i].coe)
        BY <1>1, <3>2 DEF StepsStop, StepsInv
      <4> QED
        BY <4>1, <1>1, <2>1, <3>2
    <3> QED
      BY <1>1, <3>1, <3>2
  <2>5. firstErr' <=> \E i \in DOMAIN results' : FailsRun(results'[i])
    BY <1>1, <1>2, <1>3 DEF StepsStop, StepsInv
  <2> QED
    BY <2>4, <2>5 DEF StepsStop
<1> QED
  BY <1>4, <1>5, <1>6 DEF StepsInv

LEMMA Steps_Run == ASSUME StepsInv, NEW st \in StepDecl, RunStep(st) PROVE StepsInv'
<1> USE StepsAssumption
<1>0. PICK res \in Outcomes(st) : /\ spec' = Append(spec, st) /\ results' = Append(results, res)
                                  /\ firstErr' = (firstErr \/ FailsRun(res))
                                  /\ halted' = (halted \/ (FailsRun(res) /\ ~ st.coe))
  BY DEF RunStep
<1>1. /\ spec' \in Seq(StepDecl) /\ Len(spec') <= MaxSteps /\ results' \in Seq(StepResult)
      /\ Len(results') = Len(spec') /\ DOMAIN results' = 1..(Len(results) + 1)
      /\ DOMAIN results = 1..Len(results) /\ Len(results) \in Nat
      /\ \A i \in 1..Len(results) : results'[i] = results[i] /\ spec'[i] = spec[i]
      /\ results'[Len(results) + 1] = res /\ spec'[Len(results) + 1] = st
      /\ \A i \in DOMAIN results' : results'[i] \in Outcomes(spec'[i]) \cup {Skipped}
  BY <1>0, Steps_Append DEF RunStep
<1>2. res.status # "skipped"
  BY DEF Outcomes, StepErr
<1>3. ~ (halted /\ ~ st.coe)
  BY DEF RunStep
<1>4. StepsTypeOK'
  <2>1. halted' \in BOOLEAN /\ firstErr' \in BOOLEAN
    BY <1>0, Zenon
  <2> QED
    BY <1>1, <2>1 DEF StepsTypeOK, StepsInv
<1> HIDE DEF FailsRun
<1>5. StepsHalt'
  <2>1. halted <=> \E i \in DOMAIN results : FailsRun(results[i]) /\ ~ spec[i].coe
    BY DEF StepsHalt, StepsInv
  <2>2. halted' <=> \E i \in DOMAIN results' : FailsRun(results'[i]) /\ ~ spec'[i].coe
    <3>1. ASSUME NEW i \in DOMAIN results', FailsRun(results'[i]), ~ spec'[i].coe PROVE halted'
      <4>1. CASE i \in 1..Len(results)
        BY <4>1, <3>1, <1>0, <1>1, <2>1
      <4>2. CASE i = Len(results) + 1
        BY <4>2, <3>1, <1>0, <1>1
      <4> QED
        BY <4>1, <4>2, <1>1
    <3>2. ASSUME halted' PROVE \E i \in DOMAIN results' : FailsRun(results'[i]) /\ ~ spec'[i].coe
      <4>1. CASE halted
        BY <4>1, <1>1, <2>1
      <4>2. CASE FailsRun(res) /\ ~ st.coe
        BY <4>2, <1>1
      <4> QED
        BY <4>1, <4>2, <3>2, <1>0
    <3> QED
      BY <3>1, <3>2
  <2> QED
    BY <1>1, <2>2 DEF StepsHalt
<1>6. StepsStop'
  <2>1. \A j \in 1..Len(results) : (j \notin Executed') <=> (j \notin Executed)
    BY <1>1 DEF Executed
  <2>2. Len(results) + 1 \in Executed'
    BY <1>1, <1>2 DEF Executed
  <2>3. \A i \in 1..Len(results) : FailsRun(results'[i]) /\ ~ spec'[i].coe => halted
    BY <1>1 DEF StepsHalt, StepsInv
  <2>4. \A j \in DOMAIN results' :
         (j \notin Executed') <=>
         (~ spec'[j].coe /\ \E i \in 1..(j - 1) : FailsRun(results'[i]) /\ ~ spec'[i].coe)
    <3> SUFFICES ASSUME NEW j \in 1..(Len(results) + 1)
                 PROVE  (j \notin Executed') <=>
                        (~ spec'[j].coe /\ \E i \in 1..(j - 1) : FailsRun(results'[i]) /\ ~ spec'[i].coe)
      BY <1>1
    <3>1. CASE j = Len(results) + 1
      BY <1>1, <1>3, <2>2, <2>3, <3>1
    <3>2. CASE j \in 1..Len(results)
      <4>1. (j \notin Executed) <=>
            (~ spec[j].coe /\ \E i \in 1..(j - 1) : FailsRun(results[i]) /\ ~ spec[i].coe)
        BY <1>1, <3>2 DEF StepsStop, StepsInv
      <4> QED
        BY <4>1, <1>1, <2>1, <3>2
    <3> QED
      BY <1>1, <3>1, <3>2
  <2>5. firstErr' <=> \E i \in DOMAIN results' : FailsRun(results'[i])
    <3>0. firstErr <=> \E i \in DOMAIN results : FailsRun(results[i])
      BY DEF StepsStop, StepsInv
    <3>1. ASSUME NEW i \in DOMAIN results', FailsRun(results'[i]) PROVE firstErr'
      <4>1. CASE i \in 1..Len(results)
        BY <4>1, <3>1, <3>0, <1>0, <1>1
      <4>2. CASE i = Len(results) + 1
        BY <4>2, <3>1, <1>0, <1>1
      <4> QED
        BY <4>1, <4>2, <1>1
    <3>2. ASSUME firstErr' PROVE \E i \in DOMAIN results' : FailsRun(results'[i])
      <4>1. CASE firstErr
        BY <4>1, <1>1, <3>0
      <4>2. CASE FailsRun(res)
        BY <4>2, <1>1
      <4> QED
        BY <4>1, <4>2, <3>2, <1>0
    <3> QED
      BY <3>1, <3>2
  <2> QED
    BY <2>4, <2>5 DEF StepsStop
<1> QED
  BY <1>4, <1>5, <1>6 DEF StepsInv

LEMMA StepsStep == ASSUME StepsInv, [StepsNext]_stepsVars PROVE StepsInv'
<1>1. CASE UNCHANGED stepsVars
  BY <1>1 DEF StepsInv, StepsTypeOK, StepsStop, StepsHalt, Executed, stepsVars
<1> QED
  BY <1>1, Steps_Skip, Steps_Run DEF StepsNext

(* A trusted verdict has evidence behind it, whatever the results are. *)
LEMMA Steps_Trusted == ASSUME StepsTypeOK PROVE StepsTrusted
<1> SUFFICES ASSUME ComputeVerdict = "trusted"
             PROVE  /\ \A i \in Executed : results[i].drift # "drifted" /\ results[i].verified # "false"
                    /\ \A i \in Executed : spec[i].kind = "mutating" =>
                         /\ results[i].status = "ok"
                         /\ \/ results[i].drift = "passed" \/ results[i].verified = "true"
                            \/ \E j \in Executed : /\ j > i /\ spec[j].kind = "assert"
                                                   /\ results[j].status = "ok"
                                                   /\ \A k \in (i + 1)..j : spec[k].kind # "mutating"
  BY DEF StepsTrusted
<1>1. ~ Negatives /\ Unverified = {}
  BY DEF ComputeVerdict
<1>2. \A i \in Executed : results[i].drift # "drifted"
  BY <1>1 DEF Negatives, Expected
<1>3. \A i \in Executed : spec[i].kind # "mutating" => results[i].verified # "false"
  BY DEF StepsTypeOK, Executed, Outcomes, StepErr, Skipped
<1>4. \A i \in Executed : results[i].verified # "false"
  BY <1>1, <1>3 DEF Negatives, Reported, Mutating
<1>5. \A i \in Mutating : Positive(i) /\ results[i].status = "ok"
  BY <1>1 DEF Unverified
<1>6. ASSUME NEW i \in Executed, spec[i].kind = "mutating"
      PROVE  \/ results[i].drift = "passed" \/ results[i].verified = "true"
             \/ \E j \in Executed : /\ j > i /\ spec[j].kind = "assert"
                                    /\ results[j].status = "ok"
                                    /\ \A k \in (i + 1)..j : spec[k].kind # "mutating"
  <2>1. Positive(i)
    BY <1>5, <1>6 DEF Mutating
  <2>2. CASE \E j \in Asserts(i) : results[j].status = "ok"
    <3>1. PICK j \in Asserts(i) : results[j].status = "ok"
      BY <2>2
    <3>2. i \in 1..Len(results) /\ Len(results) \in Nat /\ DOMAIN results = 1..Len(results)
      BY DEF Executed, StepsTypeOK
    <3>3. j \in Executed /\ j > i /\ spec[j].kind = "assert"
      BY <3>1, <3>2 DEF Asserts, Executed
    <3>4. \A k \in (i + 1)..j : spec[k].kind # "mutating"
      BY <3>1, <3>2, <3>3 DEF Asserts
    <3> QED
      BY <3>1, <3>3, <3>4
  <2> QED
    BY <2>1, <2>2 DEF Positive
<1> QED
  BY <1>2, <1>4, <1>5, <1>6 DEF Mutating

-----------------------------------------------------------------------------
(* The exported specification.                                             *)

EntryRec ==
  [what: {"action"}, readOnly: BOOLEAN, failed: BOOLEAN, elided: BOOLEAN]
    \cup [what: {"capture"}] \cup [what: {"observation"}]
ExportRec == [entry: Nat, readOnly: BOOLEAN, expect: [of: Nat, texts: BOOLEAN, hash: BOOLEAN]]
FailedAction(k) == entries[k].what = "action" /\ entries[k].failed

(* The loop has ended exactly when a failed action cut it short, and until *)
(* then the step an observation belongs to is the action last performed.   *)
SpecsAt ==
  /\ opts \in [keepObservations: BOOLEAN, includeFailed: BOOLEAN, withExpectations: BOOLEAN]
  /\ entries \in Seq(EntryRec) /\ exported \in Seq(ExportRec)
  /\ truncated <=> (~ opts.includeFailed /\ \E k \in DOMAIN entries : FailedAction(k))
  /\ ~ truncated /\ lastMutating > 0 =>
       exported[lastMutating].entry = acted /\ ~ exported[lastMutating].readOnly

SpecsInv == SpecsTypeOK /\ SpecsAt /\ SpecsExpectOwn /\ SpecsPrefix

(* The entries the loop reaches, and those of them an export must hold. *)
Reached(k) == opts.includeFailed \/ \A i \in 1..k : ~ FailedAction(i)
Due == {k \in DOMAIN entries : /\ entries[k].what = "action" /\ Reached(k)
                               /\ Kept(entries[k].readOnly, entries[k].elided)}

(* SpecsPrefix in terms of these. *)
LEMMA Specs_Due ==
  SpecsPrefix <=>
    /\ {exported[i].entry : i \in DOMAIN exported} = Due
    /\ \A i, k \in DOMAIN exported : i < k => exported[i].entry < exported[k].entry
BY DEF SpecsPrefix, Due, Reached, FailedAction

LEMMA SpecsStarts == ASSUME SpecsInit PROVE SpecsInv
<1> USE RunSpecsAssumption
<1>0. /\ entries = <<>> /\ exported = <<>> /\ lastMutating = 0 /\ truncated = FALSE /\ acted = 0
      /\ DOMAIN <<>> = {} /\ Len(<<>>) = 0
  BY DEF SpecsInit
<1>1. SpecsTypeOK
  <2>1. \A i \in DOMAIN exported : exported[i] \in
          [entry: DOMAIN entries, readOnly: BOOLEAN,
           expect: [of: {0} \cup DOMAIN entries, texts: BOOLEAN, hash: BOOLEAN]]
    BY <1>0, Zenon
  <2>2. truncated \in BOOLEAN /\ acted \in {0} \cup DOMAIN entries
    BY <1>0
  <2> QED
    BY <1>0, <2>1, <2>2 DEF SpecsTypeOK
<1>2. SpecsAt
  BY <1>0 DEF SpecsInit, SpecsAt
<1>3. SpecsExpectOwn
  BY <1>0 DEF SpecsExpectOwn
<1>4. SpecsPrefix
  BY <1>0 DEF SpecsPrefix
<1> QED
  BY <1>1, <1>2, <1>3, <1>4 DEF SpecsInv

(* One more entry is read: what was read stays, and with it what is due.   *)
LEMMA Specs_Read ==
  ASSUME SpecsInv, NEW e \in EntryRec, Read(e), UNCHANGED opts, NEW n, n = Len(entries) + 1
  PROVE  /\ entries' \in Seq(EntryRec) /\ Len(entries') = n /\ n \in 0..MaxEntries
         /\ DOMAIN entries = 1..(n - 1) /\ DOMAIN entries' = 1..n /\ n \in Nat \ {0}
         /\ \A k \in 1..(n - 1) : entries'[k] = entries[k]
         /\ entries'[n] = e /\ n \notin DOMAIN entries
         /\ \A k \in 1..(n - 1) : FailedAction(k)' <=> FailedAction(k)
         /\ \A k \in 1..(n - 1) : Reached(k)' <=> Reached(k)
         /\ Reached(n)' <=> opts.includeFailed \/ (~ FailedAction(n)' /\ \A k \in 1..(n - 1) : ~ FailedAction(k))
         /\ Due' \ {n} = Due /\ n \notin Due
         /\ n \in Due' <=> e.what = "action" /\ Reached(n)' /\ Kept(e.readOnly, e.elided)
<1> USE RunSpecsAssumption
<1>1. entries \in Seq(EntryRec) /\ Len(entries) < MaxEntries /\ entries' = Append(entries, e)
  BY DEF SpecsInv, SpecsAt, Read
<1>2. /\ entries' \in Seq(EntryRec) /\ Len(entries') = n /\ n \in 0..MaxEntries
      /\ DOMAIN entries = 1..(n - 1) /\ DOMAIN entries' = 1..n /\ n \in Nat \ {0}
      /\ \A k \in 1..(n - 1) : entries'[k] = entries[k]
      /\ entries'[n] = e /\ n \notin DOMAIN entries
  BY <1>1
<1>3. \A k \in 1..(n - 1) : FailedAction(k)' <=> FailedAction(k)
  BY <1>2 DEF FailedAction
<1> HIDE DEF FailedAction
<1>4. \A k \in 1..(n - 1) : Reached(k)' <=> Reached(k)
  BY <1>2, <1>3 DEF Reached
<1>5. Reached(n)' <=> opts.includeFailed \/ (~ FailedAction(n)' /\ \A k \in 1..(n - 1) : ~ FailedAction(k))
  BY <1>2, <1>3 DEF Reached
<1> HIDE DEF Reached
<1>6. \A k \in 1..(n - 1) : k \in Due' <=> k \in Due
  BY <1>2, <1>4 DEF Due, Kept
<1>7. n \in Due' <=> e.what = "action" /\ Reached(n)' /\ Kept(e.readOnly, e.elided)
  BY <1>2 DEF Due, Kept
<1>8. Due \subseteq 1..(n - 1) /\ Due' \subseteq 1..n
  BY <1>2 DEF Due
<1>9. Due' \ {n} = Due /\ n \notin Due
  <2>1. n \notin 1..(n - 1) /\ \A k \in 1..n : k # n => k \in 1..(n - 1)
    BY <1>2
  <2> HIDE DEF Due
  <2> QED
    BY <2>1, <1>6, <1>8
<1> QED
  BY <1>2, <1>3, <1>4, <1>5, <1>7, <1>9

(* An entry that is not an action changes neither what is due nor where    *)
(* the loop is.                                                            *)
LEMMA Specs_NoAction ==
  ASSUME SpecsInv, NEW e \in EntryRec, Read(e), e.what # "action",
         UNCHANGED <<opts, lastMutating, truncated, acted>>,
         exported' \in Seq(ExportRec), Len(exported') = Len(exported),
         \A i \in DOMAIN exported : /\ exported'[i].entry = exported[i].entry
                                    /\ exported'[i].readOnly = exported[i].readOnly
                                    /\ exported'[i] \in
                                         [entry: DOMAIN entries, readOnly: BOOLEAN,
                                          expect: [of: {0} \cup DOMAIN entries, texts: BOOLEAN, hash: BOOLEAN]],
         SpecsExpectOwn'
  PROVE  SpecsInv'
<1> USE RunSpecsAssumption
<1>0. PICK n : n = Len(entries) + 1
  OBVIOUS
<1>1. /\ entries' \in Seq(EntryRec) /\ Len(entries') = n /\ n \in 0..MaxEntries
      /\ DOMAIN entries = 1..(n - 1) /\ DOMAIN entries' = 1..n /\ n \in Nat \ {0}
      /\ \A k \in 1..(n - 1) : entries'[k] = entries[k]
      /\ entries'[n] = e /\ n \notin DOMAIN entries
      /\ \A k \in 1..(n - 1) : FailedAction(k)' <=> FailedAction(k)
      /\ Due' \ {n} = Due /\ n \notin Due
      /\ n \in Due' <=> e.what = "action" /\ Reached(n)' /\ Kept(e.readOnly, e.elided)
  BY <1>0, Specs_Read
<1>2. Due' = Due
  BY <1>1
<1>3. ~ FailedAction(n)'
  BY <1>1 DEF FailedAction
<1>4. exported \in Seq(ExportRec) /\ DOMAIN exported = 1..Len(exported) /\ DOMAIN exported' = 1..Len(exported)
      /\ Len(exported) \in Nat /\ DOMAIN entries \subseteq DOMAIN entries'
  BY <1>1 DEF SpecsInv, SpecsAt
<1>5. SpecsTypeOK'
  <2>1. \A i \in DOMAIN exported' : exported'[i] \in
          [entry: DOMAIN entries', readOnly: BOOLEAN,
           expect: [of: {0} \cup DOMAIN entries', texts: BOOLEAN, hash: BOOLEAN]]
    BY <1>4
  <2>2. acted' \in {0} \cup DOMAIN entries' /\ truncated' \in BOOLEAN
    BY <1>4 DEF SpecsInv, SpecsTypeOK
  <2> QED
    BY <2>1, <2>2, <1>1, <1>4 DEF SpecsInv, SpecsTypeOK
<1>6. SpecsAt'
  <2>1. (\E k \in DOMAIN entries' : FailedAction(k)') <=> (\E k \in DOMAIN entries : FailedAction(k))
    BY <1>1, <1>3
  <2>2. lastMutating \in 0..Len(exported)
    BY DEF SpecsInv, SpecsTypeOK
  <2>3. ~ truncated' /\ lastMutating' > 0 =>
          exported'[lastMutating'].entry = acted' /\ ~ exported'[lastMutating'].readOnly
    BY <1>4, <2>2 DEF SpecsInv, SpecsAt
  <2> HIDE DEF FailedAction
  <2> QED
    BY <1>1, <2>1, <2>3 DEF SpecsInv, SpecsAt
<1>7. SpecsPrefix'
  <2>1. /\ {exported[i].entry : i \in DOMAIN exported} = Due
        /\ \A i, k \in DOMAIN exported : i < k => exported[i].entry < exported[k].entry
    BY Specs_Due DEF SpecsInv
  <2>2. {exported'[i].entry : i \in DOMAIN exported'} = Due'
    BY <2>1, <1>2, <1>4
  <2>3. \A i, k \in DOMAIN exported' : i < k => exported'[i].entry < exported'[k].entry
    BY <2>1, <1>4
  <2>4. SpecsPrefix' <=>
           /\ {exported'[i].entry : i \in DOMAIN exported'} = Due'
           /\ \A i, k \in DOMAIN exported' : i < k => exported'[i].entry < exported'[k].entry
    BY DEF SpecsPrefix, Due, Reached, FailedAction
  <2> QED
    BY <2>2, <2>3, <2>4
<1> QED
  BY <1>5, <1>6, <1>7 DEF SpecsInv

LEMMA Specs_Capture == ASSUME SpecsInv, NEW failed \in BOOLEAN, CaptureEntry(failed) PROVE SpecsInv'
<1> DEFINE e == [what |-> "capture"]
<1>1. Read(e) /\ UNCHANGED <<opts, exported, lastMutating, truncated, acted>>
  BY DEF CaptureEntry
<1>2. e \in EntryRec /\ e.what # "action"
  BY DEF EntryRec
<1> HIDE DEF e
<1>3. exported \in Seq(ExportRec) /\ SpecsExpectOwn
  BY DEF SpecsInv, SpecsAt
<1>4. SpecsExpectOwn'
  BY <1>1, <1>3 DEF SpecsExpectOwn
<1>5. \A i \in DOMAIN exported : exported[i] \in
        [entry: DOMAIN entries, readOnly: BOOLEAN,
         expect: [of: {0} \cup DOMAIN entries, texts: BOOLEAN, hash: BOOLEAN]]
  BY DEF SpecsInv, SpecsTypeOK
<1> QED
  BY <1>1, <1>2, <1>3, <1>4, <1>5, Specs_NoAction

LEMMA Specs_Observation ==
  ASSUME SpecsInv, NEW texts \in BOOLEAN, NEW hash \in BOOLEAN, ObservationEntry(texts, hash)
  PROVE  SpecsInv'
<1> DEFINE e == [what |-> "observation"]
<1>1. Read(e) /\ UNCHANGED <<opts, lastMutating, truncated, acted>> /\ acted # 0
  BY DEF ObservationEntry
<1>2. e \in EntryRec /\ e.what # "action"
  BY DEF EntryRec
<1> HIDE DEF e
<1>3. exported \in Seq(ExportRec) /\ SpecsExpectOwn /\ lastMutating \in 0..Len(exported)
      /\ acted \in {0} \cup DOMAIN entries /\ entries \in Seq(EntryRec)
  BY DEF SpecsInv, SpecsAt, SpecsTypeOK
<1>5. \A i \in DOMAIN exported : exported[i] \in
        [entry: DOMAIN entries, readOnly: BOOLEAN,
         expect: [of: {0} \cup DOMAIN entries, texts: BOOLEAN, hash: BOOLEAN]]
  BY DEF SpecsInv, SpecsTypeOK
<1>6. CASE exported' = exported
  <2>1. SpecsExpectOwn'
    BY <1>6, <1>3 DEF SpecsExpectOwn
  <2> QED
    BY <1>1, <1>2, <1>3, <1>5, <1>6, <2>1, Specs_NoAction
<1>7. CASE /\ ~ truncated /\ lastMutating > 0
           /\ exported' = [exported EXCEPT ![lastMutating].expect =
                 [of |-> acted, texts |-> texts, hash |-> hash]]
  <2> DEFINE x == [of |-> acted, texts |-> texts, hash |-> hash]
             r == [exported[lastMutating] EXCEPT !.expect = x]
  <2>1. lastMutating \in DOMAIN exported /\ exported[lastMutating].entry = acted
        /\ ~ exported[lastMutating].readOnly
    BY <1>3, <1>7 DEF SpecsInv, SpecsAt
  <2>2. x \in [of: {0} \cup DOMAIN entries, texts: BOOLEAN, hash: BOOLEAN] /\ x.of = acted
    BY <1>3
  <2>3. exported' = [exported EXCEPT ![lastMutating] = r]
    BY <1>7
  <2> HIDE DEF x
  <2>4. /\ r \in [entry: DOMAIN entries, readOnly: BOOLEAN,
                  expect: [of: {0} \cup DOMAIN entries, texts: BOOLEAN, hash: BOOLEAN]]
        /\ r.entry = exported[lastMutating].entry /\ r.readOnly = exported[lastMutating].readOnly
        /\ r.expect = x
    BY <2>1, <2>2, <1>5
  <2>5. r \in ExportRec
    <3>1. DOMAIN entries \subseteq Nat
      BY <1>3
    <3> HIDE DEF r
    <3> QED
      BY <2>4, <3>1 DEF ExportRec
  <2> HIDE DEF r
  <2>6. exported' \in Seq(ExportRec) /\ Len(exported') = Len(exported)
    BY <2>1, <2>3, <2>5, <1>3
  <2>7. \A i \in DOMAIN exported : i \in DOMAIN exported' /\
          exported'[i] = IF i = lastMutating THEN r ELSE exported[i]
    BY <2>1, <2>3, <2>5, <1>3
  <2>8. SpecsExpectOwn'
    <3> SUFFICES ASSUME NEW i \in DOMAIN exported', exported'[i].expect.of # 0
                 PROVE  exported'[i].expect.of = exported'[i].entry /\ ~ exported'[i].readOnly
      BY DEF SpecsExpectOwn
    <3>0. i \in DOMAIN exported
      BY <2>6, <1>3
    <3>1. CASE i = lastMutating
      BY <3>0, <3>1, <2>1, <2>2, <2>4, <2>7
    <3>2. CASE i # lastMutating
      BY <3>0, <3>2, <2>7, <1>3 DEF SpecsExpectOwn
    <3> QED
      BY <3>1, <3>2
  <2>9. \A i \in DOMAIN exported : /\ exported'[i].entry = exported[i].entry
                                   /\ exported'[i].readOnly = exported[i].readOnly
                                   /\ exported'[i] \in
                                        [entry: DOMAIN entries, readOnly: BOOLEAN,
                                         expect: [of: {0} \cup DOMAIN entries, texts: BOOLEAN, hash: BOOLEAN]]
    BY <2>4, <2>7, <1>5
  <2> QED
    BY <1>1, <1>2, <2>6, <2>8, <2>9, Specs_NoAction
<1> QED
  BY <1>6, <1>7 DEF ObservationEntry

LEMMA Specs_Action ==
  ASSUME SpecsInv, NEW readOnly \in BOOLEAN, NEW failed \in BOOLEAN, NEW elided \in BOOLEAN,
         ActionEntry(readOnly, failed, elided)
  PROVE  SpecsInv'
<1> USE RunSpecsAssumption
<1> DEFINE e == [what |-> "action", readOnly |-> readOnly, failed |-> failed, elided |-> elided]
<1>1. Read(e) /\ UNCHANGED opts
  BY DEF ActionEntry
<1>2. /\ e \in EntryRec /\ e.what = "action" /\ e.readOnly = readOnly /\ e.failed = failed
      /\ e.elided = elided
  BY DEF EntryRec
<1> HIDE DEF e
<1>0. PICK n : n = Len(entries) + 1
  OBVIOUS
<1>3. /\ entries' \in Seq(EntryRec) /\ Len(entries') = n /\ n \in 0..MaxEntries
      /\ DOMAIN entries = 1..(n - 1) /\ DOMAIN entries' = 1..n /\ n \in Nat \ {0}
      /\ \A k \in 1..(n - 1) : entries'[k] = entries[k]
      /\ entries'[n] = e /\ n \notin DOMAIN entries
      /\ \A k \in 1..(n - 1) : FailedAction(k)' <=> FailedAction(k)
      /\ Reached(n)' <=> opts.includeFailed \/ (~ FailedAction(n)' /\ \A k \in 1..(n - 1) : ~ FailedAction(k))
      /\ Due' \ {n} = Due /\ n \notin Due
      /\ n \in Due' <=> e.what = "action" /\ Reached(n)' /\ Kept(e.readOnly, e.elided)
  BY <1>0, <1>1, <1>2, Specs_Read
<1>4. /\ acted' = IF readOnly THEN acted ELSE n
      /\ IF truncated \/ (failed /\ ~ opts.includeFailed)
           THEN truncated' = TRUE /\ UNCHANGED <<exported, lastMutating>>
           ELSE /\ UNCHANGED truncated
                /\ IF Kept(readOnly, elided)
                     THEN /\ exported' = Append(exported,
                               [entry |-> n, readOnly |-> readOnly, expect |-> NoExpect])
                          /\ lastMutating' = IF readOnly THEN lastMutating ELSE Len(exported')
                     ELSE /\ UNCHANGED exported
                          /\ lastMutating' = AfterDropped(readOnly, elided)
  BY <1>0, <1>3 DEF ActionEntry
<1>5. FailedAction(n)' <=> failed
  BY <1>2, <1>3 DEF FailedAction
<1>6. /\ truncated \in BOOLEAN /\ exported \in Seq(ExportRec)
      /\ truncated <=> (~ opts.includeFailed /\ \E k \in DOMAIN entries : FailedAction(k))
      /\ acted \in {0} \cup 1..(n - 1) /\ lastMutating \in 0..Len(exported) /\ SpecsExpectOwn
      /\ ~ truncated /\ lastMutating > 0 =>
           exported[lastMutating].entry = acted /\ ~ exported[lastMutating].readOnly
  BY <1>3 DEF SpecsInv, SpecsAt, SpecsTypeOK
<1> HIDE DEF FailedAction
<1>7. truncated' <=> (~ opts.includeFailed /\ \E k \in DOMAIN entries' : FailedAction(k)')
  <2>1. (\E k \in DOMAIN entries' : FailedAction(k)') <=> failed \/ \E k \in DOMAIN entries : FailedAction(k)
    BY <1>3, <1>5
  <2> QED
    BY <2>1, <1>4, <1>6
<1>8. Reached(n)' <=> ~ truncated'
  <2>1. (\E k \in DOMAIN entries : FailedAction(k)) <=> ~ \A k \in 1..(n - 1) : ~ FailedAction(k)
    BY <1>3
  <2>2. truncated' <=> truncated \/ (failed /\ ~ opts.includeFailed)
    BY <1>4, Zenon
  <2>3. Reached(n)' <=> opts.includeFailed \/ (~ failed /\ \A k \in 1..(n - 1) : ~ FailedAction(k))
    BY <1>3, <1>5, Zenon
  <2>4. truncated <=> (~ opts.includeFailed /\ \E k \in DOMAIN entries : FailedAction(k))
    BY <1>6
  <2> QED
    BY <2>1, <2>2, <2>3, <2>4, Zenon
<1>9. truncated' \in BOOLEAN /\ acted' \in {0} \cup 1..n
  <2>1. truncated' = TRUE \/ truncated' = truncated
    BY <1>4, Zenon
  <2>2. acted' = acted \/ acted' = n
    BY <1>4, Zenon
  <2>3. truncated' \in BOOLEAN
    BY <2>1, <1>6
  <2>4. n \in Nat \ {0} /\ acted \in {0} \cup 1..(n - 1)
    BY <1>3, <1>6
  <2>5. acted' \in {0} \cup 1..n
    BY <2>2, <2>4
  <2> QED
    BY <2>3, <2>5
<1>10. \A i \in DOMAIN exported : exported[i] \in
        [entry: 1..(n - 1), readOnly: BOOLEAN,
         expect: [of: {0} \cup 1..(n - 1), texts: BOOLEAN, hash: BOOLEAN]]
  BY <1>3 DEF SpecsInv, SpecsTypeOK
<1>11. /\ {exported[i].entry : i \in DOMAIN exported} = Due
       /\ \A i, k \in DOMAIN exported : i < k => exported[i].entry < exported[k].entry
  BY Specs_Due DEF SpecsInv
<1>12. SpecsPrefix' <=>
         /\ {exported'[i].entry : i \in DOMAIN exported'} = Due'
         /\ \A i, k \in DOMAIN exported' : i < k => exported'[i].entry < exported'[k].entry
  BY DEF SpecsPrefix, Due, Reached, FailedAction
<1>13. Kept(readOnly, elided)' <=> Kept(readOnly, elided)
  BY <1>1 DEF Kept
<1>14. opts' = opts /\ opts \in [keepObservations: BOOLEAN, includeFailed: BOOLEAN, withExpectations: BOOLEAN]
  BY <1>1 DEF SpecsInv, SpecsAt
<1>20. CASE UNCHANGED exported /\ ~ (~ truncated' /\ Kept(readOnly, elided))
             /\ lastMutating' \in 0..Len(exported) /\ (~ truncated' /\ lastMutating' > 0 =>
                   lastMutating' = lastMutating /\ acted' = acted /\ ~ truncated)
  <2>1. Due' = Due
    BY <1>2, <1>3, <1>8, <1>20
  <2>2. SpecsPrefix'
    BY <2>1, <1>11, <1>12, <1>20
  <2>3. SpecsTypeOK'
    <3>1. \A i \in DOMAIN exported : exported[i] \in
        [entry: 1..n, readOnly: BOOLEAN, expect: [of: {0} \cup 1..n, texts: BOOLEAN, hash: BOOLEAN]]
      BY <1>3, <1>10
    <3> QED
      BY <3>1, <1>3, <1>9, <1>20 DEF SpecsTypeOK
  <2>4. SpecsAt'
    BY <1>3, <1>6, <1>7, <1>14, <1>20 DEF SpecsAt
  <2>5. SpecsExpectOwn'
    BY <1>6, <1>20 DEF SpecsExpectOwn
  <2> QED
    BY <2>2, <2>3, <2>4, <2>5 DEF SpecsInv
<1>21. CASE /\ UNCHANGED truncated /\ ~ truncated /\ Kept(readOnly, elided)
            /\ exported' = Append(exported, [entry |-> n, readOnly |-> readOnly, expect |-> NoExpect])
            /\ lastMutating' = IF readOnly THEN lastMutating ELSE Len(exported')
  <2> DEFINE r == [entry |-> n, readOnly |-> readOnly, expect |-> NoExpect]
             L == Len(exported)
  <2>0. r.entry = n /\ r.readOnly = readOnly /\ r.expect.of = 0 /\
        r \in [entry: 1..n, readOnly: BOOLEAN, expect: [of: {0} \cup 1..n, texts: BOOLEAN, hash: BOOLEAN]]
    BY <1>3 DEF NoExpect
  <2>1. r \in ExportRec
    BY <1>3 DEF ExportRec, NoExpect
  <2>2. exported' = Append(exported, r)
    BY <1>21
  <2> HIDE DEF r
  <2>3. /\ exported' \in Seq(ExportRec) /\ Len(exported') = L + 1 /\ L \in Nat
        /\ DOMAIN exported = 1..L /\ DOMAIN exported' = 1..(L + 1)
        /\ \A i \in 1..L : exported'[i] = exported[i]
        /\ exported'[L + 1] = r
    BY <1>6, <2>1, <2>2
  <2> HIDE DEF L
  <2>4. n \in Due'
    BY <1>2, <1>3, <1>8, <1>21
  <2>5. {exported'[i].entry : i \in DOMAIN exported'} = Due'
    <3>1. ASSUME NEW d \in Due' PROVE \E i \in DOMAIN exported' : d = exported'[i].entry
      <4>1. CASE d = n
        BY <4>1, <2>3, <2>0
      <4>2. CASE d # n
        <5>1. d \in Due
          BY <4>2, <1>3
        <5>2. PICK i \in DOMAIN exported : d = exported[i].entry
          BY <5>1, <1>11
        <5> QED
          BY <5>2, <2>3
      <4> QED
        BY <4>1, <4>2
    <3>2. ASSUME NEW i \in DOMAIN exported' PROVE exported'[i].entry \in Due'
      <4>1. CASE i = L + 1
        BY <4>1, <2>0, <2>3, <2>4
      <4>2. CASE i \in 1..L
        <5>1. exported[i].entry \in Due
          BY <4>2, <1>11, <2>3
        <5> QED
          BY <5>1, <4>2, <2>3, <1>3
      <4> QED
        BY <4>1, <4>2, <2>3
    <3> QED
      BY <3>1, <3>2
  <2>6. \A i, k \in DOMAIN exported' : i < k => exported'[i].entry < exported'[k].entry
    <3> SUFFICES ASSUME NEW i \in 1..(L + 1), NEW k \in 1..(L + 1), i < k
                 PROVE  exported'[i].entry < exported'[k].entry
      BY <2>3
    <3>1. i \in 1..L /\ exported'[i] = exported[i] /\ exported[i].entry \in 1..(n - 1)
      BY <2>3, <1>10
    <3>2. CASE k = L + 1
      BY <3>1, <3>2, <2>0, <2>3, <1>3
    <3>3. CASE k \in 1..L
      BY <3>1, <3>3, <2>3, <1>11
    <3> QED
      BY <3>2, <3>3, <2>3
  <2>7. SpecsTypeOK'
    <3>1. \A i \in DOMAIN exported' : exported'[i] \in
        [entry: 1..n, readOnly: BOOLEAN, expect: [of: {0} \cup 1..n, texts: BOOLEAN, hash: BOOLEAN]]
      <4> SUFFICES ASSUME NEW i \in 1..(L + 1)
                   PROVE  exported'[i] \in
            [entry: 1..n, readOnly: BOOLEAN, expect: [of: {0} \cup 1..n, texts: BOOLEAN, hash: BOOLEAN]]
        BY <2>3
      <4>1. CASE i = L + 1
        BY <4>1, <2>0, <2>3
      <4>2. CASE i \in 1..L
        BY <4>2, <2>3, <1>3, <1>10
      <4> QED
        BY <4>1, <4>2, <2>3
    <3>2. lastMutating' \in 0..Len(exported')
      BY <1>6, <1>21, <2>3 DEF L
    <3> QED
      BY <3>1, <3>2, <1>3, <1>9 DEF SpecsTypeOK
  <2>8. SpecsAt'
    <3>1. ~ truncated' /\ lastMutating' > 0 =>
             exported'[lastMutating'].entry = acted' /\ ~ exported'[lastMutating'].readOnly
      <4>1. CASE readOnly
        <5>1. acted' = acted /\ lastMutating' = lastMutating
          BY <4>1, <1>4, <1>21
        <5>2. lastMutating \in 0..L
          BY <1>6 DEF L
        <5>3. lastMutating > 0 => exported'[lastMutating] = exported[lastMutating]
          BY <5>2, <2>3
        <5> QED
          BY <5>1, <5>3, <1>6, <1>21
      <4>2. CASE ~ readOnly
        BY <4>2, <1>4, <1>21, <2>0, <2>3
      <4> QED
        BY <4>1, <4>2
    <3> QED
      BY <3>1, <2>3, <1>3, <1>7, <1>14 DEF SpecsAt
  <2>9. SpecsExpectOwn'
    <3> SUFFICES ASSUME NEW i \in 1..(L + 1), exported'[i].expect.of # 0
                 PROVE  exported'[i].expect.of = exported'[i].entry /\ ~ exported'[i].readOnly
      BY <2>3 DEF SpecsExpectOwn
    <3>1. i \in 1..L /\ exported'[i] = exported[i]
      BY <2>0, <2>3
    <3> QED
      BY <3>1, <2>3, <1>6 DEF SpecsExpectOwn
  <2> QED
    BY <2>5, <2>6, <2>7, <2>8, <2>9, <1>12 DEF SpecsInv
<1>22. CASE truncated \/ (failed /\ ~ opts.includeFailed)
  BY <1>4, <1>6, <1>20, <1>22
<1>23. CASE ~ (truncated \/ (failed /\ ~ opts.includeFailed)) /\ ~ Kept(readOnly, elided)
  <2>1. UNCHANGED exported /\ lastMutating' = AfterDropped(readOnly, elided) /\ UNCHANGED truncated
    BY <1>4, <1>23
  <2>2. readOnly \/ elided
    BY <1>23 DEF Kept
  <2>3. lastMutating' = 0 \/ (readOnly /\ lastMutating' = lastMutating)
    BY <2>1, <2>2 DEF AfterDropped
  <2> QED
    BY <2>1, <2>3, <1>4, <1>6, <1>20, <1>23
<1> QED
  BY <1>4, <1>21, <1>22, <1>23

LEMMA SpecsStep == ASSUME SpecsInv, [SpecsNext]_specsVars PROVE SpecsInv'
<1>1. CASE UNCHANGED specsVars
  <2>1. SpecsPrefix' <=> SpecsPrefix
    BY <1>1 DEF SpecsPrefix, Kept, specsVars
  <2> QED
    BY <1>1, <2>1 DEF SpecsInv, SpecsTypeOK, SpecsAt, SpecsExpectOwn, FailedAction, specsVars
<1> QED
  BY <1>1, Specs_Action, Specs_Capture, Specs_Observation DEF SpecsNext

-----------------------------------------------------------------------------
(* Target operations.                                                      *)

TgtWaiting == {c \in TCall : tCalls[c].op = "wait" /\ tCalls[c].at \notin {"idle", "entering"}}
TgtSlotted == {c \in TCall : tCalls[c].slot}

WaitPlaces == {"entering", "slotting", "checking", "booting", "clearing", "sleeping", "leaving", "left"}
SlotPlaces == {"checking", "booting", "clearing", "sleeping", "leaving"}

(* What each kind of request is doing at each point, and for whom. *)
CallAt(c) ==
  LET k == tCalls[c]
  IN  /\ k.at = "idle" <=> k.by = NoTLease
      /\ k.slot => k.op = "wait" /\ k.at \in SlotPlaces
      /\ k.op = "wait" /\ k.at # "idle" => k.by \in TLease /\ k.at \in WaitPlaces
      /\ k.op = "boot" => k.at \in {"idle", "booting", "clearing", "leaving"}
      /\ k.op = "shutdown" => k.at \in {"idle", "shutting", "noting", "leaving"}
      /\ k.op \in {"batch", "stopBatch"} /\ k.at # "idle" =>
            k.at \in {"dispatching", "acting"} /\ k.left >= 1
      /\ k.at \in {"checking", "sleeping"} => k.slot

(* Whose request it is: the holder's, or a lease's that is over.  Once an  *)
(* attempt came too late, no check on the way to another one passes.       *)
CallLate(c) ==
  /\ tCalls[c].by \in TLease => tCalls[c].by = tHolder \/ tCalls[c].by \in tOver
  /\ tCalls[c].by = Dash => tHolder = Dash
  /\ tLate[c] <= 1
  /\ tLate[c] = 1 => tCalls[c].at \notin {"entering", "slotting", "booting", "shutting", "acting"}
  /\ tLate[c] = 1 /\ tCalls[c].at # "idle" => tCalls[c].by \in tOver

(* The ledger's entry is about to be dropped, or the daemon's shutdown is  *)
(* what took the target down, and it still is down.                        *)
TgtLedger ==
  ~tRaced =>
     /\ lastShutdown => (tDownBy = "daemon" /\ ~tPower) \/ \E c \in TCall : tCalls[c].at = "clearing"
     /\ (\E c \in TCall : tCalls[c].at = "noting") => tDownBy = "daemon" /\ ~tPower

TgtInv ==
  /\ TgtTypeOK /\ tHolder \notin tOver
  /\ \A c \in TCall : CallAt(c) /\ CallLate(c)
  /\ \A c, d \in TCall : tCalls[c].by = Dash /\ tCalls[d].by = Dash => c = d
  /\ IsFiniteSet(TgtSlotted) /\ TgtWaitsExact
  /\ TgtLedger

LEMMA TgtStarts == ASSUME TgtInit PROVE TgtInv
<1> USE TgtAssumption
<1>0. /\ \A c \in TCall : tCalls[c] = IdleCall /\ tLate[c] = 0
      /\ tHolder = NoTLease /\ tOver = {} /\ waitByLease = {} /\ bootWaitSlots = 0
      /\ lastShutdown = FALSE
  BY DEF TgtInit
<1>1. \A c \in TCall : /\ tCalls[c].op = "boot" /\ tCalls[c].by = NoTLease /\ tCalls[c].at = "idle"
                       /\ tCalls[c].slot = FALSE
  BY <1>0 DEF IdleCall
<1>2. TgtTypeOK
  <2>1. IdleCall \in [op : CallOps, by : TLease \cup {Dash, NoTLease}, at : CallPlaces,
                      left : 0..MaxBatch, first : BOOLEAN, slot : BOOLEAN]
    BY DEF IdleCall, CallOps, CallPlaces
  <2>2. 0 \in 0..maxBootWaiters /\ 0 \in 0..2
    OBVIOUS
  <2> HIDE DEF IdleCall
  <2> QED
    BY <2>1, <2>2 DEF TgtInit, TgtTypeOK
<1>3. TgtSlotted = {} /\ TgtWaiting = {}
  BY <1>1 DEF TgtSlotted, TgtWaiting
<1>4. IsFiniteSet(TgtSlotted) /\ TgtWaitsExact
  <2>1. bootWaitSlots = Cardinality(TgtSlotted) /\ IsFiniteSet(TgtSlotted)
    BY <1>0, <1>3, FS_EmptySet
  <2>2. waitByLease = {tCalls[c].by : c \in TgtWaiting}
    BY <1>0, <1>3
  <2> QED
    BY <2>1, <2>2, <1>3 DEF TgtWaitsExact, TgtWaiting, TgtSlotted
<1>5. \A c \in TCall : CallAt(c) /\ CallLate(c)
  <2> SUFFICES ASSUME NEW c \in TCall PROVE CallAt(c) /\ CallLate(c)
    OBVIOUS
  <2>1. CallAt(c)
    BY <1>1 DEF CallAt
  <2>2. CallLate(c)
    BY <1>0, <1>1 DEF CallLate
  <2> QED
    BY <2>1, <2>2
<1>6. \A c, d \in TCall : tCalls[c].by = Dash /\ tCalls[d].by = Dash => c = d
  BY <1>1
<1>7. TgtLedger
  BY <1>0, <1>1 DEF TgtLedger
<1> QED
  BY <1>0, <1>2, <1>4, <1>5, <1>6, <1>7 DEF TgtInv

(* The counts of a request that moves without waiter slot or lease mark. *)
LEMMA Tgt_Counts ==
  ASSUME TgtInv, NEW c \in TCall, UNCHANGED <<waitByLease, bootWaitSlots>>,
         \A d \in TCall : d # c => tCalls'[d] = tCalls[d],
         tCalls'[c].slot = tCalls[c].slot,
         c \in TgtWaiting' <=> c \in TgtWaiting,
         c \in TgtWaiting => tCalls'[c].by = tCalls[c].by
  PROVE  IsFiniteSet(TgtSlotted)' /\ TgtWaitsExact'
<1>1. TgtSlotted' = TgtSlotted
  BY Zenon DEF TgtSlotted
<1>2. TgtWaiting' = TgtWaiting
  BY Zenon DEF TgtWaiting
<1>3. \A d \in TgtWaiting : tCalls'[d].by = tCalls[d].by
  BY Zenon DEF TgtWaiting
<1>4. {tCalls'[d].by : d \in TgtWaiting'} = {tCalls[d].by : d \in TgtWaiting}
  BY <1>2, <1>3
<1>5. /\ bootWaitSlots = Cardinality(TgtSlotted) /\ waitByLease = {tCalls[d].by : d \in TgtWaiting}
      /\ \A d, e \in TgtWaiting : tCalls[d].by = tCalls[e].by => d = e
  BY DEF TgtInv, TgtWaitsExact, TgtSlotted, TgtWaiting
<1>6. /\ bootWaitSlots' = Cardinality(TgtSlotted') /\ waitByLease' = {tCalls'[d].by : d \in TgtWaiting'}
  BY <1>1, <1>4, <1>5
<1>7. \A d, e \in TgtWaiting' : tCalls'[d].by = tCalls'[e].by => d = e
  BY <1>2, <1>3, <1>5
<1>8. TgtWaitsExact'
  BY <1>6, <1>7 DEF TgtWaitsExact, TgtSlotted, TgtWaiting
<1> QED
  BY <1>1, <1>8 DEF TgtInv

(* One request moves, the lease does not. *)
LEMMA Tgt_Call ==
  ASSUME TgtInv, NEW c \in TCall, TgtTypeOK', UNCHANGED tLeaseVars,
         \A d \in TCall : d # c => tCalls'[d] = tCalls[d] /\ tLate'[d] = tLate[d],
         tCalls'[c].by \in {tCalls[c].by, NoTLease} \cup TLease,
         CallAt(c)', CallLate(c)', IsFiniteSet(TgtSlotted)', TgtWaitsExact', TgtLedger'
  PROVE  TgtInv'
<1>1. \A d \in TCall : d # c => CallAt(d)' /\ CallLate(d)'
  <2> SUFFICES ASSUME NEW d \in TCall, d # c PROVE CallAt(d)' /\ CallLate(d)'
    OBVIOUS
  <2>1. CallAt(d) /\ CallLate(d) /\ tCalls'[d] = tCalls[d] /\ tLate'[d] = tLate[d]
    BY DEF TgtInv
  <2>2. CallAt(d)'
    BY <2>1 DEF CallAt
  <2>3. CallLate(d)'
    BY <2>1 DEF CallLate, tLeaseVars
  <2> QED
    BY <2>2, <2>3
<1>2. \A d, e \in TCall : tCalls'[d].by = Dash /\ tCalls'[e].by = Dash => d = e
  <2>1. \A d \in TCall : tCalls'[d].by = Dash => tCalls[d].by = Dash
    BY TgtAssumption
  <2> QED
    BY <2>1 DEF TgtInv
<1>3. (tHolder \notin tOver)'
  BY DEF TgtInv, tLeaseVars
<1> QED
  BY <1>1, <1>2, <1>3 DEF TgtInv

(* Where the ledger stays sound without an argument about it. *)
LEMMA Tgt_LedgerKeeps ==
  ASSUME TgtInv, NEW c \in TCall, UNCHANGED <<tRaced, lastShutdown, tDownBy, tPower>>,
         \A d \in TCall : d # c => tCalls'[d] = tCalls[d],
         tCalls'[c].at # "noting", tCalls[c].at # "clearing"
  PROVE  TgtLedger'
<1>1. (\E d \in TCall : tCalls[d].at = "clearing") => \E d \in TCall : tCalls'[d].at = "clearing"
  BY Zenon
<1>2. (\E d \in TCall : tCalls'[d].at = "noting") => \E d \in TCall : tCalls[d].at = "noting"
  BY Zenon
<1> QED
  BY <1>1, <1>2 DEF TgtInv, TgtLedger

LEMMA Tgt_Types ==
  ASSUME TgtInv
  PROVE  /\ \A c \in TCall : /\ tCalls[c] \in [op : CallOps, by : TLease \cup {Dash, NoTLease},
                                     at : CallPlaces, left : 0..MaxBatch, first : BOOLEAN, slot : BOOLEAN]
                             /\ tCalls[c].op \in CallOps /\ tCalls[c].by \in TLease \cup {Dash, NoTLease}
                             /\ tCalls[c].at \in CallPlaces /\ tCalls[c].left \in 0..MaxBatch
                             /\ tCalls[c].first \in BOOLEAN /\ tCalls[c].slot \in BOOLEAN
                             /\ tLate[c] \in 0..2
                             /\ CallAt(c) /\ CallLate(c)
         /\ IsFiniteSet(TgtSlotted) /\ bootWaitSlots = Cardinality(TgtSlotted)
         /\ waitByLease = {tCalls[c].by : c \in TgtWaiting}
         /\ \A c, d \in TgtWaiting : tCalls[c].by = tCalls[d].by => c = d
<1>1. tCalls \in [TCall -> [op : CallOps, by : TLease \cup {Dash, NoTLease}, at : CallPlaces,
                            left : 0..MaxBatch, first : BOOLEAN, slot : BOOLEAN]]
  BY DEF TgtInv, TgtTypeOK
<1>2. tLate \in [TCall -> 0..2]
  BY DEF TgtInv, TgtTypeOK
<1>3. /\ bootWaitSlots = Cardinality(TgtSlotted)
      /\ waitByLease = {tCalls[c].by : c \in TgtWaiting}
      /\ \A c, d \in TgtWaiting : tCalls[c].by = tCalls[d].by => c = d
  BY DEF TgtInv, TgtWaitsExact, TgtSlotted, TgtWaiting
<1> QED
  BY <1>1, <1>2, <1>3 DEF TgtInv

(* An attempt by a request whose lease still holds the target is not late, *)
(* and nobody makes a second late one.                                     *)
LEMMA Tgt_Attempts ==
  ASSUME TgtInv, NEW c \in TCall, Attempts(c), tCalls[c].at \in {"booting", "shutting", "acting"}
  PROVE  /\ tLate' \in [TCall -> 0..2] /\ \A d \in TCall : d # c => tLate'[d] = tLate[d]
         /\ tLate'[c] <= 1 /\ (tLate'[c] = 1 => tCalls[c].by \in tOver)
<1>1. CallAt(c) /\ CallLate(c) /\ tLate[c] \in 0..2 /\ tLate \in [TCall -> 0..2]
      /\ tCalls[c].by \in TLease \cup {Dash, NoTLease}
  BY Tgt_Types DEF TgtInv, TgtTypeOK
<1>2. tLate[c] = 0
  BY <1>1 DEF CallLate
<1>3. tCalls[c].by # NoTLease
  BY <1>1 DEF CallAt
<1>4. CASE Holds(c)
  BY <1>1, <1>2, <1>4 DEF Attempts
<1>5. CASE ~Holds(c)
  <2>1. tLate' = [tLate EXCEPT ![c] = 1]
    BY <1>2, <1>5, <1>1 DEF Attempts
  <2>2. tCalls[c].by \in tOver
    BY <1>1, <1>3, <1>5 DEF CallLate, Holds
  <2>3. tLate'[c] = 1 /\ \A d \in TCall : d # c => tLate'[d] = tLate[d]
    BY <2>1, <1>1
  <2>4. tLate' \in [TCall -> 0..2]
    BY <2>1, <1>1
  <2> QED
    BY <2>2, <2>3, <2>4
<1> QED
  BY <1>4, <1>5

LEMMA Tgt_Around == ASSUME TgtInv, LeaseMoves \/ GateMoves \/ GoesDown PROVE TgtInv'
<1> USE TgtAssumption
<1>0. UNCHANGED <<tCalls, waitByLease, bootWaitSlots, tLate, tRaced, lastShutdown>>
  BY DEF LeaseMoves, GateMoves, GoesDown
<1>1. IsFiniteSet(TgtSlotted)' /\ TgtWaitsExact'
      /\ \A c, d \in TCall : tCalls'[c].by = Dash /\ tCalls'[d].by = Dash => c = d
  <2>1. IsFiniteSet(TgtSlotted)'
    BY <1>0 DEF TgtInv, TgtSlotted
  <2>2. TgtWaitsExact'
    BY <1>0, ZenonT(40) DEF TgtInv, TgtWaitsExact
  <2> QED
    BY <2>1, <2>2, <1>0, Zenon DEF TgtInv
<1>2. \A c \in TCall : CallAt(c)'
  BY <1>0, Zenon DEF TgtInv, CallAt
<1>3. CASE LeaseMoves
  <2>1. TgtTypeOK'
    BY <1>3 DEF TgtInv, TgtTypeOK, LeaseMoves
  <2>2. (tHolder \notin tOver)'
    BY <1>3 DEF TgtInv, TgtTypeOK, LeaseMoves
  <2>3. ASSUME NEW c \in TCall PROVE CallLate(c)'
    <3>1. CallLate(c) /\ CallAt(c)
      BY DEF TgtInv
    <3>2. tOver \subseteq tOver' /\ (tHolder \in TLease => tHolder' = tHolder \/ tHolder \in tOver')
          /\ (tHolder = Dash => tHolder' = Dash)
      BY <1>3 DEF TgtInv, TgtTypeOK, LeaseMoves
    <3> QED
      BY <1>0, <3>1, <3>2 DEF CallLate
  <2>4. TgtLedger'
    <3>1. UNCHANGED <<tCalls, lastShutdown, tDownBy, tPower, tRaced>>
      BY <1>3 DEF LeaseMoves
    <3> QED
      BY <3>1 DEF TgtInv, TgtLedger
  <2> QED
    BY <1>1, <1>2, <2>1, <2>2, <2>3, <2>4 DEF TgtInv
<1>4. CASE GateMoves
  <2>1. TgtTypeOK'
    BY <1>4 DEF TgtInv, TgtTypeOK, GateMoves, tLeaseVars
  <2>2. (tHolder \notin tOver)'
    BY <1>4 DEF TgtInv, GateMoves, tLeaseVars
  <2>3. \A c \in TCall : CallLate(c)'
    BY <1>4, Zenon DEF TgtInv, CallLate, GateMoves, tLeaseVars
  <2>4. TgtLedger'
    BY <1>4, Zenon DEF TgtInv, TgtLedger, GateMoves
  <2> QED
    BY <1>1, <1>2, <2>1, <2>2, <2>3, <2>4 DEF TgtInv
<1>5. CASE GoesDown
  <2>1. TgtTypeOK'
    BY <1>5 DEF TgtInv, TgtTypeOK, GoesDown, tLeaseVars
  <2>2. (tHolder \notin tOver)'
    BY <1>5 DEF TgtInv, GoesDown, tLeaseVars
  <2>3. \A c \in TCall : CallLate(c)'
    BY <1>5, Zenon DEF TgtInv, CallLate, GoesDown, tLeaseVars
  <2>4. TgtLedger'
    BY <1>5, Zenon DEF TgtInv, TgtLedger, GoesDown
  <2> QED
    BY <1>1, <1>2, <2>1, <2>2, <2>3, <2>4 DEF TgtInv
<1> QED
  BY <1>3, <1>4, <1>5

LEMMA Tgt_CallStarts == ASSUME TgtInv, NEW c \in TCall, CallStarts(c) PROVE TgtInv'
<1> USE TgtAssumption
<1>1. PICK op \in CallOps, n \in 1..MaxBatch :
        tCalls' = [tCalls EXCEPT ![c] = [op |-> op, by |-> tHolder, at |-> FirstPlace(op),
                                         left |-> n, first |-> TRUE, slot |-> FALSE]]
  BY DEF CallStarts
<1>0. /\ tCalls[c].at = "idle" /\ tHolder \in TLease /\ tLate' = [tLate EXCEPT ![c] = 0]
      /\ UNCHANGED <<tLeaseVars, tPower, tGate, lastShutdown, waitByLease, bootWaitSlots, tDownBy, tRaced>>
  BY DEF CallStarts, At
<1>2. TgtTypeOK'
  <2>0. n \in 0..MaxBatch /\ 0 \in 0..2
    OBVIOUS
  <2>1. FirstPlace(op) \in CallPlaces
    BY DEF FirstPlace, CallPlaces
  <2>2. tHolder \in TLease \cup {Dash, NoTLease}
    BY <1>0
  <2>3. [op |-> op, by |-> tHolder, at |-> FirstPlace(op), left |-> n, first |-> TRUE, slot |-> FALSE]
          \in [op : CallOps, by : TLease \cup {Dash, NoTLease}, at : CallPlaces,
               left : 0..MaxBatch, first : BOOLEAN, slot : BOOLEAN]
    BY <2>0, <2>1, <2>2
  <2> QED
    BY <1>0, <1>1, <2>0, <2>3 DEF TgtInv, TgtTypeOK, tLeaseVars
<1>3. /\ tCalls'[c].op = op /\ tCalls'[c].by = tHolder /\ tCalls'[c].at = FirstPlace(op)
      /\ tCalls'[c].left = n /\ tCalls'[c].slot = FALSE /\ tLate'[c] = 0
      /\ \A d \in TCall : d # c => tCalls'[d] = tCalls[d] /\ tLate'[d] = tLate[d]
  BY <1>0, <1>1 DEF TgtInv, TgtTypeOK
<1>4. CallAt(c)'
  BY <1>0, <1>3 DEF CallAt, FirstPlace, CallOps, WaitPlaces
<1>5. CallLate(c)'
  BY <1>0, <1>3 DEF CallLate, tLeaseVars
<1>6. IsFiniteSet(TgtSlotted)' /\ TgtWaitsExact'
  <2>1. tCalls[c].slot = FALSE
    BY <1>0, Tgt_Types DEF CallAt, SlotPlaces
  <2>2. c \notin TgtWaiting /\ c \notin TgtWaiting'
    BY <1>0, <1>3 DEF TgtWaiting, FirstPlace
  <2> QED
    BY <1>0, <1>3, <2>1, <2>2, Tgt_Counts
<1>7. TgtLedger'
  <2>1. tCalls'[c].at # "noting"
    BY <1>3 DEF FirstPlace, CallOps
  <2> QED
    BY <1>0, <1>3, <2>1, Tgt_LedgerKeeps
<1> QED
  BY <1>0, <1>2, <1>3, <1>4, <1>5, <1>6, <1>7, Tgt_Call

LEMMA Tgt_DashStarts == ASSUME TgtInv, NEW c \in TCall, DashStarts(c) PROVE TgtInv'
<1> USE TgtAssumption
<1>1. PICK op \in {"boot", "shutdown"} :
        tCalls' = [tCalls EXCEPT ![c] = [op |-> op, by |-> Dash, at |-> FirstPlace(op),
                                         left |-> 0, first |-> TRUE, slot |-> FALSE]]
  BY DEF DashStarts
<1>0. /\ tCalls[c].at = "idle" /\ tHolder = NoTLease /\ tHolder' = Dash /\ tLate' = [tLate EXCEPT ![c] = 0]
      /\ UNCHANGED <<tOver, tPaused, tPower, tGate, lastShutdown, waitByLease, bootWaitSlots, tDownBy, tRaced>>
  BY DEF DashStarts, At
<1>2. TgtTypeOK'
  <2>0. 0 \in 0..MaxBatch /\ 0 \in 0..2
    OBVIOUS
  <2>1. FirstPlace(op) \in CallPlaces /\ op \in CallOps
    BY DEF FirstPlace, CallPlaces, CallOps
  <2>3. [op |-> op, by |-> Dash, at |-> FirstPlace(op), left |-> 0, first |-> TRUE, slot |-> FALSE]
          \in [op : CallOps, by : TLease \cup {Dash, NoTLease}, at : CallPlaces,
               left : 0..MaxBatch, first : BOOLEAN, slot : BOOLEAN]
    BY <2>0, <2>1
  <2> QED
    BY <1>0, <1>1, <2>0, <2>3 DEF TgtInv, TgtTypeOK
<1>3. /\ tCalls'[c].op = op /\ tCalls'[c].by = Dash /\ tCalls'[c].at = FirstPlace(op)
      /\ tCalls'[c].slot = FALSE /\ tLate'[c] = 0
      /\ \A d \in TCall : d # c => tCalls'[d] = tCalls[d] /\ tLate'[d] = tLate[d]
  BY <1>0, <1>1 DEF TgtInv, TgtTypeOK
<1>4. CallAt(c)'
  BY <1>3 DEF CallAt, FirstPlace
<1>5. CallLate(c)'
  BY <1>0, <1>3 DEF CallLate
<1>6. IsFiniteSet(TgtSlotted)' /\ TgtWaitsExact'
  <2>1. tCalls[c].slot = FALSE
    BY <1>0, Tgt_Types DEF CallAt, SlotPlaces
  <2>2. c \notin TgtWaiting /\ c \notin TgtWaiting'
    BY <1>0, <1>3 DEF TgtWaiting, FirstPlace
  <2> QED
    BY <1>0, <1>3, <2>1, <2>2, Tgt_Counts
<1>7. TgtLedger'
  <2>1. tCalls'[c].at # "noting"
    BY <1>3 DEF FirstPlace
  <2> QED
    BY <1>0, <1>3, <2>1, Tgt_LedgerKeeps
<1>8. \A d \in TCall : d # c => tCalls[d].by # Dash /\ tCalls'[d].by # Dash
  BY <1>0, <1>3, Tgt_Types DEF CallLate
<1>9. ASSUME NEW d \in TCall, d # c PROVE CallAt(d)' /\ CallLate(d)'
  <2>1. CallAt(d) /\ CallLate(d) /\ tCalls'[d] = tCalls[d] /\ tLate'[d] = tLate[d]
    BY <1>3, <1>9 DEF TgtInv
  <2>2. CallAt(d)'
    BY <2>1 DEF CallAt
  <2>3. CallLate(d)'
    BY <2>1, <1>0, <1>8 DEF CallLate
  <2> QED
    BY <2>2, <2>3
<1>10. (tHolder \notin tOver)'
  BY <1>0 DEF TgtInv, TgtTypeOK
<1> QED
  BY <1>2, <1>4, <1>5, <1>6, <1>7, <1>8, <1>9, <1>10 DEF TgtInv

(* The places a request passes that touch neither target nor counts.       *)
LEMMA Tgt_Goes ==
  ASSUME TgtInv, NEW c \in TCall, NEW p \in CallPlaces, Goes(c, p)
  PROVE  /\ tCalls' \in [TCall -> [op : CallOps, by : TLease \cup {Dash, NoTLease}, at : CallPlaces,
                                   left : 0..MaxBatch, first : BOOLEAN, slot : BOOLEAN]]
         /\ \A d \in TCall : d # c => tCalls'[d] = tCalls[d]
         /\ tCalls'[c].at = p /\ tCalls'[c].op = tCalls[c].op /\ tCalls'[c].by = tCalls[c].by
         /\ tCalls'[c].left = tCalls[c].left /\ tCalls'[c].first = tCalls[c].first
         /\ tCalls'[c].slot = tCalls[c].slot
BY DEF TgtInv, TgtTypeOK, Goes

LEMMA Tgt_Ends ==
  ASSUME TgtInv, NEW c \in TCall, Ends(c)
  PROVE  /\ tCalls' \in [TCall -> [op : CallOps, by : TLease \cup {Dash, NoTLease}, at : CallPlaces,
                                   left : 0..MaxBatch, first : BOOLEAN, slot : BOOLEAN]]
         /\ \A d \in TCall : d # c => tCalls'[d] = tCalls[d]
         /\ tCalls'[c].at = "idle" /\ tCalls'[c].op = "boot" /\ tCalls'[c].by = NoTLease
         /\ tCalls'[c].slot = FALSE
<1>1. IdleCall \in [op : CallOps, by : TLease \cup {Dash, NoTLease}, at : CallPlaces,
                    left : 0..MaxBatch, first : BOOLEAN, slot : BOOLEAN]
  <2>1. 0 \in 0..MaxBatch
    BY TgtAssumption
  <2> QED
    BY <2>1 DEF IdleCall, CallOps, CallPlaces
<1>2. IdleCall.at = "idle" /\ IdleCall.op = "boot" /\ IdleCall.by = NoTLease /\ IdleCall.slot = FALSE
  BY DEF IdleCall
<1> HIDE DEF IdleCall
<1>3. tCalls \in [TCall -> [op : CallOps, by : TLease \cup {Dash, NoTLease}, at : CallPlaces,
                            left : 0..MaxBatch, first : BOOLEAN, slot : BOOLEAN]]
  BY DEF TgtInv, TgtTypeOK
<1>4. tCalls' = [tCalls EXCEPT ![c] = IdleCall]
  BY DEF Ends
<1> QED
  BY <1>1, <1>2, <1>3, <1>4

(* A step that only moves one request along. *)
LEMMA Tgt_Moves ==
  ASSUME TgtInv, NEW c \in TCall,
         UNCHANGED <<tLeaseVars, tPower, tGate, lastShutdown, waitByLease, bootWaitSlots, tDownBy, tRaced, tLate>>,
         tCalls' \in [TCall -> [op : CallOps, by : TLease \cup {Dash, NoTLease}, at : CallPlaces,
                                left : 0..MaxBatch, first : BOOLEAN, slot : BOOLEAN]],
         \A d \in TCall : d # c => tCalls'[d] = tCalls[d],
         tCalls'[c].by \in {tCalls[c].by, NoTLease},
         tCalls'[c].slot = tCalls[c].slot,
         c \in TgtWaiting' <=> c \in TgtWaiting,
         c \in TgtWaiting => tCalls'[c].by = tCalls[c].by,
         CallAt(c)', CallLate(c)', tCalls'[c].at # "noting", tCalls[c].at # "clearing"
  PROVE  TgtInv'
<1>1. TgtTypeOK'
  BY DEF TgtInv, TgtTypeOK, tLeaseVars
<1>2. IsFiniteSet(TgtSlotted)' /\ TgtWaitsExact'
  BY Tgt_Counts
<1>3. TgtLedger'
  BY Tgt_LedgerKeeps
<1> QED
  BY <1>1, <1>2, <1>3, Tgt_Call

LEMMA Tgt_WaitEnters == ASSUME TgtInv, NEW c \in TCall, WaitEnters(c) PROVE TgtInv'
<1> USE TgtAssumption
<1>0. /\ tCalls[c].at = "entering"
      /\ UNCHANGED <<tLeaseVars, tPower, tGate, lastShutdown, bootWaitSlots, tDownBy, tRaced, tLate>>
  BY DEF WaitEnters, At
<1>a. CallAt(c) /\ CallLate(c) /\ tCalls[c].op \in CallOps
  BY Tgt_Types
<1>b. tCalls[c].op = "wait" /\ tCalls[c].by \in TLease /\ tCalls[c].slot = FALSE
  <2>1. tCalls[c].slot \in BOOLEAN
    BY Tgt_Types
  <2> QED
    BY <1>0, <1>a, <2>1 DEF CallAt, CallOps, SlotPlaces
<1>c. c \notin TgtWaiting
  BY <1>0 DEF TgtWaiting
<1>1. CASE tCalls[c].by \in waitByLease
  <2>0. Ends(c) /\ UNCHANGED waitByLease
    BY <1>1 DEF WaitEnters
  <2>1. CallAt(c)' /\ CallLate(c)'
    <3>1. CallAt(c)'
      BY <2>0, Tgt_Ends DEF CallAt
    <3>2. CallLate(c)'
      <4>1. tCalls'[c].at = "idle" /\ tCalls'[c].by = NoTLease
        BY <2>0, Tgt_Ends
      <4> QED
        BY <4>1, <1>0, <1>a DEF CallLate, tLeaseVars
    <3> QED
      BY <3>1, <3>2
  <2>2. c \notin TgtWaiting'
    BY <2>0, Tgt_Ends DEF TgtWaiting
  <2> QED
    BY <1>0, <1>b, <1>c, <2>0, <2>1, <2>2, Tgt_Ends, Tgt_Moves
<1>2. CASE tCalls[c].by \notin waitByLease
  <2>0. Goes(c, "slotting") /\ waitByLease' = waitByLease \cup {tCalls[c].by}
    BY <1>2 DEF WaitEnters
  <2>1. /\ \A d \in TCall : d # c => tCalls'[d] = tCalls[d]
        /\ tCalls'[c].at = "slotting" /\ tCalls'[c].op = "wait" /\ tCalls'[c].by = tCalls[c].by
        /\ tCalls'[c].slot = FALSE
        /\ tCalls' \in [TCall -> [op : CallOps, by : TLease \cup {Dash, NoTLease}, at : CallPlaces,
                                  left : 0..MaxBatch, first : BOOLEAN, slot : BOOLEAN]]
    BY <2>0, <1>b, Tgt_Goes DEF CallPlaces
  <2>2. CallAt(c)'
    BY <2>1, <1>b DEF CallAt, WaitPlaces
  <2>3. CallLate(c)'
    BY <2>1, <1>0, <1>a DEF CallLate, tLeaseVars
  <2>4. TgtTypeOK'
    <3>1. waitByLease' \subseteq TLease
      BY <2>0, <1>b DEF TgtInv, TgtTypeOK
    <3> QED
      BY <3>1, <2>1, <1>0 DEF TgtInv, TgtTypeOK, tLeaseVars
  <2>5. TgtSlotted' = TgtSlotted
    BY <2>1, <1>b DEF TgtSlotted
  <2>6. TgtWaiting' = TgtWaiting \cup {c}
    BY <2>1 DEF TgtWaiting
  <2>7. \A d \in TgtWaiting : tCalls'[d] = tCalls[d] /\ tCalls[d].by # tCalls[c].by
    <3>1. \A d \in TgtWaiting : tCalls[d].by \in waitByLease
      BY Tgt_Types
    <3> QED
      BY <3>1, <1>2, <1>c, <2>1 DEF TgtWaiting
  <2>8. IsFiniteSet(TgtSlotted)' /\ TgtWaitsExact'
    <3>1. waitByLease' = {tCalls'[d].by : d \in TgtWaiting'}
      <4>1. waitByLease = {tCalls[d].by : d \in TgtWaiting}
        BY Tgt_Types
      <4>2. {tCalls'[d].by : d \in TgtWaiting} = {tCalls[d].by : d \in TgtWaiting}
        BY <2>7
      <4> QED
        BY <2>0, <2>1, <2>6, <4>1, <4>2
    <3>2. \A d, e \in TgtWaiting' : tCalls'[d].by = tCalls'[e].by => d = e
      <4>1. \A d, e \in TgtWaiting : tCalls[d].by = tCalls[e].by => d = e
        BY Tgt_Types
      <4> QED
        BY <4>1, <2>6, <2>7, <2>1
    <3>3. bootWaitSlots' = Cardinality(TgtSlotted') /\ IsFiniteSet(TgtSlotted')
      BY <2>5, <1>0, Tgt_Types
    <3> QED
      BY <3>1, <3>2, <3>3 DEF TgtWaitsExact, TgtSlotted, TgtWaiting
  <2>9. TgtLedger'
    BY <1>0, <2>1, Tgt_LedgerKeeps
  <2> QED
    BY <1>0, <2>1, <2>2, <2>3, <2>4, <2>8, <2>9, Tgt_Call
<1> QED
  BY <1>1, <1>2

LEMMA Tgt_WaitTakesSlot == ASSUME TgtInv, NEW c \in TCall, WaitTakesSlot(c) PROVE TgtInv'
<1> USE TgtAssumption
<1>0. /\ tCalls[c].at = "slotting"
      /\ UNCHANGED <<tLeaseVars, tPower, tGate, lastShutdown, waitByLease, tDownBy, tRaced, tLate>>
  BY DEF WaitTakesSlot, At
<1>a. CallAt(c) /\ CallLate(c) /\ tCalls[c].op \in CallOps
  BY Tgt_Types
<1>b. tCalls[c].op = "wait" /\ tCalls[c].by \in TLease /\ tCalls[c].slot = FALSE /\ tLate[c] # 1
  <2>1. tCalls[c].slot \in BOOLEAN
    BY Tgt_Types
  <2> QED
    BY <1>0, <1>a, <2>1 DEF CallAt, CallLate, CallOps, SlotPlaces
<1>c. c \in TgtWaiting
  BY <1>0, <1>b DEF TgtWaiting
<1>1. CASE bootWaitSlots < maxBootWaiters
  <2>0. /\ tCalls' = [tCalls EXCEPT ![c].at = "checking", ![c].slot = TRUE]
        /\ bootWaitSlots' = bootWaitSlots + 1
    BY <1>1 DEF WaitTakesSlot
  <2>1. /\ \A d \in TCall : d # c => tCalls'[d] = tCalls[d]
        /\ tCalls'[c].at = "checking" /\ tCalls'[c].op = "wait" /\ tCalls'[c].by = tCalls[c].by
        /\ tCalls'[c].slot = TRUE
        /\ tCalls' \in [TCall -> [op : CallOps, by : TLease \cup {Dash, NoTLease}, at : CallPlaces,
                                  left : 0..MaxBatch, first : BOOLEAN, slot : BOOLEAN]]
    BY <2>0, <1>b DEF TgtInv, TgtTypeOK, CallPlaces
  <2>2. CallAt(c)'
    BY <2>1, <1>b DEF CallAt, WaitPlaces, SlotPlaces
  <2>3. CallLate(c)'
    BY <2>1, <1>0, <1>a DEF CallLate, tLeaseVars
  <2>4. TgtTypeOK'
    <3>1. bootWaitSlots' \in 0..maxBootWaiters
      BY <2>0, <1>1 DEF TgtInv, TgtTypeOK
    <3> QED
      BY <3>1, <2>1, <1>0 DEF TgtInv, TgtTypeOK, tLeaseVars
  <2>5. TgtSlotted' = TgtSlotted \cup {c} /\ c \notin TgtSlotted
    BY <2>1, <1>b DEF TgtSlotted
  <2>6. TgtWaiting' = TgtWaiting /\ \A d \in TgtWaiting : tCalls'[d].by = tCalls[d].by
    <3>1. \A d \in TCall : tCalls'[d].by = tCalls[d].by
      BY <2>1
    <3>2. \A d \in TCall : d \in TgtWaiting' <=> d \in TgtWaiting
      BY <2>1, <1>c DEF TgtWaiting
    <3> QED
      BY <3>1, <3>2 DEF TgtWaiting
  <2>8. IsFiniteSet(TgtSlotted)' /\ TgtWaitsExact'
    <3>1. waitByLease' = {tCalls'[d].by : d \in TgtWaiting'}
      BY <2>6, <1>0, Tgt_Types
    <3>2. \A d, e \in TgtWaiting' : tCalls'[d].by = tCalls'[e].by => d = e
      BY <2>6, Tgt_Types
    <3>3. bootWaitSlots' = Cardinality(TgtSlotted') /\ IsFiniteSet(TgtSlotted')
      <4>1. bootWaitSlots = Cardinality(TgtSlotted) /\ IsFiniteSet(TgtSlotted)
        BY Tgt_Types
      <4> QED
        BY <4>1, <2>0, <2>5, FS_AddElement
    <3> QED
      BY <3>1, <3>2, <3>3 DEF TgtWaitsExact, TgtSlotted, TgtWaiting
  <2>9. TgtLedger'
    BY <1>0, <2>1, Tgt_LedgerKeeps
  <2> QED
    BY <1>0, <2>1, <2>2, <2>3, <2>4, <2>8, <2>9, Tgt_Call
<1>2. CASE ~(bootWaitSlots < maxBootWaiters)
  <2>0. Goes(c, "booting") /\ UNCHANGED bootWaitSlots
    BY <1>2 DEF WaitTakesSlot
  <2>1. /\ \A d \in TCall : d # c => tCalls'[d] = tCalls[d]
        /\ tCalls'[c].at = "booting" /\ tCalls'[c].op = "wait" /\ tCalls'[c].by = tCalls[c].by
        /\ tCalls'[c].slot = FALSE
        /\ tCalls' \in [TCall -> [op : CallOps, by : TLease \cup {Dash, NoTLease}, at : CallPlaces,
                                  left : 0..MaxBatch, first : BOOLEAN, slot : BOOLEAN]]
    BY <2>0, <1>b, Tgt_Goes DEF CallPlaces
  <2>2. CallAt(c)'
    BY <2>1, <1>b DEF CallAt, WaitPlaces
  <2>3. CallLate(c)'
    BY <2>1, <1>0, <1>a, <1>b DEF CallLate, tLeaseVars
  <2>4. c \in TgtWaiting'
    BY <2>1 DEF TgtWaiting
  <2> QED
    BY <1>0, <1>b, <1>c, <2>0, <2>1, <2>2, <2>3, <2>4, Tgt_Moves
<1> QED
  BY <1>1, <1>2

LEMMA Tgt_WaitLoops == ASSUME TgtInv, NEW c \in TCall, WaitChecks(c) \/ WaitSleeps(c) PROVE TgtInv'
<1> USE TgtAssumption
<1>0. UNCHANGED <<tLeaseVars, tPower, tGate, lastShutdown, waitByLease, bootWaitSlots, tDownBy, tRaced, tLate>>
  BY DEF WaitChecks, WaitSleeps
<1>a. CallAt(c) /\ CallLate(c) /\ tCalls[c].op \in CallOps
  BY Tgt_Types
<1>1. PICK p \in {"leaving", "booting", "sleeping", "checking"} :
         /\ Goes(c, p) /\ tCalls[c].at \in {"checking", "sleeping"}
         /\ p = "booting" => tHolder = tCalls[c].by
  BY Zenon DEF WaitChecks, WaitSleeps, At, Revalidates, Holds
<1>b. tCalls[c].op = "wait" /\ tCalls[c].by \in TLease /\ tCalls[c].slot
  BY <1>1, <1>a DEF CallAt, CallOps
<1>2. /\ \A d \in TCall : d # c => tCalls'[d] = tCalls[d]
      /\ tCalls'[c].at = p /\ tCalls'[c].op = "wait" /\ tCalls'[c].by = tCalls[c].by
      /\ tCalls'[c].slot = tCalls[c].slot
      /\ tCalls' \in [TCall -> [op : CallOps, by : TLease \cup {Dash, NoTLease}, at : CallPlaces,
                                left : 0..MaxBatch, first : BOOLEAN, slot : BOOLEAN]]
  BY <1>1, <1>b, Tgt_Goes DEF CallPlaces
<1>3. CallAt(c)'
  BY <1>1, <1>2, <1>b DEF CallAt, WaitPlaces, SlotPlaces
<1>4. CallLate(c)'
  <2>1. tHolder \notin tOver
    BY DEF TgtInv
  <2> QED
    BY <1>0, <1>1, <1>2, <1>a, <2>1 DEF CallLate, tLeaseVars
<1>5. c \in TgtWaiting /\ c \in TgtWaiting'
  BY <1>1, <1>2, <1>b DEF TgtWaiting
<1> QED
  BY <1>0, <1>1, <1>2, <1>3, <1>4, <1>5, Tgt_Moves

LEMMA Tgt_Boots == ASSUME TgtInv, NEW c \in TCall, Boots(c) PROVE TgtInv'
<1> USE TgtAssumption
<1>0. /\ tCalls[c].at = "booting" /\ Attempts(c) /\ Races(c, "boot")
      /\ UNCHANGED <<tLeaseVars, tGate, lastShutdown, waitByLease, bootWaitSlots, tDownBy>>
  BY DEF Boots, At
<1>a. CallAt(c) /\ CallLate(c) /\ tCalls[c].op \in CallOps /\ tCalls[c].slot \in BOOLEAN
  BY Tgt_Types
<1>b. tCalls[c].op \in {"boot", "wait"}
  BY <1>0, <1>a DEF CallAt, CallOps
<1>1. PICK p \in {"clearing", "leaving", "sleeping"} :
        /\ \A d \in TCall : d # c => tCalls'[d] = tCalls[d]
        /\ tCalls'[c].at = p /\ tCalls'[c].op = tCalls[c].op /\ tCalls'[c].by = tCalls[c].by
        /\ tCalls'[c].slot = tCalls[c].slot /\ (p = "sleeping" => tCalls[c].slot)
        /\ tCalls' \in [TCall -> [op : CallOps, by : TLease \cup {Dash, NoTLease}, at : CallPlaces,
                                  left : 0..MaxBatch, first : BOOLEAN, slot : BOOLEAN]]
        /\ tPower' \in BOOLEAN /\ (tPower' = tPower \/ p = "clearing")
  <2>0. tPower \in BOOLEAN
    BY DEF TgtInv, TgtTypeOK
  <2>1. CASE tGate /\ tPower' = TRUE /\ Goes(c, "clearing")
    BY <2>1, Tgt_Goes DEF CallPlaces
  <2>2. CASE tGate /\ UNCHANGED tPower /\ Goes(c, "leaving")
    BY <2>0, <2>2, Tgt_Goes DEF CallPlaces
  <2>3. CASE /\ UNCHANGED tPower
             /\ tCalls' = [tCalls EXCEPT ![c].at = IF tCalls[c].slot THEN "sleeping" ELSE "leaving",
                                         ![c].first = FALSE]
    <3>1. PICK p \in {"leaving", "sleeping"} : p = IF tCalls[c].slot THEN "sleeping" ELSE "leaving"
      BY Zenon
    <3>2. tCalls' = [tCalls EXCEPT ![c].at = p, ![c].first = FALSE]
      BY <2>3, <3>1
    <3>3. p \in CallPlaces /\ (p = "sleeping" => tCalls[c].slot)
      BY <3>1 DEF CallPlaces
    <3>4. tCalls \in [TCall -> [op : CallOps, by : TLease \cup {Dash, NoTLease}, at : CallPlaces,
                                left : 0..MaxBatch, first : BOOLEAN, slot : BOOLEAN]]
      BY DEF TgtInv, TgtTypeOK
    <3>5. /\ \A d \in TCall : d # c => tCalls'[d] = tCalls[d]
          /\ tCalls'[c].at = p /\ tCalls'[c].op = tCalls[c].op /\ tCalls'[c].by = tCalls[c].by
          /\ tCalls'[c].slot = tCalls[c].slot
      BY <3>2, <3>4
    <3>6. tCalls' \in [TCall -> [op : CallOps, by : TLease \cup {Dash, NoTLease}, at : CallPlaces,
                                 left : 0..MaxBatch, first : BOOLEAN, slot : BOOLEAN]]
      BY <3>2, <3>3, <3>4, ZenonT(40)
    <3> QED
      BY <2>0, <2>3, <3>3, <3>5, <3>6
  <2> QED
    BY <2>1, <2>2, <2>3 DEF Boots
<1>2. /\ tLate' \in [TCall -> 0..2] /\ \A d \in TCall : d # c => tLate'[d] = tLate[d]
      /\ tLate'[c] <= 1 /\ (tLate'[c] = 1 => tCalls[c].by \in tOver)
  BY <1>0, Tgt_Attempts
<1>3. CallAt(c)'
  BY <1>0, <1>1, <1>a, <1>b DEF CallAt, WaitPlaces, SlotPlaces
<1>4. CallLate(c)'
  BY <1>0, <1>1, <1>2, <1>a DEF CallLate, tLeaseVars
<1>5. TgtTypeOK'
  <2>1. tRaced' \in BOOLEAN
    BY <1>0 DEF Races, TgtInv, TgtTypeOK
  <2> QED
    BY <1>0, <1>1, <1>2, <2>1 DEF TgtInv, TgtTypeOK, tLeaseVars
<1>6. c \in TgtWaiting' <=> c \in TgtWaiting
  BY <1>0, <1>1 DEF TgtWaiting
<1>7. IsFiniteSet(TgtSlotted)' /\ TgtWaitsExact'
  BY <1>0, <1>1, <1>6, Tgt_Counts
<1>8. TgtLedger'
  <2> SUFFICES ASSUME ~tRaced' PROVE TgtLedger'
    BY DEF TgtLedger
  <2>1. ~tRaced /\ \A d \in TCall \ {c} : tCalls[d].at # "noting"
    BY <1>0 DEF Races, Shutting
  <2>2. \A d \in TCall : tCalls'[d].at # "noting"
    BY <1>1, <2>1
  <2>3. (\E d \in TCall : tCalls[d].at = "clearing") => \E d \in TCall : tCalls'[d].at = "clearing"
    BY <1>0, <1>1
  <2>4. p = "clearing" => \E d \in TCall : tCalls'[d].at = "clearing"
    BY <1>1
  <2>5. lastShutdown => (tDownBy = "daemon" /\ ~tPower) \/ \E d \in TCall : tCalls[d].at = "clearing"
    BY <2>1 DEF TgtInv, TgtLedger
  <2> QED
    BY <1>0, <1>1, <2>2, <2>3, <2>4, <2>5, Zenon DEF TgtLedger
<1> QED
  BY <1>0, <1>1, <1>2, <1>3, <1>4, <1>5, <1>7, <1>8, Tgt_Call

LEMMA Tgt_ClearsNote == ASSUME TgtInv, NEW c \in TCall, ClearsNote(c) PROVE TgtInv'
<1> USE TgtAssumption
<1>0. /\ tCalls[c].at = "clearing" /\ Races(c, "boot") /\ lastShutdown' = FALSE /\ Goes(c, "leaving")
      /\ UNCHANGED <<tLeaseVars, tPower, tGate, waitByLease, bootWaitSlots, tDownBy, tLate>>
  BY DEF ClearsNote, At, Cleared
<1>a. CallAt(c) /\ CallLate(c) /\ tCalls[c].op \in CallOps /\ tCalls[c].slot \in BOOLEAN
  BY Tgt_Types
<1>1. /\ \A d \in TCall : d # c => tCalls'[d] = tCalls[d]
      /\ tCalls'[c].at = "leaving" /\ tCalls'[c].op = tCalls[c].op /\ tCalls'[c].by = tCalls[c].by
      /\ tCalls'[c].slot = tCalls[c].slot
      /\ tCalls' \in [TCall -> [op : CallOps, by : TLease \cup {Dash, NoTLease}, at : CallPlaces,
                                left : 0..MaxBatch, first : BOOLEAN, slot : BOOLEAN]]
  BY <1>0, Tgt_Goes DEF CallPlaces
<1>3. CallAt(c)'
  BY <1>0, <1>1, <1>a DEF CallAt, CallOps, WaitPlaces, SlotPlaces
<1>4. CallLate(c)'
  BY <1>0, <1>1, <1>a DEF CallLate, tLeaseVars
<1>5. TgtTypeOK'
  <2>1. tRaced' \in BOOLEAN
    BY <1>0 DEF Races, TgtInv, TgtTypeOK
  <2> QED
    BY <1>0, <1>1, <2>1 DEF TgtInv, TgtTypeOK, tLeaseVars
<1>6. c \in TgtWaiting' <=> c \in TgtWaiting
  BY <1>0, <1>1 DEF TgtWaiting
<1>7. IsFiniteSet(TgtSlotted)' /\ TgtWaitsExact'
  BY <1>0, <1>1, <1>6, Tgt_Counts
<1>8. TgtLedger'
  <2> SUFFICES ASSUME ~tRaced' PROVE TgtLedger'
    BY DEF TgtLedger
  <2>1. ~tRaced /\ \A d \in TCall \ {c} : tCalls[d].at # "noting"
    BY <1>0 DEF Races, Shutting
  <2>2. \A d \in TCall : tCalls'[d].at # "noting"
    BY <1>1, <2>1
  <2> QED
    BY <1>0, <2>2, Zenon DEF TgtLedger
<1> QED
  BY <1>0, <1>1, <1>3, <1>4, <1>5, <1>7, <1>8, Tgt_Call

LEMMA Tgt_Shuts == ASSUME TgtInv, NEW c \in TCall, Shuts(c) PROVE TgtInv'
<1> USE TgtAssumption
<1>0. /\ tCalls[c].at = "shutting" /\ Attempts(c) /\ Races(c, "shutdown")
      /\ UNCHANGED <<tLeaseVars, tGate, lastShutdown, waitByLease, bootWaitSlots>>
  BY DEF Shuts, At
<1>a. CallAt(c) /\ CallLate(c) /\ tCalls[c].op \in CallOps /\ tCalls[c].slot \in BOOLEAN
  BY Tgt_Types
<1>b. tCalls[c].op = "shutdown" /\ tCalls[c].slot = FALSE
  BY <1>0, <1>a DEF CallAt, CallOps, WaitPlaces, SlotPlaces
<1>1. PICK p \in {"noting", "leaving"} :
        /\ Goes(c, p)
        /\ \/ p = "noting" /\ tPower' = FALSE /\ tDownBy' = "daemon"
           \/ p = "leaving" /\ UNCHANGED <<tPower, tDownBy>>
  BY DEF Shuts
<1>c. /\ \A d \in TCall : d # c => tCalls'[d] = tCalls[d]
      /\ tCalls'[c].at = p /\ tCalls'[c].op = tCalls[c].op /\ tCalls'[c].by = tCalls[c].by
      /\ tCalls'[c].slot = tCalls[c].slot
      /\ tCalls' \in [TCall -> [op : CallOps, by : TLease \cup {Dash, NoTLease}, at : CallPlaces,
                                left : 0..MaxBatch, first : BOOLEAN, slot : BOOLEAN]]
  BY <1>1, Tgt_Goes DEF CallPlaces
<1>2. /\ tLate' \in [TCall -> 0..2] /\ \A d \in TCall : d # c => tLate'[d] = tLate[d]
      /\ tLate'[c] <= 1 /\ (tLate'[c] = 1 => tCalls[c].by \in tOver)
  BY <1>0, Tgt_Attempts
<1>3. CallAt(c)'
  BY <1>0, <1>1, <1>c, <1>a, <1>b DEF CallAt
<1>4. CallLate(c)'
  BY <1>0, <1>1, <1>c, <1>2, <1>a DEF CallLate, tLeaseVars
<1>5. TgtTypeOK'
  <2>1. tRaced' \in BOOLEAN /\ tPower' \in BOOLEAN /\ tDownBy' \in {"daemon", "outside"}
    BY <1>0, <1>1 DEF Races, TgtInv, TgtTypeOK
  <2> QED
    BY <1>0, <1>c, <1>2, <2>1 DEF TgtInv, TgtTypeOK, tLeaseVars
<1>6. c \in TgtWaiting' <=> c \in TgtWaiting
  BY <1>0, <1>b, <1>c DEF TgtWaiting
<1>7. IsFiniteSet(TgtSlotted)' /\ TgtWaitsExact'
  BY <1>0, <1>c, <1>6, Tgt_Counts
<1>8. TgtLedger'
  <2>1. CASE p = "noting"
    BY <1>1, <2>1 DEF TgtLedger
  <2>2. CASE p = "leaving"
    <3> SUFFICES ASSUME ~tRaced' PROVE TgtLedger'
      BY DEF TgtLedger
    <3>1. ~tRaced
      BY <1>0 DEF Races
    <3>2. UNCHANGED <<tPower, tDownBy, lastShutdown>>
      BY <1>0, <1>1, <2>2
    <3>3. (\E d \in TCall : tCalls[d].at = "clearing") => \E d \in TCall : tCalls'[d].at = "clearing"
      BY <1>0, <1>c
    <3>4. (\E d \in TCall : tCalls'[d].at = "noting") => \E d \in TCall : tCalls[d].at = "noting"
      BY <1>0, <1>c, <2>2
    <3> QED
      BY <3>1, <3>2, <3>3, <3>4 DEF TgtInv, TgtLedger
  <2> QED
    BY <2>1, <2>2
<1> QED
  BY <1>0, <1>c, <1>2, <1>3, <1>4, <1>5, <1>7, <1>8, Tgt_Call

LEMMA Tgt_NotesShutdown == ASSUME TgtInv, NEW c \in TCall, NotesShutdown(c) PROVE TgtInv'
<1> USE TgtAssumption
<1>0. /\ tCalls[c].at = "noting" /\ Races(c, "shutdown") /\ lastShutdown' = TRUE /\ Goes(c, "leaving")
      /\ UNCHANGED <<tLeaseVars, tPower, tGate, waitByLease, bootWaitSlots, tDownBy, tLate>>
  BY DEF NotesShutdown, At
<1>a. CallAt(c) /\ CallLate(c) /\ tCalls[c].op \in CallOps /\ tCalls[c].slot \in BOOLEAN
  BY Tgt_Types
<1>1. /\ \A d \in TCall : d # c => tCalls'[d] = tCalls[d]
      /\ tCalls'[c].at = "leaving" /\ tCalls'[c].op = tCalls[c].op /\ tCalls'[c].by = tCalls[c].by
      /\ tCalls'[c].slot = tCalls[c].slot
      /\ tCalls' \in [TCall -> [op : CallOps, by : TLease \cup {Dash, NoTLease}, at : CallPlaces,
                                left : 0..MaxBatch, first : BOOLEAN, slot : BOOLEAN]]
  BY <1>0, Tgt_Goes DEF CallPlaces
<1>3. CallAt(c)'
  BY <1>0, <1>1, <1>a DEF CallAt, CallOps, WaitPlaces, SlotPlaces
<1>4. CallLate(c)'
  BY <1>0, <1>1, <1>a DEF CallLate, tLeaseVars
<1>5. TgtTypeOK'
  <2>1. tRaced' \in BOOLEAN
    BY <1>0 DEF Races, TgtInv, TgtTypeOK
  <2> QED
    BY <1>0, <1>1, <2>1 DEF TgtInv, TgtTypeOK, tLeaseVars
<1>6. c \in TgtWaiting' <=> c \in TgtWaiting
  BY <1>0, <1>1 DEF TgtWaiting
<1>7. IsFiniteSet(TgtSlotted)' /\ TgtWaitsExact'
  BY <1>0, <1>1, <1>6, Tgt_Counts
<1>8. TgtLedger'
  <2> SUFFICES ASSUME ~tRaced' PROVE TgtLedger'
    BY DEF TgtLedger
  <2>1. ~tRaced
    BY <1>0 DEF Races
  <2>2. tDownBy = "daemon" /\ ~tPower
    BY <1>0, <2>1 DEF TgtInv, TgtLedger
  <2> QED
    BY <1>0, <2>2 DEF TgtLedger
<1> QED
  BY <1>0, <1>1, <1>3, <1>4, <1>5, <1>7, <1>8, Tgt_Call

LEMMA Tgt_CallLeaves == ASSUME TgtInv, NEW c \in TCall, CallLeaves(c) PROVE TgtInv'
<1> USE TgtAssumption
<1>0. /\ tCalls[c].at = "leaving" /\ tHolder' = (IF tCalls[c].by = Dash THEN NoTLease ELSE tHolder)
      /\ bootWaitSlots' = (IF tCalls[c].slot THEN bootWaitSlots - 1 ELSE bootWaitSlots)
      /\ UNCHANGED <<tOver, tPaused, tPower, tGate, lastShutdown, waitByLease, tDownBy, tRaced, tLate>>
  BY DEF CallLeaves, At, SlotsAfter
<1>a. CallAt(c) /\ CallLate(c) /\ tCalls[c].op \in CallOps /\ tCalls[c].slot \in BOOLEAN
  BY Tgt_Types
<1>1. /\ \A d \in TCall : d # c => tCalls'[d] = tCalls[d]
      /\ tCalls'[c].slot = FALSE
      /\ tCalls' \in [TCall -> [op : CallOps, by : TLease \cup {Dash, NoTLease}, at : CallPlaces,
                                left : 0..MaxBatch, first : BOOLEAN, slot : BOOLEAN]]
      /\ \/ /\ tCalls[c].op = "wait" /\ tCalls'[c].at = "left" /\ tCalls'[c].op = "wait"
            /\ tCalls'[c].by = tCalls[c].by
         \/ /\ tCalls[c].op # "wait" /\ tCalls'[c].at = "idle" /\ tCalls'[c].op = "boot"
            /\ tCalls'[c].by = NoTLease
  <2>1. CASE tCalls[c].op = "wait"
    <3>1. tCalls' = [tCalls EXCEPT ![c].at = "left", ![c].slot = FALSE]
      BY <2>1 DEF CallLeaves
    <3>2. tCalls \in [TCall -> [op : CallOps, by : TLease \cup {Dash, NoTLease}, at : CallPlaces,
                                left : 0..MaxBatch, first : BOOLEAN, slot : BOOLEAN]]
      BY DEF TgtInv, TgtTypeOK
    <3>3. tCalls' \in [TCall -> [op : CallOps, by : TLease \cup {Dash, NoTLease}, at : CallPlaces,
                                left : 0..MaxBatch, first : BOOLEAN, slot : BOOLEAN]]
      <4>1. PICK p \in CallPlaces : p = "left"
        BY DEF CallPlaces
      <4>2. tCalls' = [tCalls EXCEPT ![c].at = p, ![c].slot = FALSE]
        BY <3>1, <4>1
      <4> QED
        BY <3>2, <4>2, ZenonT(40)
    <3>4. /\ \A d \in TCall : d # c => tCalls'[d] = tCalls[d]
          /\ tCalls'[c].slot = FALSE /\ tCalls'[c].at = "left" /\ tCalls'[c].op = tCalls[c].op
          /\ tCalls'[c].by = tCalls[c].by
      BY <3>1, <3>2
    <3> QED
      BY <2>1, <3>3, <3>4
  <2>2. CASE tCalls[c].op # "wait"
    <3>1. Ends(c)
      BY <2>2 DEF CallLeaves
    <3> QED
      BY <2>2, <3>1, Tgt_Ends
  <2> QED
    BY <2>1, <2>2
<1>2. CallAt(c)'
  BY <1>0, <1>1, <1>a DEF CallAt, WaitPlaces
<1>3. \A d \in TCall : tCalls[d].by = Dash => tHolder = Dash
  BY Tgt_Types DEF CallLate
<1>4. CallLate(c)'
  <2>1. tCalls'[c].by = Dash => FALSE
    BY <1>0, <1>1, <1>a DEF CallAt
  <2>2. tCalls'[c].by \in TLease => tCalls'[c].by = tCalls[c].by /\ tHolder' = tHolder
    BY <1>0, <1>1
  <2> QED
    BY <1>0, <1>1, <1>a, <2>1, <2>2 DEF CallLate
<1>5. ASSUME NEW d \in TCall, d # c PROVE CallAt(d)' /\ CallLate(d)'
  <2>1. CallAt(d) /\ CallLate(d) /\ tCalls'[d] = tCalls[d]
    BY <1>1, <1>5 DEF TgtInv
  <2>2. CallAt(d)'
    BY <2>1 DEF CallAt
  <2>3. (tCalls[d].by = Dash => tHolder' = Dash) /\ (tCalls[d].by \in TLease => tHolder' = tHolder \/ tCalls[d].by # tHolder)
    <3>1. tCalls[d].by = Dash => tCalls[c].by # Dash
      BY <1>5 DEF TgtInv
    <3>2. tCalls[c].by = Dash => tHolder = Dash
      BY <1>3
    <3> QED
      BY <1>0, <1>3, <3>1, <3>2
  <2>4. CallLate(d)'
    BY <1>0, <2>1, <2>3 DEF CallLate
  <2> QED
    BY <2>2, <2>4
<1>6. \A d, e \in TCall : tCalls'[d].by = Dash /\ tCalls'[e].by = Dash => d = e
  <2>1. \A d \in TCall : tCalls'[d].by = Dash => tCalls[d].by = Dash
    BY <1>1
  <2> QED
    BY <2>1 DEF TgtInv
<1>7. (tHolder \notin tOver)'
  BY <1>0 DEF TgtInv, TgtTypeOK
<1>s. IsFiniteSet(TgtSlotted) /\ bootWaitSlots = Cardinality(TgtSlotted)
  BY Tgt_Types
<1>8. /\ IsFiniteSet(TgtSlotted') /\ bootWaitSlots' = Cardinality(TgtSlotted')
      /\ bootWaitSlots' \in 0..maxBootWaiters
  <2>0. bootWaitSlots \in 0..maxBootWaiters
    BY DEF TgtInv, TgtTypeOK
  <2>1. CASE tCalls[c].slot
    <3>1. TgtSlotted' = TgtSlotted \ {c} /\ c \in TgtSlotted
      BY <1>1, <2>1 DEF TgtSlotted
    <3>2. IsFiniteSet(TgtSlotted') /\ Cardinality(TgtSlotted') = Cardinality(TgtSlotted) - 1
      BY <1>s, <3>1, FS_RemoveElement
    <3>3. Cardinality(TgtSlotted') \in Nat
      BY <3>2, FS_CardinalityType
    <3>4. bootWaitSlots' = bootWaitSlots - 1
      BY <1>0, <2>1
    <3> QED
      BY <1>s, <2>0, <3>2, <3>3, <3>4
  <2>2. CASE ~tCalls[c].slot
    <3>1. TgtSlotted' = TgtSlotted
      BY <1>1, <2>2 DEF TgtSlotted
    <3> QED
      BY <1>0, <1>s, <2>0, <2>2, <3>1
  <2> QED
    BY <2>1, <2>2
<1>9. TgtWaiting' = TgtWaiting /\ \A d \in TgtWaiting : tCalls'[d].by = tCalls[d].by
  <2>1. c \in TgtWaiting' <=> c \in TgtWaiting
    BY <1>0, <1>1 DEF TgtWaiting
  <2>2. TgtWaiting' = TgtWaiting
    BY <1>1, <2>1, Zenon DEF TgtWaiting
  <2>3. \A d \in TgtWaiting : tCalls'[d].by = tCalls[d].by
    BY <1>1 DEF TgtWaiting
  <2> QED
    BY <2>2, <2>3
<1>10. TgtWaitsExact'
  <2>1. waitByLease' = {tCalls'[d].by : d \in TgtWaiting'}
    BY <1>9, <1>0, Tgt_Types
  <2>2. \A d, e \in TgtWaiting' : tCalls'[d].by = tCalls'[e].by => d = e
    BY <1>9, Tgt_Types
  <2> QED
    BY <1>8, <2>1, <2>2 DEF TgtWaitsExact, TgtSlotted, TgtWaiting
<1>11. TgtTypeOK'
  <2>1. tHolder' \in TLease \cup {Dash, NoTLease}
    BY <1>0 DEF TgtInv, TgtTypeOK
  <2> QED
    BY <1>0, <1>1, <1>8, <2>1 DEF TgtInv, TgtTypeOK
<1>12. TgtLedger'
  BY <1>0, <1>1, Tgt_LedgerKeeps
<1> QED
  BY <1>2, <1>4, <1>5, <1>6, <1>7, <1>8, <1>10, <1>11, <1>12 DEF TgtInv

LEMMA Tgt_WaitLeft == ASSUME TgtInv, NEW c \in TCall, WaitLeft(c) PROVE TgtInv'
<1> USE TgtAssumption
<1>0. /\ tCalls[c].at = "left" /\ Ends(c) /\ waitByLease' = waitByLease \ {tCalls[c].by}
      /\ UNCHANGED <<tLeaseVars, tPower, tGate, lastShutdown, bootWaitSlots, tDownBy, tRaced, tLate>>
  BY DEF WaitLeft, At
<1>a. CallAt(c) /\ CallLate(c) /\ tCalls[c].op \in CallOps /\ tCalls[c].slot \in BOOLEAN
  BY Tgt_Types
<1>b. tCalls[c].op = "wait" /\ tCalls[c].slot = FALSE
  BY <1>0, <1>a DEF CallAt, CallOps, SlotPlaces
<1>1. /\ tCalls' \in [TCall -> [op : CallOps, by : TLease \cup {Dash, NoTLease}, at : CallPlaces,
                                left : 0..MaxBatch, first : BOOLEAN, slot : BOOLEAN]]
      /\ \A d \in TCall : d # c => tCalls'[d] = tCalls[d]
      /\ tCalls'[c].at = "idle" /\ tCalls'[c].op = "boot" /\ tCalls'[c].by = NoTLease
      /\ tCalls'[c].slot = FALSE
  BY <1>0, Tgt_Ends
<1>2. CallAt(c)'
  BY <1>1 DEF CallAt
<1>3. CallLate(c)'
  BY <1>0, <1>1, <1>a DEF CallLate
<1>4. TgtSlotted' = TgtSlotted
  BY <1>1, <1>b DEF TgtSlotted
<1>5. c \in TgtWaiting /\ TgtWaiting' = TgtWaiting \ {c}
  BY <1>0, <1>1, <1>b DEF TgtWaiting
<1>6. \A d \in TgtWaiting' : tCalls'[d].by = tCalls[d].by /\ tCalls[d].by # tCalls[c].by
  <2>1. \A d, e \in TgtWaiting : tCalls[d].by = tCalls[e].by => d = e
    BY Tgt_Types
  <2>2. \A d \in TgtWaiting' : tCalls'[d] = tCalls[d]
    BY <1>1, <1>5 DEF TgtWaiting
  <2> QED
    BY <1>5, <2>1, <2>2
<1>7. IsFiniteSet(TgtSlotted)' /\ TgtWaitsExact'
  <2>1. waitByLease' = {tCalls'[d].by : d \in TgtWaiting'}
    <3>1. waitByLease = {tCalls[d].by : d \in TgtWaiting}
      BY Tgt_Types
    <3>2. {tCalls[d].by : d \in TgtWaiting} = {tCalls[d].by : d \in TgtWaiting'} \cup {tCalls[c].by}
      BY <1>5
    <3>3. {tCalls[d].by : d \in TgtWaiting'} = {tCalls'[d].by : d \in TgtWaiting'}
      BY <1>6
    <3>4. tCalls[c].by \notin {tCalls[d].by : d \in TgtWaiting'}
      BY <1>6
    <3> QED
      BY <1>0, <3>1, <3>2, <3>3, <3>4
  <2>2. \A d, e \in TgtWaiting' : tCalls'[d].by = tCalls'[e].by => d = e
    <3>1. \A d, e \in TgtWaiting : tCalls[d].by = tCalls[e].by => d = e
      BY Tgt_Types
    <3> QED
      BY <3>1, <1>5, <1>6
  <2>3. bootWaitSlots' = Cardinality(TgtSlotted') /\ IsFiniteSet(TgtSlotted')
    BY <1>4, <1>0, Tgt_Types
  <2> QED
    BY <2>1, <2>2, <2>3 DEF TgtWaitsExact, TgtSlotted, TgtWaiting
<1>8. TgtTypeOK'
  <2>1. waitByLease' \subseteq TLease
    BY <1>0 DEF TgtInv, TgtTypeOK
  <2> QED
    BY <2>1, <1>0, <1>1 DEF TgtInv, TgtTypeOK, tLeaseVars
<1>9. TgtLedger'
  BY <1>0, <1>1, Tgt_LedgerKeeps
<1> QED
  BY <1>0, <1>1, <1>2, <1>3, <1>7, <1>8, <1>9, Tgt_Call

(* An action of a batch is over: what becomes of the batch. *)
LEMMA Tgt_AfterAction ==
  ASSUME TgtInv, NEW c \in TCall, NEW failed \in BOOLEAN, AfterAction(c, failed),
         tCalls[c].at \in {"dispatching", "acting"}
  PROVE  /\ tCalls' \in [TCall -> [op : CallOps, by : TLease \cup {Dash, NoTLease}, at : CallPlaces,
                                   left : 0..MaxBatch, first : BOOLEAN, slot : BOOLEAN]]
         /\ \A d \in TCall : d # c => tCalls'[d] = tCalls[d]
         /\ tCalls'[c].slot = FALSE /\ tCalls[c].slot = FALSE /\ CallAt(c)'
         /\ tCalls'[c].at \in {"idle", "dispatching"}
         /\ (tCalls'[c].at = "idle" => tCalls'[c].by = NoTLease)
         /\ (tCalls'[c].at # "idle" => tCalls'[c].by = tCalls[c].by)
         /\ c \notin TgtWaiting /\ c \notin TgtWaiting'
<1> USE TgtAssumption
<1>a. CallAt(c) /\ tCalls[c].op \in CallOps /\ tCalls[c].slot \in BOOLEAN /\ tCalls[c].left \in 0..MaxBatch
  BY Tgt_Types
<1>b. tCalls[c].op \in {"batch", "stopBatch"} /\ tCalls[c].left >= 1 /\ tCalls[c].slot = FALSE
      /\ tCalls[c].by # NoTLease
  BY <1>a DEF CallAt, CallOps, WaitPlaces
<1>c. c \notin TgtWaiting
  BY <1>b DEF TgtWaiting
<1>1. CASE Ends(c)
  <2>1. CallAt(c)' /\ c \notin TgtWaiting'
    BY <1>1, Tgt_Ends DEF CallAt, TgtWaiting
  <2> QED
    BY <1>1, <2>1, <1>b, <1>c, Tgt_Ends
<1>2. CASE /\ tCalls[c].left # 1
           /\ tCalls' = [tCalls EXCEPT ![c].at = "dispatching", ![c].left = @ - 1, ![c].first = FALSE]
  <2>1. tCalls[c].left - 1 \in 0..MaxBatch /\ tCalls[c].left - 1 >= 1
    BY <1>a, <1>b, <1>2
  <2>2. tCalls' = [tCalls EXCEPT ![c].at = "dispatching", ![c].left = tCalls[c].left - 1, ![c].first = FALSE]
    BY <1>2 DEF TgtInv, TgtTypeOK
  <2>3. /\ tCalls' \in [TCall -> [op : CallOps, by : TLease \cup {Dash, NoTLease}, at : CallPlaces,
                                   left : 0..MaxBatch, first : BOOLEAN, slot : BOOLEAN]]
        /\ \A d \in TCall : d # c => tCalls'[d] = tCalls[d]
        /\ tCalls'[c].slot = tCalls[c].slot /\ tCalls'[c].at = "dispatching" /\ tCalls'[c].by = tCalls[c].by
        /\ tCalls'[c].op = tCalls[c].op /\ tCalls'[c].left = tCalls[c].left - 1
    BY <2>2, <2>1 DEF TgtInv, TgtTypeOK, CallPlaces
  <2>4. CallAt(c)' /\ c \notin TgtWaiting'
    BY <2>1, <2>3, <1>b DEF CallAt, TgtWaiting
  <2> QED
    BY <2>3, <2>4, <1>b, <1>c
<1> QED
  BY <1>1, <1>2 DEF AfterAction

LEMMA Tgt_Dispatches == ASSUME TgtInv, NEW c \in TCall, Dispatches(c) PROVE TgtInv'
<1> USE TgtAssumption
<1>0. /\ tCalls[c].at = "dispatching"
      /\ UNCHANGED <<tLeaseVars, tPower, tGate, lastShutdown, waitByLease, bootWaitSlots, tDownBy, tRaced, tLate>>
  BY DEF Dispatches, At
<1>a. CallAt(c) /\ CallLate(c) /\ tCalls[c].op \in CallOps /\ tCalls[c].slot \in BOOLEAN
      /\ tCalls[c].left \in 0..MaxBatch
  BY Tgt_Types
<1>b. tCalls[c].op \in {"batch", "stopBatch"} /\ tCalls[c].left >= 1 /\ tCalls[c].slot = FALSE
      /\ tCalls[c].by # NoTLease
  BY <1>0, <1>a DEF CallAt, CallOps, WaitPlaces
<1>1. \/ \E failed \in BOOLEAN : AfterAction(c, failed)
      \/ Goes(c, "acting") /\ tHolder = tCalls[c].by
      \/ Ends(c)
  <2>1. tPower \in BOOLEAN
    BY DEF TgtInv, TgtTypeOK
  <2> QED
    BY <2>1, Zenon DEF Dispatches, Admits, Revalidates, Holds
<1>2. CASE \E failed \in BOOLEAN : AfterAction(c, failed)
  <2>1. PICK failed \in BOOLEAN : AfterAction(c, failed)
    BY <1>2
  <2>2. /\ tCalls' \in [TCall -> [op : CallOps, by : TLease \cup {Dash, NoTLease}, at : CallPlaces,
                                  left : 0..MaxBatch, first : BOOLEAN, slot : BOOLEAN]]
        /\ \A d \in TCall : d # c => tCalls'[d] = tCalls[d]
        /\ tCalls'[c].slot = FALSE /\ tCalls[c].slot = FALSE /\ CallAt(c)'
        /\ tCalls'[c].at \in {"idle", "dispatching"}
        /\ (tCalls'[c].at = "idle" => tCalls'[c].by = NoTLease)
        /\ (tCalls'[c].at # "idle" => tCalls'[c].by = tCalls[c].by)
        /\ c \notin TgtWaiting /\ c \notin TgtWaiting'
    BY <2>1, <1>0, Tgt_AfterAction
  <2>3. CallLate(c)'
    BY <2>2, <1>0, <1>a DEF CallLate, tLeaseVars
  <2> QED
    BY <1>0, <2>2, <2>3, Tgt_Moves
<1>3. CASE Goes(c, "acting") /\ tHolder = tCalls[c].by
  <2>1. /\ \A d \in TCall : d # c => tCalls'[d] = tCalls[d]
        /\ tCalls'[c].at = "acting" /\ tCalls'[c].op = tCalls[c].op /\ tCalls'[c].by = tCalls[c].by
        /\ tCalls'[c].slot = FALSE /\ tCalls'[c].left = tCalls[c].left
        /\ tCalls' \in [TCall -> [op : CallOps, by : TLease \cup {Dash, NoTLease}, at : CallPlaces,
                                  left : 0..MaxBatch, first : BOOLEAN, slot : BOOLEAN]]
    BY <1>3, <1>b, Tgt_Goes DEF CallPlaces
  <2>2. CallAt(c)'
    BY <2>1, <1>b DEF CallAt
  <2>3. CallLate(c)'
    <3>1. tHolder \notin tOver
      BY DEF TgtInv
    <3>2. tLate[c] # 1
      BY <1>0, <1>3, <1>a, <3>1 DEF CallLate
    <3> QED
      BY <2>1, <1>0, <1>3, <1>a, <3>2 DEF CallLate, tLeaseVars
  <2>4. c \notin TgtWaiting /\ c \notin TgtWaiting'
    BY <2>1, <1>b DEF TgtWaiting
  <2> QED
    BY <1>0, <1>b, <2>1, <2>2, <2>3, <2>4, Tgt_Moves
<1>4. CASE Ends(c)
  <2>1. /\ tCalls' \in [TCall -> [op : CallOps, by : TLease \cup {Dash, NoTLease}, at : CallPlaces,
                                  left : 0..MaxBatch, first : BOOLEAN, slot : BOOLEAN]]
        /\ \A d \in TCall : d # c => tCalls'[d] = tCalls[d]
        /\ tCalls'[c].at = "idle" /\ tCalls'[c].op = "boot" /\ tCalls'[c].by = NoTLease
        /\ tCalls'[c].slot = FALSE
    BY <1>4, Tgt_Ends
  <2>2. CallAt(c)'
    BY <2>1 DEF CallAt
  <2>3. CallLate(c)'
    BY <2>1, <1>0, <1>a DEF CallLate, tLeaseVars
  <2>4. c \notin TgtWaiting /\ c \notin TgtWaiting'
    BY <2>1, <1>b DEF TgtWaiting
  <2> QED
    BY <1>0, <1>b, <2>1, <2>2, <2>3, <2>4, Tgt_Moves
<1> QED
  BY <1>1, <1>2, <1>3, <1>4

LEMMA Tgt_Acts == ASSUME TgtInv, NEW c \in TCall, Acts(c) PROVE TgtInv'
<1> USE TgtAssumption
<1>0. /\ tCalls[c].at = "acting" /\ Attempts(c)
      /\ UNCHANGED <<tLeaseVars, tPower, tGate, lastShutdown, waitByLease, bootWaitSlots, tDownBy, tRaced>>
  BY DEF Acts, At
<1>a. CallAt(c) /\ CallLate(c)
  BY Tgt_Types
<1>1. PICK failed \in BOOLEAN : AfterAction(c, failed)
  BY DEF Acts
<1>2. /\ tCalls' \in [TCall -> [op : CallOps, by : TLease \cup {Dash, NoTLease}, at : CallPlaces,
                                 left : 0..MaxBatch, first : BOOLEAN, slot : BOOLEAN]]
      /\ \A d \in TCall : d # c => tCalls'[d] = tCalls[d]
      /\ tCalls'[c].slot = FALSE /\ tCalls[c].slot = FALSE /\ CallAt(c)'
      /\ tCalls'[c].at \in {"idle", "dispatching"}
      /\ (tCalls'[c].at = "idle" => tCalls'[c].by = NoTLease)
      /\ (tCalls'[c].at # "idle" => tCalls'[c].by = tCalls[c].by)
      /\ c \notin TgtWaiting /\ c \notin TgtWaiting'
  BY <1>1, <1>0, Tgt_AfterAction
<1>3. /\ tLate' \in [TCall -> 0..2] /\ \A d \in TCall : d # c => tLate'[d] = tLate[d]
      /\ tLate'[c] <= 1 /\ (tLate'[c] = 1 => tCalls[c].by \in tOver)
  BY <1>0, Tgt_Attempts
<1>4. CallLate(c)'
  BY <1>0, <1>2, <1>3, <1>a DEF CallLate, tLeaseVars
<1>5. TgtTypeOK'
  BY <1>0, <1>2, <1>3 DEF TgtInv, TgtTypeOK, tLeaseVars
<1>6. IsFiniteSet(TgtSlotted)' /\ TgtWaitsExact'
  BY <1>0, <1>2, Tgt_Counts
<1>7. TgtLedger'
  BY <1>0, <1>2, Tgt_LedgerKeeps
<1>8. tCalls'[c].by \in {tCalls[c].by, NoTLease}
  BY <1>2
<1> QED
  BY <1>0, <1>2, <1>3, <1>4, <1>5, <1>6, <1>7, <1>8, Tgt_Call

LEMMA TgtStep == ASSUME TgtInv, [TgtNext]_tgtVars PROVE TgtInv'
<1>1. CASE UNCHANGED tgtVars
  <2>1. UNCHANGED <<tHolder, tOver, tPaused, tPower, tGate, lastShutdown, tCalls, waitByLease,
                    bootWaitSlots, tDownBy, tRaced, tLate>>
    BY <1>1 DEF tgtVars, tLeaseVars
  <2>2. TgtTypeOK' /\ TgtWaitsExact' /\ TgtLedger'
    <3>1. TgtTypeOK'
      BY <2>1 DEF TgtInv, TgtTypeOK
    <3>2. TgtWaitsExact'
      BY <2>1, Zenon DEF TgtInv, TgtWaitsExact
    <3>3. TgtLedger'
      BY <2>1, Zenon DEF TgtInv, TgtLedger
    <3> QED
      BY <3>1, <3>2, <3>3
  <2>3. \A c \in TCall : CallAt(c)' /\ CallLate(c)'
    BY <2>1, Zenon DEF TgtInv, CallAt, CallLate
  <2>4. IsFiniteSet(TgtSlotted)'
    BY <2>1 DEF TgtInv, TgtSlotted
  <2> QED
    BY <2>1, <2>2, <2>3, <2>4 DEF TgtInv
<1>2. CASE LeaseMoves \/ GateMoves \/ GoesDown
  BY <1>2, Tgt_Around
<1>3. ASSUME NEW c \in TCall,
             \/ CallStarts(c) \/ DashStarts(c) \/ WaitEnters(c) \/ WaitTakesSlot(c) \/ WaitChecks(c)
             \/ WaitSleeps(c) \/ Boots(c) \/ ClearsNote(c) \/ Shuts(c) \/ NotesShutdown(c)
             \/ CallLeaves(c) \/ WaitLeft(c) \/ Dispatches(c) \/ Acts(c)
      PROVE  TgtInv'
  BY <1>3, Tgt_CallStarts, Tgt_DashStarts, Tgt_WaitEnters, Tgt_WaitTakesSlot, Tgt_WaitLoops, Tgt_Boots,
     Tgt_ClearsNote, Tgt_Shuts, Tgt_NotesShutdown, Tgt_CallLeaves, Tgt_WaitLeft, Tgt_Dispatches, Tgt_Acts
<1> QED
  BY <1>1, <1>2, <1>3 DEF TgtNext

LEMMA Tgt_Safe == ASSUME TgtInv PROVE TgtSafe
<1>1. TgtWaitsExact /\ TgtLateOnce
  BY DEF TgtInv, CallLate, TgtLateOnce
<1>2. TgtBlames
  <2> SUFFICES ASSUME TgtQuiet, ~tRaced, lastShutdown PROVE tDownBy = "daemon" /\ ~tPower
    BY DEF TgtBlames
  <2>1. \A c \in TCall : tCalls[c].at # "clearing"
    BY DEF TgtQuiet, Booting
  <2> QED
    BY <2>1 DEF TgtInv, TgtLedger
<1> QED
  BY <1>1, <1>2 DEF TgtSafe

-----------------------------------------------------------------------------
(* A WebSocket connection.                                                 *)

WsPlaces == {"reader", "queue", "worker", "long", "out", "client"}
Within(s, r) == \E i \in DOMAIN s : s[i] = r
Distinct(s) == \A i, j \in DOMAIN s : i # j => s[i] # s[j]
Increasing(s) == \A i, j \in DOMAIN s : i < j => s[i] < s[j]
NumRead == Len(asked) - Len(inbox)

(* Where a request that was read is until its answer is with the client.   *)
IsAt(r, p) ==
  \/ p = "reader" /\ reader.at = "putting" /\ reader.req = r
  \/ p = "queue" /\ Within(actionQ, r)
  \/ p = "worker" /\ aworker.at \in {"running", "putting"} /\ aworker.req = r
  \/ p = "long" /\ \E g \in long : g.req = r
  \/ p = "out" /\ Within(out, r)
  \/ p = "client" /\ Within(answered, r)

(* The requests are numbered as they were sent, and the inbox is what is   *)
(* left of them.                                                           *)
WsSeqs ==
  /\ asked \in Seq(WsKinds) /\ inbox \in Seq(Nat) /\ actionQ \in Seq(Nat) /\ out \in Seq(Nat)
  /\ answered \in Seq(Nat) /\ executed \in Seq(Nat)
  /\ Len(inbox) <= Len(asked) /\ \A i \in DOMAIN inbox : inbox[i] = NumRead + i
  /\ IsFiniteSet(long)

(* Every request that was read is in one place only, once, and in some     *)
(* place unless the writer broke.                                          *)
WsPlaced ==
  /\ \A p \in WsPlaces : \A r \in Nat : IsAt(r, p) => r \in 1..NumRead
  /\ \A p, q \in WsPlaces : \A r \in Nat : IsAt(r, p) /\ IsAt(r, q) => p = q
  /\ writer # "broke" => \A r \in 1..NumRead : \E p \in WsPlaces : IsAt(r, p)
WsOnce ==
  /\ Distinct(out) /\ Distinct(answered)
  /\ \A g, h \in long : g.req = h.req => g = h

(* Started actions come before the queued ones, and only images are        *)
(* long-running.                                                           *)
WsQueue ==
  /\ Increasing(actionQ) /\ Increasing(executed)
  /\ \A i \in DOMAIN executed : executed[i] <= NumRead
  /\ \A i \in DOMAIN executed, j \in DOMAIN actionQ : executed[i] < actionQ[j]
  /\ \A g \in long : asked[g.req] = "image"

(* How the goroutines end: the worker after the read loop, the handler     *)
(* after the worker and the long requests, the writer after the handler    *)
(* has closed its channel.                                                 *)
WsShutdown ==
  /\ aworker.at = "exited" => actionQ = <<>> /\ reader.at \in {"waiting", "draining", "returned"}
  /\ outClosed => aworker.at = "exited" /\ long = {} /\ reader.at \in {"draining", "returned"}
  /\ writer = "ended" => outClosed /\ out = <<>>

WsInv == WsTypeOK /\ WsSeqs /\ WsPlaced /\ WsOnce /\ WsQueue /\ WsShutdown

(* A sequence with one more element, and one without its head.             *)
LEMMA Within_Append ==
  ASSUME NEW s \in Seq(Nat), NEW x \in Nat
  PROVE  /\ Append(s, x) \in Seq(Nat) /\ Len(Append(s, x)) = Len(s) + 1
         /\ \A r \in Nat : Within(Append(s, x), r) <=> (r = x \/ Within(s, r))
         /\ Distinct(s) /\ ~ Within(s, x) => Distinct(Append(s, x))
         /\ Increasing(s) /\ (\A i \in DOMAIN s : s[i] < x) => Increasing(Append(s, x))
<1>1. \A i \in 1..Len(s) : Append(s, x)[i] = s[i]
  OBVIOUS
<1>2. Append(s, x)[Len(s) + 1] = x /\ DOMAIN Append(s, x) = 1..(Len(s) + 1) /\ DOMAIN s = 1..Len(s)
      /\ Len(s) \in Nat
  OBVIOUS
<1>3. \A r \in Nat : Within(Append(s, x), r) <=> (r = x \/ Within(s, r))
  <2> SUFFICES ASSUME NEW r \in Nat PROVE Within(Append(s, x), r) <=> (r = x \/ Within(s, r))
    OBVIOUS
  <2>1. ASSUME Within(Append(s, x), r) PROVE r = x \/ Within(s, r)
    BY <1>1, <1>2, <2>1 DEF Within
  <2>2. ASSUME r = x PROVE Within(Append(s, x), r)
    BY <1>2, <2>2 DEF Within
  <2>3. ASSUME Within(s, r) PROVE Within(Append(s, x), r)
    <3>1. PICK i \in DOMAIN s : s[i] = r
      BY <2>3 DEF Within
    <3> QED
      BY <3>1, <1>1, <1>2 DEF Within
  <2> QED
    BY <2>1, <2>2, <2>3
<1>4. ASSUME Distinct(s), ~ Within(s, x) PROVE Distinct(Append(s, x))
  BY <1>1, <1>2, <1>4 DEF Distinct, Within
<1>5. ASSUME Increasing(s), \A i \in DOMAIN s : s[i] < x PROVE Increasing(Append(s, x))
  BY <1>1, <1>2, <1>5 DEF Increasing
<1> QED
  BY <1>3, <1>4, <1>5

LEMMA Within_Tail ==
  ASSUME NEW s \in Seq(Nat), s # <<>>
  PROVE  /\ Tail(s) \in Seq(Nat) /\ Len(Tail(s)) = Len(s) - 1 /\ Head(s) \in Nat /\ Len(s) > 0
         /\ Within(s, Head(s)) /\ Len(s) \in Nat /\ Head(s) = s[1]
         /\ \A i \in DOMAIN Tail(s) : Tail(s)[i] = s[i + 1] /\ i + 1 \in DOMAIN s
         /\ Distinct(s) => \A r \in Nat : Within(Tail(s), r) <=> (r # Head(s) /\ Within(s, r))
         /\ Distinct(s) => Distinct(Tail(s))
         /\ Increasing(s) => Distinct(s) /\ Increasing(Tail(s)) /\ \A i \in DOMAIN Tail(s) : Head(s) < Tail(s)[i]
<1>1. /\ Tail(s) \in Seq(Nat) /\ Len(Tail(s)) = Len(s) - 1 /\ DOMAIN Tail(s) = 1..(Len(s) - 1)
      /\ Len(s) \in Nat /\ Len(s) > 0 /\ DOMAIN s = 1..Len(s) /\ Head(s) = s[1] /\ Head(s) \in Nat
  OBVIOUS
<1>2. \A i \in DOMAIN Tail(s) : Tail(s)[i] = s[i + 1] /\ i + 1 \in DOMAIN s
  OBVIOUS
<1>3. \A i \in DOMAIN s : i = 1 \/ (i - 1 \in DOMAIN Tail(s) /\ Tail(s)[i - 1] = s[i])
  OBVIOUS
<1>4. ASSUME Distinct(s), NEW r \in Nat PROVE Within(Tail(s), r) <=> (r # Head(s) /\ Within(s, r))
  <2>1. ASSUME Within(Tail(s), r) PROVE r # Head(s) /\ Within(s, r)
    <3>1. PICK i \in DOMAIN Tail(s) : Tail(s)[i] = r
      BY <2>1 DEF Within
    <3>2. i + 1 \in DOMAIN s /\ s[i + 1] = r /\ i + 1 # 1 /\ 1 \in DOMAIN s
      BY <1>1, <1>2, <3>1
    <3> QED
      BY <1>1, <1>4, <3>2 DEF Within, Distinct
  <2>2. ASSUME r # Head(s), Within(s, r) PROVE Within(Tail(s), r)
    BY <1>1, <1>3, <2>2 DEF Within
  <2> QED
    BY <2>1, <2>2
<1>5. ASSUME Distinct(s) PROVE Distinct(Tail(s))
  BY <1>1, <1>2, <1>5 DEF Distinct
<1>6. ASSUME Increasing(s)
      PROVE  Distinct(s) /\ Increasing(Tail(s)) /\ \A i \in DOMAIN Tail(s) : Head(s) < Tail(s)[i]
  <2>1. Distinct(s)
    BY <1>1, <1>6 DEF Increasing, Distinct
  <2>2. Increasing(Tail(s))
    BY <1>1, <1>2, <1>6 DEF Increasing
  <2>3. \A i \in DOMAIN Tail(s) : Head(s) < Tail(s)[i]
    BY <1>1, <1>2, <1>6 DEF Increasing
  <2> QED
    BY <2>1, <2>2, <2>3
<1>7. Within(s, Head(s))
  BY <1>1 DEF Within
<1> QED
  BY <1>1, <1>2, <1>4, <1>5, <1>6, <1>7

(* One request goes to a place, or nowhere once the writer broke.          *)
LEMMA Ws_Moves ==
  ASSUME WsPlaced, NumRead \in Nat, NEW x \in Nat,
         \A r \in Nat : r # x => \A p \in WsPlaces : IsAt(r, p)' <=> IsAt(r, p),
         \A p1, p2 \in WsPlaces : IsAt(x, p1)' /\ IsAt(x, p2)' => p1 = p2,
         writer' # "broke" => writer # "broke" /\ \E p \in WsPlaces : IsAt(x, p)',
         \/ NumRead' = NumRead /\ \E p \in WsPlaces : IsAt(x, p)
         \/ NumRead' = NumRead + 1 /\ x = NumRead + 1
  PROVE  WsPlaced'
<1>1. x \in 1..NumRead' /\ NumRead' \in Nat /\ NumRead <= NumRead'
  BY DEF WsPlaced
<1>2. \A r \in 1..NumRead' : r # x => r \in 1..NumRead
  BY DEF WsPlaced
<1>3. \A p \in WsPlaces : \A r \in Nat : IsAt(r, p)' => r \in 1..NumRead'
  BY <1>1 DEF WsPlaced
<1>4. \A p1, p2 \in WsPlaces : \A r \in Nat : IsAt(r, p1)' /\ IsAt(r, p2)' => p1 = p2
  BY DEF WsPlaced
<1>5. ASSUME writer' # "broke", NEW r \in 1..NumRead' PROVE \E p \in WsPlaces : IsAt(r, p)'
  <2>1. CASE r = x
    BY <1>1, <1>5, <2>1
  <2>2. CASE r # x
    <3>1. PICK p \in WsPlaces : IsAt(r, p)
      BY <1>2, <1>5, <2>2 DEF WsPlaced
    <3> QED
      BY <3>1, <1>1, <2>2
  <2> QED
    BY <2>1, <2>2
<1> QED
  BY <1>3, <1>4, <1>5 DEF WsPlaced

LEMMA Ws_Stays ==
  ASSUME WsPlaced, NumRead' = NumRead, NumRead \in Nat, writer' # "broke" => writer # "broke",
         \A r \in Nat : \A p \in WsPlaces : IsAt(r, p)' <=> IsAt(r, p)
  PROVE  WsPlaced'
BY DEF WsPlaced

LEMMA WsStarts == ASSUME WsInit PROVE WsInv
<1> USE WsAssumption
<1>0. /\ asked = <<>> /\ inbox = <<>> /\ actionQ = <<>> /\ out = <<>> /\ answered = <<>> /\ executed = <<>>
      /\ Len(<<>>) = 0 /\ DOMAIN <<>> = {} /\ long = {} /\ reader = [at |-> "reading", req |-> 0]
      /\ aworker = [at |-> "idle", req |-> 0] /\ writer = "runs" /\ outClosed = FALSE /\ events = 0
      /\ peer = TRUE
  BY DEF WsInit
<1>1. WsTypeOK
  <2>1. inbox \in Seqs(MaxWsRequests)
    <3>1. <<>> \in [1..0 -> Requests]
      OBVIOUS
    <3> QED
      BY <3>1, <1>0, SMTT(30) DEF Seqs
  <2>2. Cardinality(long) <= maxAsyncWSRequests
    BY <1>0, FS_EmptySet
  <2>3. \A i \in DOMAIN asked : asked[i] \in WsKinds
    BY <1>0, Zenon
  <2>4. Len(actionQ) <= maxAsyncWSRequests /\ Len(out) <= OutRoom /\ Len(asked) <= MaxWsRequests
        /\ events \in 0..EventRoom
    BY <1>0
  <2>5. /\ reader \in [at : {"reading", "putting", "closing", "waiting", "draining", "returned"},
                       req : 0..MaxWsRequests]
        /\ aworker \in [at : {"idle", "running", "putting", "exited"}, req : 0..MaxWsRequests]
    BY <1>0
  <2>6. /\ long \subseteq [at : {"spawned", "running", "putting"}, req : Requests]
        /\ peer \in BOOLEAN /\ outClosed \in BOOLEAN /\ writer \in {"runs", "ended", "broke"}
    BY <1>0
  <2> QED
    BY <2>1, <2>2, <2>3, <2>4, <2>5, <2>6 DEF WsTypeOK
<1>2. WsSeqs
  BY <1>0, FS_EmptySet DEF WsSeqs
<1>3. NumRead = 0
  BY <1>0 DEF NumRead
<1>4. WsPlaced
  <2>1. \A r : ~ Within(<<>>, r)
    BY <1>0 DEF Within
  <2>2. \A r \in Nat, p \in WsPlaces : ~ IsAt(r, p)
    BY <1>0, <2>1 DEF IsAt
  <2> QED
    BY <2>2, <1>3 DEF WsPlaced
<1>5. WsOnce /\ WsQueue
  BY <1>0 DEF WsOnce, WsQueue, Distinct, Increasing
<1>6. WsShutdown
  BY <1>0 DEF WsShutdown
<1> QED
  BY <1>1, <1>2, <1>4, <1>5, <1>6 DEF WsInv

LEMMA Ws_Inbox ==
  ASSUME NEW s \in Seq(Nat), Len(s) <= MaxWsRequests, \A i \in DOMAIN s : s[i] \in 1..MaxWsRequests
  PROVE  s \in Seqs(MaxWsRequests)
<1> USE WsAssumption
<1>1. s \in [1..Len(s) -> Requests] /\ Len(s) \in 0..MaxWsRequests
  BY DEF Requests
<1> QED
  BY <1>1 DEF Seqs

(* The numbers that the steps below need. *)
LEMMA Ws_Numbers ==
  ASSUME WsInv
  PROVE  /\ NumRead \in Nat /\ NumRead + Len(inbox) = Len(asked) /\ Len(asked) \in Nat /\ Len(inbox) \in Nat
         /\ NumRead <= MaxWsRequests /\ Len(asked) <= MaxWsRequests /\ MaxWsRequests \in Nat
         /\ DOMAIN asked = 1..Len(asked) /\ DOMAIN inbox = 1..Len(inbox)
BY WsAssumption, SMTT(30) DEF WsInv, WsTypeOK, WsSeqs, NumRead

LEMMA Ws_ClientSends == ASSUME WsInv, ClientSends PROVE WsInv'
<1> USE WsAssumption, Ws_Numbers
<1> DEFINE rest == <<peer, reader, actionQ, aworker, long, out, outClosed, writer, events, answered, executed>>
<1>1. PICK k \in WsKinds : asked' = Append(asked, k)
  BY DEF ClientSends
<1>2. inbox' = Append(inbox, Len(asked) + 1) /\ UNCHANGED rest /\ Len(asked) < MaxWsRequests
  BY DEF ClientSends
<1>3. asked \in Seq(WsKinds) /\ inbox \in Seq(Nat) /\ \A i \in DOMAIN inbox : inbox[i] = NumRead + i
  BY DEF WsInv, WsSeqs
<1>4. /\ asked' \in Seq(WsKinds) /\ Len(asked') = Len(asked) + 1
      /\ \A i \in 1..Len(asked) : asked'[i] = asked[i]
      /\ inbox' \in Seq(Nat) /\ Len(inbox') = Len(inbox) + 1
  BY <1>1, <1>2, <1>3
<1>5. NumRead' = NumRead
  BY <1>4 DEF NumRead
<1>6. \A i \in DOMAIN inbox' : inbox'[i] = NumRead + i
  BY <1>2, <1>3
<1>7. \A i \in DOMAIN inbox' : inbox'[i] \in 1..MaxWsRequests
  BY <1>2, <1>4, <1>6
<1>8. inbox' \in Seqs(MaxWsRequests)
  <2>1. Len(inbox') <= MaxWsRequests /\ inbox' \in Seq(Nat)
    BY <1>2, <1>4
  <2> HIDE Ws_Numbers
  <2> QED
    BY <2>1, <1>7, Ws_Inbox
<1>9. WsTypeOK'
  <2>1. \A i \in DOMAIN asked' : asked'[i] \in WsKinds
    BY <1>4
  <2>2. Len(asked') <= MaxWsRequests
    BY <1>2, <1>4
  <2> QED
    BY <2>1, <2>2, <1>2, <1>8 DEF WsInv, WsTypeOK
<1>10. WsSeqs'
  <2>1. Len(inbox') <= Len(asked')
    BY <1>4
  <2>2. /\ actionQ \in Seq(Nat) /\ out \in Seq(Nat)
        /\ answered \in Seq(Nat) /\ executed \in Seq(Nat) /\ IsFiniteSet(long)
    BY DEF WsInv, WsSeqs
  <2> QED
    BY <2>1, <2>2, <1>2, <1>4, <1>5, <1>6 DEF WsSeqs
<1>11. WsPlaced'
  <2>1. \A r \in Nat : \A p \in WsPlaces : IsAt(r, p)' <=> IsAt(r, p)
    BY <1>2 DEF IsAt
  <2> QED
    BY <1>2, <1>5, <2>1, Ws_Stays DEF WsInv
<1>12. WsOnce'
  BY <1>2 DEF WsInv, WsOnce
<1>13. WsQueue'
  <2>1. \A g \in long : g.req \in 1..NumRead
    BY DEF WsInv, WsTypeOK, WsPlaced, WsPlaces, IsAt, Requests
  <2>2. \A g \in long : asked'[g.req] = asked[g.req]
    BY <1>4, <2>1
  <2> QED
    BY <1>2, <1>5, <2>2 DEF WsInv, WsQueue
<1>14. WsShutdown'
  BY <1>2 DEF WsInv, WsShutdown
<1> QED
  BY <1>9, <1>10, <1>11, <1>12, <1>13, <1>14 DEF WsInv

(* The steps that move no request.                                         *)
LEMMA Ws_Quiet ==
  ASSUME WsInv, UNCHANGED <<asked, inbox, actionQ, long, out, answered, executed>>,
         WsTypeOK', WsShutdown', writer' # "broke" => writer # "broke",
         reader'.at = "putting" <=> reader.at = "putting", reader'.req = reader.req,
         aworker'.at \in {"running", "putting"} <=> aworker.at \in {"running", "putting"},
         aworker'.req = aworker.req
  PROVE  WsInv'
<1> USE Ws_Numbers
<1>1. NumRead' = NumRead
  BY DEF NumRead
<1>2. WsSeqs'
  BY <1>1 DEF WsInv, WsSeqs
<1>3. WsPlaced'
  <2>1. \A r \in Nat : \A p \in WsPlaces : IsAt(r, p)' <=> IsAt(r, p)
    BY DEF IsAt
  <2> QED
    BY <1>1, <2>1, Ws_Stays DEF WsInv
<1>4. WsOnce' /\ WsQueue'
  BY <1>1 DEF WsInv, WsOnce, WsQueue
<1> QED
  BY <1>2, <1>3, <1>4 DEF WsInv

LEMMA Ws_Ends ==
  ASSUME WsInv, WsClientLeaves \/ ReadFails \/ HandlerEnds \/ WriterSendsEvent \/ WriterBreaks \/ WriterEnds
                  \/ Broadcast
  PROVE  WsInv'
<1> USE WsAssumption
<1>1. CASE WsClientLeaves
  BY <1>1, Ws_Quiet DEF WsClientLeaves, WsInv, WsTypeOK, WsShutdown
<1>2. CASE ReadFails
  <2>1. /\ reader.at = "reading" /\ reader' = [reader EXCEPT !.at = "closing"]
        /\ UNCHANGED <<asked, inbox, peer, actionQ, aworker, long, out, outClosed, writer, events,
                       answered, executed>>
    BY <1>2 DEF ReadFails
  <2>2. WsTypeOK' /\ reader'.at = "closing" /\ reader'.req = reader.req
    BY <2>1 DEF WsInv, WsTypeOK
  <2>3. WsShutdown'
    BY <2>1, <2>2 DEF WsInv, WsShutdown
  <2> QED
    BY <2>1, <2>2, <2>3, Ws_Quiet
<1>3. CASE HandlerEnds
  <2>1. /\ \/ reader.at = "closing" /\ reader' = [reader EXCEPT !.at = "waiting"] /\ UNCHANGED outClosed
           \/ /\ reader.at = "waiting" /\ AllDone
              /\ reader' = [reader EXCEPT !.at = "draining"] /\ outClosed' = TRUE
           \/ /\ reader.at = "draining" /\ writeDone
              /\ reader' = [reader EXCEPT !.at = "returned"] /\ UNCHANGED outClosed
        /\ UNCHANGED <<asked, inbox, peer, actionQ, aworker, long, out, writer, events, answered, executed>>
    BY <1>3 DEF HandlerEnds
  <2>2. WsTypeOK' /\ reader'.at \in {"waiting", "draining", "returned"} /\ reader'.req = reader.req
        /\ reader.at # "putting"
    BY <2>1 DEF WsInv, WsTypeOK
  <2>3. WsShutdown'
    BY <2>1, <2>2 DEF WsInv, WsTypeOK, WsShutdown, AllDone
  <2> QED
    BY <2>1, <2>2, <2>3, Ws_Quiet
<1>4. CASE WriterSendsEvent \/ Broadcast
  <2>1. /\ UNCHANGED <<asked, inbox, peer, reader, actionQ, aworker, long, out, outClosed, writer,
                       answered, executed>>
        /\ events' \in 0..EventRoom
    BY <1>4 DEF WriterSendsEvent, Broadcast, WsInv, WsTypeOK
  <2> QED
    BY <2>1, Ws_Quiet DEF WsInv, WsTypeOK, WsShutdown
<1>5. CASE WriterBreaks
  BY <1>5, Ws_Quiet DEF WriterBreaks, WsInv, WsTypeOK, WsShutdown
<1>6. CASE WriterEnds
  BY <1>6, Ws_Quiet DEF WriterEnds, WsInv, WsTypeOK, WsShutdown
<1> QED
  BY <1>1, <1>2, <1>3, <1>4, <1>5, <1>6

LEMMA Ws_Reads == ASSUME WsInv, ReadsNext PROVE WsInv'
<1> USE WsAssumption, Ws_Numbers
<1>0. PICK x : x = Head(inbox)
  OBVIOUS
<1>1. /\ reader.at = "reading" /\ inbox # <<>> /\ ~writeDone /\ inbox' = Tail(inbox)
      /\ UNCHANGED <<asked, peer, aworker, out, outClosed, writer, events, answered, executed>>
  BY DEF ReadsNext
<1>2. inbox \in Seq(Nat) /\ \A i \in DOMAIN inbox : inbox[i] = NumRead + i
  BY DEF WsInv, WsSeqs
<1>3. /\ inbox' \in Seq(Nat) /\ Len(inbox') = Len(inbox) - 1 /\ Len(inbox) > 0 /\ x = inbox[1]
      /\ \A i \in DOMAIN inbox' : inbox'[i] = inbox[i + 1] /\ i + 1 \in DOMAIN inbox
  BY <1>0, <1>1, <1>2, Within_Tail
<1>4. x = NumRead + 1 /\ x \in Nat /\ NumRead' = NumRead + 1 /\ x \in 1..Len(asked)
  BY <1>1, <1>2, <1>3, SMTT(30) DEF NumRead
<1>5. \A i \in DOMAIN inbox' : inbox'[i] = NumRead' + i /\ inbox'[i] \in 1..MaxWsRequests
  <2> TAKE i \in DOMAIN inbox'
  <2>0. i \in 1..Len(inbox')
    BY <1>3, SMTT(30)
  <2>1. inbox'[i] = NumRead + (i + 1) /\ i \in Nat /\ i + 1 <= Len(inbox)
    BY <2>0, <1>2, <1>3
  <2> QED
    BY <2>1, <1>4
<1>6. inbox' \in Seqs(MaxWsRequests)
  <2>1. Len(inbox') <= MaxWsRequests
    BY <1>3
  <2> HIDE Ws_Numbers
  <2> QED
    BY <2>1, <1>3, <1>5, Ws_Inbox
<1>7. /\ IF Lane(asked[x]) = "worker" /\ Len(actionQ) < maxAsyncWSRequests
         THEN actionQ' = Append(actionQ, x) /\ UNCHANGED <<reader, long>>
         ELSE IF Lane(asked[x]) = "goroutine" /\ Cardinality(long) < maxAsyncWSRequests
         THEN long' = long \cup {[at |-> "spawned", req |-> x]} /\ UNCHANGED <<reader, actionQ>>
         ELSE reader' = [at |-> "putting", req |-> x] /\ UNCHANGED <<actionQ, long>>
  BY <1>0 DEF ReadsNext
<1>8. asked[x] \in WsKinds
  BY <1>4 DEF WsInv, WsSeqs
<1>9. \A r \in Nat : \A p \in WsPlaces : IsAt(r, p) => r # x
  BY <1>4 DEF WsInv, WsPlaced
<1>10. WsShutdown' /\ ~ outClosed /\ writer = "runs"
  BY <1>1, <1>7 DEF WsInv, WsShutdown, writeDone
<1>11. /\ \A i \in DOMAIN executed : executed[i] <= NumRead /\ executed[i] \in Nat
       /\ Increasing(actionQ) /\ Increasing(executed) /\ actionQ \in Seq(Nat)
       /\ \A i \in DOMAIN executed, j \in DOMAIN actionQ : executed[i] < actionQ[j]
       /\ \A g \in long : asked[g.req] = "image"
       /\ \A i \in DOMAIN actionQ : actionQ[i] <= NumRead
  <2>1. \A i \in DOMAIN actionQ : Within(actionQ, actionQ[i]) /\ actionQ[i] \in Nat
    BY DEF WsInv, WsSeqs, Within
  <2>2. \A i \in DOMAIN actionQ : actionQ[i] <= NumRead
    BY <2>1 DEF WsInv, WsPlaced, WsPlaces, IsAt
  <2> QED
    BY <2>2 DEF WsInv, WsQueue, WsSeqs
<1>12. CASE Len(actionQ) < maxAsyncWSRequests /\ actionQ' = Append(actionQ, x) /\ UNCHANGED <<reader, long>>
  <2>1. /\ actionQ' \in Seq(Nat) /\ Len(actionQ') = Len(actionQ) + 1
        /\ \A r \in Nat : Within(actionQ', r) <=> (r = x \/ Within(actionQ, r))
        /\ Increasing(actionQ')
    <3>1. \A i \in DOMAIN actionQ : actionQ[i] < x
      BY <1>4, <1>11
    <3> QED
      BY <3>1, <1>4, <1>11, <1>12, Within_Append
  <2>2. WsTypeOK'
    <3>1. Len(actionQ') <= maxAsyncWSRequests
      BY <2>1, <1>11, <1>12
    <3> QED
      BY <3>1, <1>1, <1>6, <1>12 DEF WsInv, WsTypeOK
  <2>3. WsSeqs'
    <3>1. Len(inbox') <= Len(asked')
      BY <1>1, <1>3
    <3> QED
      BY <3>1, <2>1, <1>1, <1>3, <1>5, <1>12 DEF WsInv, WsSeqs
  <2>4. WsPlaced'
    <3>1. \A r \in Nat : \A p \in WsPlaces : IsAt(r, p)' <=> IF r = x THEN p = "queue" ELSE IsAt(r, p)
      <4>1. \A r \in Nat : \A p \in WsPlaces : IsAt(r, p)' <=> (r = x /\ p = "queue") \/ IsAt(r, p)
        BY <2>1, <1>1, <1>12 DEF IsAt
      <4> QED
        BY <4>1, <1>9
    <3>2. x \in Nat /\ WsPlaced /\ writer' = writer
      BY <1>1, <1>4 DEF WsInv
    <3>3. \A r \in Nat : r # x => \A p \in WsPlaces : IsAt(r, p)' <=> IsAt(r, p)
      BY <3>1
    <3>4. \A p1, p2 \in WsPlaces : IsAt(x, p1)' /\ IsAt(x, p2)' => p1 = p2
      BY <3>1, <3>2
    <3>5. writer' # "broke" => writer # "broke" /\ \E p \in WsPlaces : IsAt(x, p)'
      BY <3>1, <3>2, <1>1, <1>4 DEF WsPlaces
    <3>6. \/ NumRead' = NumRead /\ \E p \in WsPlaces : IsAt(x, p)
          \/ NumRead' = NumRead + 1 /\ x = NumRead + 1
      BY <1>1, <1>4
    <3> QED
      BY <3>2, <3>3, <3>4, <3>5, <3>6, Ws_Moves
  <2>5. WsOnce'
    BY <1>1, <1>12 DEF WsInv, WsOnce
  <2>6. \A i \in DOMAIN executed, j \in DOMAIN actionQ' : executed[i] < actionQ'[j]
    BY <1>4, <1>11, <1>12, SMTT(30)
  <2>7. WsQueue'
    BY <2>1, <2>6, <1>1, <1>4, <1>11, <1>12, SMTT(30) DEF WsQueue
  <2> QED
    BY <2>2, <2>3, <2>4, <2>5, <2>7, <1>10 DEF WsInv
<1>13. CASE /\ asked[x] = "image" /\ Cardinality(long) < maxAsyncWSRequests
            /\ long' = long \cup {[at |-> "spawned", req |-> x]} /\ UNCHANGED <<reader, actionQ>>
  <2> DEFINE g0 == [at |-> "spawned", req |-> x]
  <2>0. g0.req = x /\ g0 \in [at : {"spawned", "running", "putting"}, req : Requests]
        /\ long' = long \cup {g0}
    BY <1>4, <1>13 DEF Requests
  <2> HIDE DEF g0
  <2>1. IsFiniteSet(long') /\ Cardinality(long') <= maxAsyncWSRequests
    <3>1. IsFiniteSet(long) /\ Cardinality(long) \in Nat
      BY FS_CardinalityType DEF WsInv, WsSeqs
    <3>2. Cardinality(long') = Cardinality(long) \/ Cardinality(long') = Cardinality(long) + 1
      BY <2>0, <3>1, FS_AddElement
    <3> QED
      BY <2>0, <3>1, <3>2, <1>13, FS_AddElement
  <2>2. WsTypeOK'
    BY <2>0, <2>1, <1>1, <1>6, <1>13 DEF WsInv, WsTypeOK
  <2>3. WsSeqs'
    <3>1. Len(inbox') <= Len(asked')
      BY <1>1, <1>3
    <3> QED
      BY <3>1, <2>1, <1>1, <1>3, <1>5, <1>13 DEF WsInv, WsSeqs
  <2>4. WsPlaced'
    <3>1. \A r \in Nat : \A p \in WsPlaces : IsAt(r, p)' <=> IF r = x THEN p = "long" ELSE IsAt(r, p)
      <4>0. \A r \in Nat : (\E g \in long' : g.req = r) <=> (r = x \/ \E g \in long : g.req = r)
        BY <2>0
      <4>1. \A r \in Nat : \A p \in WsPlaces : IsAt(r, p)' <=> (r = x /\ p = "long") \/ IsAt(r, p)
        BY <4>0, <1>1, <1>13 DEF IsAt
      <4> QED
        BY <4>1, <1>9
    <3>2. x \in Nat /\ WsPlaced /\ writer' = writer
      BY <1>1, <1>4 DEF WsInv
    <3>3. \A r \in Nat : r # x => \A p \in WsPlaces : IsAt(r, p)' <=> IsAt(r, p)
      BY <3>1
    <3>4. \A p1, p2 \in WsPlaces : IsAt(x, p1)' /\ IsAt(x, p2)' => p1 = p2
      BY <3>1, <3>2
    <3>5. writer' # "broke" => writer # "broke" /\ \E p \in WsPlaces : IsAt(x, p)'
      BY <3>1, <3>2, <1>1, <1>4 DEF WsPlaces
    <3>6. \/ NumRead' = NumRead /\ \E p \in WsPlaces : IsAt(x, p)
          \/ NumRead' = NumRead + 1 /\ x = NumRead + 1
      BY <1>1, <1>4
    <3> QED
      BY <3>2, <3>3, <3>4, <3>5, <3>6, Ws_Moves
  <2>5. WsOnce'
    <3>1. \A g \in long : g.req \in Nat /\ g.req # x
      BY <1>9 DEF WsInv, WsTypeOK, Requests, WsPlaces, IsAt
    <3>2. \A g, h \in long' : g.req = h.req => g = h
      BY <3>1, <2>0 DEF WsInv, WsOnce
    <3> QED
      BY <3>2, <1>1 DEF WsInv, WsOnce
  <2>6. \A g \in long' : asked[g.req] = "image"
    BY <2>0, <1>11, <1>13
  <2>7. WsQueue'
    BY <2>6, <1>1, <1>4, <1>11, <1>13 DEF WsQueue
  <2> QED
    BY <2>2, <2>3, <2>4, <2>5, <2>7, <1>10 DEF WsInv
<1>14. CASE reader' = [at |-> "putting", req |-> x] /\ UNCHANGED <<actionQ, long>>
  <2>2. WsTypeOK'
    <3>1. x \in 0..MaxWsRequests
      BY <1>4
    <3> QED
      BY <3>1, <1>1, <1>6, <1>14 DEF WsInv, WsTypeOK
  <2>3. WsSeqs'
    <3>1. Len(inbox') <= Len(asked')
      BY <1>1, <1>3
    <3> QED
      BY <3>1, <1>1, <1>3, <1>5, <1>14 DEF WsInv, WsSeqs
  <2>4. WsPlaced'
    <3>1. \A r \in Nat : \A p \in WsPlaces : IsAt(r, p)' <=> IF r = x THEN p = "reader" ELSE IsAt(r, p)
      <4>1. \A r \in Nat : \A p \in WsPlaces : IsAt(r, p)' <=> (r = x /\ p = "reader") \/ IsAt(r, p)
        BY <1>1, <1>14 DEF IsAt
      <4> QED
        BY <4>1, <1>9
    <3>2. x \in Nat /\ WsPlaced /\ writer' = writer
      BY <1>1, <1>4 DEF WsInv
    <3>3. \A r \in Nat : r # x => \A p \in WsPlaces : IsAt(r, p)' <=> IsAt(r, p)
      BY <3>1
    <3>4. \A p1, p2 \in WsPlaces : IsAt(x, p1)' /\ IsAt(x, p2)' => p1 = p2
      BY <3>1, <3>2
    <3>5. writer' # "broke" => writer # "broke" /\ \E p \in WsPlaces : IsAt(x, p)'
      BY <3>1, <3>2, <1>1, <1>4 DEF WsPlaces
    <3>6. \/ NumRead' = NumRead /\ \E p \in WsPlaces : IsAt(x, p)
          \/ NumRead' = NumRead + 1 /\ x = NumRead + 1
      BY <1>1, <1>4
    <3> QED
      BY <3>2, <3>3, <3>4, <3>5, <3>6, Ws_Moves
  <2>5. WsOnce'
    BY <1>1, <1>14 DEF WsInv, WsOnce
  <2>7. WsQueue'
    BY <1>1, <1>4, <1>11, <1>14 DEF WsQueue
  <2> QED
    BY <2>2, <2>3, <2>4, <2>5, <2>7, <1>10 DEF WsInv
<1> QED
  BY <1>7, <1>8, <1>12, <1>13, <1>14 DEF Lane, WsKinds

(* An answer goes out, or is dropped because the writer broke. *)
LEMMA Ws_ReaderPuts == ASSUME WsInv, ReaderPuts PROVE WsInv'
<1> USE WsAssumption, Ws_Numbers
<1>0. PICK x : x = reader.req
  OBVIOUS
<1>1. /\ reader.at = "putting" /\ reader' \in {[at |-> "reading", req |-> 0], [at |-> "closing", req |-> 0]}
      /\ UNCHANGED <<asked, inbox, peer, actionQ, aworker, long, outClosed, writer, events, answered, executed>>
      /\ \/ Len(out) < OutRoom /\ out' = Append(out, x)
         \/ writeDone /\ UNCHANGED out
  BY <1>0 DEF ReaderPuts
<1>2. x \in Nat /\ out \in Seq(Nat)
  BY <1>0 DEF WsInv, WsTypeOK, WsSeqs
<1>3. IsAt(x, "reader") /\ "reader" \in WsPlaces /\ "out" \in WsPlaces
  BY <1>0, <1>1 DEF IsAt, WsPlaces
<1>4. \A p \in WsPlaces : IsAt(x, p) => p = "reader"
  BY <1>2, <1>3 DEF WsInv, WsPlaced
<1>5. WsShutdown' /\ ~ outClosed /\ writer # "ended"
  BY <1>1 DEF WsInv, WsShutdown
<1>6. NumRead' = NumRead /\ WsQueue'
  BY <1>1 DEF NumRead, WsInv, WsQueue
<1>7. CASE Len(out) < OutRoom /\ out' = Append(out, x)
  <2>1. /\ out' \in Seq(Nat) /\ Len(out') = Len(out) + 1 /\ Distinct(out')
        /\ \A r \in Nat : Within(out', r) <=> (r = x \/ Within(out, r))
    <3>1. Distinct(out) /\ ~ Within(out, x)
      BY <1>3, <1>4 DEF WsInv, WsOnce, IsAt
    <3> QED
      BY <3>1, <1>2, <1>7, Within_Append
  <2>2. WsTypeOK'
    <3>1. Len(out') <= OutRoom
      BY <2>1, <1>2, <1>7
    <3> QED
      BY <3>1, <1>1, SMTT(30) DEF WsInv, WsTypeOK
  <2>3. WsSeqs'
    BY <2>1, <1>1, <1>6 DEF WsInv, WsSeqs
  <2>4. WsPlaced'
    <3>1. \A r \in Nat : \A p \in WsPlaces : IsAt(r, p)' <=> IF r = x THEN p = "out" ELSE IsAt(r, p)
      <4>1. \A r \in Nat : \A p \in WsPlaces :
              IsAt(r, p)' <=> (r = x /\ p = "out") \/ (p # "reader" /\ IsAt(r, p))
        BY <2>1, <1>1 DEF IsAt
      <4>2. \A r \in Nat : IsAt(r, "reader") <=> r = x
        BY <1>0, <1>1 DEF IsAt
      <4> QED
        BY <4>1, <4>2, <1>2, <1>4
    <3>2. x \in Nat /\ WsPlaced /\ writer' = writer
      BY <1>1, <1>2, <1>3, <1>6 DEF WsInv
    <3>3. \A r \in Nat : r # x => \A p \in WsPlaces : IsAt(r, p)' <=> IsAt(r, p)
      BY <3>1
    <3>4. \A p1, p2 \in WsPlaces : IsAt(x, p1)' /\ IsAt(x, p2)' => p1 = p2
      BY <3>1, <3>2
    <3>5. writer' # "broke" => writer # "broke" /\ \E p \in WsPlaces : IsAt(x, p)'
      BY <3>1, <3>2, <1>1, <1>2, <1>3, <1>6 DEF WsPlaces
    <3>6. \/ NumRead' = NumRead /\ \E p \in WsPlaces : IsAt(x, p)
          \/ NumRead' = NumRead + 1 /\ x = NumRead + 1
      BY <1>3, <1>6, Zenon
    <3> QED
      BY <3>2, <3>3, <3>4, <3>5, <3>6, Ws_Moves
  <2>5. WsOnce'
    BY <2>1, <1>1 DEF WsInv, WsOnce
  <2> QED
    BY <2>2, <2>3, <2>4, <2>5, <1>5, <1>6 DEF WsInv
<1>8. CASE writeDone /\ UNCHANGED out
  <2>1. writer = "broke"
    BY <1>5, <1>8 DEF WsInv, WsTypeOK, writeDone
  <2>2. WsTypeOK'
    BY <1>1, <1>8 DEF WsInv, WsTypeOK
  <2>3. WsSeqs'
    BY <1>8, <1>1, <1>6 DEF WsInv, WsSeqs
  <2>4. WsPlaced'
    <3>1. \A r \in Nat : \A p \in WsPlaces : IsAt(r, p)' <=> IF r = x THEN p = "none" ELSE IsAt(r, p)
      <4>1. \A r \in Nat : \A p \in WsPlaces : IsAt(r, p)' <=> p # "reader" /\ IsAt(r, p)
        BY <1>8, <1>1 DEF IsAt
      <4>2. \A r \in Nat : IsAt(r, "reader") <=> r = x
        BY <1>0, <1>1 DEF IsAt
      <4>3. \A p \in WsPlaces : p # "none"
        BY DEF WsPlaces
      <4> QED
        BY <4>1, <4>2, <4>3, <1>2, <1>4
    <3>2. x \in Nat /\ WsPlaced /\ writer' = writer
      BY <2>1, <1>1, <1>2, <1>3, <1>6 DEF WsInv
    <3>3. \A r \in Nat : r # x => \A p \in WsPlaces : IsAt(r, p)' <=> IsAt(r, p)
      BY <3>1
    <3>4. \A p1, p2 \in WsPlaces : IsAt(x, p1)' /\ IsAt(x, p2)' => p1 = p2
      BY <3>1, <3>2
    <3>5. writer' # "broke" => writer # "broke" /\ \E p \in WsPlaces : IsAt(x, p)'
      BY <3>1, <3>2, <2>1, <1>1, <1>2, <1>3, <1>6
    <3>6. \/ NumRead' = NumRead /\ \E p \in WsPlaces : IsAt(x, p)
          \/ NumRead' = NumRead + 1 /\ x = NumRead + 1
      BY <1>3, <1>6, Zenon
    <3> QED
      BY <3>2, <3>3, <3>4, <3>5, <3>6, Ws_Moves
  <2>5. WsOnce'
    BY <1>8, <1>1 DEF WsInv, WsOnce
  <2> QED
    BY <2>2, <2>3, <2>4, <2>5, <1>5, <1>6 DEF WsInv
<1> QED
  BY <1>1, <1>7, <1>8

LEMMA Ws_WorkerPuts == ASSUME WsInv, WorkerPuts PROVE WsInv'
<1> USE WsAssumption, Ws_Numbers
<1>0. PICK x : x = aworker.req
  OBVIOUS
<1>1. /\ aworker.at = "putting" /\ aworker' = [at |-> "idle", req |-> 0]
      /\ UNCHANGED <<asked, inbox, peer, reader, actionQ, long, outClosed, writer, events, answered, executed>>
      /\ \/ Len(out) < OutRoom /\ out' = Append(out, x)
         \/ writeDone /\ UNCHANGED out
  BY <1>0 DEF WorkerPuts, MayDrop
<1>2. x \in Nat /\ out \in Seq(Nat)
  BY <1>0 DEF WsInv, WsTypeOK, WsSeqs
<1>3. IsAt(x, "worker") /\ "worker" \in WsPlaces /\ "out" \in WsPlaces
  BY <1>0, <1>1 DEF IsAt, WsPlaces
<1>4. \A p \in WsPlaces : IsAt(x, p) => p = "worker"
  BY <1>2, <1>3 DEF WsInv, WsPlaced
<1>5. WsShutdown' /\ ~ outClosed /\ writer # "ended"
  BY <1>1 DEF WsInv, WsShutdown
<1>6. NumRead' = NumRead /\ WsQueue'
  BY <1>1 DEF NumRead, WsInv, WsQueue
<1>7. CASE Len(out) < OutRoom /\ out' = Append(out, x)
  <2>1. /\ out' \in Seq(Nat) /\ Len(out') = Len(out) + 1 /\ Distinct(out')
        /\ \A r \in Nat : Within(out', r) <=> (r = x \/ Within(out, r))
    <3>1. Distinct(out) /\ ~ Within(out, x)
      BY <1>3, <1>4 DEF WsInv, WsOnce, IsAt
    <3> QED
      BY <3>1, <1>2, <1>7, Within_Append
  <2>2. WsTypeOK'
    <3>1. Len(out') <= OutRoom
      BY <2>1, <1>2, <1>7
    <3> QED
      BY <3>1, <1>1 DEF WsInv, WsTypeOK
  <2>3. WsSeqs'
    BY <2>1, <1>1, <1>6 DEF WsInv, WsSeqs
  <2>4. WsPlaced'
    <3>1. \A r \in Nat : \A p \in WsPlaces : IsAt(r, p)' <=> IF r = x THEN p = "out" ELSE IsAt(r, p)
      <4>1. \A r \in Nat : \A p \in WsPlaces :
              IsAt(r, p)' <=> (r = x /\ p = "out") \/ (p # "worker" /\ IsAt(r, p))
        BY <2>1, <1>1 DEF IsAt
      <4>2. \A r \in Nat : IsAt(r, "worker") <=> r = x
        BY <1>0, <1>1 DEF IsAt
      <4> QED
        BY <4>1, <4>2, <1>2, <1>4
    <3>2. x \in Nat /\ WsPlaced /\ writer' = writer
      BY <1>1, <1>2, <1>3, <1>6 DEF WsInv
    <3>3. \A r \in Nat : r # x => \A p \in WsPlaces : IsAt(r, p)' <=> IsAt(r, p)
      BY <3>1
    <3>4. \A p1, p2 \in WsPlaces : IsAt(x, p1)' /\ IsAt(x, p2)' => p1 = p2
      BY <3>1, <3>2
    <3>5. writer' # "broke" => writer # "broke" /\ \E p \in WsPlaces : IsAt(x, p)'
      BY <3>1, <3>2, <1>1, <1>2, <1>3, <1>6 DEF WsPlaces
    <3>6. \/ NumRead' = NumRead /\ \E p \in WsPlaces : IsAt(x, p)
          \/ NumRead' = NumRead + 1 /\ x = NumRead + 1
      BY <1>3, <1>6, Zenon
    <3> QED
      BY <3>2, <3>3, <3>4, <3>5, <3>6, Ws_Moves
  <2>5. WsOnce'
    BY <2>1, <1>1 DEF WsInv, WsOnce
  <2> QED
    BY <2>2, <2>3, <2>4, <2>5, <1>5, <1>6 DEF WsInv
<1>8. CASE writeDone /\ UNCHANGED out
  <2>1. writer = "broke"
    BY <1>5, <1>8 DEF WsInv, WsTypeOK, writeDone
  <2>2. WsTypeOK'
    BY <1>1, <1>8 DEF WsInv, WsTypeOK
  <2>3. WsSeqs'
    BY <1>8, <1>1, <1>6 DEF WsInv, WsSeqs
  <2>4. WsPlaced'
    <3>1. \A r \in Nat : \A p \in WsPlaces : IsAt(r, p)' <=> IF r = x THEN p = "none" ELSE IsAt(r, p)
      <4>1. \A r \in Nat : \A p \in WsPlaces : IsAt(r, p)' <=> p # "worker" /\ IsAt(r, p)
        BY <1>8, <1>1 DEF IsAt
      <4>2. \A r \in Nat : IsAt(r, "worker") <=> r = x
        BY <1>0, <1>1 DEF IsAt
      <4>3. \A p \in WsPlaces : p # "none"
        BY DEF WsPlaces
      <4> QED
        BY <4>1, <4>2, <4>3, <1>2, <1>4
    <3>2. x \in Nat /\ WsPlaced /\ writer' = writer
      BY <2>1, <1>1, <1>2, <1>3, <1>6 DEF WsInv
    <3>3. \A r \in Nat : r # x => \A p \in WsPlaces : IsAt(r, p)' <=> IsAt(r, p)
      BY <3>1
    <3>4. \A p1, p2 \in WsPlaces : IsAt(x, p1)' /\ IsAt(x, p2)' => p1 = p2
      BY <3>1, <3>2
    <3>5. writer' # "broke" => writer # "broke" /\ \E p \in WsPlaces : IsAt(x, p)'
      BY <3>1, <3>2, <2>1, <1>1, <1>2, <1>3, <1>6
    <3>6. \/ NumRead' = NumRead /\ \E p \in WsPlaces : IsAt(x, p)
          \/ NumRead' = NumRead + 1 /\ x = NumRead + 1
      BY <1>3, <1>6, Zenon
    <3> QED
      BY <3>2, <3>3, <3>4, <3>5, <3>6, Ws_Moves
  <2>5. WsOnce'
    BY <1>8, <1>1 DEF WsInv, WsOnce
  <2> QED
    BY <2>2, <2>3, <2>4, <2>5, <1>5, <1>6 DEF WsInv
<1> QED
  BY <1>1, <1>7, <1>8

LEMMA Ws_LongPuts == ASSUME WsInv, NEW g0 \in long, LongPuts(g0) PROVE WsInv'
<1> USE WsAssumption, Ws_Numbers
<1>0. PICK x : x = g0.req
  OBVIOUS
<1>1. /\ g0.at = "putting" /\ long' = long \ {g0}
      /\ UNCHANGED <<asked, inbox, peer, reader, actionQ, aworker, outClosed, writer, events, answered, executed>>
      /\ \/ Len(out) < OutRoom /\ out' = Append(out, x)
         \/ writeDone /\ UNCHANGED out
  BY <1>0 DEF LongPuts, MayDrop
<1>2. x \in Nat /\ out \in Seq(Nat)
  BY <1>0 DEF WsInv, WsTypeOK, WsSeqs, Requests
<1>3. IsAt(x, "long") /\ "long" \in WsPlaces /\ "out" \in WsPlaces
  BY <1>0, <1>1 DEF IsAt, WsPlaces
<1>4. \A p \in WsPlaces : IsAt(x, p) => p = "long"
  BY <1>2, <1>3 DEF WsInv, WsPlaced
<1>5. WsShutdown' /\ ~ outClosed /\ writer # "ended"
  BY <1>1 DEF WsInv, WsShutdown
<1>6. NumRead' = NumRead /\ WsQueue'
  BY <1>1 DEF NumRead, WsInv, WsQueue
<1>a. IsFiniteSet(long') /\ Cardinality(long') <= maxAsyncWSRequests
  <2>1. IsFiniteSet(long) /\ Cardinality(long) <= maxAsyncWSRequests /\ Cardinality(long) \in Nat
    BY FS_CardinalityType DEF WsInv, WsTypeOK, WsSeqs
  <2>2. IsFiniteSet(long') /\ Cardinality(long') = Cardinality(long) - 1
    BY <2>1, <1>1, FS_RemoveElement
  <2> QED
    BY <2>1, <2>2
<1>b. \A r \in Nat : (\E g \in long' : g.req = r) <=> (r # x /\ \E g \in long : g.req = r)
  BY <1>0, <1>1 DEF WsInv, WsOnce
<1>7. CASE Len(out) < OutRoom /\ out' = Append(out, x)
  <2>1. /\ out' \in Seq(Nat) /\ Len(out') = Len(out) + 1 /\ Distinct(out')
        /\ \A r \in Nat : Within(out', r) <=> (r = x \/ Within(out, r))
    <3>1. Distinct(out) /\ ~ Within(out, x)
      BY <1>3, <1>4 DEF WsInv, WsOnce, IsAt
    <3> QED
      BY <3>1, <1>2, <1>7, Within_Append
  <2>2. WsTypeOK'
    <3>1. Len(out') <= OutRoom
      BY <2>1, <1>2, <1>7
    <3> QED
      BY <3>1, <1>1, <1>a DEF WsInv, WsTypeOK
  <2>3. WsSeqs'
    BY <2>1, <1>1, <1>6, <1>a DEF WsInv, WsSeqs
  <2>4. WsPlaced'
    <3>1. \A r \in Nat : \A p \in WsPlaces : IsAt(r, p)' <=> IF r = x THEN p = "out" ELSE IsAt(r, p)
      <4>1. \A r \in Nat : \A p \in WsPlaces :
              IsAt(r, p)' <=> (r = x /\ p = "out") \/ (~ (r = x /\ p = "long") /\ IsAt(r, p))
        <5>1. UNCHANGED <<reader, actionQ, aworker, answered>>
          BY <1>1
        <5> QED
          BY <2>1, <5>1, <1>b DEF IsAt
      <4> QED
        BY <4>1, <1>2, <1>4
    <3>2. x \in Nat /\ WsPlaced /\ writer' = writer
      BY <1>1, <1>2, <1>3, <1>6 DEF WsInv
    <3>3. \A r \in Nat : r # x => \A p \in WsPlaces : IsAt(r, p)' <=> IsAt(r, p)
      BY <3>1
    <3>4. \A p1, p2 \in WsPlaces : IsAt(x, p1)' /\ IsAt(x, p2)' => p1 = p2
      BY <3>1, <3>2
    <3>5. writer' # "broke" => writer # "broke" /\ \E p \in WsPlaces : IsAt(x, p)'
      BY <3>1, <3>2, <1>1, <1>2, <1>3, <1>6 DEF WsPlaces
    <3>6. \/ NumRead' = NumRead /\ \E p \in WsPlaces : IsAt(x, p)
          \/ NumRead' = NumRead + 1 /\ x = NumRead + 1
      BY <1>3, <1>6, Zenon
    <3> QED
      BY <3>2, <3>3, <3>4, <3>5, <3>6, Ws_Moves
  <2>5. WsOnce'
    BY <2>1, <1>1 DEF WsInv, WsOnce
  <2> QED
    BY <2>2, <2>3, <2>4, <2>5, <1>5, <1>6 DEF WsInv
<1>8. CASE writeDone /\ UNCHANGED out
  <2>1. writer = "broke"
    BY <1>5, <1>8 DEF WsInv, WsTypeOK, writeDone
  <2>2. WsTypeOK'
    BY <1>1, <1>8, <1>a DEF WsInv, WsTypeOK
  <2>3. WsSeqs'
    BY <1>8, <1>1, <1>6, <1>a DEF WsInv, WsSeqs
  <2>4. WsPlaced'
    <3>1. \A r \in Nat : \A p \in WsPlaces : IsAt(r, p)' <=> IF r = x THEN p = "none" ELSE IsAt(r, p)
      <4>1. \A r \in Nat : \A p \in WsPlaces : IsAt(r, p)' <=> ~ (r = x /\ p = "long") /\ IsAt(r, p)
        BY <1>8, <1>1, <1>b DEF IsAt
      <4>3. \A p \in WsPlaces : p # "none"
        BY DEF WsPlaces
      <4> QED
        BY <4>1, <4>3, <1>2, <1>4
    <3>2. x \in Nat /\ WsPlaced /\ writer' = writer
      BY <2>1, <1>1, <1>2, <1>3, <1>6 DEF WsInv
    <3>3. \A r \in Nat : r # x => \A p \in WsPlaces : IsAt(r, p)' <=> IsAt(r, p)
      BY <3>1
    <3>4. \A p1, p2 \in WsPlaces : IsAt(x, p1)' /\ IsAt(x, p2)' => p1 = p2
      BY <3>1, <3>2
    <3>5. writer' # "broke" => writer # "broke" /\ \E p \in WsPlaces : IsAt(x, p)'
      BY <3>1, <3>2, <2>1, <1>1, <1>2, <1>3, <1>6
    <3>6. \/ NumRead' = NumRead /\ \E p \in WsPlaces : IsAt(x, p)
          \/ NumRead' = NumRead + 1 /\ x = NumRead + 1
      BY <1>3, <1>6, Zenon
    <3> QED
      BY <3>2, <3>3, <3>4, <3>5, <3>6, Ws_Moves
  <2>5. WsOnce'
    BY <1>8, <1>1 DEF WsInv, WsOnce
  <2> QED
    BY <2>2, <2>3, <2>4, <2>5, <1>5, <1>6 DEF WsInv
<1> QED
  BY <1>1, <1>7, <1>8

LEMMA Ws_LongRuns == ASSUME WsInv, NEW g0 \in long, LongRuns(g0) PROVE WsInv'
<1> USE WsAssumption, Ws_Numbers
<1> DEFINE h0 == [g0 EXCEPT !.at = IF g0.at = "spawned" THEN "running" ELSE "putting"]
<1>1. /\ g0.at \in {"spawned", "running"} /\ long' = (long \ {g0}) \cup {h0}
      /\ UNCHANGED <<asked, inbox, peer, reader, actionQ, aworker, out, outClosed, writer, events, answered>>
  BY DEF LongRuns
<1>2. UNCHANGED executed
  BY DEF LongRuns, WsInv, WsQueue
<1>3. h0 \in [at : {"spawned", "running", "putting"}, req : Requests] /\ h0.req = g0.req
  BY DEF WsInv, WsTypeOK
<1> HIDE DEF h0
<1>a. IsFiniteSet(long') /\ Cardinality(long') <= maxAsyncWSRequests
  <2>1. IsFiniteSet(long) /\ Cardinality(long) <= maxAsyncWSRequests /\ Cardinality(long) \in Nat
    BY FS_CardinalityType DEF WsInv, WsTypeOK, WsSeqs
  <2> DEFINE S == long \ {g0}
  <2>2. IsFiniteSet(S) /\ Cardinality(S) = Cardinality(long) - 1
    BY <2>1, FS_RemoveElement
  <2> HIDE DEF S
  <2>3. IsFiniteSet(S \cup {h0}) /\ (Cardinality(S \cup {h0}) = Cardinality(S)
          \/ Cardinality(S \cup {h0}) = Cardinality(S) + 1)
    BY <2>2, FS_AddElement
  <2>4. long' = S \cup {h0}
    BY <1>1 DEF S
  <2> QED
    BY <2>1, <2>2, <2>3, <2>4
<1>b. \A r \in Nat : (\E g \in long' : g.req = r) <=> (\E g \in long : g.req = r)
  BY <1>1, <1>3
<1>5. WsShutdown'
  BY <1>1 DEF WsInv, WsShutdown
<1>6. NumRead' = NumRead /\ WsQueue'
  BY <1>1, <1>2, <1>3 DEF NumRead, WsInv, WsQueue
<1>7. WsTypeOK'
  BY <1>1, <1>3, <1>a DEF WsInv, WsTypeOK
<1>8. WsSeqs'
  BY <1>1, <1>2, <1>6, <1>a DEF WsInv, WsSeqs
<1>9. WsPlaced'
  <2>1. \A r \in Nat : \A p \in WsPlaces : IsAt(r, p)' <=> IsAt(r, p)
    BY <1>1, <1>b DEF IsAt
  <2> QED
    BY <2>1, <1>1, <1>6, Ws_Stays DEF WsInv
<1>10. WsOnce'
  BY <1>1, <1>3 DEF WsInv, WsOnce
<1> QED
  BY <1>5, <1>6, <1>7, <1>8, <1>9, <1>10 DEF WsInv

LEMMA Ws_WorkerRuns == ASSUME WsInv, WorkerRuns PROVE WsInv'
<1> USE WsAssumption, Ws_Numbers
<1>1. UNCHANGED <<asked, inbox, peer, reader, long, out, outClosed, writer, events, answered>>
  BY DEF WorkerRuns
<1>2. CASE /\ aworker.at = "idle" /\ actionQ # <<>>
           /\ aworker' = [at |-> "running", req |-> Head(actionQ)]
           /\ actionQ' = Tail(actionQ) /\ executed' = Append(executed, Head(actionQ))
  <2>0. PICK x : x = Head(actionQ)
    OBVIOUS
  <2>1. actionQ \in Seq(Nat) /\ executed \in Seq(Nat) /\ Increasing(actionQ) /\ Increasing(executed)
    BY DEF WsInv, WsSeqs, WsQueue
  <2>2. /\ actionQ' \in Seq(Nat) /\ Len(actionQ') = Len(actionQ) - 1 /\ x \in Nat /\ Len(actionQ) \in Nat
        /\ Within(actionQ, x) /\ x = actionQ[1] /\ 1 \in DOMAIN actionQ /\ Increasing(actionQ')
        /\ \A r \in Nat : Within(actionQ', r) <=> (r # x /\ Within(actionQ, r))
        /\ \A i \in DOMAIN actionQ' : x < actionQ'[i] /\ actionQ'[i] = actionQ[i + 1] /\ i + 1 \in DOMAIN actionQ
    BY <2>0, <2>1, <1>2, Within_Tail
  <2>3. IsAt(x, "queue") /\ "queue" \in WsPlaces /\ "worker" \in WsPlaces
    BY <2>2 DEF IsAt, WsPlaces
  <2>4. x \in 1..NumRead /\ \A p \in WsPlaces : IsAt(x, p) => p = "queue"
    BY <2>2, <2>3 DEF WsInv, WsPlaced
  <2>5. /\ executed' \in Seq(Nat) /\ Increasing(executed')
        /\ \A i \in DOMAIN executed' : executed'[i] = x \/ (i \in DOMAIN executed /\ executed'[i] = executed[i])
    <3>1. \A i \in DOMAIN executed : executed[i] < x
      BY <2>2 DEF WsInv, WsQueue
    <3>2. executed' = Append(executed, x)
      BY <2>0, <1>2
    <3> QED
      BY <3>1, <3>2, <2>1, <2>2, Within_Append, SMTT(30)
  <2>6. WsTypeOK'
    <3>1. Len(actionQ') <= maxAsyncWSRequests
      BY <2>2 DEF WsInv, WsTypeOK
    <3>2. aworker' \in [at : {"idle", "running", "putting", "exited"}, req : 0..MaxWsRequests]
      BY <2>0, <2>4, <1>2
    <3> QED
      BY <3>1, <3>2, <1>1 DEF WsInv, WsTypeOK
  <2>7. NumRead' = NumRead
    BY <1>1 DEF NumRead
  <2>8. WsSeqs'
    BY <2>2, <2>5, <2>7, <1>1 DEF WsInv, WsSeqs
  <2>9. WsPlaced'
    <3>1. \A r \in Nat : \A p \in WsPlaces : IsAt(r, p)' <=> IF r = x THEN p = "worker" ELSE IsAt(r, p)
      <4>1. \A r \in Nat : \A p \in WsPlaces :
              IsAt(r, p)' <=> (r = x /\ p = "worker") \/ (~ (r = x /\ p = "queue") /\ IsAt(r, p))
        BY <2>0, <2>2, <1>1, <1>2 DEF IsAt
      <4> QED
        BY <4>1, <2>2, <2>4
    <3>2. x \in Nat /\ WsPlaced /\ writer' = writer
      BY <1>1, <2>2, <2>3, <2>7 DEF WsInv
    <3>3. \A r \in Nat : r # x => \A p \in WsPlaces : IsAt(r, p)' <=> IsAt(r, p)
      BY <3>1
    <3>4. \A p1, p2 \in WsPlaces : IsAt(x, p1)' /\ IsAt(x, p2)' => p1 = p2
      BY <3>1, <3>2
    <3>5. writer' # "broke" => writer # "broke" /\ \E p \in WsPlaces : IsAt(x, p)'
      BY <3>1, <3>2, <1>1, <2>2, <2>3, <2>7 DEF WsPlaces
    <3>6. \/ NumRead' = NumRead /\ \E p \in WsPlaces : IsAt(x, p)
          \/ NumRead' = NumRead + 1 /\ x = NumRead + 1
      BY <2>3, <2>7, Zenon
    <3> QED
      BY <3>2, <3>3, <3>4, <3>5, <3>6, Ws_Moves
  <2>10. WsOnce'
    BY <1>1 DEF WsInv, WsOnce
  <2>11. WsQueue'
    <3>1. \A i \in DOMAIN executed' : executed'[i] <= NumRead
      BY <2>4, <2>5, SMTT(30) DEF WsInv, WsQueue
    <3>2. \A i \in DOMAIN executed', j \in DOMAIN actionQ' : executed'[i] < actionQ'[j]
      BY <2>2, <2>5 DEF WsInv, WsQueue
    <3> QED
      BY <3>1, <3>2, <2>2, <2>5, <2>7, <1>1 DEF WsInv, WsQueue
  <2>12. WsShutdown'
    BY <1>1, <1>2 DEF WsInv, WsShutdown
  <2> QED
    BY <2>6, <2>8, <2>9, <2>10, <2>11, <2>12 DEF WsInv
<1>3. CASE /\ aworker.at = "idle" /\ actionQ = <<>> /\ reader.at \in {"waiting", "draining", "returned"}
           /\ aworker' = [aworker EXCEPT !.at = "exited"] /\ UNCHANGED <<actionQ, executed>>
  <2>1. WsTypeOK' /\ aworker'.at = "exited" /\ aworker'.req = aworker.req
    BY <1>1, <1>3 DEF WsInv, WsTypeOK
  <2>2. WsShutdown'
    BY <2>1, <1>1, <1>3 DEF WsInv, WsShutdown
  <2> QED
    BY <2>1, <2>2, <1>1, <1>3, Ws_Quiet
<1>4. CASE /\ aworker.at = "running"
           /\ aworker' = [aworker EXCEPT !.at = "putting"] /\ UNCHANGED <<actionQ, executed>>
  <2>1. WsTypeOK' /\ aworker'.at = "putting" /\ aworker'.req = aworker.req
    BY <1>1, <1>4 DEF WsInv, WsTypeOK
  <2>2. WsShutdown'
    BY <2>1, <1>1, <1>4 DEF WsInv, WsShutdown
  <2> QED
    BY <2>1, <2>2, <1>1, <1>4, Ws_Quiet
<1> QED
  BY <1>2, <1>3, <1>4 DEF WorkerRuns

LEMMA Ws_WriterAnswers == ASSUME WsInv, WriterAnswers PROVE WsInv'
<1> USE WsAssumption, Ws_Numbers
<1>0. PICK x : x = Head(out)
  OBVIOUS
<1>1. /\ writer = "runs" /\ out # <<>> /\ out' = Tail(out) /\ answered' = Append(answered, x)
      /\ UNCHANGED <<asked, inbox, peer, reader, actionQ, aworker, long, outClosed, writer, events, executed>>
  BY <1>0 DEF WriterAnswers
<1>2. out \in Seq(Nat) /\ answered \in Seq(Nat) /\ Distinct(out) /\ Distinct(answered)
  BY DEF WsInv, WsSeqs, WsOnce
<1>3. /\ out' \in Seq(Nat) /\ Len(out') = Len(out) - 1 /\ x \in Nat /\ Within(out, x) /\ Distinct(out')
      /\ \A r \in Nat : Within(out', r) <=> (r # x /\ Within(out, r))
  BY <1>0, <1>1, <1>2, Within_Tail
<1>4. IsAt(x, "out") /\ "out" \in WsPlaces /\ "client" \in WsPlaces
  BY <1>3 DEF IsAt, WsPlaces
<1>5. \A p \in WsPlaces : IsAt(x, p) => p = "out"
  BY <1>3, <1>4 DEF WsInv, WsPlaced
<1>6. /\ answered' \in Seq(Nat) /\ Distinct(answered')
      /\ \A r \in Nat : Within(answered', r) <=> (r = x \/ Within(answered, r))
  <2>1. ~ Within(answered, x)
    BY <1>4, <1>5 DEF IsAt
  <2> QED
    BY <2>1, <1>1, <1>2, <1>3, Within_Append
<1>7. NumRead' = NumRead /\ WsQueue' /\ WsShutdown'
  BY <1>1 DEF NumRead, WsInv, WsQueue, WsShutdown
<1>8. WsTypeOK'
  <2>1. Len(out') <= OutRoom
    BY <1>2, <1>3 DEF WsInv, WsTypeOK
  <2> QED
    BY <2>1, <1>1 DEF WsInv, WsTypeOK
<1>9. WsSeqs' /\ WsOnce'
  BY <1>1, <1>3, <1>6, <1>7 DEF WsInv, WsSeqs, WsOnce
<1>10. WsPlaced'
  <2>1. \A r \in Nat : \A p \in WsPlaces : IsAt(r, p)' <=> IF r = x THEN p = "client" ELSE IsAt(r, p)
    <3>1. \A r \in Nat : \A p \in WsPlaces :
            IsAt(r, p)' <=> (r = x /\ p = "client") \/ (~ (r = x /\ p = "out") /\ IsAt(r, p))
      BY <1>1, <1>3, <1>6 DEF IsAt
    <3> QED
      BY <3>1, <1>3, <1>5
  <2>2. x \in Nat /\ WsPlaced /\ writer' = writer
    BY <1>1, <1>3, <1>4, <1>7 DEF WsInv
  <2>3. \A r \in Nat : r # x => \A p \in WsPlaces : IsAt(r, p)' <=> IsAt(r, p)
    BY <2>1
  <2>4. \A p1, p2 \in WsPlaces : IsAt(x, p1)' /\ IsAt(x, p2)' => p1 = p2
    BY <2>1, <2>2
  <2>5. writer' # "broke" => writer # "broke" /\ \E p \in WsPlaces : IsAt(x, p)'
    BY <2>1, <2>2, <1>1, <1>3, <1>4, <1>7 DEF WsPlaces
  <2>6. \/ NumRead' = NumRead /\ \E p \in WsPlaces : IsAt(x, p)
        \/ NumRead' = NumRead + 1 /\ x = NumRead + 1
    BY <1>4, <1>7, Zenon
  <2> QED
    BY <2>2, <2>3, <2>4, <2>5, <2>6, Ws_Moves
<1> QED
  BY <1>7, <1>8, <1>9, <1>10 DEF WsInv

LEMMA WsStep == ASSUME WsInv, [WsNext]_wsVars PROVE WsInv'
<1>1. CASE UNCHANGED wsVars
  <2>1. NumRead' = NumRead /\ \A r, p : IsAt(r, p)' <=> IsAt(r, p)
    BY <1>1 DEF NumRead, IsAt, wsVars
  <2> QED
    BY <1>1, <2>1 DEF WsInv, WsTypeOK, WsSeqs, WsPlaced, WsOnce, WsQueue, WsShutdown, wsVars
<1> QED
  BY <1>1, Ws_ClientSends, Ws_Ends, Ws_Reads, Ws_ReaderPuts, Ws_WorkerRuns, Ws_WorkerPuts, Ws_LongRuns,
     Ws_LongPuts, Ws_WriterAnswers DEF WsNext, WsServes

LEMMA Ws_Safe == ASSUME WsInv PROVE WsSafe
<1> USE Ws_Numbers
<1>1. WsNoSendOnClosed
  BY DEF WsInv, WsShutdown, WsNoSendOnClosed
<1>2. WsActionsInOrder
  BY DEF WsInv, WsQueue, WsActionsInOrder, Increasing
<1>3. WsAnswered
  <2>1. \A i, j \in DOMAIN answered : i # j => answered[i] # answered[j]
    BY DEF WsInv, WsOnce, Distinct
  <2>2. ASSUME reader.at = "returned", writer = "ended"
        PROVE  {answered[i] : i \in DOMAIN answered} = 1..Len(asked) \ {inbox[i] : i \in DOMAIN inbox}
    <3>1. outClosed /\ out = <<>> /\ aworker.at = "exited" /\ long = {} /\ actionQ = <<>>
      BY <2>2 DEF WsInv, WsShutdown
    <3>2. \A r \in Nat, p \in WsPlaces : IsAt(r, p) => p = "client"
      BY <3>1, <2>2 DEF IsAt, Within
    <3>3. \A r \in Nat : Within(answered, r) <=> r \in 1..NumRead
      BY <3>2, <2>2 DEF WsInv, WsPlaced, WsPlaces, IsAt
    <3>4. answered \in Seq(Nat) /\ \A i \in DOMAIN inbox : inbox[i] = NumRead + i
      BY DEF WsInv, WsSeqs
    <3>5. {answered[i] : i \in DOMAIN answered} = 1..NumRead
      <4>1. ASSUME NEW i \in DOMAIN answered PROVE answered[i] \in 1..NumRead
        BY <3>3, <3>4 DEF Within
      <4>2. ASSUME NEW r \in 1..NumRead PROVE \E i \in DOMAIN answered : answered[i] = r
        BY <3>3 DEF Within
      <4> QED
        BY <4>1, <4>2
    <3>6. {inbox[i] : i \in DOMAIN inbox} = (NumRead + 1)..Len(asked)
      <4>1. ASSUME NEW i \in DOMAIN inbox PROVE inbox[i] \in (NumRead + 1)..Len(asked)
        BY <3>4
      <4>2. ASSUME NEW r \in (NumRead + 1)..Len(asked) PROVE \E i \in DOMAIN inbox : inbox[i] = r
        <5>1. r - NumRead \in DOMAIN inbox
          OBVIOUS
        <5> QED
          BY <5>1, <3>4
      <4> QED
        BY <4>1, <4>2
    <3>7. 1..NumRead = 1..Len(asked) \ ((NumRead + 1)..Len(asked))
      OBVIOUS
    <3> QED
      BY <3>5, <3>6, <3>7, Zenon
  <2> QED
    BY <2>1, <2>2 DEF WsAnswered
<1> QED
  BY <1>1, <1>2, <1>3 DEF WsSafe

-----------------------------------------------------------------------------
(* The journal tail.                                                       *)

(* Where the tail is: nothing is sent before the replay, what was sent     *)
(* lies between what was asked for and the position, what is to be sent    *)
(* lies beyond it.                                                         *)
TailAt ==
  /\ appended \in Seq(BOOLEAN) /\ feed \in Seq(Nat) /\ sent \in Seq(Nat)
  /\ fromSeq <= Len(appended) + 1 /\ lastSeq <= Len(appended) /\ upTo <= Len(appended)
  /\ \A k \in DOMAIN feed : feed[k] <= Len(appended)
  /\ \A k \in DOMAIN sent : fromSeq <= sent[k] /\ sent[k] <= lastSeq
  /\ \A n \in todo : lastSeq < n /\ n <= Len(appended)
  /\ tailer \in {"off", "watching"} => lastSeq = 0 /\ sent = <<>>
  /\ tailer = "off" => fromSeq = 1
  /\ tailer \notin {"off", "watching"} => fromSeq <= lastSeq + 1
  /\ tailer \notin {"replaying", "filling", "reconciling"} => todo = {}
  /\ tailer \in {"gap", "filling"} => upTo > lastSeq /\ \A n \in todo : n < upTo

TailInv == TailTypeOK /\ TailAt /\ TailOrdered

(* What was read and not sent is all that is readable up to there, up to   *)
(* the entry that showed the gap, up to the LastSeq that will be adopted.  *)
TailReads ==
  /\ \A n \in todo : \A i \in (lastSeq + 1)..n : appended[i] => i \in todo
  /\ tailer = "filling" => \A i \in (lastSeq + 1)..(upTo - 1) : appended[i] => i \in todo
  /\ tailer = "reconciling" => \A i \in (lastSeq + 1)..upTo : appended[i] => i \in todo

TailFull == TailInv /\ TailReads /\ TailComplete

LEMMA TailStarts == ASSUME TailInit PROVE TailFull
<1> USE TailAssumption
<1>1. PICK n \in {0, 1} : appended \in [1..n -> {TRUE}]
  BY DEF TailInit
<1>2. appended \in Seq(BOOLEAN) /\ Len(appended) = n /\ appended \in [1..n -> BOOLEAN]
  <2>0. \A i \in 1..n : appended[i] \in {TRUE}
    BY <1>1, Zenon
  <2>1. \A i \in 1..n : appended[i] \in BOOLEAN
    BY <2>0, Zenon
  <2>2. appended \in [1..n -> BOOLEAN]
    BY <1>1, <2>1, Zenon
  <2>3. n \in Nat
    OBVIOUS
  <2> QED
    BY <2>2, <2>3
<1>3. TailTypeOK
  BY <1>1, <1>2 DEF TailInit, TailTypeOK
<1> QED
  BY <1>2, <1>3 DEF TailFull, TailInit, TailInv, TailAt, TailOrdered, TailReads, TailComplete

(* One entry is appended and offered to the watcher. *)
LEMMA Tail_Appended == ASSUME TailInv, EntryAppended PROVE TailInv'
<1> USE TailAssumption
<1> DEFINE L == Len(appended)
<1>1. PICK r \in BOOLEAN : appended' = Append(appended, r)
  BY DEF EntryAppended
<1>2. appended \in Seq(BOOLEAN) /\ L \in Nat /\ L < MaxAppends
  BY DEF TailInv, TailAt, EntryAppended
<1>3. appended' \in Seq(BOOLEAN) /\ Len(appended') = L + 1
  BY <1>1, <1>2
<1>4. feed' \in Seq(Nat) /\ Len(feed') <= FeedRoom /\ \A k \in DOMAIN feed' : feed'[k] <= L + 1
  <2>1. feed \in Seq(Nat) /\ Len(feed) <= FeedRoom /\ \A k \in DOMAIN feed : feed[k] <= L
    BY DEF TailInv, TailAt, TailTypeOK
  <2>2. CASE feed' = feed
    BY <2>1, <2>2, <1>2
  <2>3. CASE feed' = Append(feed, L + 1) /\ Len(feed) < FeedRoom
    BY <2>1, <2>3, <1>2
  <2> QED
    BY <2>2, <2>3 DEF EntryAppended
<1>5. appended' \in [1..(L + 1) -> BOOLEAN] /\ L + 1 \in 0..MaxAppends
  BY <1>2, <1>3
<1>6. TailTypeOK'
  BY <1>4, <1>5 DEF EntryAppended, TailInv, TailTypeOK
<1> HIDE DEF L
<1>7. TailAt'
  BY <1>2, <1>3, <1>4 DEF EntryAppended, TailInv, TailAt, TailTypeOK, L
<1> QED
  BY <1>6, <1>7 DEF EntryAppended, TailInv, TailOrdered

LEMMA Tail_Subscribes == ASSUME TailInv, TailSubscribes PROVE TailInv'
<1> USE TailAssumption
<1>1. TailTypeOK'
  BY DEF TailInv, TailTypeOK, TailAt, TailSubscribes
<1>2. TailAt'
  BY DEF TailInv, TailTypeOK, TailAt, TailSubscribes
<1> QED
  BY <1>1, <1>2 DEF TailInv, TailAt, TailOrdered, TailSubscribes

LEMMA Tail_Replays == ASSUME TailInv, TailReplays PROVE TailInv'
<1> USE TailAssumption
<1>1. TailTypeOK'
  BY DEF TailInv, TailTypeOK, TailAt, TailReplays, Log
<1>2. TailAt'
  BY DEF TailInv, TailTypeOK, TailAt, TailReplays, Log
<1> QED
  BY <1>1, <1>2 DEF TailInv, TailAt, TailOrdered, TailReplays

(* A sequence number beyond the position is sent. *)
LEMMA Tail_One ==
  ASSUME TailInv, NEW n \in Nat, Sends(n), n > lastSeq, n <= Len(appended), fromSeq' = fromSeq,
         fromSeq <= lastSeq + 1
  PROVE  /\ sent' \in Seq(Nat) /\ TailOrdered' /\ lastSeq' \in 0..MaxAppends
         /\ \A k \in DOMAIN sent' : fromSeq <= sent'[k] /\ sent'[k] <= lastSeq'
         /\ \A k \in DOMAIN sent : k \in DOMAIN sent' /\ sent'[k] = sent[k]
         /\ Len(sent) + 1 \in DOMAIN sent' /\ sent'[Len(sent) + 1] = n
<1> USE TailAssumption
<1>1. sent \in Seq(Nat) /\ Len(appended) <= MaxAppends /\ fromSeq \in Nat /\ lastSeq \in Nat
  BY DEF TailInv, TailAt, TailTypeOK
<1>2. \A k \in DOMAIN sent : fromSeq <= sent[k] /\ sent[k] <= lastSeq
  BY DEF TailInv, TailAt
<1>3. sent' = Append(sent, n) /\ lastSeq' = n
  BY DEF Sends
<1>4. \A i, j \in DOMAIN sent : i < j => sent[i] < sent[j]
  BY DEF TailInv, TailOrdered
<1> QED
  BY <1>1, <1>2, <1>3, <1>4, SMTT(30) DEF TailOrdered

LEMMA Tail_Sends == ASSUME TailInv, TailSends PROVE TailInv'
<1> USE TailAssumption
<1>1. /\ appended \in Seq(BOOLEAN) /\ Len(appended) <= MaxAppends /\ lastSeq \in Nat /\ fromSeq \in Nat
      /\ upTo \in Nat /\ todo \subseteq Nat /\ fromSeq <= lastSeq + 1 /\ upTo <= Len(appended)
      /\ lastSeq <= Len(appended) /\ Len(appended) \in Nat
  BY SMTT(30) DEF TailInv, TailAt, TailTypeOK, TailSends
<1>2. CASE todo # {}
  <2>1. PICK n \in todo : /\ \A m \in todo : n <= m
                          /\ Sends(n) /\ todo' = todo \ {n} /\ UNCHANGED tailer
    BY <1>2 DEF TailSends
  <2>2. n \in Nat /\ n > lastSeq /\ n <= Len(appended)
    BY <1>1, <2>1 DEF TailInv, TailAt
  <2>3. UNCHANGED <<appended, feed, fromSeq, upTo>> /\ lastSeq' = n
    BY <2>1 DEF TailSends, Sends
  <2>4. /\ sent' \in Seq(Nat) /\ TailOrdered' /\ lastSeq' \in 0..MaxAppends
        /\ \A k \in DOMAIN sent' : fromSeq <= sent'[k] /\ sent'[k] <= lastSeq'
    BY Tail_One, <2>1, <2>2, <2>3, <1>1
  <2>5. \A m \in todo' : n < m
    BY <2>1, <1>1
  <2>6. tailer' \notin {"off", "watching", "gap"}
    BY <2>1 DEF TailSends
  <2>7. TailTypeOK'
    BY <2>1, <2>3, <2>4, <2>6 DEF TailInv, TailTypeOK, TailSends
  <2>8. TailAt'
    BY <2>1, <2>2, <2>3, <2>4, <2>5, <2>6, <1>1, SMTT(30) DEF TailInv, TailAt, TailSends
  <2> QED
    BY <2>4, <2>7, <2>8 DEF TailInv
<1>3. CASE todo = {} /\ tailer = "filling"
  <2>1. Sends(upTo) /\ todo' = {} /\ tailer' = "waiting" /\ UNCHANGED <<appended, feed, fromSeq, upTo>>
        /\ lastSeq' = upTo /\ upTo > lastSeq
    BY <1>3 DEF TailSends, Sends, TailInv, TailAt
  <2>4. /\ sent' \in Seq(Nat) /\ TailOrdered' /\ lastSeq' \in 0..MaxAppends
        /\ \A k \in DOMAIN sent' : fromSeq <= sent'[k] /\ sent'[k] <= lastSeq'
    BY Tail_One, <2>1, <1>1
  <2>7. TailTypeOK'
    BY <2>1, <2>4 DEF TailInv, TailTypeOK
  <2>8. TailAt'
    BY <2>1, <2>4, <1>1 DEF TailInv, TailAt
  <2> QED
    BY <2>4, <2>7, <2>8 DEF TailInv
<1>4. CASE todo = {} /\ tailer # "filling"
  <2>1. /\ todo' = {} /\ tailer' = "waiting" /\ UNCHANGED <<appended, feed, fromSeq, upTo, sent>>
        /\ lastSeq' \in {lastSeq, upTo} /\ lastSeq <= lastSeq'
    <3>1. CASE tailer = "reconciling"
      BY <1>1, <1>4, <3>1 DEF TailSends, Adopts
    <3>2. CASE tailer # "reconciling"
      BY <1>1, <1>4, <3>2 DEF TailSends
    <3> QED
      BY <3>1, <3>2
  <2>7. TailTypeOK'
    BY <2>1, <1>1 DEF TailInv, TailTypeOK
  <2>8. TailAt'
    <3>1. \A k \in DOMAIN sent : fromSeq <= sent[k] /\ sent[k] <= lastSeq /\ sent[k] \in Nat
      BY DEF TailInv, TailAt
    <3>2. \A k \in DOMAIN sent' : fromSeq' <= sent'[k] /\ sent'[k] <= lastSeq'
      BY <2>1, <1>1, <3>1
    <3>3. /\ lastSeq' \in Nat /\ lastSeq' <= Len(appended') /\ fromSeq' <= lastSeq' + 1
          /\ appended' \in Seq(BOOLEAN) /\ feed' \in Seq(Nat) /\ sent' \in Seq(Nat)
          /\ fromSeq' <= Len(appended') + 1 /\ upTo' <= Len(appended')
      <4>1. feed \in Seq(Nat) /\ sent \in Seq(Nat) /\ fromSeq <= Len(appended) + 1
        BY DEF TailInv, TailAt
      <4>2. lastSeq' \in Nat /\ lastSeq' <= Len(appended) /\ fromSeq <= lastSeq' + 1
        <5>1. lastSeq' = lastSeq \/ (lastSeq' = upTo /\ lastSeq <= upTo)
          BY <2>1
        <5> QED
          BY <5>1, <1>1
      <4> QED
        BY <4>1, <4>2, <2>1, <1>1
    <3>4. \A k \in DOMAIN feed' : feed'[k] <= Len(appended')
      BY <2>1 DEF TailInv, TailAt
    <3> QED
      BY <2>1, <3>2, <3>3, <3>4 DEF TailAt
  <2>9. TailOrdered'
    BY <2>1 DEF TailInv, TailOrdered
  <2> QED
    BY <2>9, <2>7, <2>8 DEF TailInv
<1> QED
  BY <1>2, <1>3, <1>4

LEMMA Tail_TakesLive == ASSUME TailInv, TailTakesLive PROVE TailInv'
<1> USE TailAssumption
<1> DEFINE n == Head(feed)
<1>1. /\ appended \in Seq(BOOLEAN) /\ Len(appended) <= MaxAppends /\ lastSeq \in Nat /\ fromSeq \in Nat
      /\ fromSeq <= lastSeq + 1 /\ Len(appended) \in Nat /\ todo = {}
      /\ feed \in Seq(Nat) /\ feed # <<>> /\ \A k \in DOMAIN feed : feed[k] <= Len(appended)
  BY DEF TailInv, TailAt, TailTypeOK, TailTakesLive
<1>2. n \in Nat /\ n <= Len(appended)
  BY <1>1
<1>3. feed' \in Seq(Nat) /\ Len(feed') <= Len(feed) /\ \A k \in DOMAIN feed' : feed'[k] <= Len(appended)
  BY <1>1, SMTT(30) DEF TailTakesLive
<1> HIDE DEF n
<1>4. CASE UNCHANGED <<tailer, lastSeq, upTo, sent>>
  BY <1>1, <1>3, <1>4 DEF TailInv, TailTypeOK, TailAt, TailOrdered, TailTakesLive
<1>5. CASE n > lastSeq + 1 /\ tailer' = "gap" /\ upTo' = n /\ UNCHANGED <<lastSeq, sent>>
  BY <1>1, <1>2, <1>3, <1>5, SMTT(30) DEF TailInv, TailTypeOK, TailAt, TailOrdered, TailTakesLive
<1>6. CASE n > lastSeq /\ Sends(n) /\ UNCHANGED <<tailer, upTo>>
  <2>3. UNCHANGED <<appended, fromSeq, todo>> /\ lastSeq' = n
    BY <1>6 DEF TailTakesLive, Sends
  <2>4. /\ sent' \in Seq(Nat) /\ TailOrdered' /\ lastSeq' \in 0..MaxAppends
        /\ \A k \in DOMAIN sent' : fromSeq <= sent'[k] /\ sent'[k] <= lastSeq'
    BY Tail_One, <1>6, <1>2, <1>1, <2>3
  <2>7. TailTypeOK'
    BY <1>1, <1>3, <1>6, <2>3, <2>4 DEF TailInv, TailTypeOK
  <2>8. TailAt'
    BY <1>1, <1>2, <1>3, <1>6, <2>3, <2>4 DEF TailInv, TailAt, TailTakesLive
  <2> QED
    BY <2>4, <2>7, <2>8 DEF TailInv
<1> QED
  BY <1>4, <1>5, <1>6, <1>1, <1>2 DEF TailTakesLive, Stale, n

LEMMA Tail_FillsGap == ASSUME TailInv, TailFillsGap PROVE TailInv'
<1> USE TailAssumption
<1>1. /\ todo' \subseteq 1..MaxAppends
      /\ \A m \in todo' : lastSeq < m /\ m < upTo /\ m <= Len(appended)
  BY DEF TailInv, TailAt, TailTypeOK, TailFillsGap, Missing, Log
<1>2. TailTypeOK'
  BY <1>1 DEF TailInv, TailTypeOK, TailFillsGap
<1>3. TailAt'
  BY <1>1 DEF TailInv, TailAt, TailFillsGap
<1> QED
  BY <1>2, <1>3 DEF TailInv, TailOrdered, TailFillsGap

LEMMA Tail_Ticks == ASSUME TailInv, TailTicks PROVE TailInv'
<1> USE TailAssumption
<1>1. TailTypeOK'
  BY DEF TailInv, TailTypeOK, TailAt, TailTicks
<1>2. TailAt'
  BY DEF TailInv, TailTypeOK, TailAt, TailTicks
<1> QED
  BY <1>1, <1>2 DEF TailInv, TailAt, TailOrdered, TailTicks

LEMMA Tail_Reconciles == ASSUME TailInv, TailReconciles PROVE TailInv'
<1> USE TailAssumption
<1>1. /\ todo' \subseteq 1..MaxAppends
      /\ \A m \in todo' : lastSeq < m /\ m <= Len(appended)
      /\ tailer' = "reconciling" \/ (tailer' = "waiting" /\ todo' = {})
  BY DEF TailInv, TailAt, TailTypeOK, TailReconciles, Log
<1>2. TailTypeOK'
  BY <1>1 DEF TailInv, TailTypeOK, TailReconciles
<1>3. TailAt'
  BY <1>1 DEF TailInv, TailAt, TailReconciles
<1> QED
  BY <1>2, <1>3 DEF TailInv, TailOrdered, TailReconciles

LEMMA TailStep == ASSUME TailInv, [TailNext]_tailVars PROVE TailInv'
<1>1. CASE UNCHANGED tailVars
  BY <1>1 DEF TailInv, TailTypeOK, TailAt, TailOrdered, tailVars
<1> QED
  BY <1>1, Tail_Appended, Tail_Subscribes, Tail_Replays, Tail_Sends, Tail_TakesLive, Tail_FillsGap,
     Tail_Ticks, Tail_Reconciles DEF TailNext, TailRuns

-----------------------------------------------------------------------------
(* Nothing readable is passed over, when no read fails.                    *)

LEMMA TailReads_Appended == ASSUME TailFull, EntryAppended PROVE TailReads' /\ TailComplete'
<1> USE TailAssumption
<1>1. PICK r \in BOOLEAN : appended' = Append(appended, r)
  BY DEF EntryAppended
<1>2. appended \in Seq(BOOLEAN) /\ \A i \in 1..Len(appended) : appended'[i] = appended[i]
  BY <1>1 DEF TailFull, TailInv, TailAt
<1>3. /\ lastSeq <= Len(appended) /\ upTo <= Len(appended) /\ lastSeq \in Nat /\ upTo \in Nat
      /\ \A n \in todo : n \in Nat /\ n <= Len(appended)
      /\ fromSeq \in Nat \ {0} /\ Len(appended) \in Nat
  BY DEF TailFull, TailInv, TailAt, TailTypeOK
<1>4. UNCHANGED <<tailer, fromSeq, lastSeq, todo, upTo, sent>>
  BY DEF EntryAppended
<1>5. TailReads'
  BY <1>2, <1>3, <1>4 DEF TailFull, TailReads
<1>6. TailComplete'
  BY <1>2, <1>3, <1>4 DEF TailFull, TailComplete
<1> QED
  BY <1>5, <1>6

LEMMA TailReads_Sends == ASSUME TailFull, TailSends PROVE TailReads' /\ TailComplete'
<1> USE TailAssumption
<1>1. /\ appended \in Seq(BOOLEAN) /\ Len(appended) <= MaxAppends /\ lastSeq \in Nat /\ fromSeq \in Nat
      /\ upTo \in Nat /\ todo \subseteq Nat /\ fromSeq <= lastSeq + 1 /\ upTo <= Len(appended)
      /\ lastSeq <= Len(appended) /\ Len(appended) \in Nat /\ tailer # "off"
      /\ TailInv /\ UNCHANGED <<appended, feed, fromSeq, upTo>>
  <2>1. /\ TailInv /\ appended \in Seq(BOOLEAN) /\ Len(appended) \in Nat
        /\ upTo <= Len(appended) /\ lastSeq <= Len(appended)
        /\ (tailer \notin {"off", "watching"} => fromSeq <= lastSeq + 1)
    BY DEF TailFull, TailInv, TailAt
  <2>2. Len(appended) <= MaxAppends /\ lastSeq \in Nat /\ fromSeq \in Nat /\ upTo \in Nat /\ todo \subseteq Nat
    <3>1. \E n \in 0..MaxAppends : appended \in [1..n -> BOOLEAN]
      BY <2>1 DEF TailInv, TailTypeOK
    <3>2. Len(appended) \in 0..MaxAppends
      BY <2>1, <3>1
    <3>3. lastSeq \in 0..MaxAppends /\ fromSeq \in 1..(MaxAppends + 1) /\ upTo \in 0..MaxAppends
          /\ todo \subseteq 1..MaxAppends
      BY <2>1 DEF TailInv, TailTypeOK
    <3> QED
      BY <3>2, <3>3
  <2>3. tailer \notin {"off", "watching"} /\ UNCHANGED <<appended, feed, fromSeq, upTo>>
    BY DEF TailSends
  <2> QED
    BY <2>1, <2>2, <2>3
<1>2. CASE todo # {}
  <2>1. PICK n \in todo : /\ \A m \in todo : n <= m
                          /\ Sends(n) /\ todo' = todo \ {n} /\ UNCHANGED tailer
    BY <1>2 DEF TailSends
  <2>2. n \in Nat /\ n > lastSeq /\ n <= Len(appended) /\ lastSeq' = n
    BY <1>1, <2>1 DEF TailInv, TailAt, Sends
  <2>4. /\ \A k \in DOMAIN sent : k \in DOMAIN sent' /\ sent'[k] = sent[k]
        /\ Len(sent) + 1 \in DOMAIN sent' /\ sent'[Len(sent) + 1] = n
    BY Tail_One, <2>1, <2>2, <1>1
  <2>5. \A i \in (lastSeq + 1)..n : appended[i] => i = n
    BY <2>1, <2>2, <1>1 DEF TailFull, TailReads
  <2>6. TailComplete'
    <3> SUFFICES ASSUME NEW i \in fromSeq..n, appended[i]
                 PROVE  \E k \in DOMAIN sent' : sent'[k] = i
      BY <1>1, <2>2 DEF TailComplete
    <3>1. CASE i <= lastSeq
      BY <1>1, <2>4, <3>1 DEF TailFull, TailComplete
    <3>2. CASE i > lastSeq
      BY <1>1, <2>2, <2>4, <2>5, <3>2
    <3> QED
      BY <1>1, <3>1, <3>2
  <2>7. TailReads'
    BY <2>1, <2>2, <1>1 DEF TailFull, TailReads
  <2> QED
    BY <2>6, <2>7
<1>3. CASE todo = {} /\ tailer = "filling"
  <2>1. Sends(upTo) /\ todo' = {} /\ tailer' = "waiting" /\ lastSeq' = upTo /\ upTo > lastSeq
    BY <1>3 DEF TailSends, Sends, TailFull, TailInv, TailAt
  <2>4. /\ \A k \in DOMAIN sent : k \in DOMAIN sent' /\ sent'[k] = sent[k]
        /\ Len(sent) + 1 \in DOMAIN sent' /\ sent'[Len(sent) + 1] = upTo
    BY Tail_One, <2>1, <1>1
  <2>5. \A i \in (lastSeq + 1)..(upTo - 1) : ~appended[i]
    BY <1>3 DEF TailFull, TailReads
  <2>6. TailComplete'
    <3> SUFFICES ASSUME NEW i \in fromSeq..upTo, appended[i]
                 PROVE  \E k \in DOMAIN sent' : sent'[k] = i
      BY <1>1, <2>1 DEF TailComplete
    <3>1. CASE i <= lastSeq
      BY <1>1, <2>4, <3>1 DEF TailFull, TailComplete
    <3>2. CASE i > lastSeq
      BY <1>1, <2>1, <2>4, <2>5, <3>2
    <3> QED
      BY <1>1, <3>1, <3>2
  <2>7. TailReads'
    BY <2>1 DEF TailReads
  <2> QED
    BY <2>6, <2>7
<1>4. CASE todo = {} /\ tailer # "filling"
  <2>1. /\ todo' = {} /\ tailer' = "waiting" /\ UNCHANGED sent
        /\ \/ lastSeq' = lastSeq
           \/ lastSeq' = upTo /\ upTo > lastSeq /\ tailer = "reconciling"
    <3>1. CASE tailer = "reconciling"
      BY <1>1, <1>4, <3>1 DEF TailSends, Adopts
    <3>2. CASE tailer # "reconciling"
      BY <1>1, <1>4, <3>2 DEF TailSends
    <3> QED
      BY <3>1, <3>2
  <2>2. tailer = "reconciling" => \A i \in (lastSeq + 1)..upTo : ~appended[i]
    BY <1>4 DEF TailFull, TailReads
  <2>6. TailComplete'
    BY <2>1, <2>2, <1>1 DEF TailFull, TailComplete
  <2>7. TailReads'
    BY <2>1 DEF TailReads
  <2> QED
    BY <2>6, <2>7
<1> QED
  BY <1>2, <1>3, <1>4

LEMMA TailReads_TakesLive == ASSUME TailFull, TailTakesLive PROVE TailReads' /\ TailComplete'
<1> USE TailAssumption
<1> DEFINE n == Head(feed)
<1>1. /\ appended \in Seq(BOOLEAN) /\ lastSeq \in Nat /\ fromSeq \in Nat
      /\ fromSeq <= lastSeq + 1 /\ Len(appended) \in Nat /\ todo = {} /\ TailInv
      /\ feed \in Seq(Nat) /\ feed # <<>> /\ \A k \in DOMAIN feed : feed[k] <= Len(appended)
      /\ UNCHANGED <<appended, fromSeq, todo>> /\ tailer = "waiting"
  <2>1. TailInv /\ UNCHANGED <<appended, fromSeq, todo>> /\ tailer = "waiting" /\ feed # <<>>
    BY DEF TailFull, TailTakesLive
  <2> QED
    BY <2>1, SMTT(30) DEF TailInv, TailAt, TailTypeOK
<1>2. n \in Nat /\ n <= Len(appended)
  BY <1>1
<1> HIDE DEF n
<1>3. TailReads'
  BY <1>1 DEF TailTakesLive, TailReads
<1>4. CASE UNCHANGED <<lastSeq, sent>>
  <2>1. \A i \in fromSeq..lastSeq : appended[i] => \E k \in DOMAIN sent : sent[k] = i
    BY <1>1 DEF TailFull, TailComplete
  <2>2. TailComplete'
    BY <1>1, <1>4, <2>1 DEF TailComplete
  <2> QED
    BY <1>3, <2>2
<1>6. CASE n = lastSeq + 1 /\ Sends(n) /\ UNCHANGED tailer
  <2>4. /\ \A k \in DOMAIN sent : k \in DOMAIN sent' /\ sent'[k] = sent[k]
        /\ Len(sent) + 1 \in DOMAIN sent' /\ sent'[Len(sent) + 1] = n
    BY Tail_One, <1>6, <1>2, <1>1
  <2>5. TailComplete'
    <3> SUFFICES ASSUME NEW i \in fromSeq..n, appended[i]
                 PROVE  \E k \in DOMAIN sent' : sent'[k] = i
      BY <1>1, <1>6 DEF TailComplete, Sends
    <3>1. CASE i <= lastSeq
      BY <1>1, <2>4, <3>1 DEF TailFull, TailComplete
    <3>2. CASE i > lastSeq
      BY <1>1, <1>2, <2>4, <1>6, <3>2
    <3> QED
      BY <1>1, <3>1, <3>2
  <2> QED
    BY <1>3, <2>5
<1> QED
  BY <1>3, <1>4, <1>6, <1>1, <1>2 DEF TailTakesLive, Stale, n

LEMMA TailReads_Rest ==
  ASSUME TailFull, ~ReadsFail,
         TailSubscribes \/ TailReplays \/ TailFillsGap \/ TailTicks \/ TailReconciles
  PROVE  TailReads' /\ TailComplete'
<1> USE TailAssumption
<1>1. /\ appended \in Seq(BOOLEAN) /\ lastSeq \in Nat /\ fromSeq \in Nat \ {0} /\ upTo \in Nat
      /\ lastSeq <= Len(appended) /\ Len(appended) \in Nat /\ todo \subseteq Nat
      /\ \A m \in todo : lastSeq < m /\ m <= Len(appended)
  BY DEF TailFull, TailInv, TailAt, TailTypeOK
<1>2. CASE TailSubscribes
  BY <1>1, <1>2 DEF TailFull, TailInv, TailAt, TailReads, TailComplete, TailSubscribes
<1>3. CASE TailReplays
  <2>1. TailReads'
    BY <1>1, <1>3 DEF TailReads, TailReplays, Log
  <2>2. TailComplete'
    BY <1>1, <1>3 DEF TailComplete, TailReplays
  <2> QED
    BY <2>1, <2>2
<1>4. CASE TailFillsGap
  <2>0. upTo <= Len(appended)
    BY DEF TailFull, TailInv, TailAt
  <2>1. TailReads'
    BY <1>1, <1>4, <2>0 DEF TailReads, TailFillsGap, Missing, Log
  <2>2. TailComplete'
    BY <1>1, <1>4 DEF TailFull, TailComplete, TailFillsGap
  <2> QED
    BY <2>1, <2>2
<1>5. CASE TailTicks
  BY <1>1, <1>5 DEF TailFull, TailInv, TailAt, TailReads, TailComplete, TailTicks
<1>6. CASE TailReconciles
  <2>0. upTo <= Len(appended)
    BY DEF TailFull, TailInv, TailAt
  <2>1. TailReads'
    BY <1>1, <1>6, <2>0 DEF TailReads, TailReconciles, Log
  <2>2. TailComplete'
    BY <1>1, <1>6 DEF TailFull, TailComplete, TailReconciles
  <2> QED
    BY <2>1, <2>2
<1> QED
  BY <1>2, <1>3, <1>4, <1>5, <1>6

LEMMA TailFullStep == ASSUME TailFull, ~ReadsFail, [TailNext]_tailVars PROVE TailFull'
<1>1. TailInv'
  BY TailStep DEF TailFull
<1>2. CASE UNCHANGED tailVars
  BY <1>1, <1>2 DEF TailFull, TailReads, TailComplete, tailVars
<1> QED
  BY <1>1, <1>2, TailReads_Appended, TailReads_Sends, TailReads_TakesLive, TailReads_Rest
     DEF TailFull, TailNext, TailRuns

-----------------------------------------------------------------------------
(* The components together: at most one moves.                             *)
LEMMA ServerMove ==
  ASSUME [ServerNext]_serverVars
  PROVE  /\ UNCHANGED part
         /\ Active("runs") => [RunsNext]_runsVars
         /\ Active("steps") => [StepsNext]_stepsVars
         /\ Active("specs") => [SpecsNext]_specsVars
         /\ Active("targets") => [TgtNext]_tgtVars
         /\ Active("ws") => [WsNext]_wsVars
         /\ Active("tail") => [TailNext]_tailVars
<1>1. CASE ServerNext
  BY <1>1 DEF ServerNext, Alone, Active
<1>2. CASE UNCHANGED serverVars
  BY <1>2 DEF serverVars
<1> QED
  BY <1>1, <1>2

-----------------------------------------------------------------------------
(* Every component keeps its types, whatever the margins and whether or    *)
(* not the log can be read: no run, request, connection or tail stands     *)
(* where its code has no line, no slot is taken beyond maxConcurrentRuns   *)
(* or bootWaitSlots, and no queue holds more than its channel.             *)
THEOREM ServerTypes == ServerSpec => []ServerTypeOK
<1> DEFINE Inv == /\ Active("runs") => RunsInv
                  /\ Active("steps") => StepsInv
                  /\ Active("specs") => SpecsInv
                  /\ Active("targets") => TgtInv
                  /\ Active("ws") => WsInv
                  /\ Active("tail") => TailInv
<1>1. ServerInit => Inv
  BY RunsStarts, StepsStarts, SpecsStarts, TgtStarts, WsStarts, TailStarts DEF ServerInit, TailFull
<1>2. Inv /\ [ServerNext]_serverVars => Inv'
  BY ServerMove, RunsStep, StepsStep, SpecsStep, TgtStep, WsStep, TailStep DEF Active
<1>3. Inv => ServerTypeOK
  BY DEF ServerTypeOK, RunsInv, StepsInv, SpecsInv, TgtInv, WsInv, TailInv
<1> QED
  BY <1>1, <1>2, <1>3, PTL DEF ServerSpec

(* With any number of jobs, slots and retained runs, and a cancellation or *)
(* a failure at any point: the end of a run is published only after its    *)
(* lease is free and its export attached, and the slots in use are exactly *)
(* the runs admitted and not finished; also when the final screenshot      *)
(* takes longer than the margin of the lease (executeRun, release,         *)
(* runStore).                                                              *)
THEOREM RunsReleaseFirst ==
  ServerSpec => [](Active("runs") => RunsReleasedFirst /\ RunsSlots)
<1> DEFINE Inv == Active("runs") => RunsInv
<1>1. ServerInit => Inv
  BY RunsStarts DEF ServerInit
<1>2. Inv /\ [ServerNext]_serverVars => Inv'
  BY ServerMove, RunsStep DEF Active
<1>3. Inv => (Active("runs") => RunsReleasedFirst /\ RunsSlots)
  BY Runs_Released DEF RunsInv
<1> QED
  BY <1>1, <1>2, <1>3, PTL DEF ServerSpec

(* When the margin covers the final screenshot, the lease of a run also    *)
(* outlives its stages; for any number of steps no step runs after the one *)
(* that stopped the run, and a trusted verdict has evidence behind it; and *)
(* for any number of journal entries an exported specification is a prefix *)
(* of what happened, each expectation with its own step (executeRun,       *)
(* runSteps, ExportRunSpec).                                               *)
THEOREM RunsAreSound ==
  ASSUME stepSeconds < runLeaseTTLMargin
  PROVE  ServerSpec => []RunsSound
<1> DEFINE Inv == /\ Active("runs") => RunsInv /\ RunsLeased
                  /\ Active("steps") => StepsInv
                  /\ Active("specs") => SpecsInv
<1>1. ServerInit => Inv
  BY RunsStarts, StepsStarts, SpecsStarts DEF ServerInit
<1>2. Inv /\ [ServerNext]_serverVars => Inv'
  BY ServerMove, RunsStep, StepsStep, SpecsStep DEF Active
<1>3. Inv => RunsSound
  BY Runs_Safe, Steps_Trusted DEF RunsSound, StepsSafe, SpecsSafe, StepsInv, SpecsInv
<1> QED
  BY <1>1, <1>2, <1>3, PTL DEF ServerSpec

(* For any number of leases, requests and waiter slots, with leases, gates *)
(* and power changing at every step: each way out of a boot wait gives     *)
(* back exactly the slot and the mark it took, a request whose lease is    *)
(* over touches the target at most once more, and a refusal blames a       *)
(* shutdown only if that left the simulator down (bootTargetWait,          *)
(* dispatchActionBatch, lastShutdown).                                     *)
THEOREM TargetsAreSound == ServerSpec => []TargetsSound
<1> DEFINE Inv == Active("targets") => TgtInv
<1>1. ServerInit => Inv
  BY TgtStarts DEF ServerInit
<1>2. Inv /\ [ServerNext]_serverVars => Inv'
  BY ServerMove, TgtStep DEF Active
<1>3. Inv => TargetsSound
  BY Tgt_Safe DEF TargetsSound
<1> QED
  BY <1>1, <1>2, <1>3, PTL DEF ServerSpec

(* A tail sends in order and nothing twice, also when reads of the log     *)
(* fail and the feed drops entries (startJournalTail).                     *)
THEOREM TailsInOrder == ServerSpec => [](Active("tail") => TailOrdered)
<1> DEFINE Inv == Active("tail") => TailInv
<1>1. ServerInit => Inv
  BY TailStarts DEF ServerInit, TailFull
<1>2. Inv /\ [ServerNext]_serverVars => Inv'
  BY ServerMove, TailStep DEF Active
<1>3. Inv => (Active("tail") => TailOrdered)
  BY DEF TailInv
<1> QED
  BY <1>1, <1>2, <1>3, PTL DEF ServerSpec

(* For any length of its queues and any number of requests, a connection   *)
(* never sends on its closed queue, starts its actions in the order they   *)
(* arrived and answers each request it read once; and when the log can be  *)
(* read, a tail has sent every readable entry up to its position, although *)
(* its feed drops what it cannot hold (handleWS, startJournalTail).        *)
THEOREM FeedsAreSound ==
  ASSUME ~ ReadsFail
  PROVE  ServerSpec => []FeedsSound
<1> DEFINE Inv == /\ Active("ws") => WsInv
                  /\ Active("tail") => TailFull
<1>1. ServerInit => Inv
  BY WsStarts, TailStarts DEF ServerInit
<1>2. Inv /\ [ServerNext]_serverVars => Inv'
  BY ServerMove, WsStep, TailFullStep DEF Active
<1>3. Inv => FeedsSound
  BY Ws_Safe DEF FeedsSound, TailSafe, TailFull, TailInv
<1> QED
  BY <1>1, <1>2, <1>3, PTL DEF ServerSpec

=============================================================================
