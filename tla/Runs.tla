-------------------------------- MODULE Runs --------------------------------
(***************************************************************************)
(* The run engine (internal/server: runs.go, runs_store.go,                *)
(* handlers_runs.go): POST /v0/runs admits a run, a goroutine acquires a   *)
(* lease, goes through the stages, releases the lease and publishes the    *)
(* result, while the client waits, polls or leaves.  The lease manager is  *)
(* module Lease and appears here by what a run sees of its lease.  Time is *)
(* counted in units; the stages are bounded by the run's budget, the final *)
(* screenshot by a budget of its own.                                      *)
(***************************************************************************)
EXTENDS Naturals, Sequences, FiniteSets

CONSTANTS
  Job,                                 \* runs to be submitted, each once
  maxConcurrentRuns, maxFinishedRuns,
  runSeconds, stepSeconds, runLeaseTTLMargin

ASSUME RunsAssumption ==
  /\ maxConcurrentRuns \in Nat \ {0} /\ maxFinishedRuns \in Nat
  /\ runSeconds \in Nat \ {0} /\ stepSeconds \in Nat \ {0} /\ runLeaseTTLMargin \in Nat

VARIABLES
  run,        \* runHandle.run: state, stage, error, export attached
  pc,         \* where executeRun is
  grant,      \* the run's lease: none, queued, active, over, expired
  spent,      \* time since executeRun began
  held,       \* time since the lease was granted
  shooting,   \* time since the final screenshot began
  active,     \* runStore.active
  order,      \* the retained runs in order of creation
  submitter   \* the client of each run

runsVars == <<run, pc, grant, spent, held, shooting, active, order, submitter>>

Stages == {"boot", "prepare", "steps", "shot"}
LiveGrant == {"queued", "active"}
TTL_NoMargin == runSeconds
TTL == runSeconds + runLeaseTTLMargin
NoRunYet == [state |-> "none", stage |-> "", err |-> FALSE, export |-> FALSE]

RunsTypeOK ==
  /\ run \in [Job -> [state: {"none", "pending", "running", "passed", "failed"},
                      stage: {"", "acquire", "release"} \cup Stages,
                      err: BOOLEAN, export: BOOLEAN]]
  /\ pc \in [Job -> {"none", "start", "acquire", "waiting", "release", "abandon", "publish",
                     "finish", "done"} \cup Stages]
  /\ grant \in [Job -> {"none", "queued", "active", "over", "expired"}]
  /\ spent \in [Job -> 0..runSeconds] /\ held \in [Job -> 0..TTL]
  /\ shooting \in [Job -> 0..stepSeconds]
  /\ active \in 0..maxConcurrentRuns /\ order \in Seq(Job)
  /\ submitter \in [Job -> {"none", "sync", "async", "refused", "gone", "answered"}]

RunsInit ==
  /\ run = [j \in Job |-> NoRunYet] /\ pc = [j \in Job |-> "none"]
  /\ grant = [j \in Job |-> "none"]
  /\ spent = [j \in Job |-> 0] /\ held = [j \in Job |-> 0] /\ shooting = [j \in Job |-> 0]
  /\ active = 0 /\ order = <<>> /\ submitter = [j \in Job |-> "none"]

-----------------------------------------------------------------------------
(* handleRunCreate and runStore.create: the oldest finished runs beyond    *)
(* maxFinishedRuns are dropped.                                            *)
Finished(s) == {i \in DOMAIN s : pc[s[i]] = "done"}
Pruned(s) ==
  LET old(i) == Cardinality({k \in Finished(s) : k >= i}) > maxFinishedRuns
      keep == {i \in DOMAIN s : i \notin Finished(s) \/ ~ old(i)}
      at(n) == CHOOSE i \in keep : Cardinality({k \in keep : k <= i}) = n
  IN [n \in 1..Cardinality(keep) |-> s[at(n)]]
Room_OneMore == active <= maxConcurrentRuns
Room == active < maxConcurrentRuns
CreateRun(j, mode) ==
  /\ submitter[j] = "none" /\ Room
  /\ active' = active + 1
  /\ run' = [run EXCEPT ![j] = [NoRunYet EXCEPT !.state = "pending"]]
  /\ order' = Pruned(Append(order, j))
  /\ pc' = [pc EXCEPT ![j] = "start"]
  /\ submitter' = [submitter EXCEPT ![j] = mode]
  /\ UNCHANGED <<grant, spent, held, shooting>>
RefuseSpec(j) ==        \* validateRunSpec (module RunSpecs)
  /\ submitter[j] = "none" /\ submitter' = [submitter EXCEPT ![j] = "refused"]
  /\ UNCHANGED <<run, pc, grant, spent, held, shooting, active, order>>
Overloaded(j) ==
  /\ submitter[j] = "none" /\ ~ Room
  /\ submitter' = [submitter EXCEPT ![j] = "refused"]
  /\ UNCHANGED <<run, pc, grant, spent, held, shooting, active, order>>
ClientLeaves(j) ==
  /\ submitter[j] = "sync" /\ submitter' = [submitter EXCEPT ![j] = "gone"]
  /\ UNCHANGED <<run, pc, grant, spent, held, shooting, active, order>>
ClientAnswered(j) ==    \* <-h.done
  /\ submitter[j] = "sync" /\ pc[j] = "done"
  /\ submitter' = [submitter EXCEPT ![j] = "answered"]
  /\ UNCHANGED <<run, pc, grant, spent, held, shooting, active, order>>

-----------------------------------------------------------------------------
(* executeRun. *)
Goto(j, where) == pc' = [pc EXCEPT ![j] = where]
Fails(j) == run' = [run EXCEPT ![j].err = TRUE]
StartRun(j) ==
  /\ pc[j] = "start" /\ Goto(j, "acquire")
  /\ run' = [run EXCEPT ![j].state = "running", ![j].stage = "acquire"]
  /\ UNCHANGED <<grant, spent, held, shooting, active, order, submitter>>

(* runAcquire: refused, granted, or queued and polled.                     *)
AcquireRefused(j) ==    \* no match, or a reset on a device: nothing is held
  /\ pc[j] = "acquire" /\ Goto(j, "publish") /\ Fails(j)
  /\ grant' \in {grant, [grant EXCEPT ![j] = "over"]}
  /\ UNCHANGED <<spent, held, shooting, active, order, submitter>>
AcquireLeased(j) ==
  /\ pc[j] = "acquire" /\ Goto(j, "boot")
  /\ grant' = [grant EXCEPT ![j] = "active"]
  /\ run' = [run EXCEPT ![j].stage = "boot"]
  /\ UNCHANGED <<spent, held, shooting, active, order, submitter>>
AcquireWaits(j) ==
  /\ pc[j] = "acquire" /\ Goto(j, "waiting")
  /\ grant' = [grant EXCEPT ![j] = "queued"]
  /\ UNCHANGED <<run, spent, held, shooting, active, order, submitter>>
WaitSeesGrant(j) ==
  /\ pc[j] = "waiting" /\ grant[j] = "active" /\ Goto(j, "boot")
  /\ run' = [run EXCEPT ![j].stage = "boot"]
  /\ UNCHANGED <<grant, spent, held, shooting, active, order, submitter>>
WaitSeesEnd(j) ==
  /\ pc[j] = "waiting" /\ grant[j] \notin LiveGrant /\ Goto(j, "publish") /\ Fails(j)
  /\ UNCHANGED <<grant, spent, held, shooting, active, order, submitter>>
WaitGivesUp_Never(j) == FALSE /\ UNCHANGED runsVars
WaitGivesUp(j) ==       \* the acquire timeout, or the run's budget
  /\ pc[j] = "waiting" /\ Goto(j, "abandon") /\ Fails(j)
  /\ UNCHANGED <<grant, spent, held, shooting, active, order, submitter>>
AbandonQueuedLease(j) ==
  /\ pc[j] = "abandon" /\ Goto(j, "publish")
  /\ grant' = [grant EXCEPT ![j] = IF @ \in LiveGrant THEN "over" ELSE @]
  /\ UNCHANGED <<run, spent, held, shooting, active, order, submitter>>

(* runStages: boot, then fixtures, install and launch, then the steps      *)
(* (module Steps), then the screenshot, which is taken whatever the steps  *)
(* came to.  A stage that fails, or outlives the budget, ends the stages;  *)
(* one with nothing to do looks at neither the lease nor the budget.       *)
NextStage == [boot |-> "prepare", prepare |-> "steps", steps |-> "shot", shot |-> "release"]
StageDone(j) ==
  /\ pc[j] \in Stages /\ Goto(j, NextStage[pc[j]])
  /\ run' = [run EXCEPT ![j].stage =
       IF run[j].err THEN @ ELSE NextStage[pc[j]]]
  /\ UNCHANGED <<grant, spent, held, shooting, active, order, submitter>>
StageFails(j) ==
  /\ pc[j] \in {"boot", "prepare"} /\ Goto(j, "release") /\ Fails(j)
  /\ UNCHANGED <<grant, spent, held, shooting, active, order, submitter>>
StepsFail(j) ==
  /\ pc[j] = "steps" /\ Goto(j, "shot") /\ Fails(j)
  /\ UNCHANGED <<grant, spent, held, shooting, active, order, submitter>>

(* runRelease: whatever became of the lease, the export is attached; then  *)
(* finishRun publishes and runStore.finish gives the slot back.  A panic   *)
(* in a stage takes the same way.                                          *)
RunRelease(j) ==
  /\ pc[j] = "release" /\ Goto(j, "publish")
  /\ grant' = [grant EXCEPT ![j] = IF @ \in LiveGrant THEN "over" ELSE @]
  /\ run' = [run EXCEPT ![j].stage = IF run[j].err THEN @ ELSE "release",
                        ![j].export = TRUE]
  /\ UNCHANGED <<spent, held, shooting, active, order, submitter>>
StagePanics_Unreleased(j) ==
  /\ pc[j] \in Stages /\ Goto(j, "publish") /\ Fails(j)
  /\ UNCHANGED <<grant, spent, held, shooting, active, order, submitter>>
StagePanics(j) ==
  /\ pc[j] \in Stages /\ Goto(j, "release") /\ Fails(j)
  /\ UNCHANGED <<grant, spent, held, shooting, active, order, submitter>>
FinishRun(j) ==
  /\ pc[j] = "publish" /\ Goto(j, "finish")
  /\ run' = [run EXCEPT ![j].state = IF run[j].err THEN "failed" ELSE "passed",
                        ![j].stage = IF run[j].err THEN @ ELSE "",
                        ![j].export = @ \/ (run[j].err /\ grant[j] # "none")]
  /\ UNCHANGED <<grant, spent, held, shooting, active, order, submitter>>
FinishJob_KeepsSlot(j) ==
  /\ pc[j] = "finish" /\ Goto(j, "done")
  /\ UNCHANGED <<run, grant, spent, held, shooting, active, order, submitter>>
FinishJob(j) ==
  /\ pc[j] = "finish" /\ Goto(j, "done") /\ active' = active - 1
  /\ UNCHANGED <<run, grant, spent, held, shooting, order, submitter>>

-----------------------------------------------------------------------------
(* The lease manager and time.  A stage gives up when its budget is spent, *)
(* so time does not pass beyond it; an active lease expires at its TTL.    *)
PromoteJob(j) ==
  /\ grant[j] = "queued" /\ grant' = [grant EXCEPT ![j] = "active"]
  /\ UNCHANGED <<run, pc, spent, held, shooting, active, order, submitter>>
EndedElsewhere(j) ==    \* DELETE /v0/leases by somebody else
  /\ grant[j] \in LiveGrant /\ grant' = [grant EXCEPT ![j] = "over"]
  /\ UNCHANGED <<run, pc, spent, held, shooting, active, order, submitter>>
Running(j) == pc[j] \in {"waiting", "boot", "prepare", "steps"}
TimePasses ==
  /\ \A j \in Job : /\ Running(j) => spent[j] < runSeconds
                    /\ pc[j] = "shot" => shooting[j] < stepSeconds
                    /\ pc[j] \in {"none", "waiting", "done"} \cup Stages
  /\ \E j \in Job : Running(j) \/ pc[j] = "shot"
  /\ spent' = [j \in Job |-> IF Running(j) THEN spent[j] + 1 ELSE spent[j]]
  /\ shooting' = [j \in Job |-> IF pc[j] = "shot" THEN shooting[j] + 1 ELSE shooting[j]]
  /\ held' = [j \in Job |-> IF grant[j] = "active" /\ held[j] < TTL THEN held[j] + 1
                            ELSE held[j]]
  /\ grant' = [j \in Job |-> IF grant[j] = "active" /\ held[j] + 1 >= TTL THEN "expired"
                             ELSE grant[j]]
  /\ UNCHANGED <<run, pc, active, order, submitter>>

RunStepOf(j) ==
  \/ StartRun(j) \/ AcquireRefused(j) \/ AcquireLeased(j) \/ AcquireWaits(j)
  \/ WaitSeesGrant(j) \/ WaitSeesEnd(j) \/ WaitGivesUp(j) \/ AbandonQueuedLease(j)
  \/ StageDone(j) \/ StageFails(j) \/ StepsFail(j) \/ StagePanics(j)
  \/ RunRelease(j) \/ FinishRun(j) \/ FinishJob(j)
RunsNext ==
  \/ TimePasses
  \/ \E j \in Job :
       \/ \E mode \in {"sync", "async"} : CreateRun(j, mode)
       \/ RefuseSpec(j) \/ Overloaded(j) \/ ClientLeaves(j) \/ ClientAnswered(j)
       \/ RunStepOf(j) \/ PromoteJob(j) \/ EndedElsewhere(j)
RunsSpec == RunsInit /\ [][RunsNext]_runsVars

(* executeRun's goroutine is scheduled and the deadlines of its contexts   *)
(* fire; nothing else is promised.                                         *)
RunsFairness ==
  /\ \A j \in Job : WF_runsVars(RunStepOf(j)) /\ WF_runsVars(ClientAnswered(j))
RunsFairSpec == RunsSpec /\ RunsFairness

-----------------------------------------------------------------------------
(* "The terminal state is only published once the lease is free and the    *)
(* evidence export is attached", whatever failed, panics of a backend in   *)
(* a stage included (executeRun, runRelease, abandonQueuedLease).          *)
RunsReleasedFirst ==
  \A j \in Job : run[j].state \in {"passed", "failed"} =>
    /\ grant[j] \notin LiveGrant
    /\ grant[j] # "none" => run[j].export

(* The slots in use are exactly the runs admitted and not finished, and    *)
(* none of those is pruned; no more than maxFinishedRuns finished ones are *)
(* kept besides those that finished since (runStore.create, finish).       *)
RunsSlots ==
  /\ active = Cardinality({j \in Job : pc[j] \notin {"none", "done"}})
  /\ \A j \in Job : pc[j] \notin {"none", "done"} => \E i \in DOMAIN order : order[i] = j

(* "A lease never expires mid-run": the TTL outlives every stage, the      *)
(* final screenshot included (runLeaseTTLMargin, runStages).               *)
RunsLeaseOutlives ==
  \A j \in Job : pc[j] \in Stages => grant[j] # "expired"

RunsSafe == RunsReleasedFirst /\ RunsSlots /\ RunsLeaseOutlives

(* A run that was admitted ends, and the client that waits for it is told  *)
(* (handleRunCreate, executeRun).                                          *)
RunsEnd ==
  \A j \in Job :
    /\ run[j].state = "pending" ~> pc[j] = "done"
    /\ submitter[j] = "sync" ~> submitter[j] # "sync"
=============================================================================
