------------------------------- MODULE Steps -------------------------------
(***************************************************************************)
(* The steps stage of a run (internal/server: runs.go's runStages loop,    *)
(* runs_drift.go): which steps are executed, what fails the run, the drift *)
(* check after a step and the verdict over the results.  A step and what   *)
(* comes of it are chosen together, one after the other, up to MaxSteps.   *)
(* The screen is abstract: the drift check passes, drifts, or cannot run.  *)
(***************************************************************************)
EXTENDS Naturals, Sequences, FiniteSets

CONSTANTS
  StrictDrift,   \* RunSpec.StrictDrift
  MaxSteps

ASSUME StepsAssumption == StrictDrift \in BOOLEAN /\ MaxSteps \in Nat

VARIABLES
  spec,       \* RunSpec.Steps so far: kind, continue_on_error, expect
  results,    \* Run.Steps
  halted, firstErr

stepsVars == <<spec, results, halted, firstErr>>

(* mutatingStepKind: batches are opaque, so mutating; asserts and the      *)
(* other pure reads are not.                                               *)
StepKind == {"mutating", "assert", "read"}
StepDecl == [kind: StepKind, coe: BOOLEAN, expect: BOOLEAN]
Skipped == [status |-> "skipped", verified |-> "none", drift |-> "none"]
StepErr == [status |-> "error", verified |-> "none", drift |-> "none"]

(* checkExpect: a capture that fails skips the check, and only a check     *)
(* that ran can tell drift.                                                *)
CheckExpect(st) == IF st.expect THEN {"passed", "drifted", "unchecked"} ELSE {"none"}
(* What executing a step may come to.  Only a mutating action reports      *)
(* whether it verified its own effect.                                     *)
Outcomes(st) ==
  {StepErr} \cup [status: {"ok"}, drift: CheckExpect(st),
                  verified: IF st.kind = "mutating" THEN {"none", "true", "false"} ELSE {"none"}]
FailsRun(res) == res.status = "error" \/ (StrictDrift /\ res.drift = "drifted")

StepsInit == spec = <<>> /\ results = <<>> /\ halted = FALSE /\ firstErr = FALSE

SkipStep(st) ==
  /\ Len(spec) < MaxSteps /\ halted /\ ~ st.coe
  /\ spec' = Append(spec, st) /\ results' = Append(results, Skipped)
  /\ UNCHANGED <<halted, firstErr>>
RunStep_HaltsAlways(st) ==
  /\ Len(spec) < MaxSteps /\ ~ (halted /\ ~ st.coe)
  /\ \E res \in Outcomes(st) :
       /\ spec' = Append(spec, st) /\ results' = Append(results, res)
       /\ firstErr' = (firstErr \/ FailsRun(res))
       /\ halted' = (halted \/ FailsRun(res))
RunStep(st) ==
  /\ Len(spec) < MaxSteps /\ ~ (halted /\ ~ st.coe)
  /\ \E res \in Outcomes(st) :
       /\ spec' = Append(spec, st) /\ results' = Append(results, res)
       /\ firstErr' = (firstErr \/ FailsRun(res))
       /\ halted' = (halted \/ (FailsRun(res) /\ ~ st.coe))

StepsNext == \E st \in StepDecl : SkipStep(st) \/ RunStep(st)
StepsSpec == StepsInit /\ [][StepsNext]_stepsVars

-----------------------------------------------------------------------------
(* computeVerdict: the signals are the expect checks, the reports of the   *)
(* mutating steps, and for each of those the asserts up to the next one.   *)
Executed == {i \in DOMAIN results : results[i].status # "skipped"}
Expected == {i \in Executed : results[i].drift \in {"passed", "drifted"}}
Mutating == {i \in Executed : spec[i].kind = "mutating"}
Reported == {i \in Mutating : results[i].verified # "none"}
Asserts_OfAll(i) ==
  {j \in (i + 1)..Len(results) : spec[j].kind = "assert" /\ results[j].status # "skipped"}
Asserts(i) ==
  {j \in (i + 1)..Len(results) :
     /\ spec[j].kind = "assert" /\ results[j].status # "skipped"
     /\ \A k \in (i + 1)..(j - 1) : spec[k].kind # "mutating"}
Asserted == {p \in Mutating \X DOMAIN results : p[2] \in Asserts(p[1])}
Positive(i) ==
  \/ results[i].drift = "passed" \/ results[i].verified = "true"
  \/ \E j \in Asserts(i) : results[j].status = "ok"
Negatives ==
  \/ \E i \in Expected : results[i].drift = "drifted"
  \/ \E i \in Reported : results[i].verified = "false"
  \/ \E p \in Asserted : results[p[2]].status # "ok"
Unverified == {i \in Mutating : ~ Positive(i) \/ results[i].status # "ok"}
ComputeVerdict_IgnoresErrors ==
  IF Expected = {} /\ Reported = {} /\ Asserted = {} THEN "unverified"
  ELSE IF ~ Negatives /\ (\A i \in Mutating : Positive(i)) THEN "trusted"
  ELSE "degraded"
ComputeVerdict ==
  IF Expected = {} /\ Reported = {} /\ Asserted = {} THEN "unverified"
  ELSE IF ~ Negatives /\ Unverified = {} THEN "trusted"
  ELSE "degraded"

-----------------------------------------------------------------------------
StepsTypeOK ==
  /\ spec \in Seq(StepDecl) /\ Len(spec) <= MaxSteps /\ Len(results) = Len(spec)
  /\ \A i \in DOMAIN results : results[i] \in Outcomes(spec[i]) \cup {Skipped}
  /\ halted \in BOOLEAN /\ firstErr \in BOOLEAN

(* "Steps stop at the first failure": a step runs after a failure exactly  *)
(* when it, or every failure before it, opted into going on; and the run   *)
(* fails exactly when something failed (runStages, docs/runs.md).          *)
StepsStop ==
  /\ \A j \in DOMAIN results :
       (j \notin Executed) <=>
         (~ spec[j].coe /\ \E i \in 1..(j - 1) : FailsRun(results[i]) /\ ~ spec[i].coe)
  /\ firstErr <=> \E i \in DOMAIN results : FailsRun(results[i])

(* A trusted run earned it: each executed mutating step succeeded, and a   *)
(* check that ran after it and before the next mutating step, or its own   *)
(* report, says so; nothing drifted (computeVerdict).                      *)
StepsTrusted ==
  ComputeVerdict = "trusted" =>
    /\ \A i \in Executed : results[i].drift # "drifted" /\ results[i].verified # "false"
    /\ \A i \in Executed : spec[i].kind = "mutating" =>
         /\ results[i].status = "ok"
         /\ \/ results[i].drift = "passed" \/ results[i].verified = "true"
            \/ \E j \in Executed : /\ j > i /\ spec[j].kind = "assert"
                                   /\ results[j].status = "ok"
                                   /\ \A k \in (i + 1)..j : spec[k].kind # "mutating"

StepsSafe == StepsStop /\ StepsTrusted
=============================================================================
