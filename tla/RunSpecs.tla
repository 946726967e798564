------------------------------ MODULE RunSpecs ------------------------------
(***************************************************************************)
(* A journaled run turned back into a run-spec (internal/journal:          *)
(* exportspec.go's BuildSpec).  Entries arrive in the order of the         *)
(* journal, at most MaxEntries of them; an action is known by the number   *)
(* of its entry, which tells which screen an observation saw.              *)
(***************************************************************************)
EXTENDS Naturals, Sequences, FiniteSets

CONSTANT MaxEntries

ASSUME RunSpecsAssumption == MaxEntries \in Nat

VARIABLES
  opts,          \* SpecOptions
  entries,       \* the entries read so far
  exported,      \* RunSpec.Steps
  lastMutating,  \* 0 for the code's -1
  truncated,     \* the loop has ended at a failure
  acted          \* history: the mutating action last performed

specsVars == <<opts, entries, exported, lastMutating, truncated, acted>>

NoExpect == [of |-> 0, texts |-> FALSE, hash |-> FALSE]
SpecsInit ==
  /\ opts \in [keepObservations: BOOLEAN, includeFailed: BOOLEAN, withExpectations: BOOLEAN]
  /\ entries = <<>> /\ exported = <<>> /\ lastMutating = 0 /\ truncated = FALSE /\ acted = 0

Read(e) == Len(entries) < MaxEntries /\ entries' = Append(entries, e)
(* An action entry of the run's own steps, a dotted method aside.          *)
Kept(readOnly, elided) == (~ readOnly \/ opts.keepObservations) /\ ~ elided
AfterDropped_Keeps(readOnly, elided) == lastMutating
AfterDropped(readOnly, elided) ==
  IF elided /\ ~ readOnly THEN 0 ELSE lastMutating
ActionEntry(readOnly, failed, elided) ==
  /\ Read([what |-> "action", readOnly |-> readOnly, failed |-> failed, elided |-> elided])
  /\ acted' = IF readOnly THEN acted ELSE Len(entries')
  /\ IF truncated \/ (failed /\ ~ opts.includeFailed)
       THEN truncated' = TRUE /\ UNCHANGED <<exported, lastMutating>>
       ELSE /\ UNCHANGED truncated
            /\ IF Kept(readOnly, elided)
                 THEN /\ exported' = Append(exported,
                           [entry |-> Len(entries'), readOnly |-> readOnly, expect |-> NoExpect])
                      /\ lastMutating' = IF readOnly THEN lastMutating ELSE Len(exported')
                 ELSE /\ UNCHANGED exported
                      /\ lastMutating' = AfterDropped(readOnly, elided)
  /\ UNCHANGED opts

(* A capture the engine injected for a drift check or an expectation: never *)
(* a step, and never the end of the spec, even when it failed.             *)
CaptureEntry_Counts(failed) ==
  /\ Read([what |-> "capture"])
  /\ truncated' = (truncated \/ (failed /\ ~ opts.includeFailed))
  /\ UNCHANGED <<opts, exported, lastMutating, acted>>
CaptureEntry(failed) ==
  /\ Read([what |-> "capture"])
  /\ UNCHANGED <<opts, exported, lastMutating, truncated, acted>>

(* recordStepExpectation, after a mutating step that succeeded: what the   *)
(* screen showed after the action last performed.  expectFromEntry makes   *)
(* nothing of an observation that captured neither.                        *)
ObservationEntry(texts, hash) ==
  /\ Read([what |-> "observation"]) /\ acted # 0
  /\ exported' =
       IF ~ truncated /\ opts.withExpectations /\ lastMutating > 0 /\ (texts \/ hash)
         THEN [exported EXCEPT ![lastMutating].expect =
                 [of |-> acted, texts |-> texts, hash |-> hash]]
         ELSE exported
  /\ UNCHANGED <<opts, lastMutating, truncated, acted>>

SpecsNext ==
  \/ \E readOnly, failed, elided \in BOOLEAN : ActionEntry(readOnly, failed, elided)
  \/ \E failed \in BOOLEAN : CaptureEntry(failed)
  \/ \E texts, hash \in BOOLEAN : ObservationEntry(texts, hash)
SpecsSpec == SpecsInit /\ [][SpecsNext]_specsVars

-----------------------------------------------------------------------------
SpecsTypeOK ==
  /\ Len(entries) \in 0..MaxEntries /\ lastMutating \in 0..Len(exported)
  /\ \A i \in DOMAIN exported :
       exported[i] \in [entry: DOMAIN entries, readOnly: BOOLEAN,
                        expect: [of: {0} \cup DOMAIN entries, texts: BOOLEAN, hash: BOOLEAN]]
  /\ acted \in {0} \cup DOMAIN entries /\ truncated \in BOOLEAN

(* A replayed step expects the screen its own action left behind, not the  *)
(* screen after a later action that was dropped from the spec (BuildSpec). *)
SpecsExpectOwn ==
  \A i \in DOMAIN exported :
    exported[i].expect.of # 0 =>
      exported[i].expect.of = exported[i].entry /\ ~ exported[i].readOnly

(* The spec replays a prefix of the run, in order: every action that the   *)
(* options keep, up to the first that failed; what the engine captured or  *)
(* observed for itself neither appears in it nor cuts it short (BuildSpec).*)
SpecsPrefix ==
  LET action(k) == entries[k].what = "action"
      reached(k) == opts.includeFailed \/ \A i \in 1..k : ~ (action(i) /\ entries[i].failed)
      due == {k \in DOMAIN entries :
                action(k) /\ reached(k) /\ Kept(entries[k].readOnly, entries[k].elided)}
  IN /\ {exported[i].entry : i \in DOMAIN exported} = due
     /\ \A i, k \in DOMAIN exported : i < k => exported[i].entry < exported[k].entry

SpecsSafe == SpecsExpectOwn /\ SpecsPrefix
=============================================================================
