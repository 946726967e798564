------------------------------ MODULE MCServer ------------------------------
(***************************************************************************)
(* Small instances, for TLC, of what the server runs for its clients:      *)
(* asynchronous runs, their steps and exported specifications, the power   *)
(* of targets, WebSocket connections and journal tails.                    *)
(* No component below reads another's variables, so they are explored one  *)
(* at a time: `part` names the one that moves, the others have no state.   *)
(***************************************************************************)
EXTENDS Runs, Steps, RunSpecs, Targets, Ws, TailFeed, TLC

CONSTANT Parts   \* the components this run explores

VARIABLE part    \* the component that moves

ServerSymmetry == Permutations(Job) \cup Permutations(TLease)

Active(p) == part = p
Off == "off"

(* A component that does not take part has no state. *)
RunsOff == run = Off /\ pc = Off /\ grant = Off /\ spent = Off /\
    held = Off /\ shooting = Off /\ active = Off /\ order = Off /\
    submitter = Off
StepsOff == spec = Off /\ results = Off /\ halted = Off /\ firstErr = Off
SpecsOff == opts = Off /\ entries = Off /\ exported = Off /\
    lastMutating = Off /\ truncated = Off /\ acted = Off
TgtOff == tHolder = Off /\ tOver = Off /\ tPaused = Off /\ tPower = Off /\
    tGate = Off /\ lastShutdown = Off /\ tCalls = Off /\ waitByLease = Off /\
    bootWaitSlots = Off /\ tDownBy = Off /\ tRaced = Off /\ tLate = Off
WsOff == asked = Off /\ inbox = Off /\ peer = Off /\ reader = Off /\
    actionQ = Off /\ aworker = Off /\ long = Off /\ out = Off /\
    outClosed = Off /\ writer = Off /\ events = Off /\ answered = Off /\
    executed = Off
TailOff == appended = Off /\ feed = Off /\ tailer = Off /\ fromSeq = Off /\
    lastSeq = Off /\ todo = Off /\ upTo = Off /\ sent = Off

serverVars == <<runsVars, stepsVars, specsVars, tgtVars, wsVars, tailVars,
    part>>

ServerInit ==
  /\ part \in Parts
  /\ IF Active("runs") THEN RunsInit ELSE RunsOff
  /\ IF Active("steps") THEN StepsInit ELSE StepsOff
  /\ IF Active("specs") THEN SpecsInit ELSE SpecsOff
  /\ IF Active("targets") THEN TgtInit ELSE TgtOff
  /\ IF Active("ws") THEN WsInit ELSE WsOff
  /\ IF Active("tail") THEN TailInit ELSE TailOff

Rests(p, v) == IF Active(p) THEN TRUE ELSE UNCHANGED v
Alone ==
  /\ UNCHANGED part
  /\ Rests("runs", runsVars)
  /\ Rests("steps", stepsVars)
  /\ Rests("specs", specsVars)
  /\ Rests("targets", tgtVars)
  /\ Rests("ws", wsVars)
  /\ Rests("tail", tailVars)

ServerNext ==
  \/ Active("runs") /\ Alone /\ RunsNext
  \/ Active("steps") /\ Alone /\ StepsNext
  \/ Active("specs") /\ Alone /\ SpecsNext
  \/ Active("targets") /\ Alone /\ TgtNext
  \/ Active("ws") /\ Alone /\ WsNext
  \/ Active("tail") /\ Alone /\ TailNext

ServerSpec == ServerInit /\ [][ServerNext]_serverVars

-----------------------------------------------------------------------------
(* Every component that takes part keeps its types. *)
ServerTypeOK ==
  /\ Active("runs") => RunsTypeOK
  /\ Active("steps") => StepsTypeOK
  /\ Active("specs") => SpecsTypeOK
  /\ Active("targets") => TgtTypeOK
  /\ Active("ws") => WsTypeOK
  /\ Active("tail") => TailTypeOK

(* A run's end is published only after its lease is free and its export    *)
(* attached, the slots in use are exactly the runs admitted and not        *)
(* finished, and the lease outlives the stages; no step runs after the one *)
(* that stopped the run and a trusted verdict has evidence behind it; an   *)
(* exported specification is a prefix of what happened, each expectation   *)
(* with its own step.                                                      *)
RunsSound ==
  /\ Active("runs") => RunsSafe
  /\ Active("steps") => StepsSafe
  /\ Active("specs") => SpecsSafe

(* Boot waits are counted exactly on every path out, a request whose lease *)
(* has ended touches the target at most once more, and a refusal blames a  *)
(* shutdown only if it really left the simulator down, with leases, gates  *)
(* and power changing during every wait (bootTargetWait, batch,            *)
(* lastShutdown).                                                          *)
TargetsSound == Active("targets") => TgtSafe

(* A connection never sends on its closed queue, starts its actions in the *)
(* order they arrived, and answers each request it read once; a tail       *)
(* delivers entries in order and without gaps although its feed drops what *)
(* it cannot hold (handleWS, startJournalTail).                            *)
FeedsSound ==
  /\ Active("ws") => WsSafe
  /\ Active("tail") => TailSafe

=============================================================================
