-------------------------------- MODULE MCLive --------------------------------
(***************************************************************************)
(* What must eventually happen, for the lease manager and six components,  *)
(* in one run.  The components are explored one at a time: `part` names    *)
(* the one that moves, the others rest in their initial states and are     *)
(* owed nothing, so each fairness condition below is the component's own,  *)
(* restricted to the behaviours in which that component moves.             *)
(***************************************************************************)
EXTENDS Lease, Recorder, Stream, Broker, Runs, Ws, TailFeed

VARIABLE part
liveVars == <<vars, recVars, hubVars, brkVars, runsVars, wsVars, tailVars, part>>

Parts == {"lease", "recorder", "stream", "broker", "runs", "ws", "tail"}
Active(p) == part = p

(* One target, which one kind of request matches and which never vanishes. *)
OnlyTarget == [k \in {"any"} |-> Target]
AlwaysListed == {Target}

LiveInit ==
  /\ part \in Parts
  /\ Init /\ RecInit /\ HubInit /\ BrkInit /\ RunsInit /\ WsInit /\ TailInit
  /\ Active("tail") \/ appended = <<>>

Moves(p, v) == IF Active(p) THEN TRUE ELSE UNCHANGED v
Alone ==
  /\ UNCHANGED part
  /\ Moves("lease", vars) /\ Moves("recorder", recVars) /\ Moves("stream", hubVars)
  /\ Moves("broker", brkVars) /\ Moves("runs", runsVars) /\ Moves("ws", wsVars)
  /\ Moves("tail", tailVars)
LiveNext ==
  \/ Active("lease") /\ Alone /\ Next
  \/ Active("recorder") /\ Alone /\ RecNext
  \/ Active("stream") /\ Alone /\ HubNext
  \/ Active("broker") /\ Alone /\ BrkNext
  \/ Active("runs") /\ Alone /\ RunsNext
  \/ Active("ws") /\ Alone /\ WsNext
  \/ Active("tail") /\ Alone /\ TailNext

(* Fairness of Lease, Recorder, Stream, Broker, Runs, Ws and TailFeed. *)
LiveFairness ==
  /\ WF_vars(Active("lease") /\ op # Idle /\ Next)
  /\ SF_vars(Active("lease") /\ Sweep)
  /\ \A l \in Lease, t \in Target :
       SF_vars(Active("lease") /\ \E ok \in BOOLEAN : ResetDone(l, t, ok))
  /\ \A t \in Target : SF_vars(Active("lease") /\ FinishReset(t))
  /\ \A r \in Rec : WF_recVars(Active("recorder") /\ RecServes(r))
  /\ \A h \in Hub : WF_hubVars(Active("stream") /\ HubServes(h))
  /\ \A v \in Viewer : WF_hubVars(Active("stream") /\ ViewerReturns(v))
  /\ SF_brkVars(Active("broker") /\ \E l \in FLease : ReleaseOrphan(l))
  /\ WF_brkVars(Active("broker") /\ \E l \in FLease : ReconcileLease(l))
  /\ WF_brkVars(Active("broker") /\ \E l \in FLease : DaemonExpires(l))
  /\ WF_brkVars(Active("broker") /\ WindowPasses)
  /\ \A j \in Job : WF_runsVars(Active("runs") /\ RunStepOf(j))
                    /\ WF_runsVars(Active("runs") /\ ClientAnswered(j))
  /\ WF_wsVars(Active("ws") /\ (ReadFails \/ ReaderPuts \/ HandlerEnds))
  /\ WF_wsVars(Active("ws") /\ (WorkerRuns \/ WorkerPuts))
  /\ WF_wsVars(Active("ws") /\ \E g \in long : LongRuns(g) \/ LongPuts(g))
  /\ WF_wsVars(Active("ws") /\ (WriterAnswers \/ WriterEnds))
  /\ WF_tailVars(Active("tail") /\ TailRuns)

LiveSpec == LiveInit /\ [][LiveNext]_liveVars /\ LiveFairness

-----------------------------------------------------------------------------
(* Nothing the daemon holds for a client that has gone is held for good:   *)
(* a stop that began hands the recording over, a hub without viewers is    *)
(* reaped, a fleet lease whose asker left and an orphaned one end, and a   *)
(* connection whose client hung up returns from its handler.               *)
AbandonedEnds == RecStopsEnd /\ HubIdleIsReaped /\ BrkAbandonedEnds /\ WsEnds

(* What a client waits for comes: a run reaches its published end and its  *)
(* synchronous submitter an answer, and a journal tail delivers every      *)
(* entry, even the last one, although its live feed drops what it cannot   *)
(* hold.                                                                   *)
AwaitedComes == RunsEnd /\ TailCatchesUp
===============================================================================
