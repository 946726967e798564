------------------------------ MODULE Recorder ------------------------------
(***************************************************************************)
(* The recorder (internal/record and the server's recording handlers): one *)
(* child process per recording, ended by whoever wins the stop, its spool  *)
(* ingested into the journal by the winner, and state files from which a   *)
(* restarted daemon reclaims children a crash has orphaned.                *)
(* Sizes and durations are abstracted: a cap is hit at any time, a wait    *)
(* may time out at any time, and a spool is valid or not.                  *)
(***************************************************************************)
EXTENDS Naturals, FiniteSets

CONSTANTS
  Rec,            \* recordings, each started once
  RecRun,         \* runs (leases), whose state file they share
  Sim,            \* targets
  NoRec,
  MaxConcurrent,
  Overlap         \* a Start or Stop of a run's earlier recording may still be
                  \* under way when its next one starts

ASSUME RecAssumption ==
  /\ NoRec \notin Rec
  /\ MaxConcurrent \in Nat \ {0}
  /\ Overlap \in BOOLEAN

Stoppers == {"handler", "leaseEnd", "drain", "watchdog", "shutdown"}

VARIABLES
  rec,       \* what memory and the process table say of each recording
  recByTarget,  \* Manager.byTarget
  poisoned,  \* Manager.poisoned
  stuck,     \* the host sessions a SIGKILL has left busy
  stateFile, \* <run>/tmp/recording.json: the recording it names
  daemon,    \* "up", "closing" (StopAll), "down" or "recovering"
  ingests,   \* segments the journal holds for each recording
  signalled  \* history: what Recover sent a SIGINT to

recVars == <<rec, recByTarget, poisoned, stuck, stateFile, daemon, ingests,
             signalled>>

Capture == [
  start: {"none", "reserved", "spawned", "probing", "dying", "failed", "done",
          "lost"},
  run: RecRun, sim: Sim,
  proc: {"none", "alive", "exited", "reused"},
  busy: BOOLEAN,      \* the child exits with 16, Resource busy
  sigint: BOOLEAN,
  noted: BOOLEAN,     \* history: the state file was written
  wd: BOOLEAN,        \* the watchdog runs
  stop: {"no", "wait", "reap", "finish", "ended", "delivered"},
  stopping: BOOLEAN,  \* somebody's CompareAndSwap has succeeded
  spool: {"none", "open", "valid", "invalid"},
  ok: BOOLEAN]        \* rec.result.Err = nil

RecTypeOK ==
  /\ rec \in [Rec -> Capture]
  /\ recByTarget \in [Sim -> Rec \cup {NoRec}]
  /\ poisoned \subseteq Sim /\ stuck \subseteq Sim
  /\ stateFile \in [RecRun -> Rec \cup {NoRec}]
  /\ daemon \in {"up", "closing", "down", "recovering"}
  /\ ingests \in [Rec -> Nat]
  /\ signalled \subseteq {"recorder", "stranger"}

RecInit ==
  /\ rec \in [Rec -> {[start |-> "none", run |-> u, sim |-> t, proc |-> "none",
                       busy |-> FALSE, sigint |-> FALSE, noted |-> FALSE,
                       wd |-> FALSE, stop |-> "no", stopping |-> FALSE,
                       spool |-> "none", ok |-> FALSE] : u \in RecRun, t \in Sim}]
  /\ \A r, s \in Rec : rec[r].run = rec[s].run => rec[r].sim = rec[s].sim
  /\ recByTarget = [t \in Sim |-> NoRec]
  /\ poisoned = {} /\ stuck = {}
  /\ stateFile = [u \in RecRun |-> NoRec]
  /\ daemon = "up"
  /\ ingests = [r \in Rec |-> 0]
  /\ signalled = {}

Alive(r) == rec[r].proc = "alive"
Serving == daemon \in {"up", "closing"}
Recorded(r, f) == rec' = [rec EXCEPT ![r] = f]
(* delete(m.byTarget, udid), if it is still this recording's *)
Forgotten(r) == [recByTarget EXCEPT ![rec[r].sim] = IF @ = r THEN NoRec ELSE @]

-----------------------------------------------------------------------------
(* Start *)

(* The checks and the placeholder, in one critical section.  A run is a    *)
(* lease of this daemon, so a recording of an earlier one never shares it. *)
RecReserve(r) ==
  LET t == rec[r].sim IN
  /\ daemon = "up" /\ rec[r].start = "none"
  /\ recByTarget[t] = NoRec /\ t \notin poisoned
  /\ Cardinality({s \in Sim : recByTarget[s] # NoRec}) < MaxConcurrent
  /\ \A s \in Rec : rec[s].run = rec[r].run =>
       /\ rec[s].start # "lost"
       /\ Overlap \/ /\ rec[s].start \in {"none", "failed", "done"}
                     /\ rec[s].stop \in {"no", "delivered"}
  /\ Recorded(r, [rec[r] EXCEPT !.start = "reserved"])
  /\ recByTarget' = [recByTarget EXCEPT ![t] = r]
  /\ UNCHANGED <<poisoned, stuck, stateFile, daemon, ingests, signalled>>

SpawnFails(r) ==
  /\ Serving /\ rec[r].start = "reserved"
  /\ Recorded(r, [rec[r] EXCEPT !.start = "failed"])
  /\ recByTarget' = Forgotten(r)
  /\ UNCHANGED <<poisoned, stuck, stateFile, daemon, ingests, signalled>>

(* Starter.Start; ready is closed.  In a stuck session the child will exit *)
(* with "Resource busy".                                                   *)
Spawn(r) ==
  /\ Serving /\ rec[r].start = "reserved"
  /\ Recorded(r, [rec[r] EXCEPT !.start = "spawned", !.proc = "alive",
                                !.busy = rec[r].sim \in stuck, !.spool = "open"])
  /\ UNCHANGED <<recByTarget, poisoned, stuck, stateFile, daemon, ingests, signalled>>

WriteState(r) ==
  /\ Serving /\ rec[r].start = "spawned"
  /\ Recorded(r, [rec[r] EXCEPT !.start = "probing", !.noted = TRUE])
  /\ stateFile' = [stateFile EXCEPT ![rec[r].run] = r]
  /\ UNCHANGED <<recByTarget, poisoned, stuck, daemon, ingests, signalled>>

(* The probe ends because the child exited, or because its time is over; a *)
(* stop that has begun owns the recording.                                 *)
ProbeEnds(r) ==
  /\ Serving /\ rec[r].start = "probing"
  /\ Recorded(r,
       IF rec[r].stopping THEN [rec[r] EXCEPT !.start = "done"]
       ELSE IF ~Alive(r) THEN [rec[r] EXCEPT !.start = "dying"]
       ELSE [rec[r] EXCEPT !.start = "done", !.wd = TRUE])
  /\ UNCHANGED <<recByTarget, poisoned, stuck, stateFile, daemon, ingests, signalled>>

(* ...and Start, which saw no stop, cleans up after the child. *)
EarlyExit(r) ==
  /\ Serving /\ rec[r].start = "dying"
  /\ Recorded(r, [rec[r] EXCEPT !.start = "failed", !.spool = "none"])
  /\ stateFile' = [stateFile EXCEPT ![rec[r].run] = NoRec]
  /\ poisoned' = IF rec[r].busy THEN poisoned \cup {rec[r].sim} ELSE poisoned
  /\ recByTarget' = Forgotten(r)
  /\ UNCHANGED <<stuck, daemon, ingests, signalled>>

-----------------------------------------------------------------------------
(* Stopping *)

(* StopRun, Stop, the watchdog and StopAll.  StopRun's look at the run     *)
(* only refuses: the recording it then ends is the one it looked at.       *)
MayStop(r, who) ==
  CASE who \in {"handler", "leaseEnd", "drain"} -> daemon = "up"
    [] who = "watchdog" -> rec[r].wd
    [] who = "shutdown" -> daemon = "closing"

(* The winner of the CompareAndSwap.  A caller has read byTarget earlier:  *)
(* the recording it ends may have failed meanwhile.                        *)
StopWins(r, who) ==
  /\ Serving /\ rec[r].start \notin {"none", "lost"}
  /\ Overlap \/ recByTarget[rec[r].sim] = r
  /\ ~rec[r].stopping
  /\ MayStop(r, who)
  /\ Recorded(r, [rec[r] EXCEPT !.stopping = TRUE, !.stop = "wait", !.wd = FALSE])
  /\ UNCHANGED <<recByTarget, poisoned, stuck, stateFile, daemon, ingests, signalled>>

Ready_NoWait(r) == TRUE

(* doStop waits until Start has a child or has failed. *)
Ready(r) == rec[r].start # "reserved"

Interrupt_RemovesFile(r) ==
  /\ Serving /\ rec[r].stop = "wait" /\ Ready(r)
  /\ Recorded(r, CASE rec[r].proc = "none" -> [rec[r] EXCEPT !.stop = "ended"]
                   [] rec[r].proc = "exited" -> [rec[r] EXCEPT !.stop = "finish"]
                   [] OTHER -> [rec[r] EXCEPT !.stop = "reap", !.sigint = TRUE])
  /\ stateFile' = [stateFile EXCEPT ![rec[r].run] = NoRec]
  /\ UNCHANGED <<recByTarget, poisoned, stuck, daemon, ingests, signalled>>

Interrupt(r) ==
  /\ Serving /\ rec[r].stop = "wait" /\ Ready(r)
  /\ Recorded(r, CASE rec[r].proc = "none" -> [rec[r] EXCEPT !.stop = "ended"]
                   [] rec[r].proc = "exited" -> [rec[r] EXCEPT !.stop = "finish"]
                   [] OTHER -> [rec[r] EXCEPT !.stop = "reap", !.sigint = TRUE])
  /\ UNCHANGED <<recByTarget, poisoned, stuck, stateFile, daemon, ingests, signalled>>

Reap(r) ==
  /\ Serving /\ rec[r].stop = "reap" /\ rec[r].proc = "exited"
  /\ Recorded(r, [rec[r] EXCEPT !.stop = "finish"])
  /\ UNCHANGED <<recByTarget, poisoned, stuck, stateFile, daemon, ingests, signalled>>

Kill_Unbounded(r) == FALSE

(* The reap timed out: SIGKILL, which leaves the host session stuck. *)
Kill(r) ==
  /\ Serving /\ rec[r].stop = "reap" /\ Alive(r)
  /\ Recorded(r, [rec[r] EXCEPT !.stop = "finish", !.proc = "exited",
                                !.spool = "invalid"])
  /\ stuck' = stuck \cup {rec[r].sim}
  /\ poisoned' = poisoned \cup {rec[r].sim}
  /\ UNCHANGED <<recByTarget, stateFile, daemon, ingests, signalled>>

Finish(r) ==
  /\ Serving /\ rec[r].stop = "finish"
  /\ Recorded(r, [rec[r] EXCEPT !.stop = "ended", !.ok = rec[r].spool = "valid"])
  /\ stateFile' = [stateFile EXCEPT ![rec[r].run] = NoRec]
  /\ recByTarget' = Forgotten(r)
  /\ UNCHANGED <<poisoned, stuck, daemon, ingests, signalled>>

Ingested_DropsSpool(r, ok, stored) ==
  /\ ingests' = [ingests EXCEPT ![r] = IF ok /\ stored THEN @ + 1 ELSE @]
  /\ Recorded(r, [rec[r] EXCEPT !.stop = "delivered", !.spool = "none"])

Ingested_KeepsSpool(r, ok, stored) ==
  /\ ingests' = [ingests EXCEPT ![r] = IF ok /\ stored THEN @ + 1 ELSE @]
  /\ Recorded(r, [rec[r] EXCEPT !.stop = "delivered", !.spool = IF ok THEN @ ELSE "none"])

(* What ingestRecording makes of a result: a store that fails keeps the    *)
(* spool, the only copy of a validated recording.                          *)
Ingested(r, ok, stored) ==
  /\ ingests' = [ingests EXCEPT ![r] = IF ok /\ stored THEN @ + 1 ELSE @]
  /\ Recorded(r, [rec[r] EXCEPT !.stop = "delivered",
                    !.spool = IF ok /\ ~stored THEN @ ELSE "none"])

(* The winner, and only it, hands the result to the journal. *)
Deliver(r) ==
  /\ Serving /\ rec[r].stop = "ended"
  /\ \E stored \in BOOLEAN : Ingested(r, rec[r].ok, stored)
  /\ UNCHANGED <<recByTarget, poisoned, stuck, stateFile, daemon, signalled>>

(* StopAll: no Start is admitted from here on. *)
StopAll ==
  /\ daemon = "up" /\ daemon' = "closing"
  /\ UNCHANGED <<rec, recByTarget, poisoned, stuck, stateFile, ingests, signalled>>

(* A shutdown of the simulator: shutdownTarget drains its recording first, *)
(* and clears the flag.                                                    *)
ShutDownSim(t) ==
  /\ daemon = "up" /\ recByTarget[t] = NoRec
  /\ stuck' = stuck \ {t} /\ poisoned' = poisoned \ {t}
  /\ <<stuck, poisoned>> # <<stuck', poisoned'>>
  /\ UNCHANGED <<rec, recByTarget, stateFile, daemon, ingests, signalled>>

-----------------------------------------------------------------------------
(* Children and crashes *)

(* A child exits: on SIGINT with a finalized file, or on its own.  Within  *)
(* the probe it has written nothing that parses.                           *)
ChildExits(r) ==
  /\ Alive(r)
  /\ \E v \in {"valid", "invalid"} :
       /\ v = "valid" => ~rec[r].busy /\ (rec[r].sigint \/ rec[r].start = "done")
       /\ Recorded(r, [rec[r] EXCEPT !.proc = "exited", !.spool = v])
  /\ UNCHANGED <<recByTarget, poisoned, stuck, stateFile, daemon, ingests, signalled>>

(* The daemon dies; children and files outlive it. *)
Crash ==
  /\ Serving
  /\ daemon' = "down"
  /\ rec' = [r \in Rec |-> IF rec[r].start = "none" THEN rec[r]
             ELSE [rec[r] EXCEPT !.start = "lost", !.wd = FALSE,
                   !.stop = IF @ = "delivered" THEN @ ELSE "no"]]
  /\ recByTarget' = [t \in Sim |-> NoRec] /\ poisoned' = {}
  /\ UNCHANGED <<stuck, stateFile, ingests, signalled>>

PidReused(r) ==
  /\ daemon = "down" /\ rec[r].proc = "exited"
  /\ Recorded(r, [rec[r] EXCEPT !.proc = "reused"])
  /\ UNCHANGED <<recByTarget, poisoned, stuck, stateFile, daemon, ingests, signalled>>

Restart ==
  /\ daemon = "down" /\ daemon' = "recovering"
  /\ UNCHANGED <<rec, recByTarget, poisoned, stuck, stateFile, ingests, signalled>>

Ours_AnyPid(r) == rec[r].proc \in {"alive", "reused"}

(* The command line names the spool, so it is this recording's child. *)
Ours(r) == Alive(r)

(* recoverOne: a child that is ours is asked to finalize; one that will    *)
(* not exit is left alone, with its file.  Then the spool is salvaged or   *)
(* deleted.                                                                *)
RecoverOne(u) ==
  LET r == stateFile[u] IN
  /\ daemon = "recovering" /\ r # NoRec
  /\ signalled' = IF Ours(r)
       THEN signalled \cup {IF Alive(r) THEN "recorder" ELSE "stranger"}
       ELSE signalled
  /\ \/ /\ Ours(r) /\ Alive(r) /\ ~rec[r].sigint
        /\ Recorded(r, [rec[r] EXCEPT !.sigint = TRUE])
        /\ UNCHANGED <<stateFile, ingests>>
     \/ /\ ~Alive(r)
        /\ stateFile' = [stateFile EXCEPT ![u] = NoRec]
        /\ \E stored \in BOOLEAN : Ingested(r, rec[r].spool = "valid", stored)
  /\ UNCHANGED <<recByTarget, poisoned, stuck, daemon>>

(* Recover is through when every file left names a child that was asked. *)
Recovered ==
  /\ daemon = "recovering"
  /\ \A u \in RecRun : stateFile[u] # NoRec =>
       Alive(stateFile[u]) /\ rec[stateFile[u]].sigint
  /\ daemon' = "up"
  /\ UNCHANGED <<rec, recByTarget, poisoned, stuck, stateFile, ingests, signalled>>

RecNext ==
  \/ \E r \in Rec :
       \/ RecReserve(r) \/ SpawnFails(r) \/ Spawn(r) \/ WriteState(r)
       \/ ProbeEnds(r) \/ EarlyExit(r)
       \/ \E who \in Stoppers : StopWins(r, who)
       \/ Interrupt(r) \/ Reap(r) \/ Kill(r) \/ Finish(r) \/ Deliver(r)
       \/ ChildExits(r) \/ PidReused(r)
  \/ \E t \in Sim : ShutDownSim(t)
  \/ \E u \in RecRun : RecoverOne(u)
  \/ StopAll \/ Crash \/ Restart \/ Recovered

(* The daemon's goroutines run on and its timers fire; children, callers   *)
(* and crashes owe nothing.                                                *)
RecServes(r) ==
  Spawn(r) \/ SpawnFails(r) \/ Interrupt(r) \/ Reap(r) \/ Kill(r) \/ Finish(r) \/ Deliver(r)
RecFairness == \A r \in Rec : WF_recVars(RecServes(r))

RecSpec == RecInit /\ [][RecNext]_recVars
RecFairSpec == RecSpec /\ RecFairness

-----------------------------------------------------------------------------
(* Handler, lease end, drain, watchdog and shutdown may all try to end one *)
(* recording, and a restarted daemon may find its file: it reaches the     *)
(* journal at most once.                                                   *)
RecOneIngest == \A r \in Rec : ingests[r] <= 1

(* A recording that passed validation is in the journal or still has its   *)
(* spool: no failed store and no racing stop loses the only copy.          *)
RecNothingLost ==
  \A r \in Rec : rec[r].ok /\ ingests[r] = 0 => rec[r].spool = "valid"

(* When StopAll has waited for every recording it found, no child of this  *)
(* daemon is left to hang against a simulator that is being shut down,     *)
(* although a Start may have been under way.                               *)
RecNoChildLeft ==
  (daemon = "closing" /\ \A r \in Rec : recByTarget[rec[r].sim] = r =>
                            rec[r].stop \in {"ended", "delivered"})
    => \A r \in Rec : Alive(r) => rec[r].start = "lost"

(* A crash never orphans a child the next daemon cannot find: once Start   *)
(* has written the state file, a living child is named by its run's file.  *)
RecReclaimable ==
  \A r \in Rec : Alive(r) /\ rec[r].noted => stateFile[rec[r].run] = r

(* Recover never signals a process that merely has a dead recorder's pid.  *)
RecStrangersSafe == "stranger" \notin signalled

(* The recorder's promise: each valid capture is journalled once or still  *)
(* on disk, and no capture process is left behind or mistaken (doStop,     *)
(* StopAll, Recover).                                                      *)
RecSafe ==
  RecOneIngest /\ RecNothingLost /\ RecNoChildLeft /\ RecReclaimable /\ RecStrangersSafe

(* Every stop that has begun ends and hands its result over, even if the   *)
(* child hangs or Start is still spawning it, unless the daemon crashes.   *)
RecStopsEnd ==
  \A r \in Rec : rec[r].stop = "wait" ~>
    (rec[r].stop = "delivered" \/ daemon = "down")
=============================================================================
