-------------------------------- MODULE Wda --------------------------------
(***************************************************************************)
(* One phone's WebDriverAgent: the client the device backend shares among  *)
(* concurrent actions (internal/actions/wda/client.go), the supervisor     *)
(* that relaunches the runner (supervisor.go, the launchers) and the kick  *)
(* a failed action gives it (device_backend.go).  The runner may die at    *)
(* any moment; a session is good only for the runner that created it.      *)
(***************************************************************************)
EXTENDS Naturals

CONSTANTS
  WdaCaller,     \* concurrent device actions
  NoCaller,
  MaxRunner,     \* bound: runners started
  MaxArms        \* bound: readiness waits armed

ASSUME WdaAssumption == NoCaller \notin WdaCaller /\ {MaxRunner, MaxArms} \subseteq Nat

VARIABLES
  runner,        \* the running number of the last runner started
  alive,         \* does it answer?
  session,       \* Client.sessionID: the runner that made it, 0 for none
  needsReady, readyExhausted, readyBy,
  armed,         \* readiness waits armed so far; a deadline is its number
  lapsed,        \* how many of those deadlines have passed
  createMu,      \* the caller inside Session's creation
  wdaCall,       \* each action's progress
  supervisor,    \* what the supervisor is doing
  kick           \* its channel of one kick

wdaVars == <<runner, alive, session, needsReady, readyExhausted, readyBy, armed,
             lapsed, createMu, wdaCall, supervisor, kick>>
readyVars == <<needsReady, readyExhausted, readyBy, armed>>
runnerVars == <<runner, alive, lapsed>>
supVars == <<supervisor, kick>>

\* A session-scoped action (a tap, a source read) or a session-less one (a
\* screenshot); "post" while it creates the session, "do" for the request.
NotCalling == [at |-> "idle", scoped |-> FALSE, goal |-> "do", attempt |-> 0, sid |-> 0,
               by |-> 0, overlapped |-> FALSE, result |-> "none"]

WdaTypeOK ==
  /\ runner \in 0..MaxRunner /\ session \in 0..MaxRunner
  /\ {alive, needsReady, readyExhausted, kick} \subseteq BOOLEAN
  /\ armed \in 0..MaxArms /\ readyBy \in 0..armed /\ lapsed \in 0..armed
  /\ createMu \in WdaCaller \cup {NoCaller}
  /\ supervisor \in {"probing", "launching", "awaiting", "sleeping"}
  /\ wdaCall \in [WdaCaller ->
       [at: {"idle", "lock", "await", "polling", "send", "store", "invalid"},
        scoped: BOOLEAN, goal: {"post", "do"}, attempt: 0..1, sid: 0..MaxRunner,
        by: 0..MaxArms, overlapped: BOOLEAN,
        result: {"none", "ok", "invalid", "restarted", "given up"}]]

WdaInit ==
  /\ runner = 0 /\ alive = FALSE /\ session = 0
  /\ needsReady = FALSE /\ readyExhausted = FALSE /\ readyBy = 0
  /\ armed = 0 /\ lapsed = 0 /\ createMu = NoCaller
  /\ wdaCall = [c \in WdaCaller |-> NotCalling]
  /\ supervisor = "probing" /\ kick = FALSE

CallGoes(c, r) == wdaCall' = [wdaCall EXCEPT ![c] = r]

-----------------------------------------------------------------------------
(* The world.                                                              *)
RunnerDies ==
  /\ alive /\ alive' = FALSE
  /\ UNCHANGED <<runner, session, readyVars, lapsed, createMu, wdaCall, supVars>>
RunnerComesUp ==          \* some time after a launch
  /\ ~ alive /\ runner < MaxRunner /\ supervisor # "probing"
  /\ alive' = TRUE /\ runner' = runner + 1
  /\ wdaCall' = [c \in WdaCaller |-> IF wdaCall[c].at = "idle"
                   THEN wdaCall[c] ELSE [wdaCall[c] EXCEPT !.overlapped = TRUE]]
  /\ UNCHANGED <<session, readyVars, lapsed, createMu, supVars>>
DeadlinePasses ==
  /\ lapsed < armed /\ lapsed' = lapsed + 1
  /\ UNCHANGED <<runner, alive, session, readyVars, createMu, wdaCall, supVars>>

-----------------------------------------------------------------------------
(* Requests: raw, transportErr, awaitReady.                                *)

\* raw begins with awaitReady: a wait in force is read once, with its deadline.
AwaitReady(c) ==
  /\ wdaCall[c].at = "await"
  /\ CallGoes(c, [wdaCall[c] EXCEPT !.at = IF needsReady THEN "polling" ELSE "send",
                                    !.by = IF needsReady THEN readyBy ELSE 0])
  /\ UNCHANGED <<runnerVars, session, readyVars, createMu, supVars>>
PollAnswers(c) ==
  /\ wdaCall[c].at = "polling" /\ alive
  /\ needsReady' = FALSE /\ readyExhausted' = FALSE
  /\ CallGoes(c, [wdaCall[c] EXCEPT !.at = "send"])
  /\ UNCHANGED <<runnerVars, session, readyBy, armed, createMu, supVars>>
PollLapses(c) ==          \* the budget ran out: from now on fail fast
  /\ wdaCall[c].at = "polling" /\ wdaCall[c].by <= lapsed
  /\ needsReady' = FALSE /\ readyExhausted' = TRUE
  /\ CallGoes(c, [wdaCall[c] EXCEPT !.at = "send"])
  /\ UNCHANGED <<runnerVars, session, readyBy, armed, createMu, supVars>>

\* An action ends; inside Session it gives up the creation lock as well.
ReleaseCreate(c) == createMu' = IF createMu = c THEN NoCaller ELSE createMu
WdaEnds(c, res) ==
  /\ CallGoes(c, [NotCalling EXCEPT !.overlapped = wdaCall[c].overlapped, !.result = res])
  /\ ReleaseCreate(c)

\* The caller's context ends, or the round trip times out: nothing is recorded.
CallerGivesUp(c) ==
  /\ wdaCall[c].at \in {"polling", "send"}
  /\ WdaEnds(c, "given up")
  /\ kick' \in {kick, TRUE}          \* wdaFail: a timeout is transient too
  /\ UNCHANGED <<runnerVars, session, readyVars, supervisor>>

\* transportErr: the runner died under the request.
Arms_Always == ~ needsReady
Arms == ~ readyExhausted /\ ~ needsReady
TransportErr(c) ==
  /\ wdaCall[c].at = "send" /\ ~ alive
  /\ Arms => armed < MaxArms
  /\ needsReady' = (needsReady \/ Arms)
  /\ armed' = IF Arms THEN armed + 1 ELSE armed
  /\ readyBy' = IF Arms THEN armed' ELSE readyBy
  /\ session' = 0
  /\ WdaEnds(c, "restarted")
  /\ kick' = TRUE                    \* wdaFail kicks the supervisor
  /\ UNCHANGED <<runnerVars, readyExhausted, supervisor>>

-----------------------------------------------------------------------------
(* Session and inSession.                                                  *)
WdaAction(c, scoped) ==
  /\ wdaCall[c].at = "idle"
  /\ CallGoes(c, [NotCalling EXCEPT !.scoped = scoped,
                                    !.at = IF scoped THEN "lock" ELSE "await"])
  /\ UNCHANGED <<runnerVars, session, readyVars, createMu, supVars>>
\* One session is created at a time: the lock is held from the look at the
\* cached session until the new one is stored.
MayCreate_Unlocked == TRUE
MayCreate == createMu = NoCaller
Session(c) ==
  /\ wdaCall[c].at = "lock" /\ MayCreate
  /\ createMu' = IF session = 0 THEN c ELSE createMu
  /\ CallGoes(c, [wdaCall[c] EXCEPT !.at = "await", !.sid = session,
                                    !.goal = IF session = 0 THEN "post" ELSE "do"])
  /\ UNCHANGED <<runnerVars, session, readyVars, supVars>>
\* An answer: the wait, if one ran out, is forgiven.
SessionCreated(c) ==
  /\ wdaCall[c].at = "send" /\ wdaCall[c].goal = "post" /\ alive
  /\ readyExhausted' = FALSE
  /\ CallGoes(c, [wdaCall[c] EXCEPT !.at = "store", !.sid = runner])
  /\ UNCHANGED <<runnerVars, session, needsReady, readyBy, armed, createMu, supVars>>
SessionStored(c) ==
  /\ wdaCall[c].at = "store"
  /\ session' = wdaCall[c].sid
  /\ CallGoes(c, [wdaCall[c] EXCEPT !.at = "await", !.goal = "do"])
  /\ ReleaseCreate(c)
  /\ UNCHANGED <<runnerVars, readyVars, supVars>>
\* inSession tries twice at most.
Retries(c) == wdaCall[c].attempt < 1
Valid(c) == ~ wdaCall[c].scoped \/ wdaCall[c].sid = runner
Answered(c) ==
  /\ wdaCall[c].at = "send" /\ wdaCall[c].goal = "do" /\ alive
  /\ readyExhausted' = FALSE
  /\ IF ~ Valid(c) /\ Retries(c)
       THEN CallGoes(c, [wdaCall[c] EXCEPT !.at = "invalid"]) /\ UNCHANGED createMu
       ELSE WdaEnds(c, IF Valid(c) THEN "ok" ELSE "invalid")
  /\ UNCHANGED <<runnerVars, session, needsReady, readyBy, armed, supVars>>
InvalidateSession_Keeps(c) ==
  /\ wdaCall[c].at = "invalid"
  /\ CallGoes(c, [wdaCall[c] EXCEPT !.at = "lock", !.attempt = @ + 1])
  /\ UNCHANGED <<runnerVars, session, readyVars, createMu, supVars>>
InvalidateSession(c) ==
  /\ wdaCall[c].at = "invalid"
  /\ session' = 0
  /\ CallGoes(c, [wdaCall[c] EXCEPT !.at = "lock", !.attempt = @ + 1])
  /\ UNCHANGED <<runnerVars, readyVars, createMu, supVars>>

-----------------------------------------------------------------------------
(* Supervisor.Run, healthy, relaunch; Launch stops the runner it left.     *)
SupStep(to) ==
  /\ supervisor' = to
  /\ UNCHANGED <<runner, lapsed, session, readyVars, createMu, wdaCall>>
Healthy ==                \* or a probe that timed out on a live runner
  /\ supervisor = "probing" /\ UNCHANGED <<alive, kick>>
  /\ \/ alive /\ SupStep("sleeping")
     \/ SupStep("launching")
Launch ==
  /\ supervisor = "launching" /\ UNCHANGED kick
  /\ \/ alive' = FALSE /\ SupStep("awaiting")
     \/ UNCHANGED alive /\ SupStep("sleeping")      \* the launch failed
Relaunch ==               \* ready, or the budget is over
  /\ supervisor = "awaiting" /\ UNCHANGED <<alive, kick>>
  /\ SupStep("sleeping")
SupWakes ==               \* a kick, or the (backed off) interval
  /\ supervisor = "sleeping" /\ kick' = FALSE /\ UNCHANGED alive
  /\ SupStep("probing")

WdaNext ==
  \/ RunnerDies \/ RunnerComesUp \/ DeadlinePasses
  \/ Healthy \/ Launch \/ Relaunch \/ SupWakes
  \/ \E c \in WdaCaller :
       \/ AwaitReady(c) \/ PollAnswers(c) \/ PollLapses(c) \/ CallerGivesUp(c)
       \/ TransportErr(c) \/ (\E s \in BOOLEAN : WdaAction(c, s)) \/ Session(c)
       \/ SessionCreated(c) \/ SessionStored(c) \/ Answered(c)
       \/ InvalidateSession(c)
WdaSpec == WdaInit /\ [][WdaNext]_wdaVars

-----------------------------------------------------------------------------
\* A session-scoped action re-creates a session WDA rejects and retries once:
\* it reports an invalid session only if the runner was restarted again while
\* the action ran, however the other actions' creations and invalidations fall
\* (inSession, Session, invalidateSession; client.go).
WdaHealsOnce ==
  \A c \in WdaCaller : wdaCall[c].result = "invalid" => wdaCall[c].overlapped

\* Once a readiness wait has run out, no action waits again until a request
\* has reached the runner: a runner that stays down costs one wait, not one
\* per action (awaitReady, transportErr, raw).
WdaFailsFast == ~ (readyExhausted /\ needsReady)

WdaSafe == WdaHealsOnce /\ WdaFailsFast
=============================================================================
