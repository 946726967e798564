------------------------------- MODULE Ladder -------------------------------
(***************************************************************************)
(* The element-resolution ladder (internal/actions/resolver.go): an action *)
(* step cycles through its rungs (the element map, one real source, the    *)
(* saved templates), each attempt bounded by a budget, until a rung        *)
(* resolves the element, a rung's answer stops the ladder or the wait is   *)
(* over.  On a WebDriverAgent device the source is guarded by a circuit    *)
(* breaker that all steps of one lease and one bundle share.               *)
(* Time is counted in whole units; a step's `left` is what remains of its  *)
(* wait.  Only one key of the breaker's maps is modelled.                  *)
(***************************************************************************)
EXTENDS Integers, Sequences

CONSTANTS
    Worker,              \* action steps that run at the same time
    LadderKinds,         \* the ladders a worker may use: "wda", "sim" or "mirror"
    StepTimeout,         \* the wait budget of a step
    RungBudget,          \* the budget of a bounded attempt, by rung
    axBreakerThreshold   \* failing steps that open the circuit

ASSUME LadderAssumption ==
    /\ LadderKinds \in [Worker -> SUBSET {"wda", "sim", "mirror"}]
    /\ StepTimeout \in Nat \ {0}
    /\ RungBudget \in [{"map", "ax", "template"} -> Nat \ {0}]
    /\ axBreakerThreshold \in Nat \ {0}

VARIABLES
    ladder,       \* the step each worker is running, or ran last
    axFails,      \* axBreaker.fails of the key
    axOpen,       \* axBreaker.open of the key
    charged,      \* history: the running steps charged since the last honest answer
    failing,      \* history: how many steps were charged since then
    openedAfter   \* history: `failing` when the circuit opened
ladVars == <<ladder, axFails, axOpen, charged, failing, openedAfter>>

Outcome == {"none", "skipped", "off", "cannot", "down", "miss", "cut", "failed"}
Verdicts == {"running", "hit", "off_viewport", "timeout", "failed", "stopped", "ambient"}

(* elementResolvers: the rungs of a backend, in order. *)
Source(kind) == IF kind = "mirror" THEN "ocr" ELSE "ax"
Rungs(kind) == <<"map", Source(kind), "template">>
Guarded(kind, r) == kind = "wda" /\ r = "ax"

Least(a, b) == IF a <= b THEN a ELSE b

(* The time an attempt may take: a rung that must hand over is bounded by  *)
(* its budget, and the map rung leaves half of the wait to the source.     *)
Given_WholeWait(kind, r, left) ==
    IF r \in {"map", "template"} \/ Guarded(kind, r) THEN Least(RungBudget[r], left) ELSE left
Given(kind, r, left) ==
    IF r = "map" THEN Least(RungBudget[r], left \div 2)
    ELSE IF r = "template" \/ Guarded(kind, r) THEN Least(RungBudget[r], left)
    ELSE left

(* What one resolve can answer.  The template and the map rung give no     *)
(* viewport, so their matches are never off screen; only a WDA source can  *)
(* be transiently down or not configured.                                  *)
Answers(kind, r) ==
    IF r = "map" THEN {"hit", "miss"}
    ELSE IF r = "template" THEN {"hit", "miss", "cannot", "cut", "failed"}
    ELSE IF kind = "wda" THEN {"hit", "off", "miss", "down", "cut", "failed", "config", "ambiguous"}
    ELSE {"hit", "off", "miss", "cut", "failed", "ambiguous"}

(* A failure reported when the attempt's budget is used up counts as cut.  *)
Takes(answer, given) ==
    CASE answer = "cut" -> {given}
      [] answer \in {"failed", "down"} -> 0..(given - 1)
      [] answer = "config" -> {0}
      [] OTHER -> 0..given

NewStep(kind) ==
    [kind |-> kind, at |-> 1, trying |-> FALSE, left |-> StepTimeout, attempted |-> 0,
     hard |-> FALSE, alive |-> FALSE, skipped |-> FALSE, offScreen |-> FALSE,
     axDown |-> FALSE, axCounted |-> FALSE, seen |-> FALSE, lastFail |-> FALSE,
     trail |-> [r \in {"source", "template"} |-> "none"], verdict |-> "running"]

(* A finished step: what it reports and, if it gave up, what its rungs     *)
(* last said (the trail is part of the escalation only).                   *)
Done(s, v) ==
    [NewStep(s.kind) EXCEPT !.verdict = v,
        !.trail = IF v \in {"timeout", "off_viewport", "failed"} THEN s.trail ELSE @]
NoStep == Done(NewStep("sim"), "stopped")

IsRunning(w) == ladder[w].verdict = "running"
Rung(s) == Rungs(s.kind)[s.at]
Slot(r) == IF r \in {"ax", "ocr"} THEN "source" ELSE r
Said(s, r, o) == IF r = "map" THEN s ELSE [s EXCEPT !.trail[Slot(r)] = o]

LadderTypeOK ==
    /\ \A w \in Worker :
         /\ ladder[w].kind \in LadderKinds[w] \cup {"sim"}
         /\ ladder[w].at \in 1..4
         /\ ladder[w].left \in 0..StepTimeout
         /\ ladder[w].attempted \in 0..2
         /\ ladder[w].verdict \in Verdicts
         /\ ladder[w].trail \in [{"source", "template"} -> Outcome]
    /\ axFails \in Nat /\ failing \in Nat /\ openedAfter \in Nat
    /\ axOpen \in BOOLEAN
    /\ charged \subseteq Worker

LadderInit ==
    /\ ladder = [w \in Worker |-> NoStep]
    /\ axFails = 0 /\ axOpen = FALSE
    /\ charged = {} /\ failing = 0 /\ openedAfter = 0

-----------------------------------------------------------------------------
(* The breaker.  A step charges it at most once; the charge that reaches   *)
(* the threshold opens the circuit, and nothing closes it for this lease.  *)
countAXFailure_EachTime(w) ==
    /\ axFails' = axFails + 1
    /\ axOpen' = (axOpen \/ axFails + 1 >= axBreakerThreshold)
    /\ charged' = charged \cup {w}
    /\ failing' = IF w \in charged THEN failing ELSE failing + 1
    /\ openedAfter' = IF axOpen THEN openedAfter ELSE failing'
countAXFailure(w) ==
    IF ladder[w].axCounted
    THEN UNCHANGED <<axFails, axOpen, charged, failing, openedAfter>>
    ELSE /\ axFails' = axFails + 1
         /\ axOpen' = (axOpen \/ axFails + 1 >= axBreakerThreshold)
         /\ charged' = charged \cup {w}
         /\ failing' = IF w \in charged THEN failing ELSE failing + 1
         /\ openedAfter' = IF axOpen THEN openedAfter ELSE failing'

(* An honest answer of the source forgets the failures, not an open circuit. *)
succeed ==
    /\ axFails' = 0 /\ charged' = {} /\ failing' = 0
    /\ UNCHANGED <<axOpen, openedAfter>>

BreakerSame == UNCHANGED <<axFails, axOpen, charged, failing, openedAfter>>

Becomes(w, s) == ladder' = [ladder EXCEPT ![w] = s]

(* resolveLadder starts: a new step of this worker. *)
StepStarts(w) ==
    /\ ~IsRunning(w)
    /\ \E kind \in LadderKinds[w] : Becomes(w, NewStep(kind))
    /\ charged' = charged \ {w}
    /\ UNCHANGED <<axFails, axOpen, failing, openedAfter>>

(* The turn of a rung: skipped when the circuit is open, else attempted.   *)
(* The map rung is a cache lookup and does not count as an attempt.        *)
RungStarts(w) ==
    LET s == ladder[w]
        r == Rung(s)
    IN  /\ IsRunning(w) /\ ~s.trying /\ s.at <= 3 /\ s.left > 0
        /\ IF Guarded(s.kind, r) /\ axOpen
           THEN Becomes(w, [s EXCEPT !.skipped = TRUE, !.at = @ + 1, !.trail["source"] = "skipped"])
           ELSE Becomes(w, [s EXCEPT !.trying = TRUE,
                                     !.attempted = @ + (IF r = "map" THEN 0 ELSE 1)])
        /\ BreakerSame

(* A match on screen ends the step. *)
RungHits(w, s, r) ==
    /\ Becomes(w, Done(s, "hit"))
    /\ IF Guarded(s.kind, r) THEN succeed ELSE BreakerSame

(* A match outside the viewport: the wait goes on. *)
RungOff(w, s, r) ==
    /\ Becomes(w, [s EXCEPT !.offScreen = TRUE, !.alive = TRUE, !.seen = TRUE, !.axDown = FALSE,
                            !.trail[Slot(r)] = "off"])
    /\ IF Guarded(s.kind, r) THEN succeed ELSE BreakerSame

(* An honest miss.  A miss of the map is no evidence that a rung is alive, *)
(* and only a rung that observed leaves an observation.                    *)
MissOff_Kept(s) == s.offScreen
MissOff(s) == FALSE
MissAlive_Always(r) == TRUE
MissAlive(r) == r # "map"
RungMisses(w, s, r) ==
    /\ \E observed \in BOOLEAN :
         Becomes(w, Said([s EXCEPT !.offScreen = MissOff(s), !.alive = @ \/ MissAlive(r),
                                   !.axDown = @ /\ ~Guarded(s.kind, r),
                                   !.seen = @ \/ (r # "map" /\ (observed \/ r = "template"))],
                         r, "miss"))
    /\ IF Guarded(s.kind, r) THEN succeed ELSE BreakerSame

(* The rung can never serve this matcher: as if it were not there. *)
RungCannot(w, s, r) ==
    /\ Becomes(w, [s EXCEPT !.attempted = @ - 1, !.trail[Slot(r)] = "cannot"])
    /\ BreakerSame

(* The source is transiently down: charged only if it stays down. *)
RungDown(w, s, r) ==
    /\ Becomes(w, [s EXCEPT !.axDown = Guarded(s.kind, r), !.offScreen = FALSE, !.alive = TRUE,
                            !.trail[Slot(r)] = "down"])
    /\ BreakerSame

(* The attempt's budget ran out: a charge, unless the whole wait is over. *)
RungCut(w, s, r) ==
    LET counts == Guarded(s.kind, r) /\ s.left > 0
    IN  /\ Becomes(w, [s EXCEPT !.offScreen = FALSE, !.alive = TRUE,
                                !.axCounted = @ \/ counts, !.trail[Slot(r)] = "cut"])
        /\ IF counts THEN countAXFailure(w) ELSE BreakerSame

(* The source failed hard. *)
RungFails(w, s, r) ==
    LET counts == Guarded(s.kind, r)
    IN  /\ Becomes(w, [s EXCEPT !.offScreen = FALSE, !.hard = TRUE, !.lastFail = TRUE,
                                !.axCounted = @ \/ counts, !.trail[Slot(r)] = "failed"])
        /\ IF counts THEN countAXFailure(w) ELSE BreakerSame

(* An attempt ends after some of the wait has passed. *)
RungEnds(w) ==
    LET s == ladder[w]
        r == Rung(s)
        given == Given(s.kind, r, s.left)
    IN  /\ IsRunning(w) /\ s.trying
        /\ \E answer \in Answers(s.kind, r) : \E d \in Takes(answer, given) :
             LET t == [s EXCEPT !.trying = FALSE, !.at = @ + 1, !.left = @ - d]
             IN  \/ answer = "hit" /\ RungHits(w, t, r)
                 \/ answer = "off" /\ RungOff(w, t, r)
                 \/ answer = "miss" /\ RungMisses(w, t, r)
                 \/ answer = "cannot" /\ RungCannot(w, t, r)
                 \/ answer = "down" /\ RungDown(w, t, r)
                 \/ answer = "cut" /\ RungCut(w, t, r)
                 \/ answer = "failed" /\ RungFails(w, t, r)
                 \/ /\ answer \in {"config", "ambiguous"}
                    /\ Becomes(w, Done(t, "stopped"))
                    /\ BreakerSame

(* The caller's own deadline, or its disconnection, stops the step. *)
CallerGone(w) ==
    /\ IsRunning(w)
    /\ Becomes(w, Done(ladder[w], "ambient"))
    /\ BreakerSame

(* What the step reports when its cycles are over. *)
Reports(s) ==
    IF ~s.seen /\ s.lastFail /\ ~s.skipped THEN "failed"
    ELSE IF s.offScreen THEN "off_viewport"
    ELSE "timeout"

(* A cycle no rung survived ends the step at once with the hard failure.   *)
Doomed(s) == s.hard /\ ~s.alive

(* The end of a cycle: fail fast, give up, or wait and start again. *)
CycleEnds(w) ==
    LET s == ladder[w]
    IN  /\ IsRunning(w) /\ ~s.trying /\ (s.at = 4 \/ s.left = 0)
        /\ IF Doomed(s)
           THEN Becomes(w, Done(s, "failed")) /\ BreakerSame
           ELSE IF s.left = 0 \/ (s.attempted = 0 /\ s.skipped)
           THEN /\ Becomes(w, Done(s, Reports(s)))
                /\ IF s.axDown THEN countAXFailure(w) ELSE BreakerSame
           ELSE /\ Becomes(w, [s EXCEPT !.at = 1, !.left = @ - 1, !.attempted = 0,
                                        !.hard = FALSE, !.alive = FALSE])
                /\ BreakerSame

LadderNext == \E w \in Worker :
    StepStarts(w) \/ RungStarts(w) \/ RungEnds(w) \/ CycleEnds(w) \/ CallerGone(w)
LadderSpec == LadderInit /\ [][LadderNext]_ladVars

-----------------------------------------------------------------------------
(* Only repeated failing steps open the circuit: however many polls of one *)
(* step fail, and whatever other steps do meanwhile, at least the          *)
(* threshold's number of steps were charged since the source last gave an  *)
(* honest answer (the reason for axCounted in resolveLadder).              *)
LadderBreakerSteps == axOpen => openedAfter >= axBreakerThreshold

(* A doomed source is reported, not waited out: a step that escalates with *)
(* a timeout although its source's last answer was a hard failure had a    *)
(* template rung that could still see the screen (hardFail && !alive).     *)
LadderFailsFast == \A w \in Worker :
    ladder[w].verdict = "timeout" /\ ladder[w].trail["source"] = "failed"
        => ladder[w].trail["template"] \in {"miss", "cut"}

(* The fast path never starves the real source: a step that gives up has   *)
(* asked its source, or found its circuit open (the half of the wait that  *)
(* the map rung leaves).                                                   *)
LadderSourceAsked == \A w \in Worker :
    ladder[w].verdict \in {"timeout", "off_viewport", "failed"} => ladder[w].trail["source"] # "none"

(* off_viewport is only reported when the last word of the source was a    *)
(* match off screen: a later miss, failure or cut of any rung withdraws it *)
(* (the resets of offScreen in resolveLadder).                             *)
LadderOffIsLast == \A w \in Worker :
    ladder[w].verdict = "off_viewport" => ladder[w].trail["source"] = "off"
LadderSafe == LadderBreakerSteps /\ LadderFailsFast /\ LadderSourceAsked /\ LadderOffIsLast
=============================================================================
