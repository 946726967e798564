----------------------------- MODULE MCActions ------------------------------
(***************************************************************************)
(* Small instances, for TLC, of the actions on a target (waits, scrolls,   *)
(* element resolution, the element map), the WebDriverAgent sessions those *)
(* on devices share, the device manager and the registry that lists        *)
(* targets.                                                                *)
(* No component below reads another's variables, so they are explored one  *)
(* at a time: `part` names the one that moves, the others have no state.   *)
(***************************************************************************)
EXTENDS Waits, Scrolls, Ladder, ElementMap, Wda, Devices, Registry, TLC

CONSTANT Parts   \* the components this run explores

VARIABLE part    \* the component that moves

CONSTANTS p1, p2

(* c1 and c2 are the two callers or workers of whichever component moves. *)
ActionsSymmetry == Permutations(Worker)

(* Devices: a launched and a forwarded runner, swapped ports, a phone that *)
(* loses its runner for the mirror, everything off, and a shared port.     *)
Launched(p) == [url |-> p, launch |-> TRUE, forward |-> p]
Forwarded(p) == [url |-> p, launch |-> FALSE, forward |-> p]
Config(on, w, m) == [enabled |-> on, wda |-> w, mirror |-> m]
SmallConfigs ==
  {Config(TRUE, p1 :> Launched(1) @@ p2 :> Forwarded(2), {}),
   Config(TRUE, p1 :> Launched(2) @@ p2 :> Forwarded(1), {}),
   Config(TRUE, p1 :> Launched(1), {p2}),
   Config(FALSE, p1 :> Launched(1) @@ p2 :> Forwarded(2), {}),
   Config(TRUE, p1 :> Launched(1) @@ p2 :> Forwarded(1), {})}

(* Ladder: budgets as long as the wait allows, two steps on one phone. *)
SmallBudget == [map |-> 2, ax |-> 1, template |-> 1]
WdaOnly == [w \in Worker |-> {"wda"}]

(* Element map: the element is elsewhere on each screen. *)
ElsewhereOn == [s \in ScreenId |-> IF s = 1 THEN "top" ELSE "bottom"]

Active(p) == part = p
Off == "off"

(* A component that does not take part has no state. *)
WaitOff == wReq = Off /\ wScreen = Off /\ wClock = Off /\ wAt = Off /\
    wPrev = Off /\ wStreak = Off /\ wReadable = Off /\ wSeen = Off /\
    wRes = Off
ScrOff == wanted = Off /\ rowTop = Off /\ loaded = Off /\ lost = Off /\
    scrAt = Off /\ scrolls = Off /\ prevSet = Off /\ newSet = Off /\
    nonMoves = Off /\ harvest = Off /\ endOfList = Off /\ stopped = Off
LadderOff == ladder = Off /\ axFails = Off /\ axOpen = Off /\ charged = Off /\
    failing = Off /\ openedAfter = Off
EmapOff == launched = Off /\ shown = Off /\ emap = Off /\ eact = Off /\
    distrusted = Off
WdaOff == runner = Off /\ alive = Off /\ session = Off /\ needsReady = Off /\
    readyExhausted = Off /\ readyBy = Off /\ armed = Off /\ lapsed = Off /\
    createMu = Off /\ wdaCall = Off /\ supervisor = Off /\ kick = Off
DevOff == cur = Off /\ applying = Off /\ sups = Off /\ dying = Off /\
    children = Off /\ wired = Off /\ wiredMirror = Off /\ published = Off /\
    devicesOn = Off /\ kinds = Off /\ applies = Off /\ closed = Off /\
    undead = Off /\ route = Off /\ pinned = Off
RegOff == simctl = Off /\ devicectl = Off /\ extrasOn = Off /\
    mirrorSocket = Off /\ screen = Off /\ helperUp = Off /\
    knowsLight = Off /\ cache = Off /\ probing = Off /\ probeMem = Off /\
    reported = Off /\ missed = Off /\ flicker = Off

actionsVars == <<waitVars, scrVars, ladVars, emapVars, wdaVars, devVars,
    regVars, part>>

ActionsInit ==
  /\ part \in Parts
  /\ IF Active("waits") THEN WaitInit ELSE WaitOff
  /\ IF Active("scrolls") THEN ScrInit ELSE ScrOff
  /\ IF Active("ladder") THEN LadderInit ELSE LadderOff
  /\ IF Active("elementmap") THEN EmapInit ELSE EmapOff
  /\ IF Active("wda") THEN WdaInit ELSE WdaOff
  /\ IF Active("devices") THEN DevInit ELSE DevOff
  /\ IF Active("registry") THEN RegInit ELSE RegOff

Rests(p, v) == IF Active(p) THEN TRUE ELSE UNCHANGED v
Alone ==
  /\ UNCHANGED part
  /\ Rests("waits", waitVars)
  /\ Rests("scrolls", scrVars)
  /\ Rests("ladder", ladVars)
  /\ Rests("elementmap", emapVars)
  /\ Rests("wda", wdaVars)
  /\ Rests("devices", devVars)
  /\ Rests("registry", regVars)

ActionsNext ==
  \/ Active("waits") /\ Alone /\ WaitNext
  \/ Active("scrolls") /\ Alone /\ ScrNext
  \/ Active("ladder") /\ Alone /\ LadderNext
  \/ Active("elementmap") /\ Alone /\ EmapNext
  \/ Active("wda") /\ Alone /\ WdaNext
  \/ Active("devices") /\ Alone /\ DevNext
  \/ Active("registry") /\ Alone /\ RegNext

ActionsSpec == ActionsInit /\ [][ActionsNext]_actionsVars

-----------------------------------------------------------------------------
(* Every component that takes part keeps its types. *)
ActionsTypeOK ==
  /\ Active("waits") => WaitTypeOK
  /\ Active("scrolls") => ScrTypeOK
  /\ Active("ladder") => LadderTypeOK
  /\ Active("elementmap") => EmapTypeOK
  /\ Active("wda") => WdaTypeOK
  /\ Active("devices") => DevTypeOK
  /\ Active("registry") => RegTypeOK

(* A wait reports a screen stable exactly when its last samples agree, and *)
(* unstable only after the whole budget and what it saw; a scroll that     *)
(* reports the end of the list has seen every row; a step gives up only    *)
(* after asking its source, its breaker opens only after the threshold's   *)
(* number of failing steps, and off-viewport is the source's last word; a  *)
(* frame served from the map is true of the captured screen, and a         *)
(* distrusted bundle has none; a device action reports an invalid          *)
(* WebDriverAgent session only if the runner was restarted during it, and  *)
(* a runner that stays down costs one readiness wait.                      *)
ActionsSound ==
  /\ Active("waits") => WaitSafe
  /\ Active("scrolls") => ScrSafe
  /\ Active("ladder") => LadderSafe
  /\ Active("elementmap") => EmapSafe
  /\ Active("wda") => WdaSafe

(* However configurations follow each other, no phone has two runner       *)
(* sessions and no port two forwards, a reconfiguration ends with exactly  *)
(* what it configures supervised, wired and published, and an action on a  *)
(* phone some configuration named never runs on the simulator tooling      *)
(* (Apply, SeedDeviceKinds, InvalidateKinds); a target is reported missing *)
(* only when every registry that could have it answered, a listing agrees  *)
(* with a lookup, and no status outlives its configuration (owner, List,   *)
(* statusFor).                                                             *)
DevicesSound ==
  /\ Active("devices") => DevSafe
  /\ Active("registry") => RegSafe

=============================================================================
