----------------------------- MODULE ElementMap -----------------------------
(***************************************************************************)
(* The element map (internal/elementmap, resolver_map.go) and the element  *)
(* actions that use it (composite.go): tap_element and type_into_element   *)
(* resolve one named element, through the map's fingerprint-gated rung or  *)
(* an observing rung, learn where an observing rung found it, tap it, and  *)
(* drop the entry when the tap or the focus guard fails.  Several actions  *)
(* run on one target at the same time; the map outlives them all.          *)
(* A screen stands for everything with one fingerprint: two captures       *)
(* within mapMaxHashDistance are the same screen.                          *)
(***************************************************************************)
EXTENDS Integers, Sequences

CONSTANTS
    EAct,       \* element actions in progress
    AppId,      \* launched bundles
    ScreenId,   \* screens, by fingerprint
    CapClass,   \* device classes a capture may have ("<backend>/<img_w>")
    ScreenFrame,\* where the element is on a screen
    NoFrame,    \* it is not on that screen
    Steady      \* the screen stays from an observation to the learning capture

ASSUME ElementMapAssumption ==
    /\ DOMAIN ScreenFrame = ScreenId
    /\ Steady \in BOOLEAN

VARIABLES
    launched,   \* the bundle last launched on the target
    shown,      \* the screen the target shows
    emap,       \* the stored entries: bundle, class, frame, fingerprint
    eact,       \* the actions
    distrusted  \* history: bundles whose last event was a failed tap
emapVars == <<launched, shown, emap, eact, distrusted>>

Frames == {ScreenFrame[s] : s \in ScreenId} \ {NoFrame}
IdleAct == [pc |-> "idle", bundle |-> CHOOSE b \in AppId : TRUE, via |-> "none", frame |-> NoFrame,
            print |-> CHOOSE s \in ScreenId : TRUE, class |-> CHOOSE c \in CapClass : TRUE,
            todo |-> 0]

EmapTypeOK ==
    /\ launched \in AppId /\ shown \in ScreenId
    /\ emap \subseteq [bundle : AppId, class : CapClass, frame : Frames, print : ScreenId]
    /\ \A e, f \in emap : e.bundle = f.bundle /\ e.class = f.class => e = f
    /\ \A a \in EAct : eact[a].pc \in {"idle", "has", "capture", "get", "observe", "found",
                                        "learn", "put", "tap", "invalidate"}
    /\ distrusted \subseteq AppId

EmapInit ==
    /\ launched \in AppId /\ shown \in ScreenId
    /\ emap = {} /\ distrusted = {}
    /\ eact = [a \in EAct |-> IdleAct]

Act(a, r) == eact' = [eact EXCEPT ![a] = r]
TargetSame == UNCHANGED <<launched, shown>>
StoreSame == UNCHANGED <<emap, distrusted>>

(* Store.Put, Store.Remove: under the store's lock, written then renamed.  *)
Put_Beside(b, c, f, s) == emap \cup {[bundle |-> b, class |-> c, frame |-> f, print |-> s]}
Put(b, c, f, s) ==
    {e \in emap : e.bundle # b \/ e.class # c} \cup {[bundle |-> b, class |-> c, frame |-> f, print |-> s]}
Remove(b, classes) == {e \in emap : e.bundle # b \/ e.class \notin classes}
Has(b) == \E e \in emap : e.bundle = b

(* elemTap, elemTypeInto: refresh asks for a cold observation. *)
ActionBegins(a) ==
    /\ eact[a].pc = "idle"
    /\ \E refresh \in BOOLEAN :
         Act(a, [IdleAct EXCEPT !.pc = IF refresh THEN "observe" ELSE "has", !.bundle = launched])
    /\ TargetSame /\ StoreSame

(* mapResolver.resolve: nothing learned for the bundle costs no screenshot. *)
MapLooks(a) ==
    /\ eact[a].pc = "has"
    /\ Act(a, [eact[a] EXCEPT !.pc = IF Has(eact[a].bundle) THEN "capture" ELSE "observe"])
    /\ TargetSame /\ StoreSame

(* The capture, of whatever class the tool that made it has; it may fail. *)
MapCaptures(a) ==
    /\ eact[a].pc = "capture"
    /\ \/ Act(a, [eact[a] EXCEPT !.pc = "observe"])
       \/ \E c \in CapClass : Act(a, [eact[a] EXCEPT !.pc = "get", !.print = shown, !.class = c])
    /\ TargetSame /\ StoreSame

(* A hit needs an entry of the class whose fingerprint is this capture's. *)
Matching_AnyScreen(e, x) == e.bundle = x.bundle /\ e.class = x.class
Matching(e, x) == e.bundle = x.bundle /\ e.class = x.class /\ e.print = x.print
MapGets(a) ==
    /\ eact[a].pc = "get"
    /\ \/ \E e \in emap : /\ Matching(e, eact[a])
                          /\ Act(a, [eact[a] EXCEPT !.pc = "found", !.via = "map", !.frame = e.frame])
       \/ /\ ~\E e \in emap : Matching(e, eact[a])
          /\ Act(a, [eact[a] EXCEPT !.pc = "observe"])
    /\ TargetSame /\ StoreSame

(* An observing rung finds the element on the screen, or the wait ends. *)
Observes(a) ==
    /\ eact[a].pc = "observe"
    /\ \/ /\ ScreenFrame[shown] # NoFrame
          /\ Act(a, [eact[a] EXCEPT !.pc = "found", !.via = "source", !.frame = ScreenFrame[shown]])
       \/ Act(a, IdleAct)
    /\ TargetSame /\ StoreSame

(* What follows a resolution: learning, unless the map served it, and then *)
(* the tap.                                                                *)
StagesOf_TapFirst(via) == IF via = "map" THEN <<"tap">> ELSE <<"tap", "learn">>
StagesOf(via) == IF via = "map" THEN <<"tap">> ELSE <<"learn", "tap">>
GoesOn(a, r) ==
    LET n == eact[a].todo + 1
    IN  IF n \in DOMAIN StagesOf(eact[a].via)
        THEN Act(a, [r EXCEPT !.pc = StagesOf(eact[a].via)[n], !.todo = n])
        ELSE Act(a, IdleAct)
FoundAt(a) ==
    /\ eact[a].pc = "found"
    /\ GoesOn(a, eact[a])
    /\ TargetSame /\ StoreSame

(* elementMapper.learn: a fresh capture, then Put under the bundle that is *)
(* launched by then; a failed capture skips the recording.                 *)
LearnCaptures(a) ==
    /\ eact[a].pc = "learn"
    /\ \/ GoesOn(a, eact[a])
       \/ \E c \in CapClass : Act(a, [eact[a] EXCEPT !.pc = "put", !.print = shown, !.class = c])
    /\ TargetSame /\ StoreSame
LearnPuts(a) ==
    /\ eact[a].pc = "put"
    /\ emap' = Put(launched, eact[a].class, eact[a].frame, eact[a].print)
    /\ distrusted' = distrusted \ {launched}
    /\ GoesOn(a, eact[a])
    /\ TargetSame

(* tapAnchor and, for typing, requireFocusedField: the tap works or not. *)
Taps(a) ==
    /\ eact[a].pc = "tap"
    /\ \/ GoesOn(a, eact[a])
       \/ Act(a, [eact[a] EXCEPT !.pc = "invalidate"])
    /\ TargetSame /\ StoreSame

(* elementMapper.invalidate: the name goes, in every class of the bundle. *)
Dropped_OneClass(x) == {x.class}
Dropped(x) == CapClass
Invalidates(a) ==
    /\ eact[a].pc = "invalidate"
    /\ emap' = Remove(launched, Dropped(eact[a]))
    /\ distrusted' = distrusted \cup {eact[a].bundle}
    /\ Act(a, IdleAct)
    /\ TargetSame

(* handleElementMapDelete: leaseless, one class of a bundle or all. *)
Deletes ==
    /\ \E b \in AppId, cs \in {CapClass} \cup {{c} : c \in CapClass} : emap' = Remove(b, cs)
    /\ UNCHANGED <<eact, distrusted>> /\ TargetSame

(* The app moves to another screen; an app is launched (noteLaunchedBundle). *)
(* When Steady, the screen stays from an observation to the capture that     *)
(* learns from it, and no app is launched in the middle of an action.        *)
Settled == Steady => \A a \in EAct : ~(eact[a].pc \in {"found", "learn"} /\ eact[a].via = "source")
Quiet == Steady => \A a \in EAct : eact[a].pc = "idle"
ScreenMoves ==
    /\ Settled
    /\ \E s \in ScreenId \ {shown} : shown' = s
    /\ UNCHANGED <<launched, eact>> /\ StoreSame
Launches ==
    /\ Quiet
    /\ \E b \in AppId : launched' = b
    /\ \E s \in ScreenId : shown' = s
    /\ UNCHANGED eact /\ StoreSame

EmapStep(a) ==
    \/ ActionBegins(a) \/ MapLooks(a) \/ MapCaptures(a) \/ MapGets(a) \/ Observes(a)
    \/ FoundAt(a) \/ LearnCaptures(a) \/ LearnPuts(a) \/ Taps(a) \/ Invalidates(a)
EmapNext == (\E a \in EAct : EmapStep(a)) \/ Deletes \/ ScreenMoves \/ Launches
EmapSpec == EmapInit /\ [][EmapNext]_emapVars

-----------------------------------------------------------------------------
(* A frame the map serves is where the element is on the captured screen:  *)
(* the fingerprint stored with a frame is that of the screen the element   *)
(* was found on (learning before the tap), and a hit needs that screen.    *)
EmapServesTrue == \A a \in EAct :
    eact[a].via = "map" => eact[a].frame = ScreenFrame[eact[a].print]

(* After a tap the map or an observing rung steered has failed, the bundle *)
(* has no entry left until an observing rung learns it anew, whatever the  *)
(* class of the capture and whoever else is learning (invalidate).         *)
EmapDistrusted == \A b \in distrusted : ~\E e \in emap : e.bundle = b
EmapSafe == EmapServesTrue /\ EmapDistrusted
=============================================================================
