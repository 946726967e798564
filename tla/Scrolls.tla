------------------------------ MODULE Scrolls ------------------------------
(***************************************************************************)
(* scroll_until and scroll_collect (internal/actions scroll_until.go,      *)
(* scroll_collect.go, textset.go): gesture down a list, settle, decide by  *)
(* the overlap of the visible texts whether the list moved, and stop at    *)
(* the text, at the end of the list, or when the gestures run out.         *)
(* The list is rows 1..Rows, of which the first `loaded` are there; the    *)
(* row after them is a spinner until the app has loaded more.  Row 0 is    *)
(* the header, visible on every screen.                                    *)
(***************************************************************************)
EXTENDS Integers, FiniteSets

CONSTANTS
    Rows,         \* rows of the list
    Window,       \* rows on a screen
    StepRows,     \* rows a gesture moves the list by
    PageRows,     \* rows the app loads at a time
    MaxScrolls,   \* max_scrolls
    MaxLost       \* bound: gestures the list ignores

ASSUME ScrAssumption ==
    /\ {Rows, Window, StepRows, PageRows, MaxScrolls} \subseteq Nat \ {0}
    /\ StepRows < Window /\ Window <= PageRows /\ PageRows <= Rows /\ MaxLost \in Nat

VARIABLES
    wanted,      \* the row scroll_until looks for (one too many: not in the list); 0 for scroll_collect
    rowTop,      \* first visible row
    loaded,      \* rows loaded
    lost,        \* gestures the list ignored
    scrAt,       \* where the loop is
    scrolls,     \* gestures made
    prevSet,     \* texts of the screen before the gesture
    newSet,      \* texts of the screen after it
    nonMoves,    \* consecutive screens that did not move
    harvest,     \* texts visited
    endOfList,   \* result fields
    stopped
scrVars == <<wanted, rowTop, loaded, lost, scrAt, scrolls, prevSet, newSet, nonMoves, harvest, endOfList, stopped>>

Lower(a, b) == IF a < b THEN a ELSE b
Visible == {0} \cup (rowTop..Lower(rowTop + Window - 1, loaded))
(* The list scrolls until its last line, a spinner included, is in view.   *)
LastTop == LET lines == IF loaded < Rows THEN loaded + 1 ELSE loaded
           IN  IF lines <= Window THEN 1 ELSE lines - Window + 1

ScrTypeOK ==
    /\ wanted \in 0..(Rows + 1) /\ rowTop \in 1..Rows /\ loaded \in 1..Rows /\ lost \in 0..MaxLost
    /\ scrAt \in {"observing", "gesturing", "settling", "grace", "checking", "done"}
    /\ scrolls \in 0..MaxScrolls /\ nonMoves \in 0..2
    /\ prevSet \subseteq 0..Rows /\ newSet \subseteq 0..Rows /\ harvest \subseteq 0..Rows
    /\ endOfList \in BOOLEAN /\ stopped \in BOOLEAN

(* Disturbances come one kind at a time: a list that is still loading      *)
(* ignores no gesture (see the README on both together).                   *)
ScrInit ==
    /\ wanted \in 0..(Rows + 1) /\ rowTop = 1 /\ loaded \in PageRows..Rows /\ lost = IF loaded < Rows THEN MaxLost ELSE 0
    /\ scrAt = "observing" /\ scrolls = 0 /\ prevSet = {} /\ newSet = {} /\ nonMoves = 0
    /\ harvest = {} /\ endOfList = FALSE /\ stopped = FALSE

-----------------------------------------------------------------------------
(* jaccard(a, b) >= moved_jaccard, which is 0.6 unless the caller says     *)
(* otherwise.                                                              *)
Overlaps(a, b) == 5 * Cardinality(a \cap b) >= 3 * Cardinality(a \cup b)
(* jaccard(p, b) < jaccard(p, a) *)
LessAlike(p, b, a) ==
    Cardinality(p \cap b) * Cardinality(p \cup a) < Cardinality(p \cap a) * Cardinality(p \cup b)

(* The app loads what the spinner stands for once it is in view. *)
SpinnerInView == loaded < Rows /\ rowTop + Window - 1 > loaded
PageLoads ==
    /\ SpinnerInView /\ scrAt # "done" /\ loaded' = Lower(loaded + PageRows, Rows)
    /\ UNCHANGED <<wanted, rowTop, lost, scrAt, scrolls, prevSet, newSet, nonMoves, harvest, endOfList, stopped>>

Found(set) == wanted \in set \ {0}
(* visit: the screen's texts are harvested; the wanted one stops the loop. *)
Visits(set, next) ==
    /\ harvest' = harvest \cup set
    /\ stopped' = Found(set)
    /\ scrAt' = IF Found(set) THEN "done" ELSE next

FirstScreen ==
    /\ scrAt = "observing" /\ prevSet' = Visible /\ Visits(Visible, "gesturing")
    /\ UNCHANGED <<wanted, rowTop, loaded, lost, scrolls, newSet, nonMoves, endOfList>>

(* The gesture moves the list, or has no effect (errGestureNoEffect is no  *)
(* failure).  The loop also ends at max_scrolls and at the deadline.       *)
Gesture ==
    /\ scrAt = "gesturing" /\ scrolls < MaxScrolls
    /\ scrolls' = scrolls + 1 /\ scrAt' = "settling"
    /\ \/ rowTop' = Lower(rowTop + StepRows, LastTop) /\ UNCHANGED lost
       \/ lost < MaxLost /\ lost' = lost + 1 /\ UNCHANGED rowTop
    /\ UNCHANGED <<wanted, loaded, prevSet, newSet, nonMoves, harvest, endOfList, stopped>>
LoopEnds ==
    /\ scrAt \in {"gesturing", "settling"} /\ scrAt' = "done"
    /\ UNCHANGED <<wanted, rowTop, loaded, lost, scrolls, prevSet, newSet, nonMoves, harvest, endOfList, stopped>>

(* settleObservation, then the lazy-load grace for a screen that looks     *)
(* unmoved: one more look, kept when it differs more from the last screen. *)
(* The app has loaded the page by then.                                    *)
Settles ==
    /\ scrAt = "settling" /\ newSet' = Visible
    /\ scrAt' = IF Overlaps(prevSet, Visible) THEN "grace" ELSE "checking"
    /\ UNCHANGED <<wanted, rowTop, loaded, lost, scrolls, prevSet, nonMoves, harvest, endOfList, stopped>>
AfterGrace == IF LessAlike(prevSet, Visible, newSet) THEN Visible ELSE newSet
GraceEnds ==
    /\ scrAt = "grace" /\ ~SpinnerInView
    /\ newSet' = AfterGrace /\ scrAt' = "checking"
    /\ UNCHANGED <<wanted, rowTop, loaded, lost, scrolls, prevSet, nonMoves, harvest, endOfList, stopped>>

(* The moved check: two screens in a row that did not move are the end.    *)
NonMoves_NoReset == IF Overlaps(prevSet, newSet) THEN nonMoves + 1 ELSE nonMoves
NonMoves == IF Overlaps(prevSet, newSet) THEN nonMoves + 1 ELSE 0
endOfListNonMoves_One == 1
endOfListNonMoves == 2
Checks ==
    /\ scrAt = "checking"
    /\ Visits(newSet, IF NonMoves >= endOfListNonMoves THEN "done" ELSE "gesturing")
    /\ nonMoves' = NonMoves
    /\ endOfList' = (~stopped' /\ NonMoves >= endOfListNonMoves)
    /\ prevSet' = newSet
    /\ UNCHANGED <<wanted, rowTop, loaded, lost, scrolls, newSet>>

-----------------------------------------------------------------------------
ScrNext == PageLoads \/ FirstScreen \/ Gesture \/ LoopEnds \/ Settles \/ GraceEnds \/ Checks
ScrSpec == ScrInit /\ [][ScrNext]_scrVars

-----------------------------------------------------------------------------
(* A result that says the list ended has seen all of it: neither an        *)
(* ignored gesture nor a spinner nor a short last move is taken for the    *)
(* end, and the text scroll_until did not find is not in the list.         *)
ScrEndTrue == endOfList => harvest = 0..Rows /\ wanted \notin 1..Rows

(* Whatever stops the loop, what it collected has no holes: every row up   *)
(* to the furthest one was visited, rows that came late included.          *)
ScrNoGaps == \A r \in harvest : 1..r \subseteq harvest

ScrSafe == ScrEndTrue /\ ScrNoGaps
=============================================================================
