------------------------------- MODULE Waits -------------------------------
(***************************************************************************)
(* The wait actions (internal/actions wait.go, wait_stable.go,             *)
(* wait_pixel_stable.go, wait_element.go): a poll loop within a budget     *)
(* that reads a screen which changes underneath, and decides that it has   *)
(* settled, that it is live, or that an element has come or gone.          *)
(* A screen is a number; what two captures have in common is whether they  *)
(* are the same one, the pixel diff being under the threshold exactly then.*)
(***************************************************************************)
EXTENDS Integers, Sequences

CONSTANTS
    WScreen,      \* contents of the screen
    Matched,      \* contents with exactly one match of the predicate
    Ambiguous,    \* contents with several
    WaitTimeout,  \* the budget, in intervals
    MaxNeed       \* bound: samples asked for

ASSUME WaitAssumption ==
    /\ WScreen \subseteq Nat \ {0} /\ Matched \subseteq WScreen /\ Ambiguous \subseteq WScreen \ Matched
    /\ WaitTimeout \in Nat \ {0} /\ MaxNeed \in Nat /\ MaxNeed >= 2

WaitKinds == {"tree", "pixel", "appear", "absent"}
NoRead == 0    \* no content: nothing read yet, or an unreadable screen

VARIABLES
    wReq,      \* the request: its kind, the samples it needs, require_stable
    wScreen,   \* what the screen shows
    wClock,    \* time spent
    wAt,       \* "polling", "pausing" or "done"
    wPrev,     \* the content the streak is about
    wStreak,
    wReadable, \* has a tree been read, or a pair of frames compared?
    wSeen,     \* history: what each poll read
    wRes       \* the answer
waitVars == <<wReq, wScreen, wClock, wAt, wPrev, wStreak, wReadable, wSeen, wRes>>

WaitAnswers == {"none", "stable", "unstable", "found", "gone", "timeout", "early", "failed", "ambiguous"}

WaitTypeOK ==
    /\ wReq \in [kind : WaitKinds, need : 1..MaxNeed, require : BOOLEAN]
    /\ wScreen \in WScreen /\ wClock \in 0..WaitTimeout
    /\ wAt \in {"polling", "pausing", "done"}
    /\ wPrev \in WScreen \cup {NoRead} /\ wStreak \in 0..MaxNeed
    /\ wReadable \in BOOLEAN /\ wRes \in WaitAnswers
    /\ Len(wSeen) <= WaitTimeout + 1 /\ \A i \in DOMAIN wSeen : wSeen[i] \in WScreen \cup {NoRead}

(* A tree wait takes at least two samples; the pixel wait's quiet window   *)
(* is at least one comparison.                                             *)
WaitInit ==
    /\ wReq \in [kind : WaitKinds, need : 1..MaxNeed, require : BOOLEAN]
    /\ wReq.kind # "pixel" => wReq.need >= 2
    /\ wScreen \in WScreen /\ wClock = 0 /\ wAt = "polling"
    /\ wPrev = NoRead /\ wStreak = 0 /\ wReadable = FALSE /\ wSeen = <<>> /\ wRes = "none"

(* The app draws something else. *)
ScreenChanges ==
    /\ wAt # "done" /\ \E s \in WScreen \ {wScreen} : wScreen' = s
    /\ UNCHANGED <<wReq, wClock, wAt, wPrev, wStreak, wReadable, wSeen, wRes>>

-----------------------------------------------------------------------------
Answer(res) == wAt' = "done" /\ wRes' = res
Continue == wAt' = "pausing" /\ UNCHANGED wRes

(* The budget is spent: a wait that never observed anything fails, one     *)
(* that did reports what it saw unless it must be stable.                  *)
WhenSpent_Unseen == IF wReq.kind \in {"tree", "pixel"} /\ ~wReq.require THEN "unstable" ELSE "timeout"
WhenSpent ==
    IF wReq.kind \in {"tree", "pixel"} /\ wReadable /\ ~wReq.require THEN "unstable" ELSE "timeout"
Spends == Answer(WhenSpent) /\ wClock' = WaitTimeout

(* The streak after reading s: trees that hash alike, or under-threshold   *)
(* diffs of consecutive captures, which need a first frame to compare with.*)
StreakAfter(s) ==
    IF wReq.kind \in {"appear", "absent"} THEN 0
    ELSE IF wPrev = s THEN wStreak + 1
    ELSE IF wReq.kind = "pixel" THEN 0 ELSE 1

(* The verdict on a readable screen s. *)
Verdict(s, streak) ==
    CASE wReq.kind \in {"tree", "pixel"} -> IF streak >= wReq.need THEN "stable" ELSE "none"
      [] wReq.kind = "appear" -> IF s \in Matched THEN "found" ELSE IF s \in Ambiguous THEN "ambiguous" ELSE "none"
      [] OTHER -> IF s \in Matched \cup Ambiguous THEN "none" ELSE "gone"

PollReads ==
    /\ wAt = "polling"
    /\ wSeen' = Append(wSeen, wScreen) /\ wPrev' = wScreen /\ wStreak' = StreakAfter(wScreen)
    /\ wReadable' = (wReadable \/ wReq.kind # "pixel" \/ wPrev # NoRead)
    /\ LET v == Verdict(wScreen, StreakAfter(wScreen))
       IN  IF v # "none" THEN Answer(v) ELSE Continue
    /\ UNCHANGED <<wReq, wScreen, wClock>>

(* A transient failure: the gap was not observed, so nothing before it     *)
(* counts any longer.                                                      *)
AfterGap_Kept == UNCHANGED <<wPrev, wStreak>>
AfterGap == wPrev' = NoRead /\ wStreak' = 0
PollGap ==
    /\ wAt = "polling" /\ wSeen' = Append(wSeen, NoRead)
    /\ AfterGap /\ Continue
    /\ UNCHANGED <<wReq, wScreen, wClock, wReadable>>

(* A poll that the deadline cuts short counts as not yet; any other        *)
(* failure ends the wait.                                                  *)
PollFails ==
    /\ wAt = "polling"
    /\ \/ Spends
       \/ Answer("failed") /\ UNCHANGED wClock
    /\ UNCHANGED <<wReq, wScreen, wPrev, wStreak, wReadable, wSeen>>

(* The interval, or what is left of the budget. *)
Pauses ==
    /\ wAt = "pausing"
    /\ IF wClock = WaitTimeout THEN Spends
       ELSE wAt' = "polling" /\ wClock' = wClock + 1 /\ UNCHANGED wRes
    /\ UNCHANGED <<wReq, wScreen, wPrev, wStreak, wReadable, wSeen>>

(* The caller's own context ends first: the stable waits report that they  *)
(* were cut short.                                                         *)
CallerEnds ==
    /\ wAt # "done"
    /\ Answer(IF wReq.kind \in {"tree", "pixel"} THEN "early" ELSE "timeout")
    /\ UNCHANGED <<wReq, wScreen, wClock, wPrev, wStreak, wReadable, wSeen>>

-----------------------------------------------------------------------------
WaitNext == ScreenChanges \/ PollReads \/ PollGap \/ PollFails \/ Pauses \/ CallerEnds
WaitSpec == WaitInit /\ [][WaitNext]_waitVars

-----------------------------------------------------------------------------
(* The last n polls all read one and the same content. *)
HeldStill(n) ==
    /\ Len(wSeen) >= n
    /\ \E s \in WScreen : \A i \in (Len(wSeen) - n + 1)..Len(wSeen) : wSeen[i] = s
Samples == IF wReq.kind = "pixel" THEN wReq.need + 1 ELSE wReq.need

(* A wait answers stable exactly when its last samples, one after the      *)
(* other with no unobserved gap between them, all read the same screen,    *)
(* and answers at the first poll that completes such a run.                *)
WaitStableTrue ==
    wReq.kind \in {"tree", "pixel"} =>
        /\ wRes = "stable" => HeldStill(Samples)
        /\ wAt # "done" => ~HeldStill(Samples)

(* "Still changing" is an observation: it is only reported when the whole  *)
(* budget was spent and the screen was really observed, twice in a row for *)
(* a comparison of captures.                                               *)
WaitLiveSeen ==
    wRes = "unstable" =>
        /\ wClock = WaitTimeout
        /\ IF wReq.kind = "tree" THEN \E i \in DOMAIN wSeen : wSeen[i] # NoRead
           ELSE \E i \in 2..Len(wSeen) : wSeen[i] # NoRead /\ wSeen[i - 1] # NoRead

WaitSafe == WaitStableTrue /\ WaitLiveSeen
=============================================================================
