---------------------------- MODULE ActionsProofs ---------------------------
(***************************************************************************)
(* What is proved, for every value of their constants, of the actions on a *)
(* target (waits, scrolls, element resolution, the element map), the       *)
(* WebDriverAgent sessions those on devices share, the device manager and  *)
(* the registry that lists targets.                                        *)
(***************************************************************************)
EXTENDS MCActions, FiniteSetTheorems, TLAPS

-----------------------------------------------------------------------------
(* Waits.                                                                  *)

(* How many of the last polls the streak is about. *)
WaitRun == IF wReq.kind = "pixel" THEN wStreak + 1 ELSE wStreak

(* The streak is the longest run of one content at the end of the polls,   *)
(* and a wait that goes on has not seen enough of it.                      *)
WaitStreak ==
  wReq.kind \in {"tree", "pixel"} =>
    /\ wPrev = NoRead => wStreak = 0 /\ (Len(wSeen) > 0 => wSeen[Len(wSeen)] = NoRead)
    /\ wPrev # NoRead =>
         /\ WaitRun \in 1..Len(wSeen)
         /\ \A i \in (Len(wSeen) - WaitRun + 1)..Len(wSeen) : wSeen[i] = wPrev
         /\ WaitRun < Len(wSeen) => wSeen[Len(wSeen) - WaitRun] # wPrev
    /\ wAt # "done" => wStreak < wReq.need
    /\ wRes = "stable" => wPrev # NoRead /\ wStreak >= wReq.need

(* One poll an interval; what counts as an observation was one; and what   *)
(* the answer says of the clock.                                           *)
WaitPolls ==
  /\ wSeen \in Seq(WScreen \cup {NoRead})
  /\ wAt = "polling" => Len(wSeen) = wClock
  /\ wAt = "pausing" => Len(wSeen) = wClock + 1
  /\ wAt = "done" <=> wRes # "none"
  /\ wReq.kind \in {"appear", "absent"} => wStreak = 0
  /\ wReadable /\ wReq.kind = "tree" => \E i \in DOMAIN wSeen : wSeen[i] # NoRead
  /\ wReadable /\ wReq.kind = "pixel" => \E i \in 2..Len(wSeen) : wSeen[i] # NoRead /\ wSeen[i - 1] # NoRead
  /\ wRes = "unstable" => wClock = WaitTimeout /\ wReadable /\ wReq.kind \in {"tree", "pixel"}

WaitInv == WaitTypeOK /\ WaitStreak /\ WaitPolls

LEMMA WaitStarts == ASSUME WaitInit PROVE WaitInv
<1> USE WaitAssumption DEF NoRead
<1>0. /\ wReq \in [kind : WaitKinds, need : 1..MaxNeed, require : BOOLEAN]
      /\ wScreen \in WScreen /\ wClock = 0 /\ wAt = "polling"
      /\ wPrev = 0 /\ wStreak = 0 /\ wReadable = FALSE /\ wSeen = <<>> /\ wRes = "none"
  BY DEF WaitInit
<1>1. WaitTypeOK
  <2>1. Len(wSeen) = 0 /\ DOMAIN wSeen = {} /\ 0 \in 0..WaitTimeout /\ 0 \in 0..MaxNeed
    BY <1>0
  <2> QED
    <3>1. wPrev \in WScreen \cup {0} /\ wRes \in WaitAnswers /\ Len(wSeen) <= WaitTimeout + 1
      BY <1>0, <2>1 DEF WaitAnswers
    <3>2. wClock \in 0..WaitTimeout /\ wStreak \in 0..MaxNeed /\ \A i \in DOMAIN wSeen : wSeen[i] \in WScreen \cup {0}
      BY <1>0, <2>1
    <3> QED
      BY <1>0, <3>1, <3>2, Zenon DEF WaitTypeOK
<1>2. WaitStreak
  <2>1. Len(wSeen) = 0 /\ wReq.need \in 1..MaxNeed
    BY <1>0
  <2> QED
    BY <1>0, <2>1 DEF WaitStreak
<1>3. WaitPolls
  BY <1>0 DEF WaitPolls
<1> QED
  BY <1>1, <1>2, <1>3 DEF WaitInv

LEMMA Wait_Types ==
  ASSUME WaitInv
  PROVE  /\ wReq.kind \in WaitKinds /\ wReq.need \in 1..MaxNeed /\ wReq.need \in Nat
         /\ wStreak \in Nat /\ wSeen \in Seq(WScreen \cup {NoRead}) /\ Len(wSeen) \in Nat
         /\ wScreen \in WScreen /\ wPrev \in WScreen \cup {NoRead} /\ wClock \in 0..WaitTimeout
         /\ \A s \in WScreen : s # NoRead
         /\ MaxNeed \in Nat /\ WaitTimeout \in Nat
BY WaitAssumption DEF WaitInv, WaitTypeOK, WaitPolls, NoRead

(* A step that polls nothing. *)
LEMMA Wait_Rests ==
  ASSUME WaitInv, UNCHANGED <<wReq, wPrev, wStreak, wReadable, wSeen>>,
         wScreen' \in WScreen, wClock' \in 0..WaitTimeout, wAt' \in {"polling", "pausing", "done"},
         wRes' \in WaitAnswers, wAt' = "done" <=> wRes' # "none", wRes' = "stable" => wRes = "stable",
         wAt = "done" => wAt' = "done",
         wAt' = "polling" => Len(wSeen) = wClock', wAt' = "pausing" => Len(wSeen) = wClock' + 1,
         wRes' = "unstable" => wClock' = WaitTimeout /\ wReadable /\ wReq.kind \in {"tree", "pixel"}
  PROVE  WaitInv'
<1>1. WaitTypeOK'
  BY DEF WaitInv, WaitTypeOK
<1>2. WaitStreak'
  BY DEF WaitInv, WaitStreak, WaitRun
<1>3. WaitPolls'
  BY DEF WaitInv, WaitPolls
<1> QED
  BY <1>1, <1>2, <1>3 DEF WaitInv

(* The streak after a poll that read what the screen shows. *)
LEMMA Wait_Streak ==
  ASSUME WaitInv, PollReads, wReq.kind \in {"tree", "pixel"}
  PROVE  /\ wStreak' \in Nat /\ (WaitRun \in 1..Len(wSeen))'
         /\ (\A i \in (Len(wSeen) - WaitRun + 1)..Len(wSeen) : wSeen[i] = wPrev)'
         /\ (WaitRun < Len(wSeen) => wSeen[Len(wSeen) - WaitRun] # wPrev)'
         /\ wPrev' # NoRead /\ wStreak' <= MaxNeed
<1> DEFINE n == Len(wSeen)
<1>0. /\ wSeen' = Append(wSeen, wScreen) /\ wPrev' = wScreen /\ wStreak' = StreakAfter(wScreen)
      /\ UNCHANGED wReq /\ wAt = "polling"
  BY DEF PollReads
<1>a. wScreen \in WScreen /\ wScreen # NoRead /\ wSeen \in Seq(WScreen \cup {NoRead}) /\ n \in Nat /\ wStreak \in Nat
      /\ wReq.need \in 1..MaxNeed /\ MaxNeed \in Nat
  BY Wait_Types
<1>m. MaxNeed >= 2
  BY WaitAssumption
<1>1. /\ Len(wSeen') = n + 1 /\ wSeen'[n + 1] = wScreen
      /\ \A i \in 1..n : wSeen'[i] = wSeen[i]
  BY <1>0, <1>a
<1>2. CASE wPrev = wScreen
  <2>1. wStreak' = wStreak + 1 /\ WaitRun' = WaitRun + 1 /\ wStreak < wReq.need
    BY <1>0, <1>2, <1>a DEF StreakAfter, WaitRun, WaitInv, WaitStreak
  <2>2. /\ WaitRun \in 1..n /\ \A i \in (n - WaitRun + 1)..n : wSeen[i] = wScreen
        /\ WaitRun < n => wSeen[n - WaitRun] # wScreen
    BY <1>2, <1>a DEF WaitInv, WaitStreak
  <2>3. WaitRun' \in 1..(n + 1)
    BY <2>1, <2>2, <1>a
  <2>4. ASSUME NEW i \in (n + 1 - WaitRun' + 1)..(n + 1) PROVE wSeen'[i] = wScreen
    <3>0. n + 1 - WaitRun' + 1 = n - WaitRun + 1
      BY <2>1, <2>2, <1>a
    <3>1. i = n + 1 \/ (i \in (n - WaitRun + 1)..n /\ i \in 1..n)
      <4>1. i \in (n - WaitRun + 1)..(n + 1)
        BY <3>0
      <4>2. WaitRun \in 1..n
        BY <2>2
      <4> QED
        BY <4>1, <4>2, <1>a
    <3> QED
      BY <3>1, <2>2, <1>1
  <2>5. WaitRun' < n + 1 => wSeen'[n + 1 - WaitRun'] # wScreen
    <3> SUFFICES ASSUME WaitRun' < n + 1 PROVE wSeen'[n + 1 - WaitRun'] # wScreen
      OBVIOUS
    <3>1. WaitRun < n /\ n + 1 - WaitRun' = n - WaitRun /\ n - WaitRun \in 1..n
      BY <2>1, <2>2, <1>a
    <3> QED
      BY <3>1, <2>2, <1>1
  <2>6. wStreak' <= MaxNeed
    BY <2>1, <1>a
  <2> QED
    BY <2>1, <2>3, <2>4, <2>5, <2>6, <1>0, <1>1, <1>a, SMTT(30)
<1>3. CASE wPrev # wScreen
  <2>1. wStreak' \in {0, 1} /\ WaitRun' = 1
    BY <1>0, <1>3 DEF StreakAfter, WaitRun
  <2>2. \A i \in (n + 1 - 1 + 1)..(n + 1) : wSeen'[i] = wScreen
    <3>1. \A i \in (n + 1 - 1 + 1)..(n + 1) : i = n + 1
      BY <1>a
    <3> QED
      BY <3>1, <1>1
  <2>3. 1 < n + 1 => wSeen'[n + 1 - 1] # wScreen
    <3> SUFFICES ASSUME 1 < n + 1 PROVE wSeen'[n + 1 - 1] # wScreen
      OBVIOUS
    <3>1. n + 1 - 1 = n /\ n \in 1..n /\ n > 0
      BY <1>a
    <3>2. wSeen'[n] = wSeen[n]
      BY <3>1, <1>1
    <3>3. CASE wPrev = NoRead
      BY <3>1, <3>2, <3>3, <1>a DEF WaitInv, WaitStreak
    <3>4. CASE wPrev # NoRead
      <4>1. WaitRun \in 1..n /\ \A i \in (n - WaitRun + 1)..n : wSeen[i] = wPrev
        BY <3>4 DEF WaitInv, WaitStreak
      <4>2. n \in (n - WaitRun + 1)..n
        BY <4>1, <1>a
      <4> QED
        BY <4>1, <4>2, <3>1, <3>2, <1>3
    <3> QED
      BY <3>3, <3>4
  <2>4. 1 \in 1..(n + 1)
    BY <1>a
  <2> QED
    BY <2>1, <2>2, <2>3, <2>4, <1>0, <1>1, <1>a, <1>m
<1> QED
  BY <1>2, <1>3

LEMMA Wait_PollReads == ASSUME WaitInv, PollReads PROVE WaitInv'
<1> DEFINE n == Len(wSeen)
           v == Verdict(wScreen, StreakAfter(wScreen))
<1>0. /\ wSeen' = Append(wSeen, wScreen) /\ wPrev' = wScreen /\ wStreak' = StreakAfter(wScreen)
      /\ UNCHANGED <<wReq, wScreen, wClock>> /\ wAt = "polling"
      /\ wReadable' = (wReadable \/ wReq.kind # "pixel" \/ wPrev # NoRead)
      /\ IF v # "none" THEN wAt' = "done" /\ wRes' = v ELSE wAt' = "pausing" /\ wRes' = wRes
  BY DEF PollReads, Answer, Continue
<1>a. /\ wScreen \in WScreen /\ wScreen # NoRead /\ wSeen \in Seq(WScreen \cup {NoRead}) /\ n \in Nat
      /\ wReq.kind \in WaitKinds /\ wClock \in 0..WaitTimeout /\ MaxNeed \in Nat /\ WaitTimeout \in Nat
      /\ n = wClock /\ wRes = "none" /\ wReq.need \in Nat
  BY Wait_Types, <1>0 DEF WaitInv, WaitPolls
<1>1. /\ Len(wSeen') = n + 1 /\ wSeen'[n + 1] = wScreen /\ wSeen' \in Seq(WScreen \cup {NoRead})
      /\ \A i \in 1..n : wSeen'[i] = wSeen[i]
  BY <1>0, <1>a
<1>2. v \in {"none", "stable", "found", "ambiguous", "gone"}
      /\ (wReq.kind \in {"tree", "pixel"} => v = IF wStreak' >= wReq.need THEN "stable" ELSE "none")
  BY <1>0, <1>a DEF Verdict, WaitKinds
<1>2a. v = "stable" => wReq.kind \in {"tree", "pixel"}
  BY <1>a DEF Verdict, WaitKinds
<1> HIDE DEF v
<1>3. wStreak' \in 0..MaxNeed
  <2>1. CASE wReq.kind \in {"tree", "pixel"}
    BY <2>1, Wait_Streak, <1>a
  <2>2. CASE wReq.kind \notin {"tree", "pixel"}
    <3>1. wStreak' = 0
      BY <2>2, <1>0, <1>a DEF StreakAfter, WaitKinds
    <3> QED
      BY <3>1, <1>a
  <2> QED
    BY <2>1, <2>2
<1>4. wAt' \in {"pausing", "done"} /\ wRes' \in WaitAnswers /\ (wAt' = "done" <=> wRes' # "none")
      /\ wRes' # "unstable" /\ (wRes' = "stable" => v = "stable") /\ (wAt' # "done" => v = "none")
  BY <1>0, <1>2, <1>a DEF WaitAnswers
<1>5. WaitTypeOK'
  <2>1. Len(wSeen') <= WaitTimeout + 1
    BY <1>1, <1>a
  <2>2. \A i \in DOMAIN wSeen' : wSeen'[i] \in WScreen \cup {NoRead}
    BY <1>1
  <2>3. wReadable' \in BOOLEAN
    BY <1>0 DEF WaitInv, WaitTypeOK
  <2> QED
    BY <1>0, <1>3, <1>4, <2>1, <2>2, <2>3, <1>a DEF WaitInv, WaitTypeOK
<1>6. WaitStreak'
  <2> SUFFICES ASSUME wReq.kind \in {"tree", "pixel"} PROVE WaitStreak'
    BY <1>0 DEF WaitStreak
  <2>1. v = IF wStreak' >= wReq.need THEN "stable" ELSE "none"
    BY <1>2
  <2>2. wStreak' \in Nat
    BY <1>3, <1>a
  <2>3. (wAt' # "done" => wStreak' < wReq.need) /\ (wRes' = "stable" => wStreak' >= wReq.need)
    BY <1>4, <1>a, <2>1, <2>2
  <2>4. wPrev' # NoRead
    BY <1>0, <1>a
  <2> QED
    BY <2>3, <2>4, <1>0, Wait_Streak DEF WaitStreak
<1>7. WaitPolls'
  <2>1. wReq'.kind \in {"appear", "absent"} => wStreak' = 0
    BY <1>0 DEF StreakAfter
  <2>2. wReadable' /\ wReq'.kind = "tree" => \E i \in DOMAIN wSeen' : wSeen'[i] # NoRead
    <3>1. n + 1 \in DOMAIN wSeen'
      BY <1>1, <1>a
    <3> QED
      BY <3>1, <1>1, <1>a
  <2>3. wReadable' /\ wReq'.kind = "pixel" => \E i \in 2..Len(wSeen') : wSeen'[i] # NoRead /\ wSeen'[i - 1] # NoRead
    <3> SUFFICES ASSUME wReadable', wReq.kind = "pixel"
                 PROVE  \E i \in 2..(n + 1) : wSeen'[i] # NoRead /\ wSeen'[i - 1] # NoRead
      BY <1>0, <1>1
    <3>1. CASE wReadable
      <4>1. PICK i \in 2..n : wSeen[i] # NoRead /\ wSeen[i - 1] # NoRead
        BY <3>1 DEF WaitInv, WaitPolls
      <4>2. i \in 1..n /\ i - 1 \in 1..n /\ i \in 2..(n + 1)
        BY <1>a
      <4> QED
        BY <4>1, <4>2, <1>1
    <3>2. CASE wPrev # NoRead
      <4>1. WaitRun \in 1..n /\ \A i \in (n - WaitRun + 1)..n : wSeen[i] = wPrev
        BY <3>2 DEF WaitInv, WaitStreak
      <4>2. n \in (n - WaitRun + 1)..n /\ n \in 1..n /\ n + 1 \in 2..(n + 1) /\ (n + 1) - 1 = n
        BY <4>1, <1>a
      <4>3. wSeen'[n] # NoRead
        BY <4>1, <4>2, <3>2, <1>1
      <4> QED
        BY <4>2, <4>3, <1>1, <1>a
    <3> QED
      BY <3>1, <3>2, <1>0
  <2>4. (wAt' = "pausing" => Len(wSeen') = wClock' + 1) /\ wAt' # "polling"
    BY <1>0, <1>1, <1>4, <1>a
  <2> QED
    BY <2>1, <2>2, <2>3, <2>4, <1>1, <1>4 DEF WaitPolls
<1> QED
  BY <1>5, <1>6, <1>7 DEF WaitInv

LEMMA Wait_PollGap == ASSUME WaitInv, PollGap PROVE WaitInv'
<1> DEFINE n == Len(wSeen)
<1>0. /\ wSeen' = Append(wSeen, NoRead) /\ wPrev' = NoRead /\ wStreak' = 0 /\ wAt' = "pausing"
      /\ wAt = "polling" /\ UNCHANGED <<wReq, wScreen, wClock, wReadable, wRes>>
  BY DEF PollGap, AfterGap, Continue
<1>a. /\ wSeen \in Seq(WScreen \cup {NoRead}) /\ n \in Nat /\ n = wClock /\ wClock \in 0..WaitTimeout
      /\ wRes = "none" /\ wReq.need \in 1..MaxNeed /\ MaxNeed \in Nat /\ WaitTimeout \in Nat
  BY Wait_Types, <1>0 DEF WaitInv, WaitPolls
<1>1. /\ Len(wSeen') = n + 1 /\ wSeen'[n + 1] = NoRead /\ wSeen' \in Seq(WScreen \cup {NoRead})
      /\ \A i \in 1..n : wSeen'[i] = wSeen[i]
  BY <1>0, <1>a
<1>2. WaitTypeOK'
  <2>1. Len(wSeen') <= WaitTimeout + 1 /\ 0 \in 0..MaxNeed
    BY <1>1, <1>a
  <2>2. \A i \in DOMAIN wSeen' : wSeen'[i] \in WScreen \cup {NoRead}
    BY <1>1
  <2> QED
    BY <1>0, <2>1, <2>2 DEF WaitInv, WaitTypeOK
<1>3. WaitStreak'
  <2>1. 0 < wReq.need
    BY <1>a
  <2> QED
    BY <1>0, <1>1, <1>a, <2>1 DEF WaitStreak
<1>4. WaitPolls'
  <2>2. wReadable' /\ wReq'.kind = "tree" => \E i \in DOMAIN wSeen' : wSeen'[i] # NoRead
    <3> SUFFICES ASSUME wReadable, wReq.kind = "tree" PROVE \E i \in DOMAIN wSeen' : wSeen'[i] # NoRead
      BY <1>0
    <3>1. PICK i \in DOMAIN wSeen : wSeen[i] # NoRead
      BY DEF WaitInv, WaitPolls
    <3>2. i \in 1..n /\ i \in DOMAIN wSeen'
      BY <1>1, <1>a
    <3> QED
      BY <3>1, <3>2, <1>1
  <2>3. wReadable' /\ wReq'.kind = "pixel" => \E i \in 2..Len(wSeen') : wSeen'[i] # NoRead /\ wSeen'[i - 1] # NoRead
    <3> SUFFICES ASSUME wReadable, wReq.kind = "pixel"
                 PROVE  \E i \in 2..(n + 1) : wSeen'[i] # NoRead /\ wSeen'[i - 1] # NoRead
      BY <1>0, <1>1
    <3>1. PICK i \in 2..n : wSeen[i] # NoRead /\ wSeen[i - 1] # NoRead
      BY DEF WaitInv, WaitPolls
    <3>2. i \in 1..n /\ i - 1 \in 1..n /\ i \in 2..(n + 1)
      BY <1>a
    <3> QED
      BY <3>1, <3>2, <1>1
  <2> QED
    BY <2>2, <2>3, <1>0, <1>1, <1>a DEF WaitPolls
<1> QED
  BY <1>2, <1>3, <1>4 DEF WaitInv

LEMMA WaitStep == ASSUME WaitInv, [WaitNext]_waitVars PROVE WaitInv'
<1>a. /\ wClock \in 0..WaitTimeout /\ wScreen \in WScreen /\ wAt \in {"polling", "pausing", "done"}
      /\ wRes \in WaitAnswers /\ (wAt = "done" <=> wRes # "none")
      /\ (wAt = "polling" => Len(wSeen) = wClock) /\ (wAt = "pausing" => Len(wSeen) = wClock + 1)
      /\ (wRes = "unstable" => wClock = WaitTimeout /\ wReadable /\ wReq.kind \in {"tree", "pixel"})
      /\ WaitTimeout \in Nat /\ WaitTimeout \in 0..WaitTimeout /\ wReq.kind \in WaitKinds
  BY WaitAssumption DEF WaitInv, WaitTypeOK, WaitPolls
<1>1. CASE UNCHANGED waitVars
  BY <1>1, <1>a, Wait_Rests DEF waitVars
<1>2. CASE ScreenChanges
  BY <1>2, <1>a, Wait_Rests DEF ScreenChanges
<1>s. ASSUME Spends PROVE /\ wAt' = "done" /\ wRes' \in {"unstable", "timeout"} /\ wClock' = WaitTimeout
                         /\ (wRes' = "unstable" => wReadable /\ wReq.kind \in {"tree", "pixel"})
  BY <1>s DEF Spends, Answer, WhenSpent
<1>3. CASE PollFails
  <2>1. CASE Spends
    BY <2>1, <1>3, <1>s, <1>a, Wait_Rests DEF PollFails, WaitAnswers
  <2>2. CASE Answer("failed") /\ UNCHANGED wClock
    BY <2>2, <1>3, <1>a, Wait_Rests DEF PollFails, Answer, WaitAnswers
  <2> QED
    BY <2>1, <2>2, <1>3 DEF PollFails
<1>4. CASE Pauses
  <2>0. wAt = "pausing" /\ UNCHANGED <<wReq, wScreen, wPrev, wStreak, wReadable, wSeen>>
    BY <1>4 DEF Pauses
  <2>1. CASE wClock = WaitTimeout
    BY <2>0, <2>1, <1>4, <1>s, <1>a, Wait_Rests DEF Pauses, WaitAnswers
  <2>2. CASE wClock # WaitTimeout
    <3>1. wAt' = "polling" /\ wClock' = wClock + 1 /\ UNCHANGED wRes
      BY <2>2, <1>4 DEF Pauses
    <3>2. wClock + 1 \in 0..WaitTimeout
      BY <2>2, <1>a
    <3> QED
      BY <2>0, <3>1, <3>2, <1>a, Wait_Rests
  <2> QED
    BY <2>1, <2>2
<1>5. CASE CallerEnds
  <2>1. wRes' \in {"early", "timeout"} /\ wAt' = "done"
    BY <1>5 DEF CallerEnds, Answer
  <2> QED
    BY <2>1, <1>5, <1>a, Wait_Rests DEF CallerEnds, WaitAnswers
<1> QED
  BY <1>1, <1>2, <1>3, <1>4, <1>5, Wait_PollReads, Wait_PollGap DEF WaitNext

LEMMA Wait_Safe == ASSUME WaitInv PROVE WaitSafe
<1> DEFINE n == Len(wSeen)
<1>a. /\ wReq.need \in Nat /\ wReq.need >= 1 /\ wStreak \in Nat /\ wSeen \in Seq(WScreen \cup {NoRead})
      /\ n \in Nat /\ wPrev \in WScreen \cup {NoRead} /\ \A s \in WScreen : s # NoRead
  BY Wait_Types
<1>1. WaitStableTrue
  <2> SUFFICES ASSUME wReq.kind \in {"tree", "pixel"}
               PROVE  (wRes = "stable" => HeldStill(Samples)) /\ (wAt # "done" => ~HeldStill(Samples))
    BY DEF WaitStableTrue
  <2>0. /\ wPrev = NoRead => (n > 0 => wSeen[n] = NoRead)
        /\ wPrev # NoRead =>
             /\ WaitRun \in 1..n
             /\ \A i \in (n - WaitRun + 1)..n : wSeen[i] = wPrev
             /\ WaitRun < n => wSeen[n - WaitRun] # wPrev
        /\ wAt # "done" => wStreak < wReq.need
        /\ wRes = "stable" => wPrev # NoRead /\ wStreak >= wReq.need
    BY DEF WaitInv, WaitStreak
  <2>1. /\ WaitRun \in Nat /\ Samples \in Nat /\ Samples >= 1
        /\ (WaitRun >= Samples <=> wStreak >= wReq.need)
    BY <1>a DEF WaitRun, Samples
  <2>2. ASSUME wRes = "stable" PROVE HeldStill(Samples)
    <3>1. WaitRun >= Samples /\ wPrev # NoRead /\ wPrev \in WScreen
      BY <2>0, <2>1, <2>2, <1>a
    <3>2. WaitRun \in 1..n /\ \A i \in (n - WaitRun + 1)..n : wSeen[i] = wPrev
      BY <2>0, <3>1
    <3>3. n >= Samples /\ \A i \in (n - Samples + 1)..n : i \in (n - WaitRun + 1)..n
      BY <3>1, <3>2, <2>1, <1>a
    <3> QED
      BY <3>1, <3>2, <3>3 DEF HeldStill
  <2>3. ASSUME wAt # "done", HeldStill(Samples) PROVE FALSE
    <3>1. n >= Samples
      BY <2>3 DEF HeldStill
    <3>2. PICK s \in WScreen : \A i \in (n - Samples + 1)..n : wSeen[i] = s
      BY <2>3 DEF HeldStill
    <3>3. n \in (n - Samples + 1)..n /\ n > 0
      BY <3>1, <2>1, <1>a
    <3>4. wSeen[n] = s /\ s # NoRead
      BY <3>2, <3>3, <1>a
    <3>5. wPrev # NoRead
      BY <2>0, <3>3, <3>4
    <3>6. WaitRun \in 1..n /\ wSeen[n] = wPrev
      <4>1. WaitRun \in 1..n /\ \A i \in (n - WaitRun + 1)..n : wSeen[i] = wPrev
        BY <2>0, <3>5
      <4>2. n \in (n - WaitRun + 1)..n
        BY <4>1, <1>a
      <4> QED
        BY <4>1, <4>2
    <3>7. WaitRun < Samples
      BY <2>0, <2>1, <2>3, <1>a
    <3>8. WaitRun < n /\ n - WaitRun \in (n - Samples + 1)..n
      BY <3>1, <3>6, <3>7, <2>1, <1>a
    <3>9. wSeen[n - WaitRun] # wPrev
      BY <2>0, <3>5, <3>8
    <3> QED
      BY <3>2, <3>4, <3>6, <3>8, <3>9
  <2> QED
    BY <2>2, <2>3
<1>2. WaitLiveSeen
  BY DEF WaitInv, WaitPolls, WaitLiveSeen
<1> QED
  BY <1>1, <1>2 DEF WaitSafe

-----------------------------------------------------------------------------
(* Scrolls.                                                                *)

(* The screen that shows rows t to m, and the last row it has room for. *)
Shot(t, m) == {0} \cup (t..m)
Bottom(t) == t + Window - 1
AtEnd == loaded = Rows /\ rowTop = LastTop

(* What a screen that did not move leaves for the second one: a gesture    *)
(* that is not ignored moves the list by a whole step or reaches its end,  *)
(* and one may be ignored only there.                                      *)
Credit == (loaded < Rows => LastTop >= rowTop + StepRows) /\ (lost < MaxLost => rowTop = LastTop)

(* The screen before the gesture began at t and showed all but at most its *)
(* last line, a spinner; what it showed is what was visited.               *)
Before(t, m) ==
    /\ prevSet = Shot(t, m) /\ m \in {Bottom(t) - 1, Bottom(t)} /\ m <= loaded
    /\ harvest = 0..m
Moves(t) ==
    /\ t <= rowTop /\ rowTop <= t + StepRows
    /\ rowTop = t + StepRows \/ AtEnd \/ (nonMoves = 0 /\ (SpinnerInView \/ Credit))
After(m, n) == newSet = Shot(rowTop, n) /\ n \in {Bottom(rowTop) - 1, Bottom(rowTop)} /\ m <= n /\ n <= loaded

ScrStage ==
    /\ scrAt = "observing" => rowTop = 1 /\ harvest = {} /\ nonMoves = 0
    /\ scrAt = "gesturing" =>
         /\ \E m \in 1..Rows : Before(rowTop, m)
         /\ nonMoves = 1 => Credit
    /\ scrAt \in {"settling", "grace", "checking"} =>
         \E t \in 1..Rows, m \in 1..Rows :
           /\ Before(t, m) /\ Moves(t)
           /\ scrAt = "grace" => \E n \in 1..Rows : After(m, n)
           /\ scrAt = "checking" => \E n \in 1..Rows :
                After(m, n) /\ (Overlaps(prevSet, newSet) => n = Bottom(rowTop) /\ ~ SpinnerInView)
    /\ scrAt = "done" => \E m \in 0..Rows : harvest = 0..m

ScrInv ==
    /\ ScrTypeOK /\ ScrStage
    /\ PageRows <= loaded /\ rowTop <= LastTop
    /\ loaded < Rows => lost = MaxLost
    /\ scrAt # "done" => nonMoves <= 1 /\ ~ stopped /\ ~ endOfList
    /\ wanted \in harvest \ {0} => stopped
    /\ endOfList => harvest = 0..Rows /\ ~ stopped

LEMMA Scr_Sizes ==
  /\ Rows \in Nat /\ Window \in Nat /\ StepRows \in Nat /\ PageRows \in Nat /\ MaxScrolls \in Nat /\ MaxLost \in Nat
  /\ 1 <= StepRows /\ StepRows < Window /\ Window <= PageRows /\ PageRows <= Rows /\ 1 <= MaxScrolls
BY ScrAssumption

(* Two screens of consecutive tops: what they share and what they show. *)
LEMMA Shots_Meet ==
  ASSUME NEW t \in Nat, NEW u \in Nat, NEW m \in Nat, NEW n \in Nat, 1 <= t, t <= u, u <= m + 1, m <= n
  PROVE  Shot(t, m) \cap Shot(u, n) = Shot(u, m) /\ Shot(t, m) \cup Shot(u, n) = Shot(t, n)
<1>1. ASSUME NEW x PROVE x \in Shot(t, m) \cap Shot(u, n) <=> x \in Shot(u, m)
  BY DEF Shot
<1>2. ASSUME NEW x PROVE x \in Shot(t, m) \cup Shot(u, n) <=> x \in Shot(t, n)
  BY DEF Shot
<1> QED
  BY <1>1, <1>2, Zenon

LEMMA Shot_Size ==
  ASSUME NEW t \in Nat, NEW m \in Nat, 1 <= t, t <= m + 1
  PROVE  Cardinality(Shot(t, m)) = m - t + 2
<1>1. IsFiniteSet(t..m) /\ Cardinality(t..m) = IF t > m THEN 0 ELSE m - t + 1
  BY FS_Interval
<1>2. 0 \notin t..m
  OBVIOUS
<1>3. Cardinality((t..m) \cup {0}) = Cardinality(t..m) + 1
  BY <1>1, <1>2, FS_AddElement
<1>4. Shot(t, m) = (t..m) \cup {0}
  BY DEF Shot
<1> QED
  BY <1>1, <1>3, <1>4

(* A whole step is seen as a move. *)
LEMMA Step_Moves ==
  ASSUME Window + 1 < 4 * StepRows, NEW t \in Nat, NEW m \in Nat, 1 <= t, m \in {Bottom(t) - 1, Bottom(t)}
  PROVE  ~ Overlaps(Shot(t, m), Shot(t + StepRows, Bottom(t + StepRows)))
<1> DEFINE u == t + StepRows
           n == Bottom(u)
<1>1. /\ u \in Nat /\ n \in Nat /\ t <= u /\ 1 <= u /\ u <= m + 1 /\ m <= n /\ m <= t + Window - 1
      /\ n = t + StepRows + Window - 1 /\ t <= n + 1
  BY Scr_Sizes DEF Bottom
<1> HIDE DEF u, n
<1>m. Shot(t, m) \cap Shot(u, n) = Shot(u, m) /\ Shot(t, m) \cup Shot(u, n) = Shot(t, n)
  BY <1>1, Shots_Meet
<1>s. m \in Nat
  BY <1>1, Scr_Sizes DEF Bottom
<1>2. Cardinality(Shot(u, m)) = m - u + 2
  BY <1>1, <1>s, Shot_Size
<1>3. Cardinality(Shot(t, n)) = n - t + 2
  BY <1>1, Shot_Size
<1>4. ~ (5 * (m - u + 2) >= 3 * (n - t + 2))
  BY <1>1, Scr_Sizes DEF u
<1>5. ~ Overlaps(Shot(t, m), Shot(u, n))
  BY <1>m, <1>2, <1>3, <1>4 DEF Overlaps
<1> QED
  BY <1>5 DEF u, n

(* One more row makes a screen differ more from the one before it. *)
LEMMA Row_Differs ==
  ASSUME NEW t \in Nat, NEW u \in Nat, NEW m \in Nat, NEW n \in Nat, 1 <= t, t <= u, u <= m + 1, m <= n
  PROVE  LessAlike(Shot(t, m), Shot(u, n + 1), Shot(u, n))
<1>0. n + 1 \in Nat /\ m <= n + 1 /\ 1 <= u /\ t <= n + 1 /\ t <= (n + 1) + 1
  OBVIOUS
<1>1. /\ Shot(t, m) \cap Shot(u, n) = Shot(u, m) /\ Shot(t, m) \cap Shot(u, n + 1) = Shot(u, m)
      /\ Shot(t, m) \cup Shot(u, n) = Shot(t, n) /\ Shot(t, m) \cup Shot(u, n + 1) = Shot(t, n + 1)
  BY <1>0, Shots_Meet
<1>2. Cardinality(Shot(u, m)) = m - u + 2
  BY <1>0, Shot_Size
<1>3. Cardinality(Shot(t, n)) = n - t + 2 /\ Cardinality(Shot(t, n + 1)) = n + 1 - t + 2
  BY <1>0, Shot_Size
<1>4. ASSUME NEW k \in Nat, NEW x \in Nat, 1 <= k PROVE k * x < k * (x + 1)
  BY <1>4
<1>5. PICK k \in Nat : k = m - u + 2
  OBVIOUS
<1>6. PICK x \in Nat : x = n - t + 2
  OBVIOUS
<1>7. k * x < k * (x + 1) /\ x + 1 = n + 1 - t + 2
  BY <1>4, <1>5, <1>6
<1> QED
  BY <1>1, <1>2, <1>3, <1>5, <1>6, <1>7 DEF LessAlike

-----------------------------------------------------------------------------
(* Where the list is. *)
LEMMA Scr_Place ==
  ASSUME ScrInv
  PROVE  /\ rowTop \in Nat /\ loaded \in Nat /\ lost \in Nat /\ 1 <= rowTop /\ Window <= loaded /\ loaded <= Rows
         /\ LastTop = (IF loaded < Rows THEN loaded - Window + 2 ELSE loaded - Window + 1)
         /\ LastTop \in 1..Rows /\ rowTop <= LastTop /\ lost <= MaxLost
BY Scr_Sizes DEF ScrInv, ScrTypeOK, LastTop

LEMMA Scr_Visible ==
  ASSUME ScrInv
  PROVE  \E n \in 1..Rows : /\ Visible = Shot(rowTop, n) /\ n \in {Bottom(rowTop) - 1, Bottom(rowTop)} /\ n <= loaded
                            /\ ~ SpinnerInView => n = Bottom(rowTop)
                            /\ \A m \in Nat : m <= loaded /\ m <= Bottom(rowTop) => m <= n
<1>1. PICK n : n = Lower(rowTop + Window - 1, loaded)
  OBVIOUS
<1>2. n \in 1..Rows /\ n \in {Bottom(rowTop) - 1, Bottom(rowTop)} /\ n <= loaded
  BY <1>1, Scr_Sizes, Scr_Place DEF Lower, Bottom
<1>3. Visible = Shot(rowTop, n)
  BY <1>1 DEF Visible, Shot
<1>4. ~ SpinnerInView => n = Bottom(rowTop)
  BY <1>1, Scr_Sizes, Scr_Place DEF Lower, Bottom, SpinnerInView
<1>5. \A m \in Nat : m <= loaded /\ m <= Bottom(rowTop) => m <= n
  BY <1>1, Scr_Sizes, Scr_Place DEF Lower, Bottom
<1> QED
  BY <1>2, <1>3, <1>4, <1>5

LEMMA ScrStarts == ASSUME ScrInit PROVE ScrInv
<1>1. ScrTypeOK
  <2>1. 1 \in 1..Rows /\ PageRows..Rows \subseteq 1..Rows /\ MaxLost \in 0..MaxLost /\ 0 \in 0..MaxLost /\ 0 \in 0..MaxScrolls
    BY Scr_Sizes
  <2>2. loaded \in 1..Rows /\ lost \in 0..MaxLost
    BY <2>1 DEF ScrInit
  <2>3. wanted \in 0..(Rows + 1) /\ rowTop \in 1..Rows /\ scrolls \in 0..MaxScrolls /\ nonMoves \in 0..2
    BY <2>1 DEF ScrInit
  <2>4. prevSet \subseteq 0..Rows /\ newSet \subseteq 0..Rows /\ harvest \subseteq 0..Rows
    BY DEF ScrInit
  <2> QED
    BY <2>2, <2>3, <2>4 DEF ScrInit, ScrTypeOK
<1>2. ScrStage
  BY DEF ScrInit, ScrStage
<1>3. rowTop <= LastTop /\ PageRows <= loaded
  BY Scr_Sizes DEF ScrInit, LastTop
<1> QED
  BY <1>1, <1>2, <1>3, Scr_Sizes DEF ScrInit, ScrInv

LEMMA Scr_First == ASSUME ScrInv, FirstScreen PROVE ScrInv'
<1>0. /\ scrAt = "observing" /\ prevSet' = Visible /\ harvest' = harvest \cup Visible
      /\ stopped' = Found(Visible) /\ scrAt' = IF Found(Visible) THEN "done" ELSE "gesturing"
      /\ UNCHANGED <<wanted, rowTop, loaded, lost, scrolls, newSet, nonMoves, endOfList>>
  BY DEF FirstScreen, Visits
<1>1. PICK n \in 1..Rows : Visible = Shot(rowTop, n) /\ n \in {Bottom(rowTop) - 1, Bottom(rowTop)} /\ n <= loaded
  BY Scr_Visible
<1>2. rowTop = 1 /\ harvest = {} /\ nonMoves = 0 /\ ~ endOfList
  BY <1>0 DEF ScrInv, ScrStage
<1>3. harvest' = 0..n
  BY <1>0, <1>1, <1>2 DEF Shot
<1>4. prevSet' \subseteq 0..Rows /\ harvest' \subseteq 0..Rows /\ stopped' \in BOOLEAN
  <2>1. 0..n \subseteq 0..Rows /\ Shot(rowTop, n) \subseteq 0..n
    BY <1>2, Scr_Sizes DEF Shot
  <2> QED
    BY <1>0, <1>1, <1>3, <2>1 DEF Found
<1>5. ScrTypeOK'
  BY <1>0, <1>4 DEF ScrInv, ScrTypeOK
<1>6. ScrStage'
  <2>1. CASE Found(Visible)
    <3>1. n \in 0..Rows
      OBVIOUS
    <3> QED
      BY <1>0, <1>3, <2>1, <3>1 DEF ScrStage
  <2>2. CASE ~ Found(Visible)
    <3>1. Before(rowTop, n)'
      BY <1>0, <1>1, <1>3 DEF Before, Shot, Bottom
    <3> QED
      BY <1>0, <1>2, <2>2, <3>1 DEF ScrStage
  <2> QED
    BY <2>1, <2>2
<1>7. wanted' \in harvest' \ {0} => stopped'
  BY <1>0, <1>2 DEF Found
<1> QED
  BY <1>0, <1>2, <1>5, <1>6, <1>7 DEF ScrInv, LastTop

LEMMA Scr_LoopEnds == ASSUME ScrInv, LoopEnds PROVE ScrInv'
<1>0. /\ scrAt \in {"gesturing", "settling"} /\ scrAt' = "done"
      /\ UNCHANGED <<wanted, rowTop, loaded, lost, scrolls, prevSet, newSet, nonMoves, harvest, endOfList, stopped>>
  BY DEF LoopEnds
<1>1. \E m \in 0..Rows : harvest = 0..m
  BY <1>0 DEF ScrInv, ScrStage, Before
<1>2. ScrStage'
  BY <1>0, <1>1 DEF ScrStage
<1>3. ScrTypeOK'
  BY <1>0 DEF ScrInv, ScrTypeOK
<1> QED
  BY <1>0, <1>2, <1>3 DEF ScrInv, LastTop

LEMMA Scr_Gesture == ASSUME MaxLost <= 1, ScrInv, Gesture PROVE ScrInv'
<1>0. /\ scrAt = "gesturing" /\ scrolls < MaxScrolls /\ scrolls' = scrolls + 1 /\ scrAt' = "settling"
      /\ \/ rowTop' = Lower(rowTop + StepRows, LastTop) /\ lost' = lost
         \/ lost < MaxLost /\ lost' = lost + 1 /\ rowTop' = rowTop
      /\ UNCHANGED <<wanted, loaded, prevSet, newSet, nonMoves, harvest, endOfList, stopped>>
  BY DEF Gesture
<1>1. /\ rowTop \in 1..Rows /\ loaded \in 1..Rows /\ lost \in 0..MaxLost /\ scrolls \in 0..MaxScrolls
      /\ LastTop \in 1..Rows /\ rowTop <= LastTop /\ Window <= loaded
      /\ LastTop = (IF loaded < Rows THEN loaded - Window + 2 ELSE loaded - Window + 1)
      /\ loaded < Rows => lost = MaxLost
      /\ nonMoves \in 0..1
  BY <1>0, Scr_Sizes, Scr_Place DEF ScrInv, ScrTypeOK
<1>2. PICK m \in 1..Rows : Before(rowTop, m)
  BY <1>0 DEF ScrInv, ScrStage
<1>3. nonMoves = 1 => Credit
  BY <1>0 DEF ScrInv, ScrStage
<1>4. PICK l : l = LastTop
  OBVIOUS
<1>5. LastTop' = l
  BY <1>0, <1>4 DEF LastTop
<1>6. rowTop' \in 1..Rows /\ rowTop <= rowTop' /\ rowTop' <= rowTop + StepRows /\ rowTop' <= l /\ lost' \in 0..MaxLost
  BY <1>0, <1>1, <1>4, Scr_Sizes DEF Lower
<1>7. \/ rowTop' = rowTop + StepRows
      \/ loaded = Rows /\ rowTop' = l
      \/ nonMoves = 0 /\ ((loaded < Rows /\ rowTop' + Window - 1 > loaded)
                          \/ ((loaded < Rows => l >= rowTop' + StepRows) /\ (lost' < MaxLost => rowTop' = l)))
  <2>1. CASE rowTop' = Lower(rowTop + StepRows, LastTop)
    <3>1. rowTop' = rowTop + StepRows \/ rowTop' = l
      BY <1>4, <2>1 DEF Lower
    <3>2. CASE rowTop' = l /\ loaded < Rows
      <4>1. rowTop' + Window - 1 > loaded
        BY <1>1, <1>4, <3>2, Scr_Sizes
      <4>2. nonMoves = 1 => l >= rowTop + StepRows
        BY <1>3, <1>4, <3>2 DEF Credit
      <4>3. nonMoves = 1 => rowTop' = rowTop + StepRows
        BY <1>1, <1>4, <1>6, <3>2, <4>2, Scr_Sizes
      <4> QED
        BY <1>1, <3>2, <4>1, <4>3
    <3>3. CASE ~ (loaded < Rows)
      <4>1. loaded = Rows
        BY <1>1, <3>3, Scr_Sizes
      <4> QED
        BY <3>1, <4>1
    <3> QED
      BY <3>1, <3>2, <3>3
  <2>2. CASE lost < MaxLost /\ lost' = lost + 1 /\ rowTop' = rowTop
    <3>1. loaded = Rows /\ ~ (lost' < MaxLost) /\ ~ (loaded < Rows)
      BY <1>1, <2>2, Scr_Sizes
    <3>2. nonMoves = 1 => rowTop = l
      BY <1>3, <1>4, <2>2 DEF Credit
    <3> QED
      BY <1>1, <2>2, <3>1, <3>2
  <2> QED
    BY <1>0, <2>1, <2>2
<1>9. \E t \in 1..Rows, k \in 1..Rows : Before(t, k)' /\ Moves(t)'
  <2>1. PICK t \in 1..Rows : t = rowTop
    BY <1>1
  <2>2. Before(t, m)'
    BY <1>0, <1>2, <2>1 DEF Before, Shot, Bottom
  <2>3. Moves(t)'
    BY <1>0, <1>5, <1>6, <1>7, <2>1 DEF Moves, AtEnd, SpinnerInView, Credit
  <2> QED
    BY <2>2, <2>3
<1>10. ScrStage'
  BY <1>0, <1>9 DEF ScrStage
<1>11. ScrTypeOK'
  <2>1. scrolls' \in 0..MaxScrolls
    BY <1>0, <1>1, Scr_Sizes
  <2> QED
    BY <1>0, <1>6, <2>1 DEF ScrInv, ScrTypeOK
<1>12. loaded' < Rows => lost' = MaxLost
  BY <1>0, <1>1, Scr_Sizes
<1> QED
  BY <1>0, <1>5, <1>6, <1>10, <1>11, <1>12 DEF ScrInv

LEMMA Scr_Page == ASSUME ScrInv, PageLoads PROVE ScrInv'
<1>0. /\ SpinnerInView /\ scrAt # "done" /\ loaded' = Lower(loaded + PageRows, Rows)
      /\ UNCHANGED <<wanted, rowTop, lost, scrAt, scrolls, prevSet, newSet, nonMoves, harvest, endOfList, stopped>>
  BY DEF PageLoads
<1>1. /\ rowTop \in 1..Rows /\ loaded \in 1..Rows /\ lost = MaxLost /\ loaded < Rows
      /\ rowTop = loaded - Window + 2 /\ Window <= loaded /\ LastTop = loaded - Window + 2
  BY <1>0, Scr_Sizes, Scr_Place DEF ScrInv, ScrTypeOK, SpinnerInView
<1>2. loaded' \in 1..Rows /\ loaded + 1 <= loaded' /\ PageRows <= loaded' /\ (loaded' < Rows => loaded' = loaded + PageRows)
  BY <1>0, <1>1, Scr_Sizes DEF Lower
<1>p. PICK p \in 1..Rows : p = loaded'
  BY <1>2
<1>3. LastTop' = (IF p < Rows THEN p - Window + 2 ELSE p - Window + 1)
  <2>1. LastTop' = LET lines == IF p < Rows THEN p + 1 ELSE p IN IF lines <= Window THEN 1 ELSE lines - Window + 1
    BY <1>p, Zenon DEF LastTop
  <2>2. Window < p /\ p <= Rows
    BY <1>1, <1>2, <1>p, Scr_Sizes
  <2> QED
    BY <2>1, <2>2, Scr_Sizes
<1>4. rowTop <= LastTop' /\ (loaded' < Rows => LastTop' >= rowTop + StepRows)
  <2>1. loaded + 1 <= p /\ (p < Rows => p = loaded + PageRows) /\ p <= Rows
    BY <1>2, <1>p, Scr_Sizes
  <2>2. CASE p < Rows
    <3>1. LastTop' = p - Window + 2
      BY <1>3, <2>2
    <3> QED
      BY <1>1, <1>p, <2>1, <2>2, <3>1, Scr_Sizes
  <2>3. CASE ~ (p < Rows)
    <3>1. LastTop' = p - Window + 1
      BY <1>3, <2>3
    <3>2. rowTop <= p - Window + 1
      BY <1>1, <2>1, Scr_Sizes
    <3> QED
      BY <1>p, <2>3, <3>1, <3>2
  <2> QED
    BY <2>2, <2>3
<1>5. Credit' /\ ~ SpinnerInView'
  <2>1. ~ (lost < MaxLost)
    BY <1>1, Scr_Sizes
  <2>2. ~ SpinnerInView'
    BY <1>0, <1>1, <1>2, Scr_Sizes DEF SpinnerInView
  <2> QED
    BY <1>0, <1>4, <2>1, <2>2 DEF Credit
<1>6. ASSUME NEW t \in 1..Rows, NEW m \in 1..Rows, Before(t, m) PROVE Before(t, m)'
  BY <1>0, <1>1, <1>2, <1>6, Scr_Sizes DEF Before, Shot, Bottom
<1>7. ASSUME NEW t \in 1..Rows, Moves(t) PROVE Moves(t)'
  <2>1. ~ AtEnd
    BY <1>1, Scr_Sizes DEF AtEnd
  <2> QED
    BY <1>0, <1>5, <1>7, <2>1 DEF Moves
<1>8. ASSUME NEW m \in 1..Rows, NEW n \in 1..Rows, After(m, n) PROVE After(m, n)'
  BY <1>0, <1>1, <1>2, <1>8, Scr_Sizes DEF After, Shot, Bottom
<1>9. ScrStage'
  <2>1. CASE scrAt = "observing"
    BY <1>0, <2>1 DEF ScrInv, ScrStage
  <2>2. CASE scrAt = "gesturing"
    <3>1. PICK m \in 1..Rows : Before(rowTop, m)
      BY <2>2 DEF ScrInv, ScrStage
    <3>2. Before(rowTop, m)'
      BY <1>0, <1>1, <1>6, <3>1 DEF Before
    <3> QED
      BY <1>0, <1>5, <2>2, <3>2 DEF ScrStage
  <2>3. CASE scrAt \in {"settling", "grace", "checking"}
    <3>1. PICK t \in 1..Rows, m \in 1..Rows :
           /\ Before(t, m) /\ Moves(t)
           /\ scrAt = "grace" => \E n \in 1..Rows : After(m, n)
           /\ scrAt = "checking" => \E n \in 1..Rows :
                After(m, n) /\ (Overlaps(prevSet, newSet) => n = Bottom(rowTop) /\ ~ SpinnerInView)
      BY <2>3 DEF ScrInv, ScrStage
    <3>2. Before(t, m)' /\ Moves(t)'
      BY <1>6, <1>7, <3>1
    <3>3. scrAt = "grace" => \E n \in 1..Rows : After(m, n)'
      BY <1>8, <3>1
    <3>4. scrAt = "checking" => \E n \in 1..Rows :
            After(m, n)' /\ (Overlaps(prevSet, newSet) => n = Bottom(rowTop) /\ ~ SpinnerInView')
      BY <1>5, <1>8, <3>1
    <3>5. Overlaps(prevSet, newSet)' = Overlaps(prevSet, newSet) /\ Bottom(rowTop)' = Bottom(rowTop)
      BY <1>0 DEF Overlaps, Bottom
    <3> QED
      BY <1>0, <2>3, <3>2, <3>3, <3>4, <3>5 DEF ScrStage
  <2> QED
    BY <1>0, <2>1, <2>2, <2>3 DEF ScrInv, ScrTypeOK
<1>10. ScrTypeOK'
  BY <1>0, <1>2 DEF ScrInv, ScrTypeOK
<1> QED
  BY <1>0, <1>1, <1>2, <1>4, <1>9, <1>10 DEF ScrInv

LEMMA Scr_Settles == ASSUME ScrInv, Settles PROVE ScrInv'
<1>0. /\ scrAt = "settling" /\ newSet' = Visible
      /\ scrAt' = IF Overlaps(prevSet, Visible) THEN "grace" ELSE "checking"
      /\ UNCHANGED <<wanted, rowTop, loaded, lost, scrolls, prevSet, nonMoves, harvest, endOfList, stopped>>
  BY DEF Settles
<1>1. PICK t \in 1..Rows, m \in 1..Rows : Before(t, m) /\ Moves(t)
  BY <1>0 DEF ScrInv, ScrStage
<1>2. PICK n \in 1..Rows : /\ Visible = Shot(rowTop, n) /\ n \in {Bottom(rowTop) - 1, Bottom(rowTop)} /\ n <= loaded
                           /\ \A k \in Nat : k <= loaded /\ k <= Bottom(rowTop) => k <= n
  BY Scr_Visible
<1>3. m <= n
  <2>1. m \in Nat /\ m <= loaded /\ m <= Bottom(rowTop)
    BY <1>1, Scr_Sizes, Scr_Place DEF Before, Moves, Bottom
  <2> QED
    BY <1>2, <2>1
<1>4. Before(t, m)' /\ Moves(t)'
  BY <1>0, <1>1 DEF Before, Moves, Shot, Bottom, AtEnd, LastTop, SpinnerInView, Credit
<1>5. After(m, n)'
  BY <1>0, <1>2, <1>3 DEF After, Shot, Bottom
<1>6. scrAt' \in {"grace", "checking"} /\ (scrAt' = "checking" => ~ Overlaps(prevSet, newSet)')
  BY <1>0 DEF Overlaps
<1>7. ScrStage'
  BY <1>4, <1>5, <1>6 DEF ScrStage
<1>8. ScrTypeOK'
  <2>1. Visible \subseteq 0..Rows
    BY <1>2, Scr_Sizes, Scr_Place DEF Shot
  <2> QED
    BY <1>0, <1>6, <2>1 DEF ScrInv, ScrTypeOK
<1> QED
  BY <1>0, <1>6, <1>7, <1>8 DEF ScrInv, LastTop

LEMMA Scr_Grace == ASSUME ScrInv, GraceEnds PROVE ScrInv'
<1>0. /\ scrAt = "grace" /\ ~ SpinnerInView /\ newSet' = AfterGrace /\ scrAt' = "checking"
      /\ UNCHANGED <<wanted, rowTop, loaded, lost, scrolls, prevSet, nonMoves, harvest, endOfList, stopped>>
  BY DEF GraceEnds
<1>1. PICK t \in 1..Rows, m \in 1..Rows : Before(t, m) /\ Moves(t) /\ \E n \in 1..Rows : After(m, n)
  BY <1>0 DEF ScrInv, ScrStage
<1>2. PICK n \in 1..Rows : After(m, n)
  BY <1>1
<1>3. PICK k \in 1..Rows : Visible = Shot(rowTop, k) /\ k = Bottom(rowTop) /\ k <= loaded
  BY <1>0, Scr_Visible
<1>4. n = k \/ n + 1 = k
  BY <1>2, <1>3, Scr_Place, Scr_Sizes DEF After, Bottom
<1>5. newSet' = Shot(rowTop, k)
  <2>1. CASE n = k
    BY <1>0, <1>2, <1>3, <2>1 DEF After, AfterGrace
  <2>2. CASE n + 1 = k
    <3>1. /\ t \in Nat /\ rowTop \in Nat /\ m \in Nat /\ n \in Nat /\ 1 <= t /\ t <= rowTop
          /\ rowTop <= m + 1 /\ m <= n
      BY <1>1, <1>2, Scr_Place, Scr_Sizes, SMTT(30) DEF Before, Moves, After, Bottom
    <3>2. LessAlike(Shot(t, m), Shot(rowTop, n + 1), Shot(rowTop, n))
      BY <3>1, Row_Differs
    <3> QED
      BY <1>0, <1>1, <1>2, <1>3, <2>2, <3>2 DEF Before, After, AfterGrace
  <2> QED
    BY <1>4, <2>1, <2>2
<1>6. Before(t, m)' /\ Moves(t)'
  BY <1>0, <1>1 DEF Before, Moves, Shot, Bottom, AtEnd, LastTop, SpinnerInView, Credit
<1>7. After(m, k)'
  <2>1. m <= k
    BY <1>2, <1>4, Scr_Sizes DEF After
  <2> QED
    BY <1>0, <1>3, <1>5, <2>1 DEF After, Shot, Bottom
<1>8. k = Bottom(rowTop)' /\ ~ SpinnerInView'
  BY <1>0, <1>3 DEF Bottom, SpinnerInView
<1>9. ScrStage'
  BY <1>0, <1>6, <1>7, <1>8 DEF ScrStage
<1>10. ScrTypeOK'
  <2>1. Shot(rowTop, k) \subseteq 0..Rows
    BY Scr_Sizes, Scr_Place DEF Shot
  <2> QED
    BY <1>0, <1>5, <2>1 DEF ScrInv, ScrTypeOK
<1> QED
  BY <1>0, <1>9, <1>10 DEF ScrInv, LastTop

LEMMA Scr_Checks == ASSUME Window + 1 < 4 * StepRows, ScrInv, Checks PROVE ScrInv'
<1>0. /\ scrAt = "checking" /\ harvest' = harvest \cup newSet /\ stopped' = Found(newSet)
      /\ scrAt' = IF Found(newSet) THEN "done" ELSE IF NonMoves >= endOfListNonMoves THEN "done" ELSE "gesturing"
      /\ nonMoves' = NonMoves
      /\ endOfList' = (~stopped' /\ NonMoves >= endOfListNonMoves)
      /\ prevSet' = newSet
      /\ UNCHANGED <<wanted, rowTop, loaded, lost, scrolls, newSet>>
  BY DEF Checks, Visits
<1>1. PICK t \in 1..Rows, m \in 1..Rows :
        /\ Before(t, m) /\ Moves(t)
        /\ \E n \in 1..Rows : After(m, n) /\ (Overlaps(prevSet, newSet) => n = Bottom(rowTop) /\ ~ SpinnerInView)
  BY <1>0 DEF ScrInv, ScrStage
<1>2. PICK n \in 1..Rows : After(m, n) /\ (Overlaps(prevSet, newSet) => n = Bottom(rowTop) /\ ~ SpinnerInView)
  BY <1>1
<1>3. /\ nonMoves \in 0..1 /\ ~ stopped /\ ~ endOfList /\ wanted \notin harvest \ {0}
  BY <1>0 DEF ScrInv, ScrTypeOK
<1>4. /\ t \in Nat /\ m \in Nat /\ n \in Nat /\ rowTop \in Nat /\ 1 <= t /\ t <= rowTop /\ rowTop <= m + 1 /\ m <= n /\ n <= Rows
  BY <1>1, <1>2, Scr_Place, Scr_Sizes, SMTT(30) DEF Before, Moves, After, Bottom
<1>5. harvest' = 0..n
  <2>1. harvest = 0..m /\ newSet = {0} \cup (rowTop..n)
    BY <1>1, <1>2 DEF Before, After, Shot
  <2> QED
    BY <1>0, <1>4, <2>1
<1>6. Overlaps(prevSet, newSet) => AtEnd \/ (nonMoves = 0 /\ Credit)
  <2>1. SUFFICES ASSUME Overlaps(prevSet, newSet), ~ AtEnd PROVE nonMoves = 0 /\ Credit
    OBVIOUS
  <2>2. rowTop # t + StepRows
    <3>1. SUFFICES ASSUME rowTop = t + StepRows PROVE FALSE
      OBVIOUS
    <3>2. m \in {Bottom(t) - 1, Bottom(t)}
      BY <1>1 DEF Before
    <3>3. ~ Overlaps(Shot(t, m), Shot(t + StepRows, Bottom(t + StepRows)))
      BY <1>4, <3>2, Step_Moves
    <3> QED
      BY <1>1, <1>2, <2>1, <3>1, <3>3 DEF Before, After
  <2> QED
    BY <1>1, <1>2, <2>1, <2>2 DEF Moves
<1>7. Overlaps(prevSet, newSet) /\ AtEnd => n = Rows /\ Credit
  BY <1>2, Scr_Place, Scr_Sizes DEF AtEnd, Bottom, Credit
<1>8. /\ Overlaps(prevSet, newSet) => NonMoves = nonMoves + 1
      /\ ~ Overlaps(prevSet, newSet) => NonMoves = 0
  BY DEF NonMoves
<1>9. NonMoves \in 0..2 /\ (NonMoves = 1 => Credit) /\ (NonMoves >= endOfListNonMoves => NonMoves = 2 /\ n = Rows)
      /\ (~ (NonMoves >= endOfListNonMoves) => NonMoves \in 0..1)
  BY <1>3, <1>6, <1>7, <1>8 DEF endOfListNonMoves
<1>10. Credit' = Credit /\ Bottom(rowTop)' = Bottom(rowTop)
  BY <1>0 DEF Credit, LastTop, Bottom
<1>11. ScrStage'
  <2>1. CASE scrAt' = "done"
    <3>1. n \in 0..Rows
      BY <1>4, Scr_Sizes
    <3> QED
      BY <1>5, <2>1, <3>1 DEF ScrStage
  <2>2. CASE scrAt' = "gesturing"
    <3>1. Before(rowTop, n)'
      BY <1>0, <1>2, <1>5, <1>10 DEF Before, After, Shot
    <3>2. nonMoves' = 1 => Credit'
      BY <1>0, <1>9, <1>10
    <3> QED
      BY <2>2, <3>1, <3>2 DEF ScrStage
  <2> QED
    BY <1>0, <2>1, <2>2
<1>12. newSet \subseteq 0..Rows /\ harvest' \subseteq 0..Rows /\ stopped' \in BOOLEAN
  <2>1. newSet \subseteq 0..Rows /\ harvest \subseteq 0..Rows
    BY DEF ScrInv, ScrTypeOK
  <2> QED
    BY <1>0, <2>1 DEF Found
<1>13. ScrTypeOK'
  <2>1. endOfList' \in BOOLEAN /\ scrAt' \in {"done", "gesturing"}
    BY <1>0
  <2> QED
    BY <1>0, <1>9, <1>12, <2>1 DEF ScrInv, ScrTypeOK
<1>14. scrAt' # "done" => nonMoves' <= 1 /\ ~ stopped' /\ ~ endOfList'
  <2>1. scrAt' # "done" => ~ Found(newSet) /\ ~ (NonMoves >= endOfListNonMoves)
    BY <1>0
  <2>2. scrAt' # "done" => NonMoves \in 0..1
    BY <1>9, <2>1
  <2>3. scrAt' # "done" => ~ stopped' /\ ~ endOfList'
    BY <1>0, <2>1
  <2> QED
    BY <1>0, <2>2, <2>3
<1>15. wanted' \in harvest' \ {0} => stopped'
  BY <1>0, <1>3 DEF Found
<1>16. endOfList' => harvest' = 0..Rows /\ ~ stopped'
  BY <1>0, <1>5, <1>9
<1> QED
  BY <1>0, <1>11, <1>13, <1>14, <1>15, <1>16 DEF ScrInv, LastTop

LEMMA ScrMoves ==
  ASSUME MaxLost <= 1, Window + 1 < 4 * StepRows, ScrInv, [ScrNext]_scrVars
  PROVE  ScrInv'
<1>1. CASE UNCHANGED scrVars
  <2>1. UNCHANGED <<wanted, rowTop, loaded, lost, scrAt, scrolls, prevSet, newSet, nonMoves, harvest, endOfList, stopped>>
    BY <1>1 DEF scrVars
  <2>2. LastTop' = LastTop /\ SpinnerInView' = SpinnerInView /\ Bottom(rowTop)' = Bottom(rowTop)
    BY <2>1 DEF LastTop, SpinnerInView, Bottom
  <2>3. Credit' = Credit /\ AtEnd' = AtEnd /\ Overlaps(prevSet, newSet)' = Overlaps(prevSet, newSet)
    BY <2>1, <2>2 DEF Credit, AtEnd, Overlaps
  <2>4. \A t, m : (Before(t, m)' <=> Before(t, m)) /\ (After(t, m)' <=> After(t, m)) /\ (Moves(t)' <=> Moves(t))
    BY <2>1, <2>2, <2>3 DEF Before, After, Moves, Shot, Bottom
  <2>5. \A m : Before(rowTop, m)' <=> Before(rowTop, m)
    BY <2>1 DEF Before, Shot, Bottom
  <2>6. ScrStage'
    BY <2>1, <2>2, <2>3, <2>4, <2>5 DEF ScrInv, ScrStage
  <2>7. ScrTypeOK'
    BY <2>1 DEF ScrInv, ScrTypeOK
  <2> QED
    BY <2>1, <2>2, <2>6, <2>7 DEF ScrInv
<1>2. CASE ScrNext
  BY <1>2, Scr_First, Scr_LoopEnds, Scr_Gesture, Scr_Page, Scr_Settles, Scr_Grace, Scr_Checks DEF ScrNext
<1> QED
  BY <1>1, <1>2

LEMMA Scr_Type == ASSUME ScrInv PROVE ScrTypeOK
BY DEF ScrInv

LEMMA Scr_Safe == ASSUME ScrInv PROVE ScrSafe
<1>1. ScrNoGaps
  <2>1. harvest = {} \/ \E m \in Nat : harvest = 0..m
    <3>1. scrAt \in {"observing", "gesturing", "settling", "grace", "checking", "done"}
      BY DEF ScrInv, ScrTypeOK
    <3>2. 1..Rows \subseteq Nat /\ 0..Rows \subseteq Nat
      BY Scr_Sizes
    <3> QED
      BY <3>1, <3>2 DEF ScrInv, ScrStage, Before
  <2>2. CASE harvest = {}
    BY <2>2 DEF ScrNoGaps
  <2>3. CASE \E m \in Nat : harvest = 0..m
    BY <2>3 DEF ScrNoGaps
  <2> QED
    BY <2>1, <2>2, <2>3
<1>2. ScrEndTrue
  <2>1. SUFFICES ASSUME endOfList PROVE harvest = 0..Rows /\ wanted \notin 1..Rows
    BY DEF ScrEndTrue
  <2>2. harvest = 0..Rows /\ ~ stopped
    BY <2>1 DEF ScrInv
  <2>3. wanted \notin harvest \ {0}
    BY <2>2 DEF ScrInv
  <2> QED
    BY <2>2, <2>3, Scr_Sizes
<1> QED
  BY <1>1, <1>2 DEF ScrSafe

(* The types need no hypothesis. *)
ScrTyped == ScrTypeOK /\ (scrAt # "done" => nonMoves <= 1)

LEMMA ScrTypedStarts == ASSUME ScrInit PROVE ScrTyped
BY ScrStarts DEF ScrTyped, ScrInv, ScrInit

LEMMA ScrTypedMoves == ASSUME ScrTyped, [ScrNext]_scrVars PROVE ScrTyped'
<1>1. /\ rowTop \in 1..Rows /\ loaded \in 1..Rows /\ lost \in 0..MaxLost /\ nonMoves \in 0..2
      /\ harvest \subseteq 0..Rows /\ newSet \subseteq 0..Rows /\ prevSet \subseteq 0..Rows
      /\ scrolls \in 0..MaxScrolls
  BY DEF ScrTyped, ScrTypeOK
<1>2. Visible \subseteq 0..Rows
  BY <1>1, Scr_Sizes DEF Visible, Lower
<1>3. LastTop \in 1..Rows
  BY <1>1, Scr_Sizes DEF LastTop
<1>4. CASE UNCHANGED scrVars
  BY <1>4 DEF scrVars, ScrTyped, ScrTypeOK
<1>5. CASE PageLoads
  <2>1. loaded' \in 1..Rows
    BY <1>1, <1>5, Scr_Sizes DEF PageLoads, Lower
  <2> QED
    BY <1>5, <2>1 DEF PageLoads, ScrTyped, ScrTypeOK
<1>6. CASE FirstScreen
  <2>1. scrAt' \in {"gesturing", "done"} /\ harvest' \subseteq 0..Rows /\ stopped' \in BOOLEAN /\ prevSet' \subseteq 0..Rows
    BY <1>1, <1>2, <1>6 DEF FirstScreen, Visits, Found
  <2> QED
    BY <1>6, <2>1 DEF FirstScreen, ScrTyped, ScrTypeOK
<1>7. CASE Gesture
  <2>1. rowTop' \in 1..Rows
    BY <1>1, <1>3, <1>7, Scr_Sizes DEF Gesture, Lower
  <2>2. lost' \in 0..MaxLost /\ scrolls' \in 0..MaxScrolls
    BY <1>1, <1>7, Scr_Sizes DEF Gesture
  <2> QED
    BY <1>7, <2>1, <2>2 DEF Gesture, ScrTyped, ScrTypeOK
<1>8. CASE LoopEnds
  BY <1>8 DEF LoopEnds, ScrTyped, ScrTypeOK
<1>9. CASE Settles
  <2>1. scrAt' \in {"grace", "checking"} /\ newSet' \subseteq 0..Rows
    BY <1>2, <1>9 DEF Settles
  <2> QED
    BY <1>9, <2>1 DEF Settles, ScrTyped, ScrTypeOK
<1>10. CASE GraceEnds
  <2>1. newSet' \subseteq 0..Rows
    BY <1>1, <1>2, <1>10 DEF GraceEnds, AfterGrace
  <2> QED
    BY <1>10, <2>1 DEF GraceEnds, ScrTyped, ScrTypeOK
<1>11. CASE Checks
  <2>0. nonMoves \in 0..1
    BY <1>1, <1>11 DEF Checks, ScrTyped
  <2>1. NonMoves \in 0..2 /\ (~ (NonMoves >= endOfListNonMoves) => NonMoves <= 1)
    BY <2>0 DEF NonMoves, endOfListNonMoves
  <2>2. harvest' \subseteq 0..Rows /\ stopped' \in BOOLEAN /\ endOfList' \in BOOLEAN /\ prevSet' \subseteq 0..Rows
    BY <1>1, <1>11 DEF Checks, Visits, Found
  <2>3. /\ scrAt' \in {"gesturing", "done"} /\ nonMoves' = NonMoves
        /\ scrAt' # "done" => ~ (NonMoves >= endOfListNonMoves)
    BY <1>11 DEF Checks, Visits
  <2>4. UNCHANGED <<wanted, rowTop, loaded, lost, scrolls, newSet>>
    BY <1>11 DEF Checks
  <2>5. scrAt' # "done" => nonMoves' <= 1
    BY <2>1, <2>3
  <2> QED
    BY <2>1, <2>2, <2>3, <2>4, <2>5 DEF ScrTyped, ScrTypeOK
<1> QED
  BY <1>4, <1>5, <1>6, <1>7, <1>8, <1>9, <1>10, <1>11 DEF ScrNext

-----------------------------------------------------------------------------
(* The element-resolution ladder.                                          *)

LadStepRec ==
  [kind: {"wda", "sim", "mirror"}, at: 1..4, trying: BOOLEAN, left: 0..StepTimeout, attempted: 0..2,
   hard: BOOLEAN, alive: BOOLEAN, skipped: BOOLEAN, offScreen: BOOLEAN, axDown: BOOLEAN,
   axCounted: BOOLEAN, seen: BOOLEAN, lastFail: BOOLEAN,
   trail: [{"source", "template"} -> Outcome], verdict: Verdicts]

(* Where a step is in its cycle, and what it has counted there. *)
LadCounts(w, s) ==
  /\ s \in LadStepRec /\ s.kind \in LadderKinds[w] \cup {"sim"}
  /\ s.trying => s.at <= 3 /\ s.left > 0 /\ s.attempted <= s.at - 1 /\ (s.at >= 2 => s.attempted >= 1)
  /\ ~ s.trying => s.attempted = 0 \/ s.attempted <= s.at - 2

(* While it runs: alive and off-screen speak of this cycle, from its       *)
(* source on; the source is asked before the wait can be over; a failed    *)
(* source without a live template dooms the step.                          *)
LadRuns(s) ==
  s.verdict = "running" =>
    /\ s.at <= 2 => ~ s.alive
    /\ s.at = 2 => ~ s.offScreen
    /\ s.offScreen => s.trail["source"] = "off"
    /\ s.at >= 3 \/ s.left = 0 \/ s.hard => s.trail["source"] # "none"
    /\ s.trail["source"] = "failed" => s.trail["template"] \in {"miss", "cut"} \/ (s.hard /\ ~ s.alive)
    /\ s.at = 3 /\ s.trail["source"] = "failed" => s.hard /\ ~ s.alive

(* What it reports. *)
LadReports(s) ==
  /\ s.verdict = "timeout" /\ s.trail["source"] = "failed" => s.trail["template"] \in {"miss", "cut"}
  /\ s.verdict \in {"timeout", "off_viewport", "failed"} => s.trail["source"] # "none"
  /\ s.verdict = "off_viewport" => s.trail["source"] = "off"

LadStep(w, s) == LadCounts(w, s) /\ LadRuns(s) /\ LadReports(s)

(* The breaker counts steps, each one once. *)
LadBreaker ==
  /\ axFails = failing /\ failing \in Nat /\ openedAfter \in Nat /\ axOpen \in BOOLEAN
  /\ charged \subseteq Worker
  /\ axOpen => openedAfter >= axBreakerThreshold

LadInv ==
  /\ ladder \in [Worker -> LadStepRec] /\ LadBreaker
  /\ \A w \in Worker : LadStep(w, ladder[w])
  /\ \A w \in Worker : ladder[w].verdict = "running" /\ w \in charged => ladder[w].axCounted

(* A finished step, field by field. *)
LEMMA Lad_New ==
  ASSUME NEW kind \in {"wda", "sim", "mirror"}
  PROVE  /\ NewStep(kind) \in LadStepRec /\ NewStep(kind).kind = kind /\ NewStep(kind).at = 1
         /\ NewStep(kind).trying = FALSE /\ NewStep(kind).left = StepTimeout /\ NewStep(kind).attempted = 0
         /\ NewStep(kind).hard = FALSE /\ NewStep(kind).alive = FALSE /\ NewStep(kind).offScreen = FALSE
         /\ NewStep(kind).axCounted = FALSE /\ NewStep(kind).verdict = "running"
         /\ NewStep(kind).trail["source"] = "none"
<1> USE LadderAssumption
<1>1. [r \in {"source", "template"} |-> "none"] \in [{"source", "template"} -> Outcome]
  BY DEF Outcome
<1>2. StepTimeout \in 0..StepTimeout /\ 1 \in 1..4 /\ 0 \in 0..2 /\ "running" \in Verdicts
  BY DEF Verdicts
<1>3. NewStep(kind) \in LadStepRec
  BY <1>1, <1>2 DEF NewStep, LadStepRec
<1> QED
  BY <1>3 DEF NewStep

LEMMA Lad_Done ==
  ASSUME NEW w \in Worker, NEW s \in LadStepRec, s.kind \in LadderKinds[w] \cup {"sim"},
         NEW v \in Verdicts, v # "running",
         v \in {"timeout", "off_viewport", "failed"} => s.trail["source"] # "none",
         v = "timeout" /\ s.trail["source"] = "failed" => s.trail["template"] \in {"miss", "cut"},
         v = "off_viewport" => s.trail["source"] = "off"
  PROVE  /\ LadStep(w, Done(s, v)) /\ Done(s, v) \in LadStepRec /\ Done(s, v).verdict = v
<1> DEFINE keep == v \in {"timeout", "off_viewport", "failed"}
<1>1. PICK n : n = NewStep(s.kind)
  OBVIOUS
<1>k. s.kind \in {"wda", "sim", "mirror"} /\ s.trail \in [{"source", "template"} -> Outcome]
  BY DEF LadStepRec
<1>2. /\ n \in LadStepRec /\ n.kind = s.kind /\ n.at = 1
      /\ n.trying = FALSE /\ n.left = StepTimeout /\ n.attempted = 0
  BY <1>1, <1>k, Lad_New
<1>3. PICK tr : tr = IF keep THEN s.trail ELSE n.trail
  OBVIOUS
<1>4. tr \in [{"source", "template"} -> Outcome] /\ (keep => tr = s.trail)
  BY <1>2, <1>3, <1>k DEF LadStepRec
<1>5. Done(s, v) = [n EXCEPT !.verdict = v, !.trail = tr]
  <2>1. Done(s, v) = [n EXCEPT !.verdict = v, !.trail = IF keep THEN s.trail ELSE @]
    BY <1>1, Zenon DEF Done
  <2>2. n.trail = n["trail"]
    OBVIOUS
  <2> QED
    BY <2>1, <1>3, <1>2 DEF LadStepRec
<1> HIDE DEF keep
<1>6. PICK d : d = Done(s, v)
  OBVIOUS
<1>7. /\ d \in LadStepRec /\ d.verdict = v /\ d.trail = tr /\ d.kind = s.kind /\ d.at = 1
      /\ d.trying = FALSE /\ d.left = StepTimeout /\ d.attempted = 0
  BY <1>2, <1>4, <1>5, <1>6, ZenonT(40) DEF LadStepRec
<1>8. LadCounts(w, d)
  BY <1>7 DEF LadCounts
<1>9. LadRuns(d) /\ LadReports(d)
  BY <1>7, <1>4 DEF LadRuns, LadReports, keep
<1> QED
  BY <1>6, <1>7, <1>8, <1>9 DEF LadStep

LEMMA LadStarts == ASSUME LadderInit PROVE LadInv
<1> USE LadderAssumption
<1>0. PICK s : s = NewStep("sim")
  OBVIOUS
<1>1. s \in LadStepRec /\ s.kind = "sim"
  BY <1>0, Lad_New
<1>2. NoStep = Done(s, "stopped") /\ "stopped" \in Verdicts
  BY <1>0 DEF NoStep, Verdicts
<1>3. ASSUME NEW w \in Worker
      PROVE  LadStep(w, NoStep) /\ NoStep \in LadStepRec /\ NoStep.verdict = "stopped"
  BY <1>1, <1>2, Lad_Done
<1>4. ladder = [w \in Worker |-> NoStep] /\ LadBreaker /\ charged = {}
  BY DEF LadderInit, LadBreaker
<1> HIDE DEF NoStep
<1>5. ladder \in [Worker -> LadStepRec] /\ \A w \in Worker : ladder[w] = NoStep
  BY <1>3, <1>4
<1> QED
  BY <1>3, <1>4, <1>5 DEF LadInv

(* One step goes on: what has to be shown of it, and of the breaker.       *)
LEMMA Lad_One ==
  ASSUME LadInv, NEW w \in Worker, NEW r \in LadStepRec, LadStep(w, r), Becomes(w, r),
         LadBreaker', \A v \in Worker : v # w /\ v \in charged' => v \in charged,
         r.verdict = "running" /\ w \in charged' => r.axCounted
  PROVE  LadInv'
<1>1. /\ ladder \in [Worker -> LadStepRec] /\ \A v \in Worker : LadStep(v, ladder[v])
      /\ \A v \in Worker : ladder[v].verdict = "running" /\ v \in charged => ladder[v].axCounted
  BY DEF LadInv
<1>2. /\ ladder' \in [Worker -> LadStepRec] /\ ladder'[w] = r
      /\ \A v \in Worker : v # w => ladder'[v] = ladder[v]
  BY <1>1 DEF Becomes
<1>3. \A v \in Worker : LadStep(v, ladder'[v])
  BY <1>1, <1>2
<1>4. \A v \in Worker : ladder'[v].verdict = "running" /\ v \in charged' => ladder'[v].axCounted
  BY <1>1, <1>2
<1> QED
  BY <1>2, <1>3, <1>4 DEF LadInv

LEMMA Lad_BreakerSame ==
  ASSUME LadInv, BreakerSame PROVE LadBreaker' /\ charged' = charged
BY DEF LadInv, LadBreaker, BreakerSame

LEMMA Lad_Succeed ==
  ASSUME LadInv, succeed PROVE LadBreaker' /\ charged' = {}
BY DEF LadInv, LadBreaker, succeed

(* A running step charges itself at most once.                             *)
LEMMA Lad_Charge ==
  ASSUME LadInv, NEW w \in Worker, IsRunning(w), countAXFailure(w)
  PROVE  /\ LadBreaker' /\ \A v \in Worker : v # w /\ v \in charged' => v \in charged
<1> USE LadderAssumption
<1>1. CASE ladder[w].axCounted
  BY <1>1 DEF LadInv, LadBreaker, countAXFailure
<1>2. CASE ~ ladder[w].axCounted
  <2>1. w \notin charged
    BY <1>2 DEF LadInv, IsRunning
  <2>2. /\ axFails' = axFails + 1 /\ axOpen' = (axOpen \/ axFails + 1 >= axBreakerThreshold)
        /\ charged' = charged \cup {w} /\ failing' = failing + 1
        /\ openedAfter' = IF axOpen THEN openedAfter ELSE failing'
    BY <1>2, <2>1 DEF countAXFailure
  <2>3. axFails = failing /\ failing \in Nat /\ openedAfter \in Nat /\ axOpen \in BOOLEAN
        /\ (axOpen => openedAfter >= axBreakerThreshold) /\ charged \subseteq Worker
    BY DEF LadInv, LadBreaker
  <2>4. LadBreaker'
    <3>1. axFails' = failing' /\ failing' \in Nat /\ charged' \subseteq Worker /\ axOpen' \in BOOLEAN
      BY <2>2, <2>3
    <3>2. CASE axOpen
      BY <3>1, <3>2, <2>2, <2>3 DEF LadBreaker
    <3>3. CASE ~ axOpen
      <4>1. openedAfter' = failing' /\ (axOpen' => failing' >= axBreakerThreshold)
        BY <3>3, <2>2, <2>3
      <4> QED
        BY <3>1, <4>1 DEF LadBreaker
    <3> QED
      BY <3>2, <3>3, <2>3
  <2> QED
    BY <2>2, <2>4
<1>3. ladder[w].axCounted \in BOOLEAN
  BY DEF LadInv, LadStepRec
<1> QED
  BY <1>1, <1>2, <1>3

LEMMA Lad_StepStarts == ASSUME LadInv, NEW w \in Worker, StepStarts(w) PROVE LadInv'
<1> USE LadderAssumption
<1>1. PICK kind \in LadderKinds[w] : Becomes(w, NewStep(kind))
  BY DEF StepStarts
<1>2. kind \in {"wda", "sim", "mirror"}
  OBVIOUS
<1>3. PICK n : n = NewStep(kind)
  OBVIOUS
<1>4. /\ n \in LadStepRec /\ n.kind = kind /\ n.at = 1 /\ n.trying = FALSE /\ n.left = StepTimeout
      /\ n.attempted = 0 /\ n.hard = FALSE /\ n.alive = FALSE /\ n.offScreen = FALSE
      /\ n.verdict = "running" /\ n.trail["source"] = "none"
  BY <1>2, <1>3, Lad_New
<1>5. LadStep(w, n)
  <2>1. LadCounts(w, n)
    BY <1>4 DEF LadCounts
  <2>2. LadRuns(n) /\ LadReports(n)
    BY <1>4 DEF LadRuns, LadReports
  <2> QED
    BY <2>1, <2>2 DEF LadStep
<1>6. LadBreaker' /\ w \notin charged' /\ \A v \in Worker : v # w /\ v \in charged' => v \in charged
  BY DEF StepStarts, LadInv, LadBreaker
<1> QED
  BY <1>1, <1>3, <1>4, <1>5, <1>6, Lad_One

(* Which rung it is says where it stands. *)
LEMMA Lad_Rung ==
  ASSUME NEW s \in LadStepRec, s.at <= 3
  PROVE  /\ s.at = 1 <=> Rung(s) = "map"
         /\ s.at = 3 <=> Rung(s) = "template"
         /\ s.at = 2 <=> Rung(s) \in {"ax", "ocr"}
         /\ s.at = 2 => Rung(s) = Source(s.kind) /\ Slot(Rung(s)) = "source"
         /\ s.at = 3 => Slot(Rung(s)) = "template"
         /\ Guarded(s.kind, Rung(s)) <=> s.at = 2 /\ s.kind = "wda"
<1>1. s.at \in {1, 2, 3} /\ s.kind \in {"wda", "sim", "mirror"}
  BY DEF LadStepRec
<1>2. Rung(s) = CASE s.at = 1 -> "map" [] s.at = 2 -> Source(s.kind) [] OTHER -> "template"
  BY <1>1 DEF Rung, Rungs
<1>3. Source(s.kind) \in {"ax", "ocr"} /\ (Source(s.kind) = "ax" <=> s.kind # "mirror")
  BY DEF Source
<1>4. CASE s.at = 1
  BY <1>2, <1>4 DEF Guarded
<1>5. CASE s.at = 2
  BY <1>1, <1>2, <1>3, <1>5 DEF Guarded, Slot
<1>6. CASE s.at = 3
  BY <1>2, <1>6 DEF Guarded, Slot
<1> QED
  BY <1>1, <1>4, <1>5, <1>6

LEMMA Lad_RungStarts == ASSUME LadInv, NEW w \in Worker, RungStarts(w) PROVE LadInv'
<1>0. PICK s : s = ladder[w]
  OBVIOUS
<1>a. /\ s.verdict = "running" /\ ~ s.trying /\ s.at <= 3 /\ s.left > 0
      /\ IF Guarded(s.kind, Rung(s)) /\ axOpen
         THEN Becomes(w, [s EXCEPT !.skipped = TRUE, !.at = @ + 1, !.trail["source"] = "skipped"])
         ELSE Becomes(w, [s EXCEPT !.trying = TRUE,
                                   !.attempted = @ + (IF Rung(s) = "map" THEN 0 ELSE 1)])
      /\ BreakerSame
  BY <1>0, Zenon DEF RungStarts, IsRunning
<1>b. s \in LadStepRec /\ LadCounts(w, s) /\ LadRuns(s) /\ (w \in charged => s.axCounted)
  BY <1>0, <1>a DEF LadInv, LadStep
<1>c. LadBreaker' /\ charged' = charged
  BY <1>a, Lad_BreakerSame
<1>d. /\ s.at \in 1..4 /\ s.attempted \in 0..2 /\ s.trail \in [{"source", "template"} -> Outcome]
      /\ (s.attempted = 0 \/ s.attempted <= s.at - 2)
  BY <1>a, <1>b DEF LadCounts, LadStepRec
<1>1. CASE Guarded(s.kind, Rung(s)) /\ axOpen
  <2>3. s.at = 2
    BY <1>1, <1>a, <1>b, Lad_Rung
  <2>4. PICK tr : tr = [s.trail EXCEPT !["source"] = "skipped"]
    OBVIOUS
  <2>5. tr \in [{"source", "template"} -> Outcome] /\ tr["source"] = "skipped"
    BY <2>4, <1>d DEF Outcome
  <2>t. PICK three \in 1..4 : three = s.at + 1 /\ three = 3
    BY <2>3
  <2>u. PICK yes \in BOOLEAN : yes = TRUE
    OBVIOUS
  <2>1. PICK r : r = [s EXCEPT !.skipped = yes, !.at = three, !.trail = tr]
    OBVIOUS
  <2>2. Becomes(w, r)
    BY <1>1, <1>a, <1>b, <2>1, <2>t, <2>u, <2>4 DEF LadStepRec
  <2>6. r \in LadStepRec
    BY <2>1, <2>5, <1>b DEF LadStepRec
  <2>8. /\ r.at = 3 /\ r.trying = s.trying /\ r.attempted = s.attempted /\ r.kind = s.kind
        /\ r.offScreen = s.offScreen /\ r.trail = tr /\ r.verdict = s.verdict /\ r.axCounted = s.axCounted
        /\ r.hard = s.hard /\ r.alive = s.alive /\ r.left = s.left
    BY <2>1, <2>t, <1>b DEF LadStepRec
  <2>7. LadCounts(w, r)
    BY <2>3, <2>6, <2>8, <1>a, <1>b, <1>d DEF LadCounts
  <2>9. LadRuns(r) /\ LadReports(r)
    BY <2>3, <2>5, <2>8, <1>a, <1>b DEF LadRuns, LadReports
  <2> QED
    BY <2>2, <2>6, <2>7, <2>8, <2>9, <1>b, <1>c, Lad_One DEF LadStep
<1>2. CASE ~ (Guarded(s.kind, Rung(s)) /\ axOpen)
  <2>0. PICK k \in {0, 1} : k = IF Rung(s) = "map" THEN 0 ELSE 1
    OBVIOUS
  <2>1. PICK r : r = [s EXCEPT !.trying = TRUE, !.attempted = s.attempted + k]
    OBVIOUS
  <2>2. Becomes(w, r)
    BY <1>2, <1>a, <1>b, <2>0, <2>1 DEF LadStepRec
  <2>3. k = 0 <=> s.at = 1
    BY <1>a, <1>b, <2>0, Lad_Rung
  <2>4. s.attempted + k \in 0..2 /\ s.attempted + k <= s.at - 1 /\ (s.at >= 2 => s.attempted + k >= 1)
    BY <2>3, <1>d, <1>a
  <2>6. /\ r \in LadStepRec /\ r.at = s.at /\ r.trying = TRUE /\ r.attempted = s.attempted + k /\ r.kind = s.kind
        /\ r.left = s.left /\ r.hard = s.hard /\ r.alive = s.alive
        /\ r.offScreen = s.offScreen /\ r.trail = s.trail /\ r.verdict = s.verdict /\ r.axCounted = s.axCounted
    BY <2>1, <2>4, <1>b DEF LadStepRec
  <2>7. LadCounts(w, r)
    BY <2>4, <2>6, <1>a, <1>b DEF LadCounts
  <2>8. LadRuns(r) /\ LadReports(r)
    BY <2>6, <1>a, <1>b DEF LadRuns, LadReports
  <2> QED
    BY <2>2, <2>6, <2>7, <2>8, <1>b, <1>c, Lad_One DEF LadStep
<1> QED
  BY <1>1, <1>2

LEMMA Lad_CallerGone == ASSUME LadInv, NEW w \in Worker, CallerGone(w) PROVE LadInv'
<1>0. PICK s : s = ladder[w]
  OBVIOUS
<1>1. s \in LadStepRec /\ s.kind \in LadderKinds[w] \cup {"sim"} /\ "ambient" \in Verdicts
  BY <1>0 DEF LadInv, LadStep, LadCounts, Verdicts
<1>2. PICK r : r = Done(s, "ambient")
  OBVIOUS
<1>3. LadStep(w, r) /\ r \in LadStepRec /\ r.verdict = "ambient"
  BY <1>1, <1>2, Lad_Done
<1>4. Becomes(w, r) /\ BreakerSame
  BY <1>0, <1>2, Zenon DEF CallerGone
<1> QED
  BY <1>3, <1>4, Lad_BreakerSame, Lad_One

LEMMA Lad_CycleEnds == ASSUME LadInv, NEW w \in Worker, CycleEnds(w) PROVE LadInv'
<1> USE LadderAssumption
<1>0. PICK s : s = ladder[w]
  OBVIOUS
<1>a. /\ s.verdict = "running" /\ ~ s.trying /\ (s.at = 4 \/ s.left = 0) /\ IsRunning(w)
  BY <1>0, Zenon DEF CycleEnds, IsRunning
<1>b. /\ s \in LadStepRec /\ s.kind \in LadderKinds[w] \cup {"sim"} /\ LadRuns(s)
      /\ (w \in charged => s.axCounted) /\ LadCounts(w, s)
  BY <1>0, <1>a DEF LadInv, LadStep, LadCounts
<1>c. s.trail["source"] # "none"
  BY <1>a, <1>b DEF LadRuns
<1>1. CASE Doomed(s)
  <2>1. Becomes(w, Done(s, "failed")) /\ BreakerSame
    BY <1>0, <1>1, Zenon DEF CycleEnds
  <2>2. PICK r : r = Done(s, "failed")
    OBVIOUS
  <2>3. LadStep(w, r) /\ r \in LadStepRec /\ r.verdict = "failed"
    <3>1. "failed" \in Verdicts
      BY DEF Verdicts
    <3> QED
      BY <3>1, <1>b, <1>c, <2>2, Lad_Done
  <2> QED
    BY <2>1, <2>2, <2>3, Lad_BreakerSame, Lad_One
<1>2. CASE ~ Doomed(s) /\ (s.left = 0 \/ (s.attempted = 0 /\ s.skipped))
  <2>1. Becomes(w, Done(s, Reports(s))) /\ IF s.axDown THEN countAXFailure(w) ELSE BreakerSame
    BY <1>0, <1>2, Zenon DEF CycleEnds
  <2>2. PICK v : v = Reports(s)
    OBVIOUS
  <2>3. v \in {"failed", "off_viewport", "timeout"} /\ v \in Verdicts /\ (v = "off_viewport" => s.offScreen)
    BY <2>2 DEF Reports, Verdicts
  <2>4. v = "off_viewport" => s.trail["source"] = "off"
    BY <2>3, <1>a, <1>b DEF LadRuns
  <2>5. s.trail["source"] = "failed" => s.trail["template"] \in {"miss", "cut"}
    BY <1>2, <1>a, <1>b DEF LadRuns, Doomed
  <2>6. PICK r : r = Done(s, v)
    OBVIOUS
  <2>7. LadStep(w, r) /\ r \in LadStepRec /\ r.verdict = v
    BY <2>3, <2>4, <2>5, <2>6, <1>b, <1>c, Lad_Done
  <2>8. LadBreaker' /\ \A x \in Worker : x # w /\ x \in charged' => x \in charged
    BY <2>1, <1>a, Lad_Charge, Lad_BreakerSame
  <2> QED
    BY <2>1, <2>2, <2>3, <2>6, <2>7, <2>8, Lad_One
<1>3. CASE ~ Doomed(s) /\ ~ (s.left = 0 \/ (s.attempted = 0 /\ s.skipped))
  <2>1. Becomes(w, [s EXCEPT !.at = 1, !.left = @ - 1, !.attempted = 0, !.hard = FALSE, !.alive = FALSE])
        /\ BreakerSame
    BY <1>0, <1>3, Zenon DEF CycleEnds
  <2>t. PICK one \in 1..4, nul \in 0..2 : one = 1 /\ nul = 0
    OBVIOUS
  <2>u. PICK no \in BOOLEAN : no = FALSE
    OBVIOUS
  <2>v. PICK lf \in 0..StepTimeout : lf = s.left - 1
    <3>1. s.left \in 0..StepTimeout /\ s.left # 0
      BY <1>b, <1>3 DEF LadStepRec
    <3>2. s.left - 1 \in 0..StepTimeout
      BY <3>1
    <3> QED
      BY <3>2
  <2>2. PICK r : r = [s EXCEPT !.at = one, !.left = lf, !.attempted = nul, !.hard = no, !.alive = no]
    OBVIOUS
  <2>3. Becomes(w, r)
    BY <2>1, <2>2, <2>t, <2>u, <2>v, <1>b DEF LadStepRec
  <2>4. r \in LadStepRec
    BY <2>2, <1>b DEF LadStepRec
  <2>5. /\ r \in LadStepRec /\ r.at = 1 /\ r.left = s.left - 1 /\ r.attempted = 0 /\ r.hard = FALSE
        /\ r.alive = FALSE /\ r.trying = s.trying /\ r.kind = s.kind /\ r.offScreen = s.offScreen
        /\ r.trail = s.trail /\ r.verdict = s.verdict /\ r.axCounted = s.axCounted
    BY <2>2, <2>4, <2>t, <2>u, <2>v, <1>b DEF LadStepRec
  <2>6. LadCounts(w, r)
    BY <2>5, <1>a, <1>b DEF LadCounts
  <2>7. LadRuns(r) /\ LadReports(r)
    <3>1. s.trail["source"] = "failed" => s.trail["template"] \in {"miss", "cut"}
      BY <1>3, <1>a, <1>b DEF LadRuns, Doomed
    <3> QED
      BY <3>1, <2>5, <1>a, <1>b, <1>c DEF LadRuns, LadReports
  <2>8. LadBreaker' /\ charged' = charged
    BY <2>1, Lad_BreakerSame
  <2> QED
    BY <2>3, <2>5, <2>6, <2>7, <2>8, <1>b, Lad_One DEF LadStep
<1> QED
  BY <1>1, <1>2, <1>3

(* An attempt takes no more than it was given, and the map rung leaves the *)
(* source half of the wait.                                                *)
LEMMA Lad_Time ==
  ASSUME NEW w \in Worker, NEW s \in LadStepRec, s.at <= 3, s.left > 0,
         NEW answer \in Answers(s.kind, Rung(s)), NEW d \in Takes(answer, Given(s.kind, Rung(s), s.left))
  PROVE  /\ d \in 0..s.left /\ (s.at = 1 => d < s.left)
         /\ answer \in {"hit", "off", "miss", "down", "cut", "failed", "config", "ambiguous", "cannot"}
         /\ answer \in {"off", "down"} => s.at = 2
         /\ answer = "cannot" => s.at = 3
         /\ answer \in {"cut", "failed"} => s.at >= 2
         /\ answer \in {"config", "ambiguous"} => s.at = 2
<1> USE LadderAssumption
<1>1. s.left \in 0..StepTimeout /\ s.at \in 1..4 /\ StepTimeout \in Nat
  BY DEF LadStepRec
<1>2. PICK r : r = Rung(s)
  OBVIOUS
<1>3. (s.at = 1 <=> r = "map") /\ (s.at = 3 <=> r = "template") /\ (s.at = 2 <=> r \in {"ax", "ocr"})
  BY <1>2, Lad_Rung
<1>g. (Guarded(s.kind, r) => r = "ax")
  BY DEF Guarded
<1>4. PICK g : g = Given(s.kind, r, s.left)
  OBVIOUS
<1>h. s.left \div 2 \in 0..s.left /\ s.left \div 2 < s.left
  BY <1>1
<1>5. g \in 0..s.left /\ (s.at = 1 => g < s.left)
  <2>1. \A a, b \in Nat : Least(a, b) \in 0..b
    BY DEF Least
  <2>2. r \in {"map", "ax", "template"} => RungBudget[r] \in Nat
    OBVIOUS
  <2>3. CASE r = "map"
    <3>1. g = Least(RungBudget[r], s.left \div 2)
      BY <2>3, <1>4 DEF Given
    <3>2. g \in 0..(s.left \div 2)
      BY <3>1, <2>1, <2>2, <2>3, <1>h, <1>1
    <3> QED
      BY <3>2, <1>h, <1>1
  <2>4. CASE r = "template" \/ Guarded(s.kind, r)
    <3>1. g = Least(RungBudget[r], s.left) /\ r \in {"ax", "template"}
      BY <2>4, <1>4, <1>g DEF Given
    <3> QED
      <4>1. RungBudget[r] \in Nat /\ s.left \in Nat
        BY <3>1, <2>2, <1>1
      <4>2. Least(RungBudget[r], s.left) \in 0..s.left
        BY <4>1, <2>1
      <4> QED
        BY <4>2, <3>1, <1>3
  <2>5. CASE r # "map" /\ ~ (r = "template" \/ Guarded(s.kind, r))
    BY <2>5, <1>4, <1>1, <1>3 DEF Given
  <2> QED
    BY <2>3, <2>4, <2>5
<1>6. d \in Takes(answer, g)
  BY <1>2, <1>4
<1>7. d \in 0..g
  BY <1>5, <1>6, <1>1 DEF Takes
<1>8. /\ answer \in {"hit", "off", "miss", "down", "cut", "failed", "config", "ambiguous", "cannot"}
      /\ answer \in {"off", "down"} => r \notin {"map", "template"}
      /\ answer = "cannot" => r = "template"
      /\ answer \in {"cut", "failed"} => r # "map"
      /\ answer \in {"config", "ambiguous"} => r \notin {"map", "template"}
  BY <1>2 DEF Answers
<1> QED
  BY <1>1, <1>3, <1>5, <1>7, <1>8

(* What an attempt leaves behind: the next rung, and what it said. *)
LEMMA Lad_Attempted ==
  ASSUME NEW w \in Worker, NEW s \in LadStepRec, LadCounts(w, s), LadRuns(s), s.verdict = "running",
         s.trying, NEW r \in LadStepRec, r.at = s.at + 1, ~ r.trying, r.kind = s.kind,
         s.at = 1 => r.left > 0, r.verdict = "running", r.attempted <= s.attempted,
         s.at = 1 => ~ r.alive /\ ~ r.offScreen /\ r.hard = s.hard /\ r.trail = s.trail,
         s.at = 2 => /\ r.trail["source"] # "none"
                     /\ r.offScreen => r.trail["source"] = "off"
                     /\ r.trail["source"] = "failed" => r.hard /\ ~ r.alive,
         s.at = 3 => /\ r.trail["source"] = s.trail["source"]
                     /\ r.offScreen => s.offScreen
                     /\ r.trail["template"] \in {"miss", "cut"} \/ (r.alive = s.alive /\ (s.hard => r.hard))
  PROVE  LadStep(w, r)
<1>1. /\ s.at \in 1..3 /\ s.attempted \in 0..2 /\ r.attempted \in 0..2 /\ s.attempted <= s.at - 1
      /\ r.kind \in LadderKinds[w] \cup {"sim"} /\ r.left \in 0..StepTimeout
  BY DEF LadCounts, LadStepRec
<1>2. LadCounts(w, r)
  BY <1>1 DEF LadCounts
<1>3. CASE s.at = 1
  BY <1>1, <1>2, <1>3 DEF LadRuns, LadReports, LadStep
<1>4. CASE s.at = 2
  BY <1>1, <1>2, <1>4 DEF LadRuns, LadReports, LadStep
<1>5. CASE s.at = 3
  BY <1>1, <1>2, <1>5 DEF LadRuns, LadReports, LadStep
<1> QED
  BY <1>1, <1>3, <1>4, <1>5

LEMMA Lad_RungEnds == ASSUME LadInv, NEW w \in Worker, RungEnds(w) PROVE LadInv'
<1> USE LadderAssumption
<1>0. PICK s, c : s = ladder[w] /\ c = Rung(s)
  OBVIOUS
<1>1. IsRunning(w) /\ s.trying
  BY <1>0, Zenon DEF RungEnds
<1>2. PICK answer \in Answers(s.kind, c) : \E d \in Takes(answer, Given(s.kind, c, s.left)) :
        LET t == [s EXCEPT !.trying = FALSE, !.at = @ + 1, !.left = @ - d]
        IN  \/ answer = "hit" /\ RungHits(w, t, c)
            \/ answer = "off" /\ RungOff(w, t, c)
            \/ answer = "miss" /\ RungMisses(w, t, c)
            \/ answer = "cannot" /\ RungCannot(w, t, c)
            \/ answer = "down" /\ RungDown(w, t, c)
            \/ answer = "cut" /\ RungCut(w, t, c)
            \/ answer = "failed" /\ RungFails(w, t, c)
            \/ /\ answer \in {"config", "ambiguous"}
               /\ Becomes(w, Done(t, "stopped"))
               /\ BreakerSame
  BY <1>0, ZenonT(40) DEF RungEnds
<1>3. PICK d \in Takes(answer, Given(s.kind, c, s.left)) :
        LET t == [s EXCEPT !.trying = FALSE, !.at = @ + 1, !.left = @ - d]
        IN  \/ answer = "hit" /\ RungHits(w, t, c)
            \/ answer = "off" /\ RungOff(w, t, c)
            \/ answer = "miss" /\ RungMisses(w, t, c)
            \/ answer = "cannot" /\ RungCannot(w, t, c)
            \/ answer = "down" /\ RungDown(w, t, c)
            \/ answer = "cut" /\ RungCut(w, t, c)
            \/ answer = "failed" /\ RungFails(w, t, c)
            \/ /\ answer \in {"config", "ambiguous"}
               /\ Becomes(w, Done(t, "stopped"))
               /\ BreakerSame
  BY <1>2
<1>4. /\ s \in LadStepRec /\ LadCounts(w, s) /\ LadRuns(s) /\ s.verdict = "running"
      /\ (w \in charged => s.axCounted) /\ s.at <= 3 /\ s.left > 0
  BY <1>0, <1>1 DEF LadInv, LadStep, LadCounts, IsRunning
<1>5. /\ d \in 0..s.left /\ (s.at = 1 => d < s.left)
      /\ answer \in {"hit", "off", "miss", "down", "cut", "failed", "config", "ambiguous", "cannot"}
      /\ answer \in {"off", "down"} => s.at = 2
      /\ answer = "cannot" => s.at = 3
      /\ answer \in {"cut", "failed"} => s.at >= 2
      /\ answer \in {"config", "ambiguous"} => s.at = 2
  BY <1>0, <1>4, Lad_Time
<1>6. /\ s.at = 1 <=> c = "map"
      /\ s.at = 3 <=> c = "template"
      /\ s.at = 2 => Slot(c) = "source"
      /\ s.at = 3 => Slot(c) = "template"
      /\ Guarded(s.kind, c) => s.at = 2
  BY <1>0, <1>4, Lad_Rung
<1>7. /\ s.at \in 1..3 /\ s.left \in 0..StepTimeout /\ s.attempted \in 0..2
      /\ s.trail \in [{"source", "template"} -> Outcome]
      /\ s.kind \in LadderKinds[w] \cup {"sim"} /\ (s.at = 3 => s.attempted >= 1)
  BY <1>1, <1>4 DEF LadStepRec, LadCounts
<1>a. PICK next \in 1..4 : next = s.at + 1
  BY <1>7
<1>b. PICK lf \in 0..StepTimeout : lf = s.left - d /\ (s.at = 1 => lf > 0)
  BY <1>5, <1>7
<1>c. PICK no \in BOOLEAN : no = FALSE
  OBVIOUS
<1>d. PICK yes \in BOOLEAN : yes = TRUE
  OBVIOUS
<1>e. PICK t : t = [s EXCEPT !.trying = no, !.at = next, !.left = lf]
  OBVIOUS
<1>8. t = [s EXCEPT !.trying = FALSE, !.at = @ + 1, !.left = @ - d]
  BY <1>a, <1>b, <1>c, <1>e, <1>4 DEF LadStepRec
<1>9. \/ answer = "hit" /\ RungHits(w, t, c)
      \/ answer = "off" /\ RungOff(w, t, c)
      \/ answer = "miss" /\ RungMisses(w, t, c)
      \/ answer = "cannot" /\ RungCannot(w, t, c)
      \/ answer = "down" /\ RungDown(w, t, c)
      \/ answer = "cut" /\ RungCut(w, t, c)
      \/ answer = "failed" /\ RungFails(w, t, c)
      \/ answer \in {"config", "ambiguous"} /\ Becomes(w, Done(t, "stopped")) /\ BreakerSame
  BY <1>3, <1>8, Zenon
<1>f. t \in LadStepRec
  BY <1>4, <1>e DEF LadStepRec
<1>g. /\ ~ t.trying /\ t.at = s.at + 1 /\ t.left = lf /\ t.kind = s.kind /\ t.attempted = s.attempted
      /\ t.hard = s.hard /\ t.alive = s.alive /\ t.offScreen = s.offScreen /\ t.axCounted = s.axCounted
      /\ t.trail = s.trail /\ t.verdict = "running" /\ t.seen = s.seen /\ t.axDown = s.axDown
  BY <1>4, <1>a, <1>c, <1>e DEF LadStepRec
<1>h2. s.at = 2 => ~ s.alive
  BY <1>4, <1>7 DEF LadRuns
<1>h1. s.at = 1 => ~ s.alive
  BY <1>4, <1>7 DEF LadRuns
<1>i. ASSUME NEW v \in {"hit", "stopped"}, Becomes(w, Done(t, v)),
             LadBreaker', \A x \in Worker : x # w /\ x \in charged' => x \in charged
      PROVE  LadInv'
  <2>1. v \in Verdicts
    BY DEF Verdicts
  <2>2. PICK r : r = Done(t, v)
    OBVIOUS
  <2>3. LadStep(w, r) /\ r \in LadStepRec /\ r.verdict = v
    BY <2>1, <2>2, <1>f, <1>g, <1>7, Lad_Done
  <2> QED
    BY <2>2, <2>3, <1>i, Lad_One
<1>j. ASSUME NEW o \in Outcome, s.at >= 2
      PROVE  /\ [t.trail EXCEPT ![Slot(c)] = o] \in [{"source", "template"} -> Outcome]
             /\ s.at = 2 => [t.trail EXCEPT ![Slot(c)] = o]["source"] = o
             /\ s.at = 3 => /\ [t.trail EXCEPT ![Slot(c)] = o]["template"] = o
                            /\ [t.trail EXCEPT ![Slot(c)] = o]["source"] = s.trail["source"]
  BY <1>j, <1>6, <1>7, <1>g
<1>k. {"skipped", "off", "cannot", "down", "miss", "cut", "failed"} \subseteq Outcome
  BY DEF Outcome
<1>l. succeed => LadBreaker' /\ charged' = {}
  BY Lad_Succeed
<1>m. BreakerSame => LadBreaker' /\ charged' = charged
  BY Lad_BreakerSame
<1>n. countAXFailure(w) => LadBreaker' /\ \A x \in Worker : x # w /\ x \in charged' => x \in charged
  BY <1>1, Lad_Charge
<1>10. CASE answer = "hit" /\ RungHits(w, t, c)
  BY <1>10, <1>i, <1>l, <1>m DEF RungHits
<1>11. CASE answer \in {"config", "ambiguous"} /\ Becomes(w, Done(t, "stopped")) /\ BreakerSame
  BY <1>11, <1>i, <1>m
<1>12. CASE answer = "off" /\ RungOff(w, t, c)
  <2>1. PICK tr : tr = [t.trail EXCEPT ![Slot(c)] = "off"]
    OBVIOUS
  <2>2. tr \in [{"source", "template"} -> Outcome] /\ s.at = 2 /\ tr["source"] = "off"
    BY <2>1, <1>5, <1>12, <1>j, <1>k
  <2>3. PICK r : r = [t EXCEPT !.offScreen = yes, !.alive = yes, !.seen = yes, !.axDown = no, !.trail = tr]
    OBVIOUS
  <2>4. Becomes(w, r) /\ (succeed \/ BreakerSame)
    BY <2>1, <2>3, <1>12, <1>c, <1>d, <1>f DEF RungOff, LadStepRec
  <2>5. r \in LadStepRec
    <3>1. PICK v : v = [t EXCEPT !.axDown = no, !.trail = tr]
      OBVIOUS
    <3>2. v \in LadStepRec
      BY <3>1, <2>2, <1>f DEF LadStepRec
    <3>3. r = [v EXCEPT !.offScreen = yes, !.alive = yes, !.seen = yes]
      BY <3>1, <2>3, <1>f DEF LadStepRec
    <3> QED
      BY <3>2, <3>3 DEF LadStepRec
  <2>6. /\ ~ r.trying /\ r.at = s.at + 1 /\ r.left = lf /\ r.kind = s.kind /\ r.attempted = s.attempted
        /\ r.trail = tr /\ r.verdict = "running" /\ r.axCounted = s.axCounted
    BY <2>3, <1>f, <1>g DEF LadStepRec
  <2>7. LadStep(w, r)
    BY <2>2, <2>5, <2>6, <1>1, <1>4, <1>7, Lad_Attempted
  <2> QED
    BY <2>4, <2>5, <2>6, <2>7, <1>l, <1>m, <1>4, Lad_One
<1>13. CASE answer = "miss" /\ RungMisses(w, t, c)
  <2>1. PICK observed \in BOOLEAN :
          Becomes(w, Said([t EXCEPT !.offScreen = MissOff(t), !.alive = @ \/ MissAlive(c),
                                   !.axDown = @ /\ ~ Guarded(t.kind, c),
                                   !.seen = @ \/ (c # "map" /\ (observed \/ c = "template"))], c, "miss"))
    BY <1>13, Zenon DEF RungMisses
  <2>2. PICK al \in BOOLEAN : al = (t.alive \/ MissAlive(c)) /\ (s.at = 1 => ~ al)
    <3>1. (t.alive \/ MissAlive(c)) \in BOOLEAN /\ (s.at = 1 => ~ (t.alive \/ MissAlive(c)))
      BY <1>6, <1>g, <1>h1 DEF MissAlive
    <3> QED
      BY <3>1, Zenon
  <2>3. PICK dn \in BOOLEAN : dn = (t.axDown /\ ~ Guarded(t.kind, c))
    BY Zenon
  <2>4. PICK sn \in BOOLEAN : sn = (t.seen \/ (c # "map" /\ (observed \/ c = "template")))
    BY Zenon
  <2>5. PICK u : u = [t EXCEPT !.offScreen = no, !.alive = al, !.axDown = dn, !.seen = sn]
    OBVIOUS
  <2>6. Becomes(w, Said(u, c, "miss"))
    <3>1. MissOff(t) = no
      BY <1>c DEF MissOff
    <3> HIDE DEF MissOff, MissAlive, Guarded
    <3>2. u = [t EXCEPT !.offScreen = MissOff(t), !.alive = @ \/ MissAlive(c),
                        !.axDown = @ /\ ~ Guarded(t.kind, c),
                        !.seen = @ \/ (c # "map" /\ (observed \/ c = "template"))]
      BY <3>1, <2>2, <2>3, <2>4, <2>5, <1>f DEF LadStepRec
    <3> QED
      BY <3>2, <2>1
  <2>7. u \in LadStepRec
    <3>1. PICK v : v = [t EXCEPT !.offScreen = no, !.alive = al]
      OBVIOUS
    <3>2. v \in LadStepRec
      BY <3>1, <1>f DEF LadStepRec
    <3>3. u = [v EXCEPT !.axDown = dn, !.seen = sn]
      BY <3>1, <2>5, <1>f DEF LadStepRec
    <3> QED
      BY <3>2, <3>3 DEF LadStepRec
  <2>8. /\ ~ u.trying /\ u.at = s.at + 1 /\ u.left = lf /\ u.kind = s.kind /\ u.attempted = s.attempted
        /\ u.trail = s.trail /\ u.verdict = "running" /\ u.axCounted = s.axCounted /\ ~ u.offScreen
        /\ u.alive = al /\ u.hard = s.hard
    BY <2>5, <1>c, <1>f, <1>g DEF LadStepRec
  <2>9. PICK r : r = Said(u, c, "miss")
    OBVIOUS
  <2>10. CASE s.at = 1
    <3>1. r = u
      BY <2>9, <2>10, <1>6 DEF Said
    <3>2. LadStep(w, u)
      BY <2>2, <2>7, <2>8, <2>10, <1>1, <1>4, <1>7, <1>b, Lad_Attempted
    <3> QED
      BY <3>1, <3>2, <2>6, <2>7, <2>8, <2>9, <1>13, <1>l, <1>m, <1>4, Lad_One DEF RungMisses
  <2>11. CASE s.at >= 2
    <3>1. PICK tr : tr = [t.trail EXCEPT ![Slot(c)] = "miss"]
      OBVIOUS
    <3>2. /\ tr \in [{"source", "template"} -> Outcome] /\ (s.at = 2 => tr["source"] = "miss")
          /\ (s.at = 3 => tr["template"] = "miss" /\ tr["source"] = s.trail["source"])
      BY <3>1, <2>11, <1>j, <1>k
    <3>3. r = [u EXCEPT !.trail = tr]
      BY <3>1, <2>7, <2>8, <2>9, <2>11, <1>6, <1>7, <1>g DEF Said, LadStepRec
    <3>4. r \in LadStepRec
      BY <3>2, <3>3, <2>7 DEF LadStepRec
    <3>5. /\ ~ r.trying /\ r.at = s.at + 1 /\ r.left = lf /\ r.kind = s.kind /\ r.attempted = s.attempted
          /\ r.trail = tr /\ r.verdict = "running" /\ r.axCounted = s.axCounted /\ ~ r.offScreen
      BY <3>3, <2>7, <2>8 DEF LadStepRec
    <3>6. LadStep(w, r)
      BY <3>2, <3>4, <3>5, <2>11, <1>1, <1>4, <1>7, Lad_Attempted
    <3> QED
      BY <3>4, <3>5, <3>6, <2>6, <2>9, <1>13, <1>l, <1>m, <1>4, Lad_One DEF RungMisses
  <2> QED
    BY <2>10, <2>11, <1>7
<1>14. CASE answer = "cannot" /\ RungCannot(w, t, c)
  <2>1. PICK tr : tr = [t.trail EXCEPT ![Slot(c)] = "cannot"]
    OBVIOUS
  <2>2. s.at = 3 /\ tr \in [{"source", "template"} -> Outcome] /\ tr["source"] = s.trail["source"]
    BY <2>1, <1>5, <1>14, <1>j, <1>k
  <2>a. PICK fewer \in 0..2 : fewer = s.attempted - 1
    BY <2>2, <1>7
  <2>3. PICK r : r = [t EXCEPT !.attempted = fewer, !.trail = tr]
    OBVIOUS
  <2>4. Becomes(w, r) /\ BreakerSame
    BY <2>1, <2>3, <2>a, <1>14, <1>f, <1>g DEF RungCannot, LadStepRec
  <2>5. r \in LadStepRec
    BY <2>2, <2>3, <1>f DEF LadStepRec
  <2>6. /\ ~ r.trying /\ r.at = s.at + 1 /\ r.left = lf /\ r.kind = s.kind /\ r.attempted = fewer
        /\ r.trail = tr /\ r.verdict = "running" /\ r.axCounted = s.axCounted
        /\ r.alive = s.alive /\ r.hard = s.hard /\ r.offScreen = s.offScreen
    BY <2>3, <1>f, <1>g DEF LadStepRec
  <2>7. LadStep(w, r)
    BY <2>2, <2>a, <2>5, <2>6, <1>1, <1>4, <1>7, Lad_Attempted
  <2> QED
    BY <2>4, <2>5, <2>6, <2>7, <1>m, <1>4, Lad_One
<1>15. CASE answer = "down" /\ RungDown(w, t, c)
  <2>1. PICK tr : tr = [t.trail EXCEPT ![Slot(c)] = "down"]
    OBVIOUS
  <2>2. tr \in [{"source", "template"} -> Outcome] /\ s.at = 2 /\ tr["source"] = "down"
    BY <2>1, <1>5, <1>15, <1>j, <1>k
  <2>a. PICK dn \in BOOLEAN : dn = Guarded(t.kind, c)
    BY Zenon DEF Guarded
  <2>3. PICK r : r = [t EXCEPT !.axDown = dn, !.offScreen = no, !.alive = yes, !.trail = tr]
    OBVIOUS
  <2>4. Becomes(w, r) /\ BreakerSame
    BY <2>1, <2>3, <2>a, <1>15, <1>c, <1>d, <1>f DEF RungDown, LadStepRec
  <2>5. r \in LadStepRec
    <3>1. PICK v : v = [t EXCEPT !.axDown = dn, !.trail = tr]
      OBVIOUS
    <3>2. v \in LadStepRec
      BY <3>1, <2>2, <1>f DEF LadStepRec
    <3>3. r = [v EXCEPT !.offScreen = no, !.alive = yes]
      BY <3>1, <2>3, <1>f DEF LadStepRec
    <3> QED
      BY <3>2, <3>3 DEF LadStepRec
  <2>6. /\ ~ r.trying /\ r.at = s.at + 1 /\ r.left = lf /\ r.kind = s.kind /\ r.attempted = s.attempted
        /\ r.trail = tr /\ r.verdict = "running" /\ r.axCounted = s.axCounted /\ ~ r.offScreen
    BY <2>3, <1>c, <1>f, <1>g DEF LadStepRec
  <2>7. LadStep(w, r)
    BY <2>2, <2>5, <2>6, <1>1, <1>4, <1>7, Lad_Attempted
  <2> QED
    BY <2>4, <2>5, <2>6, <2>7, <1>m, <1>4, Lad_One
<1>16. CASE answer = "cut" /\ RungCut(w, t, c)
  <2>0. PICK counts \in BOOLEAN : counts = (Guarded(t.kind, c) /\ t.left > 0)
    BY Zenon
  <2>1. PICK tr : tr = [t.trail EXCEPT ![Slot(c)] = "cut"]
    OBVIOUS
  <2>2. /\ s.at >= 2 /\ tr \in [{"source", "template"} -> Outcome] /\ (s.at = 2 => tr["source"] = "cut")
        /\ (s.at = 3 => tr["template"] = "cut" /\ tr["source"] = s.trail["source"])
    BY <2>1, <1>5, <1>16, <1>j, <1>k
  <2>a. PICK ct \in BOOLEAN : ct = (t.axCounted \/ counts)
    BY Zenon
  <2>3. PICK r : r = [t EXCEPT !.offScreen = no, !.alive = yes, !.axCounted = ct, !.trail = tr]
    OBVIOUS
  <2>4. Becomes(w, r) /\ IF counts THEN countAXFailure(w) ELSE BreakerSame
    <3>1. /\ Becomes(w, [t EXCEPT !.offScreen = FALSE, !.alive = TRUE,
                                  !.axCounted = @ \/ counts, !.trail[Slot(c)] = "cut"])
          /\ IF counts THEN countAXFailure(w) ELSE BreakerSame
      BY <2>0, <1>16, Zenon DEF RungCut
    <3>2. r = [t EXCEPT !.offScreen = FALSE, !.alive = TRUE,
                        !.axCounted = @ \/ counts, !.trail[Slot(c)] = "cut"]
      BY <2>1, <2>3, <2>a, <1>c, <1>d, <1>f DEF LadStepRec
    <3> QED
      BY <3>1, <3>2
  <2>5. r \in LadStepRec
    <3>1. PICK v : v = [t EXCEPT !.axCounted = ct, !.trail = tr]
      OBVIOUS
    <3>2. v \in LadStepRec
      BY <3>1, <2>2, <1>f DEF LadStepRec
    <3>3. r = [v EXCEPT !.offScreen = no, !.alive = yes]
      BY <3>1, <2>3, <1>f DEF LadStepRec
    <3> QED
      BY <3>2, <3>3 DEF LadStepRec
  <2>6. /\ ~ r.trying /\ r.at = s.at + 1 /\ r.left = lf /\ r.kind = s.kind /\ r.attempted = s.attempted
        /\ r.trail = tr /\ r.verdict = "running" /\ r.axCounted = ct /\ ~ r.offScreen
    BY <2>3, <1>c, <1>f, <1>g DEF LadStepRec
  <2>7. LadStep(w, r)
    BY <2>2, <2>5, <2>6, <1>1, <1>4, <1>7, Lad_Attempted
  <2>8. /\ LadBreaker' /\ \A x \in Worker : x # w /\ x \in charged' => x \in charged
        /\ (w \in charged' => ct)
    BY <2>4, <2>a, <1>m, <1>n, <1>4, <1>g
  <2> QED
    BY <2>4, <2>5, <2>6, <2>7, <2>8, Lad_One
<1>17. CASE answer = "failed" /\ RungFails(w, t, c)
  <2>0. PICK counts \in BOOLEAN : counts = Guarded(t.kind, c)
    BY Zenon DEF Guarded
  <2>1. PICK tr : tr = [t.trail EXCEPT ![Slot(c)] = "failed"]
    OBVIOUS
  <2>2. /\ s.at >= 2 /\ tr \in [{"source", "template"} -> Outcome] /\ (s.at = 2 => tr["source"] = "failed")
        /\ (s.at = 3 => tr["source"] = s.trail["source"])
    BY <2>1, <1>5, <1>17, <1>j, <1>k
  <2>a. PICK ct \in BOOLEAN : ct = (t.axCounted \/ counts)
    BY Zenon
  <2>3. PICK r : r = [t EXCEPT !.offScreen = no, !.hard = yes, !.lastFail = yes, !.axCounted = ct, !.trail = tr]
    OBVIOUS
  <2>4. Becomes(w, r) /\ IF counts THEN countAXFailure(w) ELSE BreakerSame
    <3>1. /\ Becomes(w, [t EXCEPT !.offScreen = FALSE, !.hard = TRUE, !.lastFail = TRUE,
                                  !.axCounted = @ \/ counts, !.trail[Slot(c)] = "failed"])
          /\ IF counts THEN countAXFailure(w) ELSE BreakerSame
      BY <2>0, <1>17, Zenon DEF RungFails
    <3>2. r = [t EXCEPT !.offScreen = FALSE, !.hard = TRUE, !.lastFail = TRUE,
                        !.axCounted = @ \/ counts, !.trail[Slot(c)] = "failed"]
      BY <2>1, <2>3, <2>a, <1>c, <1>d, <1>f DEF LadStepRec
    <3> QED
      BY <3>1, <3>2
  <2>5. r \in LadStepRec
    <3>1. PICK v : v = [t EXCEPT !.axCounted = ct, !.trail = tr]
      OBVIOUS
    <3>2. v \in LadStepRec
      BY <3>1, <2>2, <1>f DEF LadStepRec
    <3>3. r = [v EXCEPT !.offScreen = no, !.hard = yes, !.lastFail = yes]
      BY <3>1, <2>3, <1>f DEF LadStepRec
    <3> QED
      BY <3>2, <3>3 DEF LadStepRec
  <2>6. /\ ~ r.trying /\ r.at = s.at + 1 /\ r.left = lf /\ r.kind = s.kind /\ r.attempted = s.attempted
        /\ r.trail = tr /\ r.verdict = "running" /\ r.axCounted = ct /\ ~ r.offScreen
        /\ r.hard /\ r.alive = s.alive
    BY <2>3, <1>c, <1>d, <1>f, <1>g DEF LadStepRec
  <2>7. LadStep(w, r)
    BY <2>2, <2>5, <2>6, <1>1, <1>4, <1>7, <1>h2, Lad_Attempted
  <2>8. /\ LadBreaker' /\ \A x \in Worker : x # w /\ x \in charged' => x \in charged
        /\ (w \in charged' => ct)
    BY <2>4, <2>a, <1>m, <1>n, <1>4, <1>g
  <2> QED
    BY <2>4, <2>5, <2>6, <2>7, <2>8, Lad_One
<1> QED
  BY <1>9, <1>10, <1>11, <1>12, <1>13, <1>14, <1>15, <1>16, <1>17

LEMMA Lad_Same == ASSUME LadInv, UNCHANGED ladVars PROVE LadInv'
BY DEF LadInv, LadBreaker, ladVars

LEMMA LadMoves == ASSUME LadInv, [LadderNext]_ladVars PROVE LadInv'
<1>1. CASE UNCHANGED ladVars
  BY <1>1, Lad_Same
<1>2. CASE LadderNext
  BY <1>2, Lad_StepStarts, Lad_RungStarts, Lad_RungEnds, Lad_CycleEnds, Lad_CallerGone DEF LadderNext
<1> QED
  BY <1>1, <1>2

LEMMA Lad_Type == ASSUME LadInv PROVE LadderTypeOK
BY DEF LadInv, LadBreaker, LadStep, LadCounts, LadStepRec, LadderTypeOK

LEMMA Lad_Safe == ASSUME LadInv PROVE LadderSafe
<1>1. \A w \in Worker : LadReports(ladder[w])
  BY DEF LadInv, LadStep
<1> QED
  BY <1>1 DEF LadInv, LadBreaker, LadReports, LadderSafe, LadderBreakerSteps, LadderFailsFast,
              LadderSourceAsked, LadderOffIsLast

-----------------------------------------------------------------------------
(* The element map.                                                        *)

ActRec ==
  [pc: {"idle", "has", "capture", "get", "observe", "found", "learn", "put", "tap", "invalidate"},
   bundle: AppId, via: {"none", "map", "source"}, frame: Frames \cup {NoFrame}, print: ScreenId,
   class: CapClass \cup {CHOOSE c \in CapClass : TRUE}, todo: Nat]

(* Where an action is, and what it holds there. *)
ActHolds(x) ==
  /\ x \in ActRec
  /\ x.pc \in {"idle", "has", "capture", "get", "observe"} => x.via = "none" /\ x.todo = 0
  /\ x.pc = "found" => x.via \in {"map", "source"} /\ x.todo = 0
  /\ x.pc \in {"learn", "put"} => x.via = "source" /\ x.todo >= 1
  /\ x.pc \in {"tap", "invalidate"} => x.todo >= 1
  /\ x.via = "source" /\ x.pc \in {"found", "learn", "put"} => x.frame \in Frames
  /\ x.pc = "put" => x.class \in CapClass

(* On a steady screen a frame is true of the screen it was found on. *)
ActTrue(x) ==
  /\ x.pc # "idle" => x.bundle = launched
  /\ x.via = "map" => x.frame = ScreenFrame[x.print]
  /\ x.via = "source" /\ x.pc \in {"found", "learn"} => x.frame = ScreenFrame[shown]
  /\ x.pc = "put" => x.frame = ScreenFrame[x.print]

(* One entry a bundle and class, by Put.                                   *)
EmapStore ==
  /\ launched \in AppId /\ shown \in ScreenId /\ distrusted \subseteq AppId
  /\ emap \subseteq [bundle : AppId, class : CapClass, frame : Frames, print : ScreenId]
  /\ \A e, f \in emap : e.bundle = f.bundle /\ e.class = f.class => e = f
EmapTrue ==
  /\ \A e \in emap : e.frame = ScreenFrame[e.print]
  /\ \A b \in distrusted : ~ \E e \in emap : e.bundle = b

EmapInv ==
  /\ EmapStore
  /\ eact \in [EAct -> ActRec] /\ \A a \in EAct : ActHolds(eact[a])
  /\ Steady => EmapTrue /\ \A a \in EAct : ActTrue(eact[a])

(* An action that is over. *)
LEMMA Emap_Idle ==
  ASSUME launched \in AppId, shown \in ScreenId
  PROVE  /\ ActHolds(IdleAct) /\ ActTrue(IdleAct) /\ IdleAct \in ActRec
         /\ IdleAct.pc = "idle" /\ IdleAct.via = "none" /\ IdleAct.todo = 0
<1>1. (CHOOSE b \in AppId : TRUE) \in AppId /\ (CHOOSE s \in ScreenId : TRUE) \in ScreenId
  OBVIOUS
<1>2. PICK b, s, c : b = (CHOOSE x \in AppId : TRUE) /\ s = (CHOOSE x \in ScreenId : TRUE)
                     /\ c = (CHOOSE x \in CapClass : TRUE)
  OBVIOUS
<1>3. PICK i : i = IdleAct
  OBVIOUS
<1>4. i = [pc |-> "idle", bundle |-> b, via |-> "none", frame |-> NoFrame, print |-> s, class |-> c, todo |-> 0]
  BY <1>2, <1>3, Zenon DEF IdleAct
<1>5. c \in CapClass \cup {CHOOSE x \in CapClass : TRUE} /\ b \in AppId /\ s \in ScreenId
  BY <1>1, <1>2
<1>6. i \in ActRec
  BY <1>4, <1>5 DEF ActRec
<1>7. ActHolds(i) /\ ActTrue(i)
  BY <1>4, <1>6 DEF ActHolds, ActTrue
<1> QED
  BY <1>3, <1>4, <1>6, <1>7

LEMMA EmapStarts == ASSUME EmapInit PROVE EmapInv
<1>1. EmapStore /\ EmapTrue
  BY DEF EmapInit, EmapStore, EmapTrue
<1>2. PICK i : i = IdleAct
  OBVIOUS
<1>3. i \in ActRec /\ ActHolds(i) /\ ActTrue(i)
  BY <1>2, Emap_Idle DEF EmapInit
<1>4. eact = [a \in EAct |-> i]
  BY <1>2 DEF EmapInit
<1>5. eact \in [EAct -> ActRec] /\ \A a \in EAct : eact[a] = i
  BY <1>3, <1>4
<1> QED
  BY <1>1, <1>3, <1>5 DEF EmapInv

(* One action goes on while the target stays. *)
LEMMA Emap_One ==
  ASSUME EmapInv, NEW a \in EAct, NEW r, ActHolds(r), Steady => ActTrue(r), Act(a, r), TargetSame,
         EmapStore', Steady => EmapTrue'
  PROVE  EmapInv'
<1>1. r \in ActRec /\ eact \in [EAct -> ActRec]
  BY DEF ActHolds, EmapInv
<1>2. /\ eact' \in [EAct -> ActRec] /\ eact'[a] = r /\ \A b \in EAct : b # a => eact'[b] = eact[b]
  BY <1>1 DEF Act
<1>3. UNCHANGED <<launched, shown>>
  BY DEF TargetSame
<1>4. \A b \in EAct : ActHolds(eact'[b])
  BY <1>2 DEF EmapInv
<1>5. Steady => \A b \in EAct : ActTrue(eact'[b])
  BY <1>2 DEF EmapInv
<1>6. Steady => (\A b \in EAct : ActTrue(eact[b]))'
  BY <1>3, <1>5 DEF ActTrue
<1>7. (\A b \in EAct : ActHolds(eact[b]))'
  BY <1>4 DEF ActHolds
<1> QED
  BY <1>2, <1>6, <1>7 DEF EmapInv

LEMMA Emap_StoreSame ==
  ASSUME EmapInv, TargetSame, StoreSame PROVE EmapStore' /\ (Steady => EmapTrue')
BY DEF EmapInv, EmapStore, EmapTrue, TargetSame, StoreSame

LEMMA Emap_Idles ==
  ASSUME EmapInv, NEW a \in EAct, Act(a, IdleAct), TargetSame, EmapStore', Steady => EmapTrue' PROVE EmapInv'
<1>1. ActHolds(IdleAct) /\ ActTrue(IdleAct)
  BY Emap_Idle DEF EmapInv, EmapStore
<1>2. PICK r : r = IdleAct
  OBVIOUS
<1> QED
  BY <1>1, <1>2, Emap_One

LEMMA Emap_Begins == ASSUME EmapInv, NEW a \in EAct, ActionBegins(a) PROVE EmapInv'
<1>0. EmapStore' /\ (Steady => EmapTrue') /\ TargetSame /\ launched \in AppId /\ shown \in ScreenId
  BY Emap_StoreSame DEF ActionBegins, EmapInv, EmapStore
<1>1. PICK refresh \in BOOLEAN :
        Act(a, [IdleAct EXCEPT !.pc = IF refresh THEN "observe" ELSE "has", !.bundle = launched])
  BY Zenon DEF ActionBegins
<1>2. PICK p \in {"has", "observe"} : p = IF refresh THEN "observe" ELSE "has"
  OBVIOUS
<1>3. PICK i : i = IdleAct
  OBVIOUS
<1>4. i \in ActRec /\ i.via = "none" /\ i.todo = 0
  BY <1>0, <1>3, Emap_Idle
<1>b. PICK b \in AppId : b = launched
  BY <1>0
<1>5. PICK r : r = [i EXCEPT !.pc = p, !.bundle = b]
  OBVIOUS
<1>6. Act(a, r)
  BY <1>1, <1>2, <1>3, <1>5, <1>b, Zenon
<1>7. r \in ActRec /\ r.pc = p /\ r.bundle = launched /\ r.via = "none" /\ r.todo = 0
  BY <1>4, <1>5, <1>b DEF ActRec
<1>8. ActHolds(r) /\ ActTrue(r)
  BY <1>7 DEF ActHolds, ActTrue
<1> QED
  BY <1>0, <1>6, <1>8, Emap_One

(* A step that only moves an action that has resolved nothing. *)
LEMMA Emap_Moves ==
  ASSUME EmapInv, NEW a \in EAct, eact[a].pc \in {"has", "capture", "get"},
         NEW p \in {"has", "capture", "get", "observe"}, Act(a, [eact[a] EXCEPT !.pc = p]), TargetSame, StoreSame
  PROVE  EmapInv'
<1>1. PICK x : x = eact[a]
  OBVIOUS
<1>2. x \in ActRec /\ ActHolds(x) /\ (Steady => ActTrue(x)) /\ x.pc \in {"has", "capture", "get"}
  BY <1>1 DEF EmapInv
<1>3. PICK r : r = [x EXCEPT !.pc = p]
  OBVIOUS
<1>4. r \in ActRec /\ r.pc = p /\ r.bundle = x.bundle /\ r.via = x.via /\ r.todo = x.todo
  BY <1>2, <1>3 DEF ActRec
<1>5. x.via = "none" /\ x.todo = 0 /\ (Steady => x.bundle = launched)
  BY <1>2 DEF ActHolds, ActTrue
<1>6. ActHolds(r) /\ (Steady => ActTrue(r))
  BY <1>4, <1>5 DEF ActHolds, ActTrue
<1> QED
  BY <1>1, <1>3, <1>6, Emap_One, Emap_StoreSame

LEMMA Emap_Looks == ASSUME EmapInv, NEW a \in EAct, MapLooks(a) PROVE EmapInv'
<1>1. PICK p \in {"capture", "observe"} : p = IF Has(eact[a].bundle) THEN "capture" ELSE "observe"
  OBVIOUS
<1>2. Act(a, [eact[a] EXCEPT !.pc = p]) /\ TargetSame /\ StoreSame /\ eact[a].pc = "has"
  BY <1>1, Zenon DEF MapLooks
<1> QED
  BY <1>2, Emap_Moves

LEMMA Emap_Captures == ASSUME EmapInv, NEW a \in EAct, MapCaptures(a) PROVE EmapInv'
<1>0. TargetSame /\ StoreSame /\ eact[a].pc = "capture"
  BY DEF MapCaptures
<1>1. CASE Act(a, [eact[a] EXCEPT !.pc = "observe"])
  BY <1>0, <1>1, Emap_Moves
<1>2. ASSUME NEW c \in CapClass, Act(a, [eact[a] EXCEPT !.pc = "get", !.print = shown, !.class = c])
      PROVE  EmapInv'
  <2>1. PICK x : x = eact[a]
    OBVIOUS
  <2>2. x \in ActRec /\ ActHolds(x) /\ (Steady => ActTrue(x)) /\ x.pc = "capture"
    BY <1>0, <2>1 DEF EmapInv
  <2>3. PICK s \in ScreenId : s = shown
    BY DEF EmapInv, EmapStore
  <2>4. PICK r : r = [x EXCEPT !.pc = "get", !.print = s, !.class = c]
    OBVIOUS
  <2>5. r \in ActRec /\ r.pc = "get" /\ r.bundle = x.bundle /\ r.via = x.via /\ r.todo = x.todo
    BY <2>2, <2>4 DEF ActRec
  <2>6. x.via = "none" /\ x.todo = 0 /\ (Steady => x.bundle = launched)
    BY <2>2 DEF ActHolds, ActTrue
  <2>7. ActHolds(r) /\ (Steady => ActTrue(r))
    BY <2>5, <2>6 DEF ActHolds, ActTrue
  <2> QED
    BY <1>0, <1>2, <2>1, <2>3, <2>4, <2>7, Emap_One, Emap_StoreSame
<1> QED
  BY <1>1, <1>2 DEF MapCaptures

LEMMA Emap_Gets == ASSUME EmapInv, NEW a \in EAct, MapGets(a) PROVE EmapInv'
<1>0. TargetSame /\ StoreSame /\ eact[a].pc = "get"
  BY DEF MapGets
<1>1. CASE Act(a, [eact[a] EXCEPT !.pc = "observe"])
  BY <1>0, <1>1, Emap_Moves
<1>2. ASSUME NEW e \in emap, Matching(e, eact[a]),
             Act(a, [eact[a] EXCEPT !.pc = "found", !.via = "map", !.frame = e.frame])
      PROVE  EmapInv'
  <2>1. PICK x : x = eact[a]
    OBVIOUS
  <2>2. x \in ActRec /\ ActHolds(x) /\ (Steady => ActTrue(x)) /\ x.pc = "get"
    BY <1>0, <2>1 DEF EmapInv
  <2>3. e.frame \in Frames /\ (Steady => e.frame = ScreenFrame[e.print]) /\ e.print = x.print
    BY <1>2, <2>1 DEF EmapInv, EmapStore, EmapTrue, Matching
  <2>4. PICK f \in Frames \cup {NoFrame} : f = e.frame
    BY <2>3
  <2>5. PICK r : r = [x EXCEPT !.pc = "found", !.via = "map", !.frame = f]
    OBVIOUS
  <2>6. r \in ActRec /\ r.pc = "found" /\ r.bundle = x.bundle /\ r.via = "map" /\ r.todo = x.todo /\ r.frame = f
        /\ r.print = x.print
    BY <2>2, <2>5 DEF ActRec
  <2>7. x.todo = 0 /\ (Steady => x.bundle = launched)
    BY <2>2 DEF ActHolds, ActTrue
  <2>8. ActHolds(r) /\ (Steady => ActTrue(r))
    BY <2>3, <2>4, <2>6, <2>7 DEF ActHolds, ActTrue
  <2> QED
    BY <1>0, <1>2, <2>1, <2>4, <2>5, <2>8, Emap_One, Emap_StoreSame
<1> QED
  BY <1>1, <1>2 DEF MapGets

LEMMA Emap_Observes == ASSUME EmapInv, NEW a \in EAct, Observes(a) PROVE EmapInv'
<1>0. TargetSame /\ StoreSame /\ eact[a].pc = "observe"
  BY DEF Observes
<1>1. CASE Act(a, IdleAct)
  BY <1>0, <1>1, Emap_Idles, Emap_StoreSame
<1>2. CASE /\ ScreenFrame[shown] # NoFrame
           /\ Act(a, [eact[a] EXCEPT !.pc = "found", !.via = "source", !.frame = ScreenFrame[shown]])
  <2>1. PICK x : x = eact[a]
    OBVIOUS
  <2>2. x \in ActRec /\ ActHolds(x) /\ (Steady => ActTrue(x)) /\ x.pc = "observe"
    BY <1>0, <2>1 DEF EmapInv
  <2>3. PICK f \in Frames : f = ScreenFrame[shown]
    BY <1>2 DEF EmapInv, EmapStore, Frames
  <2>5. PICK r : r = [x EXCEPT !.pc = "found", !.via = "source", !.frame = f]
    OBVIOUS
  <2>6. r \in ActRec /\ r.pc = "found" /\ r.bundle = x.bundle /\ r.via = "source" /\ r.todo = x.todo /\ r.frame = f
    BY <2>2, <2>5 DEF ActRec
  <2>7. x.todo = 0 /\ (Steady => x.bundle = launched)
    BY <2>2 DEF ActHolds, ActTrue
  <2>8. ActHolds(r) /\ (Steady => ActTrue(r))
    BY <2>3, <2>6, <2>7 DEF ActHolds, ActTrue
  <2> QED
    BY <1>0, <1>2, <2>1, <2>3, <2>5, <2>8, Emap_One, Emap_StoreSame
<1> QED
  BY <1>1, <1>2 DEF Observes

(* After a resolution: learn, if it observed, then tap, then nothing. *)
LEMMA Emap_GoesOn ==
  ASSUME EmapInv, NEW a \in EAct, eact[a].pc \in {"found", "learn", "put", "tap"}, GoesOn(a, eact[a]),
         TargetSame, EmapStore', Steady => EmapTrue'
  PROVE  EmapInv'
<1>1. PICK x : x = eact[a]
  OBVIOUS
<1>2. x \in ActRec /\ ActHolds(x) /\ (Steady => ActTrue(x)) /\ x.pc \in {"found", "learn", "put", "tap"}
  BY <1>1 DEF EmapInv
<1>3. PICK n \in Nat : n = x.todo + 1
  BY <1>2 DEF ActRec
<1>4. CASE n \notin DOMAIN StagesOf(x.via)
  <2>1. Act(a, IdleAct)
    BY <1>1, <1>3, <1>4, Zenon DEF GoesOn
  <2> QED
    BY <2>1, Emap_Idles
<1>5. CASE n \in DOMAIN StagesOf(x.via)
  <2>1. Act(a, [x EXCEPT !.pc = StagesOf(x.via)[n], !.todo = n])
    BY <1>1, <1>3, <1>5, Zenon DEF GoesOn
  <2>2. PICK p : p = StagesOf(x.via)[n]
    OBVIOUS
  <2>3. p \in {"learn", "tap"} /\ (p = "learn" => n = 1 /\ x.via # "map") /\ n >= 1
    BY <1>2, <1>3, <1>5, <2>2 DEF StagesOf, ActRec
  <2>4. PICK r : r = [x EXCEPT !.pc = p, !.todo = n]
    OBVIOUS
  <2>5. r \in ActRec /\ r.pc = p /\ r.todo = n /\ r.bundle = x.bundle /\ r.via = x.via /\ r.frame = x.frame
        /\ r.print = x.print /\ r.class = x.class
    BY <1>2, <2>3, <2>4 DEF ActRec
  <2>6. p = "learn" => x.pc = "found" /\ x.via = "source"
    <3>1. x.todo \in Nat /\ (x.pc \in {"learn", "put", "tap"} => x.todo >= 1) /\ (x.pc = "found" => x.via \in {"map", "source"})
      BY <1>2 DEF ActHolds, ActRec
    <3> QED
      BY <3>1, <1>2, <1>3, <2>3
  <2>7. ActHolds(r)
    BY <1>2, <2>3, <2>5, <2>6 DEF ActHolds
  <2>8. Steady => ActTrue(r)
    BY <1>2, <2>3, <2>5, <2>6 DEF ActTrue
  <2> QED
    BY <2>1, <2>2, <2>4, <2>7, <2>8, Emap_One
<1> QED
  BY <1>4, <1>5

LEMMA Emap_Learns == ASSUME EmapInv, NEW a \in EAct, LearnCaptures(a) PROVE EmapInv'
<1>0. TargetSame /\ StoreSame /\ eact[a].pc = "learn"
  BY DEF LearnCaptures
<1>1. CASE GoesOn(a, eact[a])
  BY <1>0, <1>1, Emap_GoesOn, Emap_StoreSame
<1>2. ASSUME NEW c \in CapClass, Act(a, [eact[a] EXCEPT !.pc = "put", !.print = shown, !.class = c])
      PROVE  EmapInv'
  <2>1. PICK x : x = eact[a]
    OBVIOUS
  <2>2. x \in ActRec /\ ActHolds(x) /\ (Steady => ActTrue(x)) /\ x.pc = "learn"
    BY <1>0, <2>1 DEF EmapInv
  <2>3. PICK s \in ScreenId : s = shown
    BY DEF EmapInv, EmapStore
  <2>4. PICK r : r = [x EXCEPT !.pc = "put", !.print = s, !.class = c]
    OBVIOUS
  <2>5. r \in ActRec /\ r.pc = "put" /\ r.bundle = x.bundle /\ r.via = x.via /\ r.todo = x.todo /\ r.class = c
        /\ r.print = s /\ r.frame = x.frame
    BY <2>2, <2>4 DEF ActRec
  <2>6. x.via = "source" /\ x.todo >= 1 /\ x.frame \in Frames
        /\ (Steady => x.bundle = launched /\ x.frame = ScreenFrame[shown])
    BY <2>2 DEF ActHolds, ActTrue
  <2>7. ActHolds(r) /\ (Steady => ActTrue(r))
    BY <2>3, <2>5, <2>6 DEF ActHolds, ActTrue
  <2> QED
    BY <1>0, <1>2, <2>1, <2>3, <2>4, <2>7, Emap_One, Emap_StoreSame
<1> QED
  BY <1>1, <1>2 DEF LearnCaptures

LEMMA Emap_Puts == ASSUME EmapInv, NEW a \in EAct, LearnPuts(a) PROVE EmapInv'
<1>1. PICK x : x = eact[a]
  OBVIOUS
<1>2. x \in ActRec /\ ActHolds(x) /\ (Steady => ActTrue(x)) /\ x.pc = "put"
  BY <1>1 DEF EmapInv, LearnPuts
<1>3. x.frame \in Frames /\ x.class \in CapClass /\ x.print \in ScreenId /\ (Steady => x.frame = ScreenFrame[x.print])
  BY <1>2 DEF ActHolds, ActTrue, ActRec
<1>4. PICK e : e = [bundle |-> launched, class |-> x.class, frame |-> x.frame, print |-> x.print]
  OBVIOUS
<1>5. emap' = {f \in emap : f.bundle # launched \/ f.class # x.class} \cup {e}
  BY <1>1, <1>4 DEF LearnPuts, Put
<1>6. /\ e \in [bundle : AppId, class : CapClass, frame : Frames, print : ScreenId]
      /\ e.bundle = launched /\ e.class = x.class /\ e.frame = x.frame /\ e.print = x.print
  BY <1>3, <1>4 DEF EmapInv, EmapStore
<1>7. EmapStore' /\ (Steady => EmapTrue') /\ TargetSame
  <2>0. TargetSame /\ UNCHANGED <<launched, shown>> /\ distrusted' = distrusted \ {launched}
    BY DEF LearnPuts, TargetSame
  <2>1. EmapStore'
    BY <2>0, <1>5, <1>6 DEF EmapInv, EmapStore
  <2>2. Steady => EmapTrue'
    BY <2>0, <1>3, <1>5, <1>6 DEF EmapInv, EmapTrue
  <2> QED
    BY <2>0, <2>1, <2>2
<1> QED
  BY <1>1, <1>2, <1>7, Emap_GoesOn DEF LearnPuts

LEMMA Emap_Taps == ASSUME EmapInv, NEW a \in EAct, Taps(a) PROVE EmapInv'
<1>0. TargetSame /\ StoreSame /\ eact[a].pc = "tap"
  BY DEF Taps
<1>1. CASE GoesOn(a, eact[a])
  BY <1>0, <1>1, Emap_GoesOn, Emap_StoreSame
<1>2. CASE Act(a, [eact[a] EXCEPT !.pc = "invalidate"])
  <2>1. PICK x : x = eact[a]
    OBVIOUS
  <2>2. x \in ActRec /\ ActHolds(x) /\ (Steady => ActTrue(x)) /\ x.pc = "tap"
    BY <1>0, <2>1 DEF EmapInv
  <2>4. PICK r : r = [x EXCEPT !.pc = "invalidate"]
    OBVIOUS
  <2>5. r \in ActRec /\ r.pc = "invalidate" /\ r.bundle = x.bundle /\ r.via = x.via /\ r.todo = x.todo
        /\ r.print = x.print /\ r.frame = x.frame
    BY <2>2, <2>4 DEF ActRec
  <2>7. ActHolds(r) /\ (Steady => ActTrue(r))
    BY <2>2, <2>5 DEF ActHolds, ActTrue
  <2> QED
    BY <1>0, <1>2, <2>1, <2>4, <2>7, Emap_One, Emap_StoreSame
<1> QED
  BY <1>1, <1>2 DEF Taps

LEMMA Emap_Invalidates == ASSUME EmapInv, NEW a \in EAct, Invalidates(a) PROVE EmapInv'
<1>0. /\ TargetSame /\ UNCHANGED <<launched, shown>> /\ Act(a, IdleAct) /\ eact[a].pc = "invalidate"
      /\ emap' = Remove(launched, CapClass) /\ distrusted' = distrusted \cup {eact[a].bundle}
  BY DEF Invalidates, TargetSame, Dropped
<1>1. emap' = {e \in emap : e.bundle # launched}
  BY <1>0 DEF Remove, EmapInv, EmapStore
<1>2. eact[a].bundle \in AppId /\ (Steady => eact[a].bundle = launched)
  BY <1>0 DEF EmapInv, ActRec, ActTrue
<1>3. EmapStore'
  BY <1>0, <1>1, <1>2 DEF EmapInv, EmapStore
<1>4. Steady => EmapTrue'
  BY <1>0, <1>1, <1>2 DEF EmapInv, EmapTrue
<1> QED
  BY <1>0, <1>3, <1>4, Emap_Idles

LEMMA Emap_Deletes == ASSUME EmapInv, Deletes PROVE EmapInv'
<1>0. UNCHANGED <<launched, shown, eact, distrusted>> /\ emap' \subseteq emap
  BY DEF Deletes, TargetSame, Remove
<1>1. EmapStore' /\ (Steady => EmapTrue')
  BY <1>0 DEF EmapInv, EmapStore, EmapTrue
<1>2. (\A a \in EAct : ActHolds(eact[a]))' /\ (Steady => (\A a \in EAct : ActTrue(eact[a]))')
  BY <1>0 DEF EmapInv, ActHolds, ActTrue
<1> QED
  BY <1>0, <1>1, <1>2 DEF EmapInv

LEMMA Emap_World == ASSUME EmapInv, ScreenMoves \/ Launches PROVE EmapInv'
<1>0. UNCHANGED <<eact, emap, distrusted>> /\ launched' \in AppId /\ shown' \in ScreenId
  BY DEF ScreenMoves, Launches, StoreSame, EmapInv, EmapStore
<1>1. EmapStore' /\ (Steady => EmapTrue')
  BY <1>0 DEF EmapInv, EmapStore, EmapTrue
<1>2. (\A a \in EAct : ActHolds(eact[a]))'
  BY <1>0 DEF EmapInv, ActHolds
<1>3. ASSUME Steady, NEW a \in EAct PROVE ActTrue(eact[a])'
  <2>1. ActTrue(eact[a]) /\ ActHolds(eact[a])
    BY <1>3 DEF EmapInv
  <2>2. CASE ScreenMoves
    BY <1>0, <1>3, <2>1, <2>2 DEF ScreenMoves, Settled, ActTrue
  <2>3. CASE Launches
    BY <1>0, <1>3, <2>1, <2>3 DEF Launches, Quiet, ActTrue, ActHolds
  <2> QED
    BY <2>2, <2>3
<1> QED
  BY <1>0, <1>1, <1>2, <1>3 DEF EmapInv

LEMMA EmapMoves == ASSUME EmapInv, [EmapNext]_emapVars PROVE EmapInv'
<1>1. CASE UNCHANGED emapVars
  BY <1>1 DEF emapVars, EmapInv, EmapStore, EmapTrue, ActHolds, ActTrue
<1>2. CASE EmapNext
  BY <1>2, Emap_Begins, Emap_Looks, Emap_Captures, Emap_Gets, Emap_Observes, Emap_Learns, Emap_Puts, Emap_Taps,
     Emap_Invalidates, Emap_Deletes, Emap_World, Emap_GoesOn, Emap_StoreSame DEF EmapNext, EmapStep, FoundAt
<1> QED
  BY <1>1, <1>2

LEMMA Emap_Type == ASSUME EmapInv PROVE EmapTypeOK
BY DEF EmapInv, EmapStore, ActRec, EmapTypeOK

LEMMA Emap_Safe == ASSUME EmapInv, Steady PROVE EmapSafe
BY DEF EmapInv, EmapTrue, ActTrue, EmapSafe, EmapServesTrue, EmapDistrusted

-----------------------------------------------------------------------------
(* The WebDriverAgent client.                                              *)

WdaRec ==
  [at: {"idle", "lock", "await", "polling", "send", "store", "invalid"},
   scoped: BOOLEAN, goal: {"post", "do"}, attempt: 0..1, sid: 0..MaxRunner,
   by: 0..MaxArms, overlapped: BOOLEAN,
   result: {"none", "ok", "invalid", "restarted", "given up"}]

(* Where an action is: one that creates a session holds the lock until it  *)
(* stored it, and only a first attempt is retried.                         *)
WdaAt(c, x) ==
  /\ x \in WdaRec
  /\ x.at = "store" => x.goal = "post"
  /\ x.goal = "post" => createMu = c /\ x.at \in {"await", "polling", "send", "store"}
  /\ x.at = "lock" => x.scoped
  /\ x.at = "idle" => x.attempt = 0
  /\ x.at = "invalid" => x.attempt = 0 /\ x.scoped
  /\ x.attempt = 1 => x.scoped
  /\ x.result = "invalid" => x.overlapped

(* No runner came up since the action began.  Once it has passed the lock, *)
(* a creation in flight is one of this runner's; in its second attempt the *)
(* stored session is, and so is the one it uses.                           *)
Past(x) == x.attempt = 1 \/ (x.scoped /\ x.at \notin {"idle", "lock"})
WdaFresh(x) ==
  ~ x.overlapped =>
    /\ Past(x) => \A d \in WdaCaller : wdaCall[d].at = "store" => wdaCall[d].sid = runner
    /\ x.attempt = 1 => /\ session \in {0, runner}
                        /\ x.goal = "do" /\ x.at \in {"await", "polling", "send"} => x.sid = runner

WdaReady ==
  /\ runner \in 0..MaxRunner /\ session \in 0..MaxRunner
  /\ {alive, needsReady, readyExhausted, kick} \subseteq BOOLEAN
  /\ armed \in 0..MaxArms /\ readyBy \in 0..armed /\ lapsed \in 0..armed
  /\ createMu \in WdaCaller \cup {NoCaller}
  /\ supervisor \in {"probing", "launching", "awaiting", "sleeping"}
  /\ ~ (readyExhausted /\ needsReady)

WdaInv ==
  /\ WdaReady /\ wdaCall \in [WdaCaller -> WdaRec]
  /\ \A c \in WdaCaller : WdaAt(c, wdaCall[c])
  /\ \A c \in WdaCaller : WdaFresh(wdaCall[c])

LEMMA Wda_Zero == 0 \in 0..MaxRunner /\ 0 # 1
BY WdaAssumption

LEMMA Wda_Not ==
  /\ NotCalling \in WdaRec /\ NotCalling.at = "idle" /\ NotCalling.scoped = FALSE
  /\ NotCalling.goal = "do" /\ NotCalling.attempt = 0 /\ NotCalling.overlapped = FALSE
  /\ NotCalling.result = "none"
<1> USE WdaAssumption
<1>1. 0 \in 0..MaxRunner /\ 0 \in 0..MaxArms /\ 0 \in 0..1
  OBVIOUS
<1>2. PICK zr, za : zr \in 0..MaxRunner /\ za \in 0..MaxArms /\ zr = 0 /\ za = 0
  BY <1>1
<1>3. PICK n : n = NotCalling
  OBVIOUS
<1>4. n = [at |-> "idle", scoped |-> FALSE, goal |-> "do", attempt |-> 0, sid |-> zr,
           by |-> za, overlapped |-> FALSE, result |-> "none"]
  BY <1>2, <1>3 DEF NotCalling
<1>5. n \in WdaRec
  BY <1>2, <1>4 DEF WdaRec
<1> QED
  BY <1>3, <1>4, <1>5

LEMMA WdaStarts == ASSUME WdaInit PROVE WdaInv
<1> USE WdaAssumption
<1>1. WdaReady
  <2>1. 0 \in 0..MaxRunner /\ 0 \in 0..MaxArms /\ 0 \in 0..0
    OBVIOUS
  <2> QED
    BY <2>1 DEF WdaInit, WdaReady
<1>2. PICK n : n = NotCalling
  OBVIOUS
<1>3. n \in WdaRec /\ n.at = "idle" /\ n.goal = "do" /\ n.attempt = 0 /\ n.result = "none"
  BY <1>2, Wda_Not
<1>4. wdaCall = [c \in WdaCaller |-> n]
  BY <1>2 DEF WdaInit
<1>5. wdaCall \in [WdaCaller -> WdaRec] /\ \A c \in WdaCaller : wdaCall[c] = n
  BY <1>3, <1>4
<1>6. \A c \in WdaCaller : WdaAt(c, n)
  BY <1>3 DEF WdaAt
<1>7. WdaFresh(n)
  BY <1>3 DEF WdaFresh, Past
<1> QED
  BY <1>1, <1>5, <1>6, <1>7 DEF WdaInv

(* One action goes on; nothing restarts the runner. *)
LEMMA Wda_One ==
  ASSUME WdaInv, NEW c \in WdaCaller, NEW r \in WdaRec, CallGoes(c, r), runner' = runner, WdaReady',
         \A d \in WdaCaller : d # c /\ createMu = d => createMu' = d,
         session' \in {session, 0} \/ (wdaCall[c].at = "store" /\ session' = wdaCall[c].sid),
         r.at = "store" => r.sid = runner /\ r.goal = "post",
         r.goal = "post" => createMu' = c /\ r.at \in {"await", "polling", "send", "store"},
         r.at = "lock" => r.scoped, r.at = "idle" => r.attempt = 0,
         r.at = "invalid" => r.attempt = 0 /\ r.scoped,
         r.attempt = 1 => r.scoped,
         r.result = "invalid" => r.overlapped,
         ~ r.overlapped =>
           /\ Past(r) => \A d \in WdaCaller : d # c /\ wdaCall[d].at = "store" => wdaCall[d].sid = runner
           /\ r.attempt = 1 => /\ session' \in {0, runner}
                               /\ r.goal = "do" /\ r.at \in {"await", "polling", "send"} => r.sid = runner
  PROVE  WdaInv'
<1>1. /\ wdaCall \in [WdaCaller -> WdaRec] /\ \A d \in WdaCaller : WdaAt(d, wdaCall[d])
      /\ \A d \in WdaCaller : WdaFresh(wdaCall[d])
  BY DEF WdaInv
<1>2. /\ wdaCall' \in [WdaCaller -> WdaRec] /\ wdaCall'[c] = r
      /\ \A d \in WdaCaller : d # c => wdaCall'[d] = wdaCall[d]
  BY <1>1 DEF CallGoes
<1>3. ASSUME NEW d \in WdaCaller PROVE WdaAt(d, wdaCall[d])'
  <2>1. CASE d = c
    BY <1>2, <2>1 DEF WdaAt
  <2>2. CASE d # c
    BY <1>1, <1>2, <2>2 DEF WdaAt
  <2> QED
    BY <2>1, <2>2
<1>4. ASSUME NEW d \in WdaCaller PROVE WdaFresh(wdaCall[d])'
  <2>1. CASE d = c
    <3>1. \A e \in WdaCaller : wdaCall'[e].at = "store" => (e = c \/ wdaCall[e].at = "store") /\ (e # c => wdaCall'[e] = wdaCall[e])
      BY <1>2
    <3> QED
      BY <1>2, <2>1, <3>1 DEF WdaFresh, Past
  <2>2. CASE d # c
    <3>1. wdaCall'[d] = wdaCall[d] /\ WdaFresh(wdaCall[d])
      BY <1>1, <1>2, <2>2
    <3>2. ASSUME ~ wdaCall[d].overlapped, Past(wdaCall[d])
          PROVE  \A e \in WdaCaller : wdaCall'[e].at = "store" => wdaCall'[e].sid = runner
      <4> TAKE e \in WdaCaller
      <4>1. CASE e = c
        BY <1>2, <4>1
      <4>2. CASE e # c
        BY <1>2, <3>1, <3>2, <4>2 DEF WdaFresh
      <4> QED
        BY <4>1, <4>2
    <3>3. ASSUME ~ wdaCall[d].overlapped, wdaCall[d].attempt = 1
          PROVE  session' \in {0, runner}
      <4>1. session \in {0, runner} /\ (wdaCall[c].at = "store" => wdaCall[c].sid = runner)
        BY <3>1, <3>3 DEF WdaFresh, Past
      <4> QED
        BY <4>1
    <3> QED
      BY <3>1, <3>2, <3>3 DEF WdaFresh, Past
  <2> QED
    BY <2>1, <2>2
<1> QED
  BY <1>2, <1>3, <1>4 DEF WdaInv

LEMMA Wda_RunnerUp == ASSUME WdaInv, RunnerComesUp PROVE WdaInv'
<1> USE WdaAssumption
<1>0. /\ runner < MaxRunner /\ alive' = TRUE /\ runner' = runner + 1
      /\ UNCHANGED <<session, needsReady, readyExhausted, readyBy, armed, lapsed, createMu, supervisor, kick>>
      /\ wdaCall' = [c \in WdaCaller |-> IF wdaCall[c].at = "idle"
                       THEN wdaCall[c] ELSE [wdaCall[c] EXCEPT !.overlapped = TRUE]]
  BY DEF RunnerComesUp, readyVars, supVars
<1>1. WdaReady'
  <2>1. runner + 1 \in 0..MaxRunner
    BY <1>0 DEF WdaInv, WdaReady
  <2> QED
    BY <1>0, <2>1 DEF WdaInv, WdaReady
<1>2. ASSUME NEW c \in WdaCaller
      PROVE  wdaCall'[c] \in WdaRec /\ WdaAt(c, wdaCall'[c]) /\ (wdaCall'[c].overlapped \/ wdaCall'[c] = wdaCall[c])
             /\ (wdaCall'[c].at = "idle" \/ wdaCall'[c].overlapped)
  <2>1. PICK x : x = wdaCall[c]
    OBVIOUS
  <2>2. x \in WdaRec /\ WdaAt(c, x)
    BY <2>1 DEF WdaInv
  <2>3. CASE x.at = "idle"
    <3>1. wdaCall'[c] = x
      BY <1>0, <2>1, <2>3
    <3> QED
      BY <2>1, <2>2, <2>3, <3>1
  <2>4. CASE x.at # "idle"
    <3>1. PICK r : r = [x EXCEPT !.overlapped = TRUE]
      OBVIOUS
    <3>2. wdaCall'[c] = r
      BY <1>0, <2>1, <2>4, <3>1
    <3>3. /\ r \in WdaRec /\ r.overlapped /\ r.at = x.at /\ r.scoped = x.scoped /\ r.goal = x.goal
          /\ r.attempt = x.attempt /\ r.result = x.result
      BY <2>2, <3>1 DEF WdaRec
    <3>4. WdaAt(c, r)
      BY <2>2, <3>3 DEF WdaAt
    <3> QED
      BY <3>2, <3>3, <3>4
  <2> QED
    BY <2>3, <2>4
<1>3. wdaCall' \in [WdaCaller -> WdaRec]
  <2>1. PICK f : f = wdaCall'
    OBVIOUS
  <2>2. DOMAIN f = WdaCaller /\ f = [c \in WdaCaller |-> f[c]]
    BY <1>0, <2>1
  <2>3. \A c \in WdaCaller : f[c] \in WdaRec
    BY <1>2, <2>1
  <2>4. f \in [WdaCaller -> WdaRec]
    BY <2>2, <2>3
  <2> QED
    BY <2>1, <2>4
<1>4. ASSUME NEW c \in WdaCaller PROVE WdaAt(c, wdaCall[c])' /\ WdaFresh(wdaCall[c])'
  <2>1. WdaAt(c, wdaCall[c])'
    BY <1>0, <1>2 DEF WdaAt
  <2>2. WdaFresh(wdaCall[c])'
    <3>1. CASE wdaCall'[c].overlapped
      BY <3>1 DEF WdaFresh
    <3>2. CASE ~ wdaCall'[c].overlapped
      <4>1. wdaCall'[c].at = "idle" /\ wdaCall'[c] = wdaCall[c]
        BY <1>2, <3>2
      <4>2. wdaCall'[c].attempt # 1
        BY <4>1 DEF WdaInv, WdaAt
      <4> QED
        BY <4>1, <4>2 DEF WdaFresh, Past
    <3> QED
      BY <3>1, <3>2
  <2> QED
    BY <2>1, <2>2
<1> QED
  BY <1>1, <1>3, <1>4 DEF WdaInv

(* The world moves, no action does. *)
LEMMA Wda_World ==
  ASSUME WdaInv, UNCHANGED <<wdaCall, runner, session, createMu>>, WdaReady' PROVE WdaInv'
BY DEF WdaInv, WdaAt, WdaFresh

LEMMA Wda_Runner ==
  ASSUME WdaInv, RunnerDies \/ DeadlinePasses \/ Healthy \/ Launch \/ Relaunch \/ SupWakes PROVE WdaInv'
<1>1. UNCHANGED <<wdaCall, runner, session, createMu, needsReady, readyExhausted, readyBy, armed>>
  BY DEF RunnerDies, DeadlinePasses, Healthy, Launch, Relaunch, SupWakes, SupStep, readyVars, supVars
<1>2. alive' \in BOOLEAN /\ kick' \in BOOLEAN /\ supervisor' \in {"probing", "launching", "awaiting", "sleeping"}
  BY DEF RunnerDies, DeadlinePasses, Healthy, Launch, Relaunch, SupWakes, SupStep, supVars, WdaInv, WdaReady
<1>3. lapsed' \in 0..armed
  <2>1. lapsed \in 0..armed /\ armed \in 0..MaxArms
    BY DEF WdaInv, WdaReady
  <2>2. lapsed' = lapsed \/ (lapsed < armed /\ lapsed' = lapsed + 1)
    BY DEF RunnerDies, DeadlinePasses, Healthy, Launch, Relaunch, SupWakes, SupStep
  <2> QED
    BY <2>1, <2>2
<1>4. WdaReady'
  BY <1>1, <1>2, <1>3 DEF WdaInv, WdaReady
<1> QED
  BY <1>1, <1>4, Wda_World

(* An action is over. *)
LEMMA Wda_Ends ==
  ASSUME WdaInv, NEW c \in WdaCaller, NEW res \in {"ok", "invalid", "restarted", "given up"}, WdaEnds(c, res),
         res = "invalid" => wdaCall[c].overlapped, runner' = runner, session' \in {session, 0},
         {alive', needsReady', readyExhausted', kick'} \subseteq BOOLEAN,
         armed' \in 0..MaxArms, readyBy' \in 0..armed', lapsed' \in 0..armed', supervisor' = supervisor,
         ~ (readyExhausted' /\ needsReady')
  PROVE  WdaInv'
<1> USE WdaAssumption
<1>1. PICK n : n = NotCalling
  OBVIOUS
<1>2. n \in WdaRec /\ n.at = "idle" /\ n.goal = "do" /\ n.attempt = 0
  BY <1>1, Wda_Not
<1>3. PICK o \in BOOLEAN : o = wdaCall[c].overlapped
  BY DEF WdaInv, WdaRec
<1>4. PICK r : r = [n EXCEPT !.overlapped = o, !.result = res]
  OBVIOUS
<1>5. CallGoes(c, r) /\ createMu' = IF createMu = c THEN NoCaller ELSE createMu
  BY <1>1, <1>3, <1>4 DEF WdaEnds, ReleaseCreate
<1>6. r \in WdaRec /\ r.at = "idle" /\ r.goal = "do" /\ r.attempt = 0 /\ r.overlapped = o /\ r.result = res
  BY <1>2, <1>4 DEF WdaRec
<1>7. WdaReady'
  <2>1. /\ createMu \in WdaCaller \cup {NoCaller} /\ session \in 0..MaxRunner /\ runner \in 0..MaxRunner
        /\ supervisor \in {"probing", "launching", "awaiting", "sleeping"}
    BY DEF WdaInv, WdaReady
  <2>2. createMu' \in WdaCaller \cup {NoCaller}
    BY <1>5, <2>1
  <2>3. 0 \in 0..MaxRunner
    BY Wda_Zero
  <2>4. session' \in 0..MaxRunner
    BY <2>1, <2>3
  <2> QED
    BY <2>1, <2>2, <2>4 DEF WdaReady
<1>8. r.attempt # 1 /\ r.at # "lock" /\ r.goal # "post" /\ r.at # "invalid" /\ r.at # "store"
  BY <1>6, Wda_Zero, Zenon
<1>9. ~ Past(r)
  BY <1>6, <1>8 DEF Past
<1>10. \A d \in WdaCaller : d # c /\ createMu = d => createMu' = d
  BY <1>5
<1>11. r.result = "invalid" => r.overlapped
  BY <1>3, <1>6
<1> QED
  BY <1>5, <1>6, <1>7, <1>8, <1>9, <1>10, <1>11, Wda_One

LEMMA Wda_GivesUp == ASSUME WdaInv, NEW c \in WdaCaller, CallerGivesUp(c) PROVE WdaInv'
<1>0. /\ WdaEnds(c, "given up") /\ kick' \in {kick, TRUE}
      /\ UNCHANGED <<runner, alive, lapsed, session, needsReady, readyExhausted, readyBy, armed, supervisor>>
  BY DEF CallerGivesUp, runnerVars, readyVars
<1>1. /\ {alive, needsReady, readyExhausted, kick} \subseteq BOOLEAN
      /\ armed \in 0..MaxArms /\ readyBy \in 0..armed /\ lapsed \in 0..armed /\ ~ (readyExhausted /\ needsReady)
  BY DEF WdaInv, WdaReady
<1> QED
  BY <1>0, <1>1, Wda_Ends

LEMMA Wda_Transport == ASSUME WdaInv, NEW c \in WdaCaller, TransportErr(c) PROVE WdaInv'
<1> USE WdaAssumption
<1>0. /\ WdaEnds(c, "restarted") /\ kick' = TRUE /\ session' = 0
      /\ UNCHANGED <<runner, alive, lapsed, readyExhausted, supervisor>>
      /\ Arms => armed < MaxArms
      /\ needsReady' = (needsReady \/ Arms)
      /\ armed' = IF Arms THEN armed + 1 ELSE armed
      /\ readyBy' = IF Arms THEN armed' ELSE readyBy
  BY DEF TransportErr, runnerVars
<1>1. /\ {alive, needsReady, readyExhausted, kick} \subseteq BOOLEAN
      /\ armed \in 0..MaxArms /\ readyBy \in 0..armed /\ lapsed \in 0..armed /\ ~ (readyExhausted /\ needsReady)
  BY DEF WdaInv, WdaReady
<1>2. CASE Arms
  <2>1. armed' = armed + 1 /\ readyBy' = armed' /\ needsReady' = TRUE /\ readyExhausted' = FALSE
    BY <1>0, <1>1, <1>2 DEF Arms
  <2>2. armed' \in 0..MaxArms /\ readyBy' \in 0..armed' /\ lapsed' \in 0..armed'
    BY <1>0, <1>1, <1>2, <2>1
  <2> QED
    BY <1>0, <1>1, <2>1, <2>2, Wda_Ends
<1>3. CASE ~ Arms
  <2>1. armed' = armed /\ readyBy' = readyBy /\ needsReady' = needsReady
    BY <1>0, <1>1, <1>3
  <2>2. /\ {alive', needsReady', readyExhausted', kick'} \subseteq BOOLEAN
        /\ armed' \in 0..MaxArms /\ readyBy' \in 0..armed' /\ lapsed' \in 0..armed'
        /\ ~ (readyExhausted' /\ needsReady')
    BY <1>0, <1>1, <2>1
  <2> QED
    BY <1>0, <2>2, Wda_Ends
<1> QED
  BY <1>2, <1>3

LEMMA Wda_Begins == ASSUME WdaInv, NEW c \in WdaCaller, NEW s \in BOOLEAN, WdaAction(c, s) PROVE WdaInv'
<1>0. UNCHANGED <<runner, alive, lapsed, session, needsReady, readyExhausted, readyBy, armed, createMu, supervisor, kick>>
  BY DEF WdaAction, runnerVars, readyVars, supVars
<1>1. PICK n : n = NotCalling
  OBVIOUS
<1>2. n \in WdaRec /\ n.goal = "do" /\ n.attempt = 0 /\ n.result = "none"
  BY <1>1, Wda_Not
<1>3. PICK p \in {"lock", "await"} : p = IF s THEN "lock" ELSE "await"
  OBVIOUS
<1>4. PICK r : r = [n EXCEPT !.scoped = s, !.at = p]
  OBVIOUS
<1>5. CallGoes(c, r)
  BY <1>1, <1>3, <1>4 DEF WdaAction
<1>6. r \in WdaRec /\ r.at = p /\ r.goal = "do" /\ r.attempt = 0 /\ r.scoped = s /\ r.result = "none"
  BY <1>2, <1>4 DEF WdaRec
<1>7. WdaReady'
  BY <1>0 DEF WdaInv, WdaReady
<1>8. ~ Past(r)
  BY <1>3, <1>6 DEF Past
<1> QED
  BY <1>0, <1>3, <1>5, <1>6, <1>7, <1>8, Wda_One

(* A request goes on under the session it has. *)
LEMMA Wda_Sends ==
  ASSUME WdaInv, NEW c \in WdaCaller, AwaitReady(c) \/ PollAnswers(c) \/ PollLapses(c) PROVE WdaInv'
<1> USE WdaAssumption
<1>0. /\ UNCHANGED <<runner, alive, lapsed, session, readyBy, armed, createMu, supervisor, kick>>
      /\ wdaCall[c].at \in {"await", "polling"}
  BY DEF AwaitReady, PollAnswers, PollLapses, runnerVars, readyVars, supVars
<1>1. PICK x : x = wdaCall[c]
  OBVIOUS
<1>2. x \in WdaRec /\ WdaAt(c, x) /\ WdaFresh(x) /\ x.at \in {"await", "polling"}
  BY <1>0, <1>1 DEF WdaInv
<1>3. \E p \in {"polling", "send"}, b \in 0..MaxArms :
        CallGoes(c, [x EXCEPT !.at = p, !.by = b])
  <2>1. CASE AwaitReady(c)
    <3>1. PICK p \in {"polling", "send"} : p = IF needsReady THEN "polling" ELSE "send"
      OBVIOUS
    <3>2. PICK b \in 0..MaxArms : b = IF needsReady THEN readyBy ELSE 0
      <4>1. readyBy \in 0..MaxArms /\ 0 \in 0..MaxArms
        BY DEF WdaInv, WdaReady
      <4> QED
        BY <4>1
    <3>3. CallGoes(c, [x EXCEPT !.at = p, !.by = b])
      BY <1>1, <2>1, <3>1, <3>2, Zenon DEF AwaitReady
    <3> QED
      BY <3>3
  <2>2. CASE PollAnswers(c) \/ PollLapses(c)
    <3>1. CallGoes(c, [x EXCEPT !.at = "send"])
      BY <1>1, <2>2 DEF PollAnswers, PollLapses
    <3>2. PICK b \in 0..MaxArms : b = x.by
      BY <1>2 DEF WdaRec
    <3>3. [x EXCEPT !.at = "send"] = [x EXCEPT !.at = "send", !.by = b]
      BY <1>2, <3>2 DEF WdaRec
    <3> QED
      BY <3>1, <3>3
  <2> QED
    BY <2>1, <2>2
<1>4. PICK p \in {"polling", "send"}, b \in 0..MaxArms : CallGoes(c, [x EXCEPT !.at = p, !.by = b])
  BY <1>3
<1>5. PICK r : r = [x EXCEPT !.at = p, !.by = b]
  OBVIOUS
<1>6. /\ r \in WdaRec /\ r.at = p /\ r.goal = x.goal /\ r.attempt = x.attempt /\ r.scoped = x.scoped
      /\ r.sid = x.sid /\ r.overlapped = x.overlapped /\ r.result = x.result
  BY <1>2, <1>5 DEF WdaRec
<1>7. WdaReady'
  <2>1. {needsReady', readyExhausted'} \subseteq BOOLEAN /\ ~ (readyExhausted' /\ needsReady')
    <3>1. {needsReady, readyExhausted} \subseteq BOOLEAN /\ ~ (readyExhausted /\ needsReady)
      BY DEF WdaInv, WdaReady
    <3>2. CASE AwaitReady(c)
      BY <3>1, <3>2 DEF AwaitReady, readyVars
    <3>3. CASE PollAnswers(c)
      BY <3>3 DEF PollAnswers
    <3>4. CASE PollLapses(c)
      BY <3>4 DEF PollLapses
    <3> QED
      BY <3>2, <3>3, <3>4
  <2> QED
    BY <1>0, <2>1 DEF WdaInv, WdaReady
<1>8. /\ r.goal = "post" => createMu' = c
      /\ r.attempt = 1 => r.scoped
      /\ r.result = "invalid" => r.overlapped
  BY <1>0, <1>2, <1>6 DEF WdaAt
<1>9. ~ r.overlapped =>
        /\ Past(r) => \A d \in WdaCaller : d # c /\ wdaCall[d].at = "store" => wdaCall[d].sid = runner
        /\ r.attempt = 1 => /\ session' \in {0, runner}
                            /\ r.goal = "do" /\ r.at \in {"await", "polling", "send"} => r.sid = runner
  BY <1>0, <1>2, <1>6 DEF WdaFresh, Past
<1> QED
  BY <1>0, <1>4, <1>5, <1>6, <1>7, <1>8, <1>9, Wda_One

LEMMA Wda_Session == ASSUME WdaInv, NEW c \in WdaCaller, Session(c) PROVE WdaInv'
<1> USE WdaAssumption
<1>0. /\ UNCHANGED <<runner, alive, lapsed, session, needsReady, readyExhausted, readyBy, armed, supervisor, kick>>
      /\ wdaCall[c].at = "lock" /\ createMu = NoCaller
  BY DEF Session, MayCreate, runnerVars, readyVars, supVars
<1>1. PICK x : x = wdaCall[c]
  OBVIOUS
<1>2. x \in WdaRec /\ WdaAt(c, x) /\ WdaFresh(x) /\ x.at = "lock"
  BY <1>0, <1>1 DEF WdaInv
<1>3. PICK s \in 0..MaxRunner : s = session
  BY DEF WdaInv, WdaReady
<1>4. PICK g \in {"post", "do"} : g = IF session = 0 THEN "post" ELSE "do"
  OBVIOUS
<1>5. PICK r : r = [x EXCEPT !.at = "await", !.sid = s, !.goal = g]
  OBVIOUS
<1>6. CallGoes(c, r) /\ createMu' = IF session = 0 THEN c ELSE createMu
  BY <1>1, <1>3, <1>4, <1>5 DEF Session
<1>7. /\ r \in WdaRec /\ r.at = "await" /\ r.goal = g /\ r.attempt = x.attempt /\ r.scoped = x.scoped
      /\ r.sid = s /\ r.overlapped = x.overlapped /\ r.result = x.result
  BY <1>2, <1>5 DEF WdaRec
<1>8. WdaReady'
  BY <1>0, <1>6 DEF WdaInv, WdaReady
<1>9. /\ r.goal = "post" => createMu' = c
      /\ r.attempt = 1 => r.scoped
      /\ r.result = "invalid" => r.overlapped
  BY <1>2, <1>4, <1>6, <1>7 DEF WdaAt
<1>10. \A d \in WdaCaller : wdaCall[d].at # "store"
  BY <1>0 DEF WdaInv, WdaAt
<1>11. ~ r.overlapped /\ r.attempt = 1 =>
        /\ session' \in {0, runner}
        /\ r.goal = "do" => r.sid = runner
  BY <1>0, <1>2, <1>3, <1>4, <1>7 DEF WdaFresh
<1>12. \A d \in WdaCaller : d # c /\ createMu = d => createMu' = d
  BY <1>0
<1>13. session' \in {session, 0}
  BY <1>0
<1> QED
  BY <1>0, <1>6, <1>7, <1>8, <1>9, <1>10, <1>11, <1>12, <1>13, Wda_One

LEMMA Wda_Created == ASSUME WdaInv, NEW c \in WdaCaller, SessionCreated(c) PROVE WdaInv'
<1>0. /\ UNCHANGED <<runner, alive, lapsed, session, needsReady, readyBy, armed, createMu, supervisor, kick>>
      /\ wdaCall[c].at = "send" /\ wdaCall[c].goal = "post" /\ readyExhausted' = FALSE
  BY DEF SessionCreated, runnerVars, supVars
<1>1. PICK x : x = wdaCall[c]
  OBVIOUS
<1>2. x \in WdaRec /\ WdaAt(c, x) /\ WdaFresh(x) /\ x.at = "send" /\ x.goal = "post"
  BY <1>0, <1>1 DEF WdaInv
<1>3. PICK s \in 0..MaxRunner : s = runner
  BY DEF WdaInv, WdaReady
<1>5. PICK r : r = [x EXCEPT !.at = "store", !.sid = s]
  OBVIOUS
<1>6. CallGoes(c, r)
  BY <1>1, <1>3, <1>5 DEF SessionCreated
<1>7. /\ r \in WdaRec /\ r.at = "store" /\ r.goal = "post" /\ r.attempt = x.attempt /\ r.scoped = x.scoped
      /\ r.sid = s /\ r.overlapped = x.overlapped /\ r.result = x.result
  BY <1>2, <1>5 DEF WdaRec
<1>8. WdaReady'
  BY <1>0 DEF WdaInv, WdaReady
<1>9. /\ createMu' = c /\ (r.attempt = 1 => r.scoped) /\ (r.result = "invalid" => r.overlapped)
  BY <1>0, <1>2, <1>7 DEF WdaAt
<1>10. ~ r.overlapped =>
        /\ Past(r) => \A d \in WdaCaller : d # c /\ wdaCall[d].at = "store" => wdaCall[d].sid = runner
        /\ r.attempt = 1 => session' \in {0, runner}
  BY <1>0, <1>2, <1>7 DEF WdaFresh, Past
<1> QED
  BY <1>0, <1>3, <1>6, <1>7, <1>8, <1>9, <1>10, Wda_One

LEMMA Wda_Stored == ASSUME WdaInv, NEW c \in WdaCaller, SessionStored(c) PROVE WdaInv'
<1> USE WdaAssumption
<1>0. /\ UNCHANGED <<runner, alive, lapsed, needsReady, readyExhausted, readyBy, armed, supervisor, kick>>
      /\ wdaCall[c].at = "store" /\ session' = wdaCall[c].sid
      /\ createMu' = IF createMu = c THEN NoCaller ELSE createMu
  BY DEF SessionStored, ReleaseCreate, runnerVars, readyVars, supVars
<1>1. PICK x : x = wdaCall[c]
  OBVIOUS
<1>2. x \in WdaRec /\ WdaAt(c, x) /\ WdaFresh(x) /\ x.at = "store"
  BY <1>0, <1>1 DEF WdaInv
<1>5. PICK r : r = [x EXCEPT !.at = "await", !.goal = "do"]
  OBVIOUS
<1>6. CallGoes(c, r)
  BY <1>1, <1>5 DEF SessionStored
<1>7. /\ r \in WdaRec /\ r.at = "await" /\ r.goal = "do" /\ r.attempt = x.attempt /\ r.scoped = x.scoped
      /\ r.sid = x.sid /\ r.overlapped = x.overlapped /\ r.result = x.result
  BY <1>2, <1>5 DEF WdaRec
<1>8. WdaReady'
  <2>1. session' \in 0..MaxRunner
    BY <1>0, <1>1, <1>2 DEF WdaRec
  <2> QED
    BY <1>0, <2>1 DEF WdaInv, WdaReady
<1>9. (r.attempt = 1 => r.scoped) /\ (r.result = "invalid" => r.overlapped)
  BY <1>2, <1>7 DEF WdaAt
<1>10. ~ r.overlapped =>
        /\ Past(r) => \A d \in WdaCaller : d # c /\ wdaCall[d].at = "store" => wdaCall[d].sid = runner
        /\ r.attempt = 1 => session' = runner /\ r.sid = runner
  BY <1>0, <1>1, <1>2, <1>7 DEF WdaFresh, Past
<1>11. \A d \in WdaCaller : d # c /\ createMu = d => createMu' = d
  BY <1>0
<1> QED
  BY <1>0, <1>1, <1>6, <1>7, <1>8, <1>9, <1>10, <1>11, Wda_One

LEMMA Wda_Answered == ASSUME WdaInv, NEW c \in WdaCaller, Answered(c) PROVE WdaInv'
<1>0. /\ UNCHANGED <<runner, alive, lapsed, session, needsReady, readyBy, armed, supervisor, kick>>
      /\ wdaCall[c].at = "send" /\ wdaCall[c].goal = "do" /\ readyExhausted' = FALSE
  BY DEF Answered, runnerVars, supVars
<1>1. PICK x : x = wdaCall[c]
  OBVIOUS
<1>2. x \in WdaRec /\ WdaAt(c, x) /\ WdaFresh(x) /\ x.at = "send" /\ x.goal = "do"
  BY <1>0, <1>1 DEF WdaInv
<1>b. /\ {alive, needsReady, readyExhausted, kick} \subseteq BOOLEAN
      /\ armed \in 0..MaxArms /\ readyBy \in 0..armed /\ lapsed \in 0..armed
  BY DEF WdaInv, WdaReady
<1>v. /\ x.scoped \in BOOLEAN /\ x.attempt \in 0..1
      /\ Valid(c) <=> (~ x.scoped \/ x.sid = runner)
      /\ Retries(c) <=> x.attempt < 1
  BY <1>1, <1>2 DEF Valid, Retries, WdaRec
<1>3. CASE ~ Valid(c) /\ Retries(c)
  <2>1. CallGoes(c, [x EXCEPT !.at = "invalid"]) /\ UNCHANGED createMu
    BY <1>1, <1>3 DEF Answered
  <2>2. PICK r : r = [x EXCEPT !.at = "invalid"]
    OBVIOUS
  <2>3. /\ r \in WdaRec /\ r.at = "invalid" /\ r.goal = "do" /\ r.attempt = x.attempt /\ r.scoped = x.scoped
        /\ r.sid = x.sid /\ r.overlapped = x.overlapped /\ r.result = x.result
    BY <1>2, <2>2 DEF WdaRec
  <2>4. x.scoped /\ x.attempt = 0
    BY <1>3, <1>v
  <2>5. WdaReady'
    BY <1>0, <2>1 DEF WdaInv, WdaReady
  <2>6. r.result = "invalid" => r.overlapped
    BY <1>2, <2>3 DEF WdaAt
  <2>7. ~ r.overlapped => \A d \in WdaCaller : d # c /\ wdaCall[d].at = "store" => wdaCall[d].sid = runner
    BY <1>2, <2>3, <2>4 DEF WdaFresh, Past
  <2>8. r.attempt = 0 /\ r.scoped /\ r.attempt # 1 /\ CallGoes(c, r)
    BY <2>1, <2>2, <2>3, <2>4
  <2>9. \A d \in WdaCaller : d # c /\ createMu = d => createMu' = d
    BY <2>1
  <2> QED
    BY <1>0, <2>3, <2>5, <2>6, <2>7, <2>8, <2>9, Wda_One
<1>4. CASE ~ (~ Valid(c) /\ Retries(c))
  <2>1. PICK res \in {"ok", "invalid"} : res = IF Valid(c) THEN "ok" ELSE "invalid"
    OBVIOUS
  <2>2. WdaEnds(c, res)
    BY <1>4, <2>1, Zenon DEF Answered
  <2>3. res = "invalid" => wdaCall[c].overlapped
    <3>1. ~ Valid(c) => x.attempt = 1 /\ x.sid # runner
      BY <1>4, <1>v
    <3>2. x.overlapped \in BOOLEAN
      BY <1>2 DEF WdaRec
    <3> QED
      BY <1>1, <1>2, <2>1, <3>1, <3>2 DEF WdaFresh
  <2>4. /\ {alive', needsReady', readyExhausted', kick'} \subseteq BOOLEAN
        /\ armed' \in 0..MaxArms /\ readyBy' \in 0..armed' /\ lapsed' \in 0..armed'
        /\ ~ (readyExhausted' /\ needsReady')
    BY <1>0, <1>b
  <2> QED
    BY <1>0, <2>2, <2>3, <2>4, Wda_Ends
<1> QED
  BY <1>3, <1>4

LEMMA Wda_Invalidates == ASSUME WdaInv, NEW c \in WdaCaller, InvalidateSession(c) PROVE WdaInv'
<1> USE WdaAssumption
<1>0. /\ UNCHANGED <<runner, alive, lapsed, needsReady, readyExhausted, readyBy, armed, createMu, supervisor, kick>>
      /\ wdaCall[c].at = "invalid" /\ session' = 0
  BY DEF InvalidateSession, runnerVars, readyVars, supVars
<1>1. PICK x : x = wdaCall[c]
  OBVIOUS
<1>2. x \in WdaRec /\ WdaAt(c, x) /\ WdaFresh(x) /\ x.at = "invalid"
  BY <1>0, <1>1 DEF WdaInv
<1>3. x.attempt = 0 /\ x.scoped /\ x.goal = "do"
  BY <1>2 DEF WdaAt, WdaRec
<1>4. PICK one \in 0..1 : one = 1 /\ one = x.attempt + 1
  BY <1>3
<1>5. PICK r : r = [x EXCEPT !.at = "lock", !.attempt = one]
  OBVIOUS
<1>6. CallGoes(c, r)
  BY <1>1, <1>2, <1>4, <1>5 DEF InvalidateSession, WdaRec
<1>7. /\ r \in WdaRec /\ r.at = "lock" /\ r.goal = "do" /\ r.attempt = 1 /\ r.scoped
      /\ r.sid = x.sid /\ r.overlapped = x.overlapped /\ r.result = x.result
  BY <1>2, <1>3, <1>4, <1>5 DEF WdaRec
<1>8. WdaReady'
  BY <1>0 DEF WdaInv, WdaReady
<1>9. r.result = "invalid" => r.overlapped
  BY <1>2, <1>7 DEF WdaAt
<1>10. ~ r.overlapped => \A d \in WdaCaller : d # c /\ wdaCall[d].at = "store" => wdaCall[d].sid = runner
  BY <1>2, <1>3, <1>7 DEF WdaFresh, Past
<1> QED
  BY <1>0, <1>6, <1>7, <1>8, <1>9, <1>10, Wda_One

LEMMA WdaMoves == ASSUME WdaInv, [WdaNext]_wdaVars PROVE WdaInv'
<1>1. CASE UNCHANGED wdaVars
  <2>1. UNCHANGED <<wdaCall, runner, session, createMu>> /\ WdaReady'
    BY <1>1 DEF wdaVars, WdaInv, WdaReady
  <2> QED
    BY <2>1, Wda_World
<1>2. CASE WdaNext
  BY <1>2, Wda_RunnerUp, Wda_Runner, Wda_GivesUp, Wda_Transport, Wda_Begins, Wda_Sends, Wda_Session,
     Wda_Created, Wda_Stored, Wda_Answered, Wda_Invalidates DEF WdaNext
<1> QED
  BY <1>1, <1>2

LEMMA Wda_Type == ASSUME WdaInv PROVE WdaTypeOK
BY DEF WdaInv, WdaReady, WdaRec, WdaTypeOK

LEMMA Wda_Safe == ASSUME WdaInv PROVE WdaSafe
BY DEF WdaInv, WdaReady, WdaAt, WdaSafe, WdaHealsOnce, WdaFailsFast

-----------------------------------------------------------------------------
(* The device manager.                                                     *)

DevEntry == [url: ForwardPort \cup {NoPort}, launch: BOOLEAN, forward: ForwardPort \cup {NoPort}]
DevRoute ==
  [at: {"none", "looked", "enabled", "sent"}, udid: Phone \cup {NoPort}, known: BOOLEAN,
   to: {"none", "device", "simulator", "error"}]

(* One Apply at a time, of a config that validates. *)
DevApplying ==
  /\ cur \in DevConfigs \cup {NoConfig} /\ applying \subseteq DevConfigs
  /\ \A a, b \in applying : a = b
  /\ \A cfg \in applying : Validate(cfg)
  /\ applies \in 0..MaxApplies /\ (applying # {} => applies >= 1)
  /\ devicesOn \in BOOLEAN /\ closed \in BOOLEAN

(* A supervision's children outlive nothing: it is there, dying or undead. *)
DevOwned ==
  /\ sups \subseteq Supervision /\ dying \subseteq Supervision /\ undead \subseteq dying
  /\ children \subseteq [kind: {"forward", "runner"}, of: sups \cup dying]
  /\ \A c \in children : c.kind = "forward" => c.of.entry.forward # NoPort

(* The supervisions that may still launch are of different phones and ports. *)
Live == sups \cup (dying \ undead)
DevApart ==
  \A s, t \in Live : s # t => s.u # t.u /\ (s.entry.forward = t.entry.forward => s.entry.forward = NoPort)

(* What is wired is what is in force; each supervision is of an entry of    *)
(* it, and each entry that needs one has it unless the running Apply is     *)
(* about to change the entry.                                               *)
NeedsOne(e) == e.launch \/ e.forward # NoPort
DevWired ==
  /\ wired = Effective(cur) /\ published = EffectiveMirror(cur) /\ wiredMirror = published
  /\ devicesOn = cur.enabled
  /\ \A s \in sups : s.u \in DOMAIN wired /\ wired[s.u] = s.entry /\ NeedsOne(s.entry)
  /\ \A u \in DOMAIN wired : NeedsOne(wired[u]) =>
       \/ closed
       \/ \E s \in sups : s.u = u
       \/ \E cfg \in applying : ~ (u \in DOMAIN Effective(cfg) /\ Effective(cfg)[u] = wired[u])

(* Phones a config named are pinned, so that an action on one is sent at once. *)
DevPinned ==
  /\ pinned \subseteq kinds /\ kinds \subseteq Phone
  /\ route \in DevRoute
  /\ route.at \in {"looked", "enabled"} => route.udid \in Phone /\ ~ route.known
  /\ route.known => route.to # "simulator"

DevInv == DevApplying /\ DevOwned /\ DevApart /\ DevWired /\ DevPinned

(* What a submitted config puts in force. *)
LEMMA Dev_Config ==
  ASSUME NEW cfg \in DevConfigs \cup {NoConfig}
  PROVE  /\ \A u \in DOMAIN Effective(cfg) : u \in Phone
         /\ \A u \in DOMAIN Effective(cfg) : Effective(cfg)[u] \in DevEntry
         /\ EffectiveMirror(cfg) \subseteq Phone /\ UDIDs(cfg) \subseteq Phone /\ cfg.enabled \in BOOLEAN
<1> USE DevicesAssumption
<1>0. DOMAIN <<>> = {}
  OBVIOUS
<1>1. CASE cfg = NoConfig
  <2>1. cfg.enabled = FALSE /\ cfg.wda = <<>> /\ cfg.mirror = {}
    BY <1>1 DEF NoConfig
  <2>2. Effective(cfg) = <<>> /\ EffectiveMirror(cfg) = {} /\ UDIDs(cfg) = {}
    BY <1>0, <2>1 DEF Effective, EffectiveMirror, UDIDs
  <2> QED
    BY <1>0, <2>1, <2>2
<1>2. CASE cfg \in DevConfigs
  <2>1. /\ cfg.enabled \in BOOLEAN /\ cfg.mirror \subseteq Phone /\ DOMAIN cfg.wda \subseteq Phone
        /\ \A u \in DOMAIN cfg.wda : cfg.wda[u] \in DevEntry
    BY <1>2 DEF DevEntry
  <2>2. Effective(cfg) = cfg.wda \/ Effective(cfg) = <<>>
    BY DEF Effective
  <2> QED
    BY <1>0, <2>1, <2>2 DEF EffectiveMirror, UDIDs
<1> QED
  BY <1>1, <1>2

(* A validated config needs each port once. *)
LEMMA Dev_Ports ==
  ASSUME NEW cfg, Validate(cfg), NEW u \in DOMAIN Effective(cfg), NEW v \in DOMAIN Effective(cfg),
         Effective(cfg)[u].forward = Effective(cfg)[v].forward, Effective(cfg)[u].forward # NoPort
  PROVE  u = v
<1>1. CASE cfg.enabled
  BY <1>1 DEF Effective, Validate, Forwards
<1>2. CASE ~ cfg.enabled
  BY <1>2 DEF Effective
<1> QED
  BY <1>1, <1>2

LEMMA DevStarts == ASSUME DevInit PROVE DevInv
<1> USE DevicesAssumption
<1>0. DOMAIN <<>> = {}
  OBVIOUS
<1>1. DevApplying
  <2>1. 0 \in 0..MaxApplies
    OBVIOUS
  <2>2. cur = NoConfig /\ applying = {} /\ applies = 0 /\ devicesOn = FALSE /\ closed = FALSE
    BY DEF DevInit
  <2> QED
    BY <2>1, <2>2 DEF DevApplying
<1>2. DevOwned /\ DevApart
  BY DEF DevInit, DevOwned, DevApart, Live
<1>3. DevWired
  <2>1. Effective(NoConfig) = <<>> /\ EffectiveMirror(NoConfig) = {} /\ NoConfig.enabled = FALSE
    BY DEF NoConfig, Effective, EffectiveMirror
  <2>2. wired = <<>> /\ sups = {} /\ cur = NoConfig /\ published = {} /\ wiredMirror = {} /\ devicesOn = FALSE
    BY DEF DevInit
  <2> QED
    BY <1>0, <2>1, <2>2 DEF DevWired
<1>4. DevPinned
  BY DEF DevInit, DevPinned, NoRoute, DevRoute
<1> QED
  BY <1>1, <1>2, <1>3, <1>4 DEF DevInv

LEMMA Dev_Apply ==
  ASSUME DevInv, NEW cfg \in DevConfigs, Apply(cfg) PROVE DevInv'
<1> USE DevicesAssumption
<1>0. /\ UNCHANGED <<sups, dying, children, undead, cur, wired, wiredMirror, published, devicesOn, kinds, pinned, closed, route>>
      /\ applying = {} /\ applies < MaxApplies /\ Validate(cfg) /\ applying' = {cfg} /\ applies' = applies + 1
  BY DEF Apply, supervision, wiring
<1>1. DevApplying'
  BY <1>0 DEF DevInv, DevApplying, Validate, Forwards
<1>2. DevOwned' /\ DevApart'
  BY <1>0 DEF DevInv, DevOwned, DevApart, Live
<1>3. DevWired'
  <2>1. \A u \in DOMAIN wired : NeedsOne(wired[u]) => closed \/ \E s \in sups : s.u = u
    BY <1>0 DEF DevInv, DevWired
  <2>2. Effective(cur)' = Effective(cur) /\ EffectiveMirror(cur)' = EffectiveMirror(cur)
    BY <1>0 DEF Effective, EffectiveMirror
  <2> QED
    BY <1>0, <2>1, <2>2 DEF DevInv, DevWired, NeedsOne
<1>4. DevPinned'
  BY <1>0 DEF DevInv, DevPinned
<1> QED
  BY <1>1, <1>2, <1>3, <1>4 DEF DevInv

(* A supervision that is asked to stop only moves. *)
LEMMA Dev_Stops ==
  ASSUME DevInv, NEW cfg \in DevConfigs, StopsSupervision(cfg) PROVE DevInv'
<1>0. PICK s \in Outdated(cfg) : sups' = sups \ {s} /\ dying' = dying \cup {s}
  BY DEF StopsSupervision
<1>a. /\ UNCHANGED <<cur, wired, wiredMirror, published, devicesOn, kinds, pinned, children, undead, applying, applies, closed, route>>
      /\ cfg \in applying
  BY DEF StopsSupervision, wiring
<1>b. s \in sups /\ ~ (s.u \in DOMAIN Effective(cfg) /\ Effective(cfg)[s.u] = s.entry)
  BY <1>0 DEF Outdated
<1>1. DevApplying'
  BY <1>a DEF DevInv, DevApplying, Validate, Forwards
<1>2. DevOwned'
  BY <1>0, <1>a, <1>b DEF DevInv, DevOwned
<1>3. DevApart'
  <2>1. Live' \subseteq Live
    BY <1>0, <1>a, <1>b DEF Live
  <2> QED
    BY <2>1 DEF DevInv, DevApart
<1>4. DevWired'
  <2>1. wired[s.u] = s.entry
    BY <1>b DEF DevInv, DevWired
  <2>2. ASSUME NEW u \in DOMAIN wired, NeedsOne(wired[u])
        PROVE  \/ closed
               \/ \E t \in sups' : t.u = u
               \/ \E c \in applying : ~ (u \in DOMAIN Effective(c) /\ Effective(c)[u] = wired[u])
    <3>1. CASE u = s.u
      BY <3>1, <2>1, <1>a, <1>b
    <3>2. CASE u # s.u
      BY <3>2, <2>2, <1>0 DEF DevInv, DevWired
    <3> QED
      BY <3>1, <3>2
  <2>3. Effective(cur)' = Effective(cur) /\ EffectiveMirror(cur)' = EffectiveMirror(cur)
    BY <1>a DEF Effective, EffectiveMirror
  <2> QED
    BY <1>0, <1>a, <2>2, <2>3 DEF DevInv, DevWired, NeedsOne, Effective
<1>5. DevPinned'
  BY <1>a DEF DevInv, DevPinned
<1> QED
  BY <1>1, <1>2, <1>3, <1>4, <1>5 DEF DevInv

(* The new supervisions are of phones that had none. *)
LEMMA Dev_Starts ==
  ASSUME DevInv, NEW cfg \in applying, Outdated(cfg) = {}, dying \subseteq undead,
         NEW s \in StartSupervisors(cfg)
  PROVE  /\ s \in Supervision /\ s.u \in DOMAIN Effective(cfg) /\ s.entry = Effective(cfg)[s.u]
         /\ NeedsOne(s.entry) /\ s.gen = applies
         /\ \A t \in sups : t.u # s.u
<1> USE DevicesAssumption
<1>1. PICK v \in DOMAIN Effective(cfg) :
        /\ ~ Unchanged(cfg, v) /\ (Effective(cfg)[v].launch \/ Effective(cfg)[v].forward # NoPort)
        /\ s = [u |-> v, entry |-> Effective(cfg)[v], gen |-> applies]
  BY DEF StartSupervisors
<1>2. v \in Phone /\ Effective(cfg)[v] \in DevEntry /\ applies \in 1..MaxApplies
  BY Dev_Config DEF DevInv, DevApplying
<1>3. s \in Supervision /\ s.u = v /\ s.entry = Effective(cfg)[v] /\ s.gen = applies
  BY <1>1, <1>2 DEF Supervision, DevEntry
<1>4. \A t \in sups : t.u # v
  BY <1>1 DEF Outdated, Unchanged
<1> QED
  BY <1>1, <1>3, <1>4 DEF NeedsOne

LEMMA Dev_Converge ==
  ASSUME DevInv, NEW cfg \in DevConfigs, Converge(cfg) PROVE DevInv'
<1> USE DevicesAssumption
<1>0. /\ cfg \in applying /\ Outdated(cfg) = {} /\ dying \subseteq undead
      /\ sups' = sups \cup StartSupervisors(cfg) /\ wired' = Effective(cfg)
      /\ wiredMirror' = EffectiveMirror(cfg) /\ published' = EffectiveMirror(cfg) /\ cur' = cfg
      /\ devicesOn' = cfg.enabled /\ kinds' = kinds \cup UDIDs(cfg) /\ pinned' = pinned \cup UDIDs(cfg)
      /\ applying' = {} /\ UNCHANGED <<dying, children, undead, applies, closed, route>>
  BY DEF Converge
<1>a. \A s \in sups : s.u \in DOMAIN Effective(cfg) /\ Effective(cfg)[s.u] = s.entry
  BY <1>0 DEF Outdated
<1>b. \A s \in StartSupervisors(cfg) :
        /\ s \in Supervision /\ s.u \in DOMAIN Effective(cfg) /\ s.entry = Effective(cfg)[s.u]
        /\ NeedsOne(s.entry) /\ s.gen = applies /\ \A t \in sups : t.u # s.u
  BY <1>0, Dev_Starts
<1>c. UDIDs(cfg) \subseteq Phone /\ cfg.enabled \in BOOLEAN
  BY Dev_Config
<1>d. \A s \in sups' : s.u \in DOMAIN Effective(cfg) /\ Effective(cfg)[s.u] = s.entry /\ NeedsOne(s.entry)
  BY <1>0, <1>a, <1>b DEF DevInv, DevWired
<1>1. DevApplying'
  BY <1>0, <1>c DEF DevInv, DevApplying
<1>2. DevOwned'
  BY <1>0, <1>b DEF DevInv, DevOwned
<1>3. DevApart'
  <2>1. Live' = sups'
    BY <1>0 DEF Live
  <2>2. ASSUME NEW s \in sups', NEW t \in sups', s.u = t.u PROVE s = t
    <3>1. CASE s \in sups /\ t \in sups
      BY <2>2, <3>1 DEF DevInv, DevApart, Live
    <3>2. CASE s \in StartSupervisors(cfg) /\ t \in StartSupervisors(cfg)
      <4>1. s.entry = t.entry /\ s.gen = t.gen /\ s \in Supervision /\ t \in Supervision
        BY <1>b, <2>2, <3>2
      <4> QED
        BY <4>1, <2>2 DEF Supervision
    <3>3. CASE (s \in sups /\ t \in StartSupervisors(cfg)) \/ (t \in sups /\ s \in StartSupervisors(cfg))
      BY <1>b, <2>2, <3>3
    <3> QED
      BY <1>0, <2>2, <3>1, <3>2, <3>3
  <2>3. ASSUME NEW s \in sups', NEW t \in sups', s.entry.forward = t.entry.forward, s.entry.forward # NoPort
        PROVE  s.u = t.u
    <3>1. Validate(cfg)
      BY <1>0 DEF DevInv, DevApplying
    <3> QED
      BY <1>d, <2>3, <3>1, Dev_Ports
  <2> QED
    BY <2>1, <2>2, <2>3 DEF DevApart
<1>4. DevWired'
  <2>1. Effective(cur)' = Effective(cfg) /\ EffectiveMirror(cur)' = EffectiveMirror(cfg)
    BY <1>0 DEF Effective, EffectiveMirror
  <2>2. ASSUME NEW u \in DOMAIN Effective(cfg), NeedsOne(Effective(cfg)[u]), ~ closed
        PROVE  \E s \in sups' : s.u = u
    <3>1. CASE ~ Unchanged(cfg, u)
      <4>1. [u |-> u, entry |-> Effective(cfg)[u], gen |-> applies] \in StartSupervisors(cfg)
        BY <2>2, <3>1 DEF StartSupervisors, NeedsOne
      <4> QED
        BY <4>1, <1>0
    <3>2. CASE Unchanged(cfg, u)
      <4>1. CASE \E s \in sups : s.u = u /\ s.entry = Effective(cfg)[u]
        BY <4>1, <1>0
      <4>2. CASE u \in DOMAIN wired /\ wired[u] = Effective(cfg)[u]
        <5>1. \A c \in applying : c = cfg
          BY <1>0 DEF DevInv, DevApplying
        <5>2. \E s \in sups : s.u = u
          BY <4>2, <5>1, <2>2 DEF DevInv, DevWired
        <5> QED
          BY <5>2, <1>0
      <4> QED
        BY <3>2, <4>1, <4>2 DEF Unchanged
    <3> QED
      BY <3>1, <3>2
  <2> QED
    BY <1>0, <1>d, <2>1, <2>2 DEF DevWired, NeedsOne
<1>5. DevPinned'
  BY <1>0, <1>c DEF DevInv, DevPinned
<1> QED
  BY <1>1, <1>2, <1>3, <1>4, <1>5 DEF DevInv

(* A step of the supervisions: the configuration stays. *)
LEMMA Dev_Quiet ==
  ASSUME DevInv, UNCHANGED <<cur, wired, wiredMirror, published, devicesOn, kinds, pinned,
                             applying, applies, sups, closed, route>>
  PROVE  DevApplying' /\ DevWired' /\ DevPinned'
<1>1. Effective(cur)' = Effective(cur) /\ EffectiveMirror(cur)' = EffectiveMirror(cur)
  BY DEF Effective, EffectiveMirror
<1>2. DevApplying'
  BY DEF DevInv, DevApplying, Validate, Forwards
<1>3. DevWired'
  BY <1>1 DEF DevInv, DevWired, NeedsOne, Effective
<1>4. DevPinned'
  BY DEF DevInv, DevPinned
<1> QED
  BY <1>2, <1>3, <1>4

LEMMA Dev_Expires == ASSUME DevInv, StopWaitExpires PROVE DevInv'
<1>0. PICK s \in dying \ undead : undead' = undead \cup {s}
  BY DEF StopWaitExpires
<1>1. UNCHANGED <<cur, wired, wiredMirror, published, devicesOn, kinds, pinned, applying, applies, sups, closed, route>>
      /\ UNCHANGED <<dying, children>>
  BY DEF StopWaitExpires, wiring
<1>2. DevOwned'
  BY <1>0, <1>1 DEF DevInv, DevOwned
<1>3. DevApart'
  BY <1>0, <1>1 DEF DevInv, DevApart, Live
<1> QED
  BY <1>1, <1>2, <1>3, Dev_Quiet DEF DevInv

LEMMA Dev_Close == ASSUME DevInv, Close PROVE DevInv'
<1>0. /\ UNCHANGED <<cur, wired, wiredMirror, published, devicesOn, kinds, pinned, applying, applies, children, undead, route>>
      /\ closed' = TRUE /\ sups' = {} /\ dying' = dying \cup sups
  BY DEF Close, wiring
<1>1. DevApplying'
  BY <1>0 DEF DevInv, DevApplying, Validate, Forwards
<1>2. DevOwned'
  BY <1>0 DEF DevInv, DevOwned
<1>3. DevApart'
  <2>1. Live' \subseteq Live
    BY <1>0 DEF Live
  <2> QED
    BY <2>1 DEF DevInv, DevApart
<1>4. DevWired'
  <2>1. Effective(cur)' = Effective(cur) /\ EffectiveMirror(cur)' = EffectiveMirror(cur)
    BY <1>0 DEF Effective, EffectiveMirror
  <2> QED
    BY <1>0, <2>1 DEF DevInv, DevWired
<1>5. DevPinned'
  BY <1>0 DEF DevInv, DevPinned
<1> QED
  BY <1>1, <1>2, <1>3, <1>4, <1>5 DEF DevInv

LEMMA Dev_Children ==
  ASSUME DevInv, ChildDies \/ \E s \in sups \cup dying : LaunchForward(s) \/ LaunchRunner(s)
  PROVE  DevInv'
<1>0. UNCHANGED <<cur, wired, wiredMirror, published, devicesOn, kinds, pinned, applying, applies, sups, closed, route>>
      /\ UNCHANGED <<dying, undead>>
  BY DEF ChildDies, LaunchForward, LaunchRunner, wiring
<1>1. DevOwned'
  <2>1. CASE ChildDies
    BY <1>0, <2>1 DEF ChildDies, DevInv, DevOwned
  <2>2. ASSUME NEW s \in sups \cup dying, LaunchForward(s) PROVE DevOwned'
    <3>1. PICK c : c = [kind |-> "forward", of |-> s]
      OBVIOUS
    <3>2. c \in [kind: {"forward", "runner"}, of: sups \cup dying] /\ c.of = s
      BY <3>1
    <3>3. children' \subseteq children \cup {c} /\ s.entry.forward # NoPort
      BY <2>2, <3>1 DEF LaunchForward
    <3> QED
      BY <1>0, <3>2, <3>3 DEF DevInv, DevOwned
  <2>3. ASSUME NEW s \in sups \cup dying, LaunchRunner(s) PROVE DevOwned'
    <3>1. PICK c : c = [kind |-> "runner", of |-> s]
      OBVIOUS
    <3>2. c \in [kind: {"forward", "runner"}, of: sups \cup dying] /\ c.kind # "forward"
      BY <3>1
    <3>3. children' = children \cup {c}
      BY <2>3, <3>1 DEF LaunchRunner
    <3> QED
      BY <1>0, <3>2, <3>3 DEF DevInv, DevOwned
  <2> QED
    BY <2>1, <2>2, <2>3
<1>2. DevApart'
  BY <1>0 DEF DevInv, DevApart, Live
<1> QED
  BY <1>0, <1>1, <1>2, Dev_Quiet DEF DevInv

LEMMA Dev_Gone == ASSUME DevInv, NEW s \in sups \cup dying, SupervisionGone(s) PROVE DevInv'
<1>0. /\ UNCHANGED <<cur, wired, wiredMirror, published, devicesOn, kinds, pinned, applying, applies, sups, closed, route>>
      /\ dying' = dying \ {s} /\ undead' = undead \ {s} /\ children' = {c \in children : c.of # s}
  BY DEF SupervisionGone, wiring
<1>1. DevOwned'
  <2>1. ASSUME NEW c \in children'
        PROVE  c \in [kind: {"forward", "runner"}, of: sups' \cup dying']
    <3>1. c \in [kind: {"forward", "runner"}, of: sups \cup dying] /\ c.of # s
      BY <1>0, <2>1 DEF DevInv, DevOwned
    <3> QED
      BY <1>0, <3>1
  <2>2. /\ sups' \subseteq Supervision /\ dying' \subseteq Supervision /\ undead' \subseteq dying'
        /\ \A c \in children' : c.kind = "forward" => c.of.entry.forward # NoPort
    BY <1>0 DEF DevInv, DevOwned
  <2> QED
    BY <2>1, <2>2 DEF DevOwned
<1>2. DevApart'
  <2>1. Live' \subseteq Live
    BY <1>0 DEF Live
  <2> QED
    BY <2>1 DEF DevInv, DevApart
<1> QED
  BY <1>0, <1>1, <1>2, Dev_Quiet DEF DevInv

(* The router: what a route step leaves alone. *)
LEMMA Dev_Routed ==
  ASSUME DevInv, UNCHANGED <<cur, wired, wiredMirror, published, devicesOn, pinned, sups, dying, children,
                             undead, applying, applies, closed>>,
         DevPinned'
  PROVE  DevInv'
<1>1. Effective(cur)' = Effective(cur) /\ EffectiveMirror(cur)' = EffectiveMirror(cur)
  BY DEF Effective, EffectiveMirror
<1>2. DevApplying'
  BY DEF DevInv, DevApplying, Validate, Forwards
<1>3. DevWired'
  BY <1>1 DEF DevInv, DevWired, NeedsOne, Effective
<1>4. DevOwned' /\ DevApart'
  BY DEF DevInv, DevOwned, DevApart, Live
<1> QED
  BY <1>2, <1>3, <1>4 DEF DevInv

LEMMA Dev_Cached == ASSUME DevInv, NEW u \in Phone, KindCached(u) PROVE DevInv'
<1>0. /\ UNCHANGED <<cur, wired, wiredMirror, published, devicesOn, kinds, pinned>>
      /\ UNCHANGED <<sups, dying, children, undead, applying, applies, closed>>
      /\ route' = [at |-> IF u \in kinds THEN "sent" ELSE "looked", udid |-> u,
                   known |-> u \in pinned, to |-> IF u \in kinds THEN "device" ELSE "none"]
  BY DEF KindCached, wiring, supervision
<1>a. PICK k : k = (u \in pinned)
  OBVIOUS
<1>1. k \in BOOLEAN /\ k = (u \in pinned)
  BY <1>a
<1>2. DevPinned'
  <2>1. CASE u \in kinds
    <3>1. route' = [at |-> "sent", udid |-> u, known |-> k, to |-> "device"]
      BY <1>0, <1>1, <2>1, Zenon
    <3> QED
      BY <1>0, <3>1 DEF DevInv, DevPinned, DevRoute
  <2>2. CASE u \notin kinds
    <3>1. route' = [at |-> "looked", udid |-> u, known |-> k, to |-> "none"]
      BY <1>0, <1>1, <2>2, Zenon
    <3>2. k = FALSE
      BY <1>1, <2>2 DEF DevInv, DevPinned
    <3> QED
      BY <1>0, <3>1, <3>2 DEF DevInv, DevPinned, DevRoute
  <2> QED
    BY <2>1, <2>2
<1> QED
  BY <1>0, <1>2, Dev_Routed

LEMMA Dev_Toggle == ASSUME DevInv, ToggleRead PROVE DevInv'
<1>0. /\ UNCHANGED <<cur, wired, wiredMirror, published, devicesOn, kinds, pinned>>
      /\ UNCHANGED <<sups, dying, children, undead, applying, applies, closed>>
      /\ route.at = "looked" /\ route \in DevRoute /\ route.udid \in Phone /\ ~ route.known
      /\ \/ route' = [route EXCEPT !.at = "enabled"]
         \/ route' = [route EXCEPT !.at = "sent", !.to = "simulator"]
  BY DEF ToggleRead, wiring, supervision, DevInv, DevPinned
<1>1. route' \in DevRoute /\ route'.udid \in Phone /\ ~ route'.known
  BY <1>0 DEF DevRoute
<1>2. DevPinned'
  BY <1>0, <1>1 DEF DevInv, DevPinned
<1> QED
  BY <1>0, <1>2, Dev_Routed

LEMMA Dev_Answers == ASSUME DevInv, RegistryAnswers PROVE DevInv'
<1>0. /\ UNCHANGED <<cur, wired, wiredMirror, published, devicesOn, pinned>>
      /\ UNCHANGED <<sups, dying, children, undead, applying, applies, closed>>
      /\ route.at = "enabled" /\ route \in DevRoute /\ route.udid \in Phone /\ ~ route.known
      /\ kinds' \in {kinds, kinds \cup {route.udid}}
      /\ \E to \in {"device", "simulator", "error"} : route' = [route EXCEPT !.at = "sent", !.to = to]
  BY DEF RegistryAnswers, supervision, DevInv, DevPinned
<1>1. route' \in DevRoute /\ route'.udid \in Phone /\ ~ route'.known
  BY <1>0 DEF DevRoute
<1>2. DevPinned'
  BY <1>0, <1>1 DEF DevInv, DevPinned
<1> QED
  BY <1>0, <1>2, Dev_Routed

LEMMA Dev_Dispatched == ASSUME DevInv, Dispatched PROVE DevInv'
<1>0. /\ UNCHANGED <<cur, wired, wiredMirror, published, devicesOn, kinds, pinned>>
      /\ UNCHANGED <<sups, dying, children, undead, applying, applies, closed>>
      /\ route' = NoRoute
  BY DEF Dispatched, wiring, supervision
<1>1. DevPinned'
  BY <1>0 DEF DevInv, DevPinned, NoRoute, DevRoute
<1> QED
  BY <1>0, <1>1, Dev_Routed

LEMMA DevMoves == ASSUME DevInv, [DevNext]_devVars PROVE DevInv'
<1>1. CASE UNCHANGED devVars
  <2>1. UNCHANGED <<cur, wired, wiredMirror, published, devicesOn, pinned, sups, dying, children, undead, applying, applies, closed>>
        /\ UNCHANGED <<kinds, route>>
    BY <1>1 DEF devVars
  <2> QED
    BY <2>1, Dev_Routed DEF DevInv, DevPinned
<1>2. CASE DevNext
  BY <1>2, Dev_Apply, Dev_Stops, Dev_Converge, Dev_Expires, Dev_Close, Dev_Children, Dev_Gone, Dev_Cached,
     Dev_Toggle, Dev_Answers, Dev_Dispatched DEF DevNext
<1> QED
  BY <1>1, <1>2

LEMMA Dev_Type == ASSUME DevInv PROVE DevTypeOK
<1> USE DevicesAssumption
<1>1. Cardinality(applying) <= 1
  <2>1. CASE applying = {}
    BY <2>1, FS_EmptySet
  <2>2. CASE applying # {}
    <3>1. PICK a \in applying : TRUE
      BY <2>2
    <3>2. applying = {a}
      BY <3>1 DEF DevInv, DevApplying
    <3>3. Cardinality(applying) = 1
      BY <3>2, FS_Singleton
    <3> QED
      BY <3>3
  <2> QED
    BY <2>1, <2>2
<1>2. (\A u \in DOMAIN wired : u \in Phone) /\ wiredMirror \subseteq Phone /\ published \subseteq Phone
  BY Dev_Config DEF DevInv, DevApplying, DevWired
<1>3. /\ cur \in DevConfigs \cup {NoConfig} /\ applying \subseteq DevConfigs
      /\ {devicesOn, closed} \subseteq BOOLEAN /\ applies \in 0..MaxApplies
  BY DEF DevInv, DevApplying
<1>4. /\ sups \subseteq Supervision /\ dying \subseteq Supervision /\ undead \subseteq Supervision
      /\ \A c \in children : c.kind \in {"forward", "runner"} /\ c.of \in Supervision
  BY DEF DevInv, DevOwned
<1>5. kinds \subseteq Phone /\ pinned \subseteq Phone /\ route.at \in {"none", "looked", "enabled", "sent"}
  BY DEF DevInv, DevPinned, DevRoute
<1> QED
  BY <1>1, <1>2, <1>3, <1>4, <1>5 DEF DevTypeOK

LEMMA Dev_Safe == ASSUME DevInv PROVE DevSafe
<1>1. \A c \in children : /\ c \in [kind: {"forward", "runner"}, of: sups \cup dying]
                          /\ c.of \notin undead => c.of \in Live
                          /\ c.kind = "forward" => c.of.entry.forward # NoPort
  BY DEF DevInv, DevOwned, Live
<1>2. DevNoRace
  <2> SUFFICES ASSUME NEW c \in children, NEW d \in children, {c.of, d.of} \cap undead = {}, c # d, c.kind = d.kind
               PROVE  c.of.u # d.of.u /\ (c.kind = "forward" => c.of.entry.forward # d.of.entry.forward)
    BY DEF DevNoRace
  <2>1. c.of \in Live /\ d.of \in Live
    BY <1>1
  <2>2. c.of # d.of
    BY <1>1
  <2> QED
    BY <1>1, <2>1, <2>2 DEF DevInv, DevApart
<1>3. DevOwnPort
  <2> SUFFICES ASSUME NEW s \in sups, NEW c \in children, c.kind = "forward",
                      c.of.entry.forward = s.entry.forward, c.of \notin undead
               PROVE  c.of = s
    BY DEF DevOwnPort
  <2>1. c.of \in Live /\ s \in Live
    BY <1>1 DEF Live
  <2> QED
    BY <1>1, <2>1 DEF DevInv, DevApart
<1>4. DevConverged
  <2> SUFFICES ASSUME applying = {}, ~ closed
               PROVE  /\ wired = Effective(cur) /\ published = EffectiveMirror(cur)
                      /\ wiredMirror = published /\ devicesOn = cur.enabled
                      /\ \A u \in Phone :
                           Cardinality({s \in sups : s.u = u}) =
                             IF u \in DOMAIN Effective(cur) /\ (Effective(cur)[u].launch
                                                                \/ Effective(cur)[u].forward # NoPort)
                             THEN 1 ELSE 0
                      /\ \A s \in sups : s.entry = Effective(cur)[s.u]
    BY Zenon DEF DevConverged
  <2>1. /\ wired = Effective(cur) /\ published = EffectiveMirror(cur)
        /\ wiredMirror = published /\ devicesOn = cur.enabled
        /\ \A s \in sups : s.entry = Effective(cur)[s.u]
    BY DEF DevInv, DevWired
  <2>2. ASSUME NEW u \in Phone
        PROVE  Cardinality({s \in sups : s.u = u}) =
                 IF u \in DOMAIN Effective(cur) /\ (Effective(cur)[u].launch \/ Effective(cur)[u].forward # NoPort)
                 THEN 1 ELSE 0
    <3>1. CASE u \in DOMAIN Effective(cur) /\ (Effective(cur)[u].launch \/ Effective(cur)[u].forward # NoPort)
      <4>1. \E s \in sups : s.u = u
        BY <3>1, <2>1 DEF DevInv, DevWired, NeedsOne
      <4>2. PICK s \in sups : s.u = u
        BY <4>1
      <4>3. \A t \in sups : t.u = u => t = s
        BY <4>2 DEF DevInv, DevApart, Live
      <4>4. {t \in sups : t.u = u} = {s}
        BY <4>2, <4>3
      <4> QED
        BY <3>1, <4>4, FS_Singleton
    <3>2. CASE ~ (u \in DOMAIN Effective(cur) /\ (Effective(cur)[u].launch \/ Effective(cur)[u].forward # NoPort))
      <4>1. {t \in sups : t.u = u} = {}
        BY <3>2, <2>1 DEF DevInv, DevWired, NeedsOne
      <4> QED
        BY <3>2, <4>1, FS_EmptySet
    <3> QED
      BY <3>1, <3>2
  <2> QED
    BY <2>1, <2>2
<1>5. DevNeverSim
  BY DEF DevInv, DevPinned, DevNeverSim
<1> QED
  BY <1>2, <1>3, <1>4, <1>5 DEF DevSafe

-----------------------------------------------------------------------------
(* The registry.                                                           *)

(* One probe runs at a time, under the lock that a new configuration needs *)
(* too; what it caches is of the configured socket.                        *)
RegLocked ==
  /\ probing.socket = NoSocket => probing = NoProbe
  /\ probing.socket # NoSocket => probing.socket = mirrorSocket
  /\ cache # NoStatus => cache.socket = mirrorSocket

(* Blocked was reported: the screen is still blocked and, unless a full    *)
(* probe failed since, the probe remembers it, so that no light one runs.  *)
RegRemembers ==
  /\ reported => screen = "blocked" /\ mirrorSocket \in Socket
  /\ reported /\ ~ missed =>
       /\ probeMem[mirrorSocket].blocked
       /\ probing.socket # NoSocket => probing.full
  /\ flicker => missed

RegInv == RegTypeOK /\ RegLocked /\ RegRemembers

(* What each registry has to say. *)
SimThere == simctl.ok /\ simctl.lists # "none"
PhoneThere == devicectl.ok /\ devicectl.lists # "none"
SimTarget == [udid |-> "sim", kind |-> "simulator", state |-> simctl.lists, labels |-> {"simulator"}]
PhoneTarget ==
  IF devicectl.lists = "connected"
  THEN [udid |-> "phone", kind |-> "device", state |-> "Booted", labels |-> {"device"}]
  ELSE [udid |-> "phone", kind |-> "device", state |-> "Unknown", labels |-> {"device", "disconnected"}]
(* A phone both tools know. *)
BothTarget(st) == OverlayTarget(PhoneTarget, MirrorTarget(st))
PhoneEntry(st) ==
  IF PhoneThere /\ mirrorSocket # NoSocket THEN BothTarget(st)
  ELSE IF PhoneThere THEN PhoneTarget ELSE MirrorTarget(st)

LEMMA RegStarts == ASSUME RegInit PROVE RegInv
<1> USE RegistryAssumption
<1>1. RegTypeOK
  <2>1. simctl \in Says({"none", "Booted", "Shutdown"}) /\ devicectl \in Says({"none", "connected", "tunnel down"})
    BY DEF RegInit, Says
  <2>2. NoStatus \in [socket: Socket \cup {NoSocket}, status: Statuses]
    BY DEF NoStatus, Statuses, Screens
  <2>3. NoProbe \in [socket: Socket \cup {NoSocket}, full: BOOLEAN]
    BY DEF NoProbe
  <2>4. [s \in Socket |-> Fresh] \in [Socket -> [blocked: BOOLEAN, recent: BOOLEAN, refused: BOOLEAN]]
    BY DEF Fresh
  <2> QED
    BY <2>1, <2>2, <2>3, <2>4 DEF RegInit, RegTypeOK
<1>2. RegLocked
  BY DEF RegInit, RegLocked, NoProbe
<1>3. RegRemembers
  BY DEF RegInit, RegRemembers
<1> QED
  BY <1>1, <1>2, <1>3 DEF RegInv

LEMMA Reg_Host ==
  ASSUME RegInv, RegHostChanges \/ SetEnabled PROVE RegInv'
<1>1. UNCHANGED <<mirrorSocket, screen, helperUp, knowsLight, cache, probing, probeMem, reported, missed, flicker>>
  BY DEF RegHostChanges, SetEnabled, mirrorWorld, reports
<1>2. /\ simctl' \in Says({"none", "Booted", "Shutdown"})
      /\ devicectl' \in Says({"none", "connected", "tunnel down"}) /\ extrasOn' \in BOOLEAN
  BY DEF RegInv, RegTypeOK, RegHostChanges, SetEnabled
<1> QED
  BY <1>1, <1>2 DEF RegInv, RegTypeOK, RegLocked, RegRemembers

(* A step of the mirror registry leaves the enumeration alone. *)
LEMMA Reg_Mirror ==
  ASSUME RegInv, UNCHANGED enumeration,
         {knowsLight', reported', missed', flicker'} \subseteq BOOLEAN,
         mirrorSocket' \in Socket \cup {NoSocket}, screen' \in Screens, helperUp' \subseteq Socket,
         cache' \in [socket: Socket \cup {NoSocket}, status: Statuses],
         probing' \in [socket: Socket \cup {NoSocket}, full: BOOLEAN],
         probeMem' \in [Socket -> [blocked: BOOLEAN, recent: BOOLEAN, refused: BOOLEAN]]
  PROVE  RegTypeOK'
BY DEF RegInv, RegTypeOK, enumeration

LEMMA Reg_Screen == ASSUME RegInv, PhoneScreenChanges \/ HelperChanges PROVE RegInv'
<1>1. RegTypeOK'
  BY Reg_Mirror DEF RegInv, RegTypeOK, PhoneScreenChanges, HelperChanges, reports, mirrorWorld
<1>2. UNCHANGED <<mirrorSocket, cache, probing, probeMem>>
  BY DEF PhoneScreenChanges, HelperChanges
<1>3. (~ reported' /\ ~ flicker') \/ UNCHANGED <<screen, reported, missed, flicker>>
  BY DEF PhoneScreenChanges, HelperChanges, reports
<1> QED
  BY <1>1, <1>2, <1>3 DEF RegInv, RegLocked, RegRemembers

LEMMA Reg_Set ==
  ASSUME RegInv, NEW s \in Socket \cup {NoSocket}, SetMirrors(s) PROVE RegInv'
<1> USE RegistryAssumption
<1>0. NoStatus \in [socket: Socket \cup {NoSocket}, status: Statuses]
  BY DEF NoStatus, Statuses, Screens
<1>1. RegTypeOK'
  <2>1. cache' \in [socket: Socket \cup {NoSocket}, status: Statuses]
    BY <1>0 DEF SetMirrors, RegInv, RegTypeOK
  <2>2. {reported', missed', flicker'} \subseteq BOOLEAN
    BY DEF SetMirrors, RegInv, RegTypeOK, reports
  <2>3. UNCHANGED enumeration /\ UNCHANGED <<screen, helperUp, knowsLight, probing, probeMem>> /\ mirrorSocket' = s
    BY DEF SetMirrors, mirrorWorld
  <2> QED
    BY <2>1, <2>2, <2>3, Reg_Mirror DEF RegInv, RegTypeOK
<1>2. RegLocked'
  BY DEF SetMirrors, RegInv, RegLocked, NoProbe
<1>3. RegRemembers'
  <2>1. UNCHANGED <<screen, probing, probeMem>> /\ mirrorSocket' = s /\ probing.socket = NoSocket
    BY DEF SetMirrors, mirrorWorld, NoProbe
  <2>2. (s = mirrorSocket /\ UNCHANGED <<reported, missed, flicker>>) \/ (~ reported' /\ ~ flicker')
    BY DEF SetMirrors, reports
  <2> QED
    BY <2>1, <2>2 DEF RegInv, RegRemembers
<1> QED
  BY <1>1, <1>2, <1>3 DEF RegInv

LEMMA Reg_Expires ==
  ASSUME RegInv, EntryExpires \/ \E s \in Socket : IntervalPasses(s) \/ StatusFor(s) PROVE RegInv'
<1> USE RegistryAssumption
<1>0. NoStatus \in [socket: Socket \cup {NoSocket}, status: Statuses]
  BY DEF NoStatus, Statuses, Screens
<1>1. CASE EntryExpires
  <2>1. /\ UNCHANGED enumeration /\ cache' = NoStatus
        /\ UNCHANGED <<mirrorSocket, screen, helperUp, knowsLight, probing, probeMem, reported, missed, flicker>>
    BY <1>1 DEF EntryExpires, mirrorWorld, reports
  <2>2. RegTypeOK'
    BY <2>1, <1>0, Reg_Mirror DEF RegInv, RegTypeOK
  <2> QED
    BY <2>1, <2>2 DEF RegInv, RegLocked, RegRemembers
<1>2. ASSUME NEW s \in Socket, IntervalPasses(s) PROVE RegInv'
  <2>1. /\ UNCHANGED enumeration
        /\ UNCHANGED <<mirrorSocket, screen, helperUp, knowsLight, cache, probing, reported, missed, flicker>>
    BY <1>2 DEF IntervalPasses, mirrorWorld, reports
  <2>0. probeMem \in [Socket -> [blocked: BOOLEAN, recent: BOOLEAN, refused: BOOLEAN]]
    BY DEF RegInv, RegTypeOK
  <2>4. PICK q \in [blocked: BOOLEAN, recent: BOOLEAN, refused: BOOLEAN] : q = probeMem[s]
    BY <2>0
  <2> DEFINE r == [q EXCEPT !.recent = FALSE, !.refused = FALSE]
  <2>5. r \in [blocked: BOOLEAN, recent: BOOLEAN, refused: BOOLEAN] /\ r.blocked = q.blocked
    <3>1. PICK m : m = [q EXCEPT !.recent = FALSE]
      OBVIOUS
    <3>2. m \in [blocked: BOOLEAN, recent: BOOLEAN, refused: BOOLEAN] /\ m.blocked = q.blocked
      BY <3>1
    <3>3. r = [m EXCEPT !.refused = FALSE]
      BY <3>1
    <3> QED
      BY <3>2, <3>3
  <2>6. probeMem' = [probeMem EXCEPT ![s] = r]
    BY <1>2, <2>4, Zenon DEF IntervalPasses
  <2> HIDE DEF r
  <2>2. /\ probeMem' \in [Socket -> [blocked: BOOLEAN, recent: BOOLEAN, refused: BOOLEAN]]
        /\ \A x \in Socket : probeMem'[x].blocked = probeMem[x].blocked
    BY <2>0, <2>4, <2>5, <2>6
  <2>3. RegTypeOK'
    BY <2>1, <2>2, Reg_Mirror DEF RegInv, RegTypeOK
  <2> QED
    BY <2>1, <2>2, <2>3 DEF RegInv, RegLocked, RegRemembers
<1>3. ASSUME NEW s \in Socket, StatusFor(s) PROVE RegInv'
  <2>1. /\ UNCHANGED enumeration /\ mirrorSocket = s
        /\ UNCHANGED <<mirrorSocket, screen, helperUp, knowsLight, cache, probeMem, reported, missed, flicker>>
    BY <1>3 DEF StatusFor, mirrorWorld, reports
  <2>2. probeMem[s] \in [blocked: BOOLEAN, recent: BOOLEAN, refused: BOOLEAN]
    BY DEF RegInv, RegTypeOK
  <2>3. PICK f \in BOOLEAN : f = ~ Light(s)
    BY Zenon DEF Light
  <2>4. probing' = [socket |-> s, full |-> f]
    BY <1>3, <2>3, Zenon DEF StatusFor
  <2>5. probing' \in [socket: Socket \cup {NoSocket}, full: BOOLEAN] /\ probing'.socket = s /\ probing'.full = f
    BY <2>4
  <2>6. probeMem[s].blocked => f
    BY <2>2, <2>3 DEF Light
  <2>7. RegTypeOK'
    BY <2>1, <2>5, Reg_Mirror DEF RegInv, RegTypeOK
  <2>8. RegLocked'
    BY <2>1, <2>5 DEF RegInv, RegLocked
  <2>9. RegRemembers'
    BY <2>1, <2>5, <2>6 DEF RegInv, RegRemembers
  <2> QED
    BY <2>7, <2>8, <2>9 DEF RegInv
<1> QED
  BY <1>1, <1>2, <1>3

(* A report is of the configured socket, and ends the probe. *)
LEMMA Reg_Report ==
  ASSUME RegInv, probing.socket \in Socket, NEW st \in Statuses, Report(st)
  PROVE  /\ cache' \in [socket: Socket \cup {NoSocket}, status: Statuses] /\ cache'.socket = mirrorSocket
         /\ probing' = NoProbe /\ probing' \in [socket: Socket \cup {NoSocket}, full: BOOLEAN]
         /\ probing'.socket = NoSocket
         /\ {reported', flicker'} \subseteq BOOLEAN
         /\ st # "blocked" => reported' = reported
         /\ st # "ready" => flicker' = flicker
         /\ ~ reported => flicker' = flicker
         /\ flicker' => flicker \/ reported
<1> USE RegistryAssumption
<1>1. probing.socket = mirrorSocket /\ {reported, flicker} \subseteq BOOLEAN
  BY DEF RegInv, RegTypeOK, RegLocked
<1>2. cache' = [socket |-> probing.socket, status |-> st] /\ probing' = NoProbe
  BY DEF Report
<1>3. reported' = (reported \/ st = "blocked") /\ flicker' = (flicker \/ (reported /\ st = "ready"))
  BY DEF Report
<1> QED
  BY <1>1, <1>2, <1>3 DEF NoProbe

LEMMA Reg_FullDone ==
  ASSUME RegInv, probing.socket \in Socket, NEW b \in BOOLEAN, FullDone(b)
  PROVE  /\ probeMem' \in [Socket -> [blocked: BOOLEAN, recent: BOOLEAN, refused: BOOLEAN]]
         /\ probing.socket = mirrorSocket /\ probeMem'[mirrorSocket].blocked = b
<1>1. probing.socket = mirrorSocket
  BY RegistryAssumption DEF RegInv, RegLocked
<1>2. probeMem' = [probeMem EXCEPT ![probing.socket].recent = TRUE, ![probing.socket].blocked = b]
  BY DEF FullDone
<1> QED
  BY <1>1, <1>2 DEF RegInv, RegTypeOK

LEMMA Reg_Full == ASSUME RegInv, FullStatus PROVE RegInv'
<1> USE RegistryAssumption
<1>0. /\ probing.socket \in Socket /\ probing.full /\ UNCHANGED enumeration
      /\ UNCHANGED <<mirrorSocket, screen, helperUp, knowsLight>> /\ mirrorSocket = probing.socket
      /\ screen \in Screens /\ "error" \in Statuses /\ screen \in Statuses /\ {missed, reported, flicker} \subseteq BOOLEAN
  BY DEF FullStatus, mirrorWorld, RegInv, RegTypeOK, RegLocked, Statuses
<1>1. CASE Report(screen) /\ FullDone(screen = "blocked") /\ UNCHANGED missed
  <2>0. PICK b \in BOOLEAN : b = (screen = "blocked")
    BY Zenon
  <2>1. /\ probeMem' \in [Socket -> [blocked: BOOLEAN, recent: BOOLEAN, refused: BOOLEAN]]
        /\ probeMem'[mirrorSocket].blocked = b
    BY <1>0, <1>1, <2>0, Reg_FullDone
  <2>2. /\ cache' \in [socket: Socket \cup {NoSocket}, status: Statuses] /\ cache'.socket = mirrorSocket
        /\ probing' = NoProbe /\ probing' \in [socket: Socket \cup {NoSocket}, full: BOOLEAN]
        /\ probing'.socket = NoSocket
        /\ {reported', flicker'} \subseteq BOOLEAN
        /\ screen # "blocked" => reported' = reported
        /\ screen # "ready" => flicker' = flicker
        /\ ~ reported => flicker' = flicker
    BY <1>0, <1>1, Reg_Report
  <2>3. RegTypeOK'
    BY <1>0, <1>1, <2>1, <2>2, Reg_Mirror DEF RegInv, RegTypeOK
  <2>4. RegLocked'
    BY <1>0, <2>2 DEF RegLocked
  <2>5. RegRemembers'
    BY <1>0, <1>1, <2>0, <2>1, <2>2 DEF RegInv, RegRemembers
  <2> QED
    BY <2>3, <2>4, <2>5 DEF RegInv
<1>2. CASE Report("error") /\ FullDone(FALSE) /\ missed' = TRUE
  <2>1. probeMem' \in [Socket -> [blocked: BOOLEAN, recent: BOOLEAN, refused: BOOLEAN]]
    BY <1>0, <1>2, Reg_FullDone
  <2>2. /\ cache' \in [socket: Socket \cup {NoSocket}, status: Statuses] /\ cache'.socket = mirrorSocket
        /\ probing' = NoProbe /\ probing' \in [socket: Socket \cup {NoSocket}, full: BOOLEAN]
        /\ probing'.socket = NoSocket
        /\ {reported', flicker'} \subseteq BOOLEAN /\ reported' = reported
    BY <1>0, <1>2, Reg_Report
  <2>3. RegTypeOK'
    BY <1>0, <1>2, <2>1, <2>2, Reg_Mirror DEF RegInv, RegTypeOK
  <2>4. RegLocked'
    BY <1>0, <2>2 DEF RegLocked
  <2>5. RegRemembers'
    BY <1>0, <1>2, <2>2 DEF RegInv, RegRemembers
  <2> QED
    BY <2>3, <2>4, <2>5 DEF RegInv
<1> QED
  BY <1>1, <1>2 DEF FullStatus

LEMMA Reg_Light == ASSUME RegInv, LightStatus PROVE RegInv'
<1> USE RegistryAssumption
<1>0. /\ probing.socket \in Socket /\ ~ probing.full /\ UNCHANGED enumeration
      /\ UNCHANGED <<mirrorSocket, screen, helperUp, knowsLight>> /\ mirrorSocket = probing.socket
      /\ screen \in Screens /\ "error" \in Statuses /\ {missed, reported, flicker} \subseteq BOOLEAN
  BY DEF LightStatus, mirrorWorld, RegInv, RegTypeOK, RegLocked, Statuses
<1>1. ASSUME NEW st \in Statuses, st # "blocked", Report(st), UNCHANGED <<missed, probeMem>>
      PROVE  RegInv'
  <2>2. /\ cache' \in [socket: Socket \cup {NoSocket}, status: Statuses] /\ cache'.socket = mirrorSocket
        /\ probing' = NoProbe /\ probing' \in [socket: Socket \cup {NoSocket}, full: BOOLEAN]
        /\ probing'.socket = NoSocket
        /\ {reported', flicker'} \subseteq BOOLEAN /\ reported' = reported
        /\ flicker' => flicker \/ reported
    BY <1>0, <1>1, Reg_Report
  <2>3. RegTypeOK'
    BY <1>0, <1>1, <2>2, Reg_Mirror DEF RegInv, RegTypeOK
  <2>4. RegLocked'
    BY <1>0, <2>2 DEF RegLocked
  <2>5. RegRemembers'
    BY <1>0, <1>1, <2>2 DEF RegInv, RegRemembers
  <2> QED
    BY <2>3, <2>4, <2>5 DEF RegInv
<1>2. PICK st : st = IF screen = "blocked" THEN "ready" ELSE screen
  OBVIOUS
<1>3. st \in Statuses /\ st # "blocked"
  BY <1>0, <1>2 DEF Statuses, Screens
<1>4. CASE Report(st) /\ UNCHANGED <<missed, probeMem>>
  BY <1>1, <1>3, <1>4
<1>5. CASE Report("error") /\ UNCHANGED <<missed, probeMem>>
  BY <1>0, <1>1, <1>5
<1>6. CASE /\ probing' = [probing EXCEPT !.full = TRUE]
           /\ probeMem' = [probeMem EXCEPT ![probing.socket].refused = TRUE]
           /\ UNCHANGED <<cache, reports>>
  <2>1. /\ probing' \in [socket: Socket \cup {NoSocket}, full: BOOLEAN]
        /\ probing'.socket = mirrorSocket /\ probing'.full
    BY <1>0, <1>6 DEF RegInv, RegTypeOK
  <2>2. /\ probeMem' \in [Socket -> [blocked: BOOLEAN, recent: BOOLEAN, refused: BOOLEAN]]
        /\ \A x \in Socket : probeMem'[x].blocked = probeMem[x].blocked
    BY <1>0, <1>6 DEF RegInv, RegTypeOK
  <2>3. UNCHANGED <<cache, reported, missed, flicker>>
    BY <1>6 DEF reports
  <2>4. RegTypeOK'
    BY <1>0, <2>1, <2>2, <2>3, Reg_Mirror DEF RegInv, RegTypeOK
  <2>5. RegLocked'
    BY <1>0, <2>1, <2>3 DEF RegInv, RegLocked
  <2>6. RegRemembers'
    BY <1>0, <2>1, <2>2, <2>3 DEF RegInv, RegRemembers
  <2> QED
    BY <2>4, <2>5, <2>6 DEF RegInv
<1> QED
  BY <1>2, <1>4, <1>5, <1>6, Zenon DEF LightStatus

LEMMA Reg_Abandoned == ASSUME RegInv, ProbeAbandoned PROVE RegInv'
<1> USE RegistryAssumption
<1>0. /\ UNCHANGED enumeration /\ probing # NoProbe /\ probing' = NoProbe
      /\ UNCHANGED <<mirrorSocket, screen, helperUp, knowsLight, cache, reported, flicker>>
  BY DEF ProbeAbandoned, mirrorWorld
<1>1. /\ probing.socket \in Socket /\ missed \in BOOLEAN
      /\ probing' \in [socket: Socket \cup {NoSocket}, full: BOOLEAN] /\ probing'.socket = NoSocket
  BY <1>0 DEF RegInv, RegTypeOK, RegLocked, NoProbe
<1>2. \/ FullDone(FALSE) /\ missed' = TRUE
      \/ UNCHANGED <<probeMem, missed>>
  BY DEF ProbeAbandoned
<1>3. probeMem' \in [Socket -> [blocked: BOOLEAN, recent: BOOLEAN, refused: BOOLEAN]]
  BY <1>1, <1>2, Reg_FullDone DEF RegInv, RegTypeOK
<1>4. RegTypeOK'
  BY <1>0, <1>1, <1>2, <1>3, Reg_Mirror DEF RegInv, RegTypeOK
<1>5. RegLocked'
  BY <1>0, <1>1 DEF RegInv, RegLocked
<1>6. RegRemembers'
  BY <1>0, <1>1, <1>2 DEF RegInv, RegRemembers
<1> QED
  BY <1>4, <1>5, <1>6 DEF RegInv

LEMMA RegMoves == ASSUME RegInv, [RegNext]_regVars PROVE RegInv'
<1>1. CASE UNCHANGED regVars
  BY <1>1 DEF regVars, RegInv, RegTypeOK, RegLocked, RegRemembers
<1>2. CASE RegNext
  BY <1>2, Reg_Host, Reg_Screen, Reg_Set, Reg_Expires, Reg_Full, Reg_Light, Reg_Abandoned DEF RegNext
<1> QED
  BY <1>1, <1>2

(* Each registry's entries of a UDID. *)
LEMMA Reg_Asks ==
  ASSUME NEW st
  PROVE  /\ extrasOn => /\ DOMAIN Asks(st) = {1, 2, 3} /\ Fallible = {1, 2}
                        /\ Asks(st)[1] = SimctlList /\ Asks(st)[2] = DevicectlList
                        /\ Asks(st)[3] = MirrorList(st)
         /\ ~ extrasOn => DOMAIN Asks(st) = {1} /\ Fallible = {1} /\ Asks(st)[1] = SimctlList
  BY DEF Asks, Fallible

LEMMA Reg_Lists ==
  ASSUME NEW st
  PROVE  /\ SimctlList.ok = simctl.ok /\ DevicectlList.ok = devicectl.ok /\ MirrorList(st).ok
         /\ SimctlList.targets = IF SimThere THEN {SimTarget} ELSE {}
         /\ DevicectlList.targets = IF PhoneThere THEN {PhoneTarget} ELSE {}
         /\ MirrorList(st).targets = IF mirrorSocket = NoSocket THEN {} ELSE {MirrorTarget(st)}
         /\ SimTarget.udid = "sim" /\ SimTarget.kind = "simulator"
         /\ PhoneTarget.udid = "phone" /\ PhoneTarget.kind = "device"
         /\ MirrorTarget(st).udid = "phone" /\ MirrorTarget(st).kind = "device"
<1>1. SimctlList.ok = simctl.ok /\ SimctlList.targets = IF SimThere THEN {SimTarget} ELSE {}
  BY Zenon DEF SimctlList, SimThere, SimTarget
<1>2. DevicectlList.ok = devicectl.ok
  BY Zenon DEF DevicectlList
<1>3. DevicectlList.targets = IF PhoneThere THEN {PhoneTarget} ELSE {}
  BY DEF DevicectlList, PhoneThere, PhoneTarget
<1>4. MirrorList(st).ok /\ MirrorList(st).targets = IF mirrorSocket = NoSocket THEN {} ELSE {MirrorTarget(st)}
  BY Zenon DEF MirrorList
<1> QED
  BY <1>1, <1>2, <1>3, <1>4 DEF SimTarget, PhoneTarget, MirrorTarget

LEMMA Reg_Entries ==
  ASSUME NEW st, extrasOn \in BOOLEAN
  PROVE  /\ \A e : e \in Entries(st, "sim") <=> SimThere /\ e = <<1, SimTarget>>
         /\ \A e : e \in Entries(st, "phone") <=>
              /\ extrasOn
              /\ \/ PhoneThere /\ e = <<2, PhoneTarget>>
                 \/ mirrorSocket # NoSocket /\ e = <<3, MirrorTarget(st)>>
<1>1. PICK A : A = Asks(st)
  OBVIOUS
<1>2. ASSUME NEW u PROVE \A e : e \in Entries(st, u) <=>
        \E i \in DOMAIN A : \E t \in A[i].targets : t.udid = u /\ e = <<i, t>>
  BY <1>1 DEF Entries
<1>3. ASSUME NEW i, NEW t
      PROVE  i \in DOMAIN A /\ t \in A[i].targets <=>
               \/ i = 1 /\ SimThere /\ t = SimTarget
               \/ extrasOn /\ i = 2 /\ PhoneThere /\ t = PhoneTarget
               \/ extrasOn /\ i = 3 /\ mirrorSocket # NoSocket /\ t = MirrorTarget(st)
  <2>1. /\ t \in SimctlList.targets <=> SimThere /\ t = SimTarget
        /\ t \in DevicectlList.targets <=> PhoneThere /\ t = PhoneTarget
        /\ t \in MirrorList(st).targets <=> mirrorSocket # NoSocket /\ t = MirrorTarget(st)
    <3>1. /\ SimctlList.targets = IF SimThere THEN {SimTarget} ELSE {}
          /\ DevicectlList.targets = IF PhoneThere THEN {PhoneTarget} ELSE {}
          /\ MirrorList(st).targets = IF mirrorSocket = NoSocket THEN {} ELSE {MirrorTarget(st)}
      BY Reg_Lists
    <3> QED
      BY <3>1
  <2>2. CASE extrasOn
    <3>1. DOMAIN A = {1, 2, 3} /\ A[1] = SimctlList /\ A[2] = DevicectlList /\ A[3] = MirrorList(st)
      BY <1>1, <2>2, Reg_Asks
    <3> QED
      BY <2>1, <2>2, <3>1
  <2>3. CASE ~ extrasOn
    <3>1. DOMAIN A = {1} /\ A[1] = SimctlList
      BY <1>1, <2>3, Reg_Asks
    <3> QED
      BY <2>1, <2>3, <3>1
  <2> QED
    BY <2>2, <2>3
<1>4. SimTarget.udid = "sim" /\ PhoneTarget.udid = "phone" /\ MirrorTarget(st).udid = "phone"
  BY Reg_Lists
<1>5. ASSUME NEW e PROVE e \in Entries(st, "sim") <=> SimThere /\ e = <<1, SimTarget>>
  BY <1>2, <1>3, <1>4
<1>6. ASSUME NEW e
      PROVE  e \in Entries(st, "phone") <=>
               /\ extrasOn
               /\ \/ PhoneThere /\ e = <<2, PhoneTarget>>
                  \/ mirrorSocket # NoSocket /\ e = <<3, MirrorTarget(st)>>
  BY <1>2, <1>3, <1>4
<1> QED
  BY <1>5, <1>6

(* What a set of one, or of two ordered, entries chooses. *)
LEMMA Reg_One ==
  ASSUME NEW es, NEW i \in Nat, NEW t, \A e : e \in es <=> e = <<i, t>>
  PROVE  /\ (CHOOSE e \in es : \A f \in es : e[1] <= f[1]) = <<i, t>>
         /\ es \ {<<i, t>>} = {} /\ es # {}
         /\ {e \in es : e[1] > i} = {}
<1>1. es = {<<i, t>>}
  OBVIOUS
<1>2. \A e \in es : e = <<i, t>>
  BY <1>1
<1>3. (CHOOSE e \in es : \A f \in es : e[1] <= f[1]) \in es
  <2>1. \E e \in es : \A f \in es : e[1] <= f[1]
    BY <1>1
  <2> QED
    BY <2>1
<1> QED
  BY <1>1, <1>2, <1>3

LEMMA Reg_Two ==
  ASSUME NEW es, NEW a, NEW b, \A e : e \in es <=> e = <<2, a>> \/ e = <<3, b>>
  PROVE  /\ (CHOOSE e \in es : \A f \in es : e[1] <= f[1]) = <<2, a>>
         /\ es \ {<<2, a>>} = {<<3, b>>} /\ es # {}
         /\ {e \in es : e[1] > 2} = {<<3, b>>}
<1>1. es = {<<2, a>>, <<3, b>>}
  OBVIOUS
<1>2. \E e \in es : \A f \in es : e[1] <= f[1]
  BY <1>1
<1>3. PICK c : c = CHOOSE e \in es : \A f \in es : e[1] <= f[1]
  OBVIOUS
<1>4. c \in es /\ \A f \in es : c[1] <= f[1]
  BY <1>2, <1>3
<1>5. c = <<2, a>>
  BY <1>1, <1>4
<1> QED
  BY <1>1, <1>3, <1>5

LEMMA Reg_Singleton == ASSUME NEW x PROVE (CHOOSE e \in {x} : TRUE) = x
OBVIOUS

(* A lookup and a listing of the simulator. *)
LEMMA Reg_SimLookup ==
  ASSUME NEW st, extrasOn \in BOOLEAN, SimThere
  PROVE  /\ DedupTargets(st, "sim") = SimTarget /\ Entries(st, "sim") # {}
         /\ Owner(st, "sim") = [answer |-> "found", target |-> SimTarget]
<1>1. PICK es : es = Entries(st, "sim")
  OBVIOUS
<1>2. PICK first : first = CHOOSE e \in es : \A f \in es : e[1] <= f[1]
  OBVIOUS
<1>3. \A e : e \in es <=> e = <<1, SimTarget>>
  BY <1>1, Reg_Entries
<1>4. first = <<1, SimTarget>> /\ es \ {first} = {} /\ es # {}
  BY <1>2, <1>3, Reg_One
<1>5. first[2] = SimTarget /\ first[2].kind = "simulator"
  BY <1>4, Reg_Lists
<1>6. DedupTargets(st, "sim") = first[2]
  BY <1>1, <1>2, <1>4, Zenon DEF DedupTargets
<1>7. Owner(st, "sim") = [answer |-> "found", target |-> first[2]]
  BY <1>1, <1>2, <1>4, <1>5, Zenon DEF Owner
<1> QED
  BY <1>1, <1>4, <1>5, <1>6, <1>7

(* Of the phone. *)
LEMMA Reg_PhoneLookup ==
  ASSUME NEW st, extrasOn \in BOOLEAN, extrasOn, PhoneThere \/ mirrorSocket # NoSocket
  PROVE  /\ DedupTargets(st, "phone") = PhoneEntry(st) /\ Entries(st, "phone") # {}
         /\ Owner(st, "phone") = [answer |-> "found", target |-> PhoneEntry(st)]
<1> DEFINE es == Entries(st, "phone")
           first == CHOOSE e \in es : \A f \in es : e[1] <= f[1]
           later == es \ {first}
           rest == {e \in es : e[1] > first[1]}
<1>6. DedupTargets(st, "phone") = IF later = {} THEN first[2]
                                  ELSE OverlayTarget(first[2], (CHOOSE e \in later : TRUE)[2])
  BY Zenon DEF DedupTargets
<1>7. es # {} => Owner(st, "phone") =
        [answer |-> "found",
         target |-> IF first[2].kind = "simulator" \/ rest = {} THEN first[2]
                    ELSE OverlayTarget(first[2], (CHOOSE e \in rest : TRUE)[2])]
  BY Zenon DEF Owner
<1>3. ASSUME NEW e
      PROVE  e \in es <=> \/ PhoneThere /\ e = <<2, PhoneTarget>>
                          \/ mirrorSocket # NoSocket /\ e = <<3, MirrorTarget(st)>>
  BY Reg_Entries
<1>1. es = Entries(st, "phone")
  OBVIOUS
<1>2. first = CHOOSE e \in es : \A f \in es : e[1] <= f[1]
  OBVIOUS
<1>4. later = es \ {first}
  OBVIOUS
<1>5. rest = {e \in es : e[1] > first[1]}
  OBVIOUS
<1> HIDE DEF es, first, later, rest
<1>8. CASE PhoneThere /\ mirrorSocket # NoSocket
  <2>1. \A e : e \in es <=> e = <<2, PhoneTarget>> \/ e = <<3, MirrorTarget(st)>>
    BY <1>3, <1>8
  <2>2. first = <<2, PhoneTarget>> /\ es # {} /\ later = {<<3, MirrorTarget(st)>>} /\ rest = {<<3, MirrorTarget(st)>>}
    BY <2>1, <1>2, <1>4, <1>5, Reg_Two
  <2>3. first[2] = PhoneTarget /\ first[2].kind = "device" /\ later # {} /\ rest # {}
    BY <2>2, Reg_Lists
  <2>4. (CHOOSE e \in later : TRUE)[2] = MirrorTarget(st) /\ (CHOOSE e \in rest : TRUE)[2] = MirrorTarget(st)
    <3>1. (CHOOSE e \in later : TRUE) = <<3, MirrorTarget(st)>>
      BY <2>2, Reg_Singleton, Zenon
    <3>2. (CHOOSE e \in rest : TRUE) = <<3, MirrorTarget(st)>>
      BY <2>2, Reg_Singleton, Zenon
    <3>3. <<3, MirrorTarget(st)>>[2] = MirrorTarget(st)
      OBVIOUS
    <3> QED
      BY <3>1, <3>2, <3>3, Zenon
  <2>5. PhoneEntry(st) = OverlayTarget(PhoneTarget, MirrorTarget(st))
    BY <1>8, Zenon DEF PhoneEntry, BothTarget
  <2>6. DedupTargets(st, "phone") = OverlayTarget(PhoneTarget, MirrorTarget(st))
    BY <1>6, <2>3, <2>4, Zenon
  <2>7. Owner(st, "phone") = [answer |-> "found", target |-> OverlayTarget(PhoneTarget, MirrorTarget(st))]
    <3>1. first[2].kind # "simulator"
      BY <2>3
    <3> QED
      BY <3>1, <1>7, <2>2, <2>3, <2>4, Zenon
  <2> QED
    BY <1>1, <2>2, <2>5, <2>6, <2>7, Zenon
<1>9. CASE PhoneThere /\ mirrorSocket = NoSocket
  <2>1. \A e : e \in es <=> e = <<2, PhoneTarget>>
    BY <1>3, <1>9
  <2>2. first = <<2, PhoneTarget>> /\ es # {} /\ later = {} /\ rest = {}
    <3>1. 2 \in Nat
      OBVIOUS
    <3>2. /\ (CHOOSE e \in es : \A f \in es : e[1] <= f[1]) = <<2, PhoneTarget>>
          /\ es \ {<<2, PhoneTarget>>} = {} /\ es # {}
          /\ {e \in es : e[1] > 2} = {}
      BY <2>1, <3>1, Reg_One
    <3>3. first = <<2, PhoneTarget>> /\ <<2, PhoneTarget>>[1] = 2
      BY <3>2, <1>2
    <3> QED
      BY <3>2, <3>3, <1>4, <1>5
  <2>3. first[2] = PhoneTarget /\ PhoneEntry(st) = PhoneTarget
    BY <1>9, <2>2 DEF PhoneEntry
  <2> QED
    BY <1>1, <1>6, <1>7, <2>2, <2>3, Zenon
<1>10. CASE ~ PhoneThere
  <2>1. \A e : e \in es <=> e = <<3, MirrorTarget(st)>>
    BY <1>3, <1>10
  <2>2. first = <<3, MirrorTarget(st)>> /\ es # {} /\ later = {} /\ rest = {}
    <3>1. 3 \in Nat
      OBVIOUS
    <3>2. /\ (CHOOSE e \in es : \A f \in es : e[1] <= f[1]) = <<3, MirrorTarget(st)>>
          /\ es \ {<<3, MirrorTarget(st)>>} = {} /\ es # {}
          /\ {e \in es : e[1] > 3} = {}
      BY <2>1, <3>1, Reg_One
    <3>3. first = <<3, MirrorTarget(st)>> /\ <<3, MirrorTarget(st)>>[1] = 3
      BY <3>2, <1>2
    <3> QED
      BY <3>2, <3>3, <1>4, <1>5
  <2>3. first[2] = MirrorTarget(st) /\ PhoneEntry(st) = MirrorTarget(st)
    BY <1>10, <2>2 DEF PhoneEntry
  <2> QED
    BY <1>1, <1>6, <1>7, <2>2, <2>3, Zenon
<1> QED
  BY <1>8, <1>9, <1>10

(* What a phone's target says. *)
LEMMA Reg_Phone ==
  ASSUME NEW st \in Statuses
  PROVE  /\ PhoneEntry(st).udid = "phone"
         /\ Mirrored(PhoneEntry(st)) =>
              /\ PhoneEntry(st).state = "Booted" <=> st \in {"ready", "blocked"}
              /\ "no-devicectl" \in PhoneEntry(st).labels <=> ~ PhoneThere
              /\ PhoneEntry(st).state = "Booted" => "disconnected" \notin PhoneEntry(st).labels
<1>1. PICK d : d = PhoneTarget
  OBVIOUS
<1>2. PICK m : m = MirrorTarget(st)
  OBVIOUS
<1>3. /\ d.udid = "phone" /\ d.labels \in {{"device"}, {"device", "disconnected"}}
      /\ d = [udid |-> "phone", kind |-> "device", state |-> d.state, labels |-> d.labels]
  BY <1>1 DEF PhoneTarget
<1>4. /\ m.udid = "phone" /\ (m.state = "Booted" <=> st \in {"ready", "blocked"})
      /\ "mirror" \in m.labels /\ "no-devicectl" \in m.labels
      /\ "disconnected" \in m.labels <=> st \notin {"ready", "blocked"}
  BY <1>2 DEF MirrorTarget, Statuses, Screens
<1>5. ~ Mirrored(d) /\ Mirrored(m)
  BY <1>3, <1>4 DEF Mirrored
<1>6. BothTarget(st) = [d EXCEPT !.state = m.state, !.labels = NoTunnel(d.labels) \cup (m.labels \ {"no-devicectl"})]
  BY <1>1, <1>2, <1>5, Zenon DEF BothTarget, OverlayTarget, OverlayMirror
<1>7. PICK b : b = BothTarget(st)
  OBVIOUS
<1>8. /\ b.udid = "phone" /\ b.state = m.state
      /\ b.labels = NoTunnel(d.labels) \cup (m.labels \ {"no-devicectl"})
  BY <1>3, <1>6, <1>7
<1>9. "disconnected" \notin NoTunnel(d.labels) /\ "no-devicectl" \notin NoTunnel(d.labels)
  BY <1>3 DEF NoTunnel
<1>10. CASE PhoneThere /\ mirrorSocket # NoSocket
  <2>1. PhoneEntry(st) = b
    BY <1>7, <1>10, Zenon DEF PhoneEntry
  <2> QED
    BY <2>1, <1>4, <1>8, <1>9, <1>10
<1>11. CASE PhoneThere /\ mirrorSocket = NoSocket
  <2>1. PhoneEntry(st) = d
    BY <1>1, <1>11, Zenon DEF PhoneEntry
  <2> QED
    BY <2>1, <1>3, <1>5
<1>12. CASE ~ PhoneThere
  <2>1. PhoneEntry(st) = m
    BY <1>2, <1>12, Zenon DEF PhoneEntry
  <2> QED
    BY <2>1, <1>4, <1>12
<1> QED
  BY <1>10, <1>11, <1>12

LEMMA Reg_Missing == ASSUME RegInv PROVE RegMissingIsMissing
<1>a. extrasOn \in BOOLEAN
  BY DEF RegInv, RegTypeOK
<1>b. ASSUME NEW st, SimThere PROVE Entries(st, "sim") # {}
  BY <1>a, <1>b, Reg_SimLookup
<1>c. ASSUME NEW st, extrasOn, PhoneThere \/ mirrorSocket # NoSocket PROVE Entries(st, "phone") # {}
  BY <1>a, <1>c, Reg_PhoneLookup
<1> SUFFICES ASSUME NEW st \in Statuses, NEW u \in {"sim", "phone"}, Owner(st, u).answer = "not found"
             PROVE  /\ simctl.ok /\ (u = "sim" => simctl.lists = "none")
                    /\ extrasOn /\ u = "phone" => devicectl.ok /\ devicectl.lists = "none"
                                                  /\ mirrorSocket = NoSocket
  BY DEF RegMissingIsMissing
<1>1. extrasOn \in BOOLEAN
  BY DEF RegInv, RegTypeOK
<1>2. Entries(st, u) = {} /\ \A i \in DOMAIN Asks(st) : Asks(st)[i].ok
  <2>1. CASE Entries(st, u) # {}
    <3>1. Owner(st, u).answer = "found"
      BY <2>1 DEF Owner
    <3> QED
      BY <3>1
  <2>2. CASE Entries(st, u) = {} /\ ~ \A i \in DOMAIN Asks(st) : Asks(st)[i].ok
    <3>1. Owner(st, u).answer = "error"
      BY <2>2 DEF Owner
    <3> QED
      BY <3>1
  <2> QED
    BY <2>1, <2>2
<1>3. simctl.ok /\ (extrasOn => devicectl.ok)
  <2>1. SimctlList.ok
    BY <1>1, <1>2, Reg_Asks
  <2>2. extrasOn => DevicectlList.ok
    BY <1>1, <1>2, Reg_Asks
  <2> QED
    BY <2>1, <2>2, Reg_Lists
<1>4. u = "sim" => ~ SimThere
  BY <1>2, <1>b
<1>5. u = "phone" /\ extrasOn => ~ PhoneThere /\ mirrorSocket = NoSocket
  BY <1>2, <1>c
<1> QED
  BY <1>3, <1>4, <1>5 DEF SimThere, PhoneThere

LEMMA Reg_List ==
  ASSUME RegInv, NEW st \in Statuses, ~ ListFails(st)
  PROVE  \A t : t \in List(st) <=>
           \/ SimThere /\ t = SimTarget
           \/ extrasOn /\ (PhoneThere \/ mirrorSocket # NoSocket) /\ t = PhoneEntry(st)
<1>1. extrasOn \in BOOLEAN
  BY DEF RegInv, RegTypeOK
<1>2. List(st) = {DedupTargets(st, u) : u \in {v \in {"sim", "phone"} : Entries(st, v) # {}}}
  BY Zenon DEF List
<1>3. Entries(st, "sim") # {} <=> SimThere
  <2>1. \A e : e \in Entries(st, "sim") => SimThere
    BY <1>1, Reg_Entries
  <2> QED
    BY <2>1, <1>1, Reg_SimLookup
<1>4. Entries(st, "phone") # {} <=> extrasOn /\ (PhoneThere \/ mirrorSocket # NoSocket)
  <2>1. \A e : e \in Entries(st, "phone") => extrasOn /\ (PhoneThere \/ mirrorSocket # NoSocket)
    BY <1>1, Reg_Entries
  <2> QED
    BY <2>1, <1>1, Reg_PhoneLookup
<1>5. SimThere => DedupTargets(st, "sim") = SimTarget
  BY <1>1, Reg_SimLookup
<1>6. extrasOn /\ (PhoneThere \/ mirrorSocket # NoSocket) => DedupTargets(st, "phone") = PhoneEntry(st)
  BY <1>1, Reg_PhoneLookup
<1>7. ASSUME NEW t
      PROVE  t \in List(st) <=> \/ Entries(st, "sim") # {} /\ t = DedupTargets(st, "sim")
                                \/ Entries(st, "phone") # {} /\ t = DedupTargets(st, "phone")
  BY <1>2
<1> QED
  <2> TAKE t
  <2> QED
    BY <1>3, <1>4, <1>5, <1>6, <1>7

LEMMA Reg_Agrees == ASSUME RegInv PROVE RegListAgrees
<1> SUFFICES ASSUME NEW st \in Statuses
      PROVE  /\ \A t \in List(st) : Owner(st, t.udid) = [answer |-> "found", target |-> t]
             /\ Cardinality({t.udid : t \in List(st)}) = Cardinality(List(st))
             /\ simctl.ok /\ simctl.lists # "none" => \E t \in List(st) : t.udid = "sim"
             /\ \A t \in List(st) : Mirrored(t) =>
                  /\ t.state = "Booted" <=> st \in {"ready", "blocked"}
                  /\ "no-devicectl" \in t.labels <=> ~ (devicectl.ok /\ devicectl.lists # "none")
                  /\ t.state = "Booted" => "disconnected" \notin t.labels
  BY Zenon DEF RegListAgrees
<1>0. extrasOn \in BOOLEAN
  BY DEF RegInv, RegTypeOK
<1>1. CASE ListFails(st)
  <2>1. List(st) = {}
    BY <1>1, Zenon DEF List
  <2>2. ~ simctl.ok
    <3>1. 1 \in Fallible /\ Asks(st)[1] = SimctlList
      BY <1>0, Reg_Asks
    <3>2. ~ SimctlList.ok
      BY <1>1, <3>1, Zenon DEF ListFails
    <3> QED
      BY <3>2, Reg_Lists
  <2>3. {t.udid : t \in List(st)} = List(st)
    BY <2>1
  <2> QED
    BY <2>1, <2>2, <2>3
<1>2. CASE ~ ListFails(st)
  <2>1. \A t : t \in List(st) <=>
          \/ SimThere /\ t = SimTarget
          \/ extrasOn /\ (PhoneThere \/ mirrorSocket # NoSocket) /\ t = PhoneEntry(st)
    BY <1>2, Reg_List
  <2>2. SimTarget.udid = "sim" /\ PhoneEntry(st).udid = "phone" /\ ~ Mirrored(SimTarget)
    BY Reg_Lists, Reg_Phone DEF Mirrored, SimTarget
  <2>3. ASSUME NEW t \in List(st) PROVE Owner(st, t.udid) = [answer |-> "found", target |-> t]
    <3>1. CASE SimThere /\ t = SimTarget
      BY <1>0, <2>2, <3>1, Reg_SimLookup
    <3>2. CASE extrasOn /\ (PhoneThere \/ mirrorSocket # NoSocket) /\ t = PhoneEntry(st)
      BY <1>0, <2>2, <3>2, Reg_PhoneLookup
    <3> QED
      BY <2>1, <2>3, <3>1, <3>2
  <2>4. SimThere => \E t \in List(st) : t.udid = "sim"
    BY <2>1, <2>2
  <2>5. ASSUME NEW t \in List(st), Mirrored(t)
        PROVE  /\ t.state = "Booted" <=> st \in {"ready", "blocked"}
               /\ "no-devicectl" \in t.labels <=> ~ PhoneThere
               /\ t.state = "Booted" => "disconnected" \notin t.labels
    <3>1. t = PhoneEntry(st)
      BY <2>1, <2>2, <2>5
    <3> QED
      BY <3>1, <2>5, Reg_Phone
  <2>6. Cardinality({t.udid : t \in List(st)}) = Cardinality(List(st))
    <3>1. PICK L, U : L = List(st) /\ U = {t.udid : t \in List(st)}
      OBVIOUS
    <3>2. \A t \in L : t \in {SimTarget, PhoneEntry(st)}
      BY <3>1, <2>1
    <3>3. CASE L = {}
      <4>1. U = L
        BY <3>1, <3>3
      <4> QED
        BY <3>1, <4>1
    <3>4. CASE \E a : L = {a}
      <4>1. PICK a : L = {a}
        BY <3>4
      <4>2. U = {a.udid}
        BY <3>1, <4>1
      <4> QED
        BY <3>1, <4>1, <4>2, FS_Singleton
    <3>5. CASE L = {SimTarget, PhoneEntry(st)}
      <4>1. U = {"sim", "phone"} /\ SimTarget # PhoneEntry(st)
        BY <3>1, <3>5, <2>2
      <4>2. \A a, b : a # b => Cardinality({a, b}) = 2
        <5> TAKE a, b
        <5> HAVE a # b
        <5>1. IsFiniteSet({a}) /\ Cardinality({a}) = 1
          BY FS_Singleton
        <5>2. Cardinality({a} \cup {b}) = 2
          BY <5>1, FS_AddElement
        <5>3. {a} \cup {b} = {a, b}
          OBVIOUS
        <5> QED
          BY <5>2, <5>3
      <4>3. Cardinality(L) = 2
        BY <3>5, <4>1, <4>2
      <4>4. Cardinality(U) = 2
        BY <4>1, <4>2
      <4> QED
        BY <3>1, <4>3, <4>4
    <3>6. L = {} \/ (\E a : L = {a}) \/ L = {SimTarget, PhoneEntry(st)}
      BY <3>2
    <3> QED
      BY <3>3, <3>4, <3>5, <3>6
  <2> QED
    BY <2>3, <2>4, <2>5, <2>6 DEF SimThere, PhoneThere
<1> QED
  BY <1>1, <1>2

LEMMA Reg_Safe == ASSUME RegInv PROVE RegSafe
<1>1. RegStatusCurrent
  BY DEF RegInv, RegLocked, RegRemembers, RegStatusCurrent
<1> QED
  BY <1>1, Reg_Missing, Reg_Agrees DEF RegSafe

-----------------------------------------------------------------------------
(* The components together: at most one moves.                             *)
LEMMA ActionsMove ==
  ASSUME [ActionsNext]_actionsVars
  PROVE  /\ UNCHANGED part
         /\ Active("waits") => [WaitNext]_waitVars
         /\ Active("scrolls") => [ScrNext]_scrVars
         /\ Active("ladder") => [LadderNext]_ladVars
         /\ Active("elementmap") => [EmapNext]_emapVars
         /\ Active("wda") => [WdaNext]_wdaVars
         /\ Active("devices") => [DevNext]_devVars
         /\ Active("registry") => [RegNext]_regVars
<1>1. CASE ActionsNext
  BY <1>1 DEF ActionsNext, Alone, Active
<1>2. CASE UNCHANGED actionsVars
  BY <1>2 DEF actionsVars
<1> QED
  BY <1>1, <1>2

-----------------------------------------------------------------------------
(* Every component keeps its types, for every instance: no wait, scroll,   *)
(* resolution, request or probe stands where its code has no line, no      *)
(* budget is overdrawn, no session or deadline is of a runner or a wait    *)
(* that never was, and at most one Apply runs.                             *)
THEOREM ActionsTypes == ActionsSpec => []ActionsTypeOK
<1> DEFINE Inv == /\ Active("waits") => WaitInv
                  /\ Active("scrolls") => ScrTyped
                  /\ Active("ladder") => LadInv
                  /\ Active("elementmap") => EmapInv
                  /\ Active("wda") => WdaInv
                  /\ Active("devices") => DevInv
                  /\ Active("registry") => RegInv
<1>1. ActionsInit => Inv
  BY WaitStarts, ScrTypedStarts, LadStarts, EmapStarts, WdaStarts, DevStarts, RegStarts DEF ActionsInit
<1>2. Inv /\ [ActionsNext]_actionsVars => Inv'
  BY ActionsMove, WaitStep, ScrTypedMoves, LadMoves, EmapMoves, WdaMoves, DevMoves, RegMoves DEF Active
<1>3. Inv => ActionsTypeOK
  BY Lad_Type, Emap_Type, Wda_Type, Dev_Type DEF ActionsTypeOK, WaitInv, ScrTyped, RegInv
<1> QED
  BY <1>1, <1>2, <1>3, PTL DEF ActionsSpec

(* With any number of workers, actions, rungs, budgets and screens: a wait *)
(* reports a screen stable exactly when its last samples agree and         *)
(* unstable only after the whole budget and what it saw; a scroll that     *)
(* reports the end of the list has seen every row, if the list ignores at  *)
(* most one gesture and a gesture moves it by more than a quarter of the   *)
(* screen; a step gives up only after asking its source and the breaker    *)
(* opens only after the threshold's number of failing steps; while the     *)
(* screen stays from an observation to the learning capture, a frame       *)
(* served from the map is true of the captured screen; and a device action *)
(* reports an invalid session only if the runner was restarted during it   *)
(* (pixelStable, listScrollLoop, resolveLadder, findElement, inSession).   *)
THEOREM ActionsAreSound ==
  ASSUME Steady, MaxLost <= 1, Window + 1 < 4 * StepRows
  PROVE  ActionsSpec => []ActionsSound
<1> DEFINE Inv == /\ Active("waits") => WaitInv
                  /\ Active("scrolls") => ScrInv
                  /\ Active("ladder") => LadInv
                  /\ Active("elementmap") => EmapInv
                  /\ Active("wda") => WdaInv
<1>1. ActionsInit => Inv
  BY WaitStarts, ScrStarts, LadStarts, EmapStarts, WdaStarts DEF ActionsInit
<1>2. Inv /\ [ActionsNext]_actionsVars => Inv'
  BY ActionsMove, WaitStep, ScrMoves, LadMoves, EmapMoves, WdaMoves DEF Active
<1>3. Inv => ActionsSound
  BY Wait_Safe, Scr_Safe, Lad_Safe, Emap_Safe, Wda_Safe DEF ActionsSound
<1> QED
  BY <1>1, <1>2, <1>3, PTL DEF ActionsSpec

(* With any number of phones, ports, sockets and configurations in any     *)
(* order: no phone has two runner sessions and no port two forwards, what  *)
(* is wired and published is what is in force, and an action on a phone    *)
(* some configuration named never runs on the simulator tooling; a target  *)
(* is reported missing only when every registry that could have it         *)
(* answered, a listing agrees with a lookup, and no status outlives its    *)
(* configuration (Apply, SeedDeviceKinds, owner, List, statusFor).         *)
THEOREM DevicesAreSound == ActionsSpec => []DevicesSound
<1> DEFINE Inv == /\ Active("devices") => DevInv
                  /\ Active("registry") => RegInv
<1>1. ActionsInit => Inv
  BY DevStarts, RegStarts DEF ActionsInit
<1>2. Inv /\ [ActionsNext]_actionsVars => Inv'
  BY ActionsMove, DevMoves, RegMoves DEF Active
<1>3. Inv => DevicesSound
  BY Dev_Safe, Reg_Safe DEF DevicesSound
<1> QED
  BY <1>1, <1>2, <1>3, PTL DEF ActionsSpec

=============================================================================
