------------------------------ MODULE ParkProofs ------------------------------
(***************************************************************************)
(* Proofs about parking and thawing a member of the warm pool, for a       *)
(* process tree of any size and any set of goroutines.  The types need     *)
(* nothing else; the safety theorems are about a Parker whose parks and    *)
(* thaws exclude each other (Overtaking = FALSE).                          *)
(***************************************************************************)
EXTENDS Park, TLAPS

(* Where each goroutine can be outside Thaw, and where its Thaws return to. *)
InThaw == {"thaw", "cont", "forget"}
InPark == {"depth", "look", "seq", "list", "stop", "enter", "recheck", "leave"}

PlaceOf(p) ==
  CASE p = "watchdog" -> {"off", "weigh", "drop", "idle", "park"} \cup InPark
    [] p = "reset" -> {"off", "wipe", "rebuild", "reboot", "park", "end", "failed"}
                        \cup InPark
    [] p = "grant" -> {"off"}
    [] p = "boot" -> {"off", "wake"}
    [] p = "booter" -> {"off", "booting"}
    [] p = "shutdown" -> {"off", "halt", "end"}
    [] p = "viewer" -> {"off", "open"}
    [] OTHER -> {"off", "join", "closed"}

RetOf(p) ==
  CASE p = "watchdog" -> {"leave"}
    [] p = "reset" -> {"wipe", "park", "leave"}
    [] p = "grant" -> {"off"}
    [] p = "boot" -> {"wake"}
    [] p = "shutdown" -> {"halt"}
    [] p = "closer" -> {"closed"}
    [] OTHER -> {}

Control ==
  \A p \in Proc : \/ pc[p] \in PlaceOf(p)
                  \/ pc[p] \in InThaw /\ ret[p] \in RetOf(p)

(* Pool.busy counts the transitions under way: two for a reset that has    *)
(* got to OnReleased.                                                      *)
ResetShare(label, r) ==
  IF label = "off" THEN 0
  ELSE IF label \in {"wipe", "rebuild", "failed"} \/ (label \in InThaw /\ r = "wipe")
  THEN 1 ELSE 2

Share(label) == IF label = "off" THEN 0 ELSE 1

BusyCount ==
  busy = ResetShare(pc["reset"], ret["reset"]) + Share(pc["booter"])
           + Share(pc["shutdown"])

RunInv == TypeOK /\ Control /\ BusyCount

(* Parks, thaws and ForgetParked exclude each other. *)
Exclusive == \A p, q \in Proc : InParker(p) /\ InParker(q) => p = q

(* A stopped tree is in the ledger, or a park of it is about to write it   *)
(* there; a thaw works on the tree of the ledger; a park whose tree died    *)
(* has stopped nothing; and what is about to be forgotten runs.            *)
Recorded ==
  stopped # {} => \/ ledger = "live"
                  \/ \E p \in Parkers : At(p, "stop") /\ cached[p] = "live"

ThawWorks ==
  \A p \in Proc :
    At(p, "cont") =>
      /\ ledger = cached[p]
      /\ cached[p] = "live" /\ p \notin erred => stopped \subseteq todo[p]

ParksTheLiving ==
  \A p \in Parkers : At(p, "stop") /\ cached[p] # "live" => stopped = {}

ForgetsRunning == \A p \in Proc : At(p, "forget") \/ At(p, "drop") => stopped = {}

LedgerInv == RunInv /\ Exclusive /\ Recorded /\ ThawWorks /\ ParksTheLiving /\ ForgetsRunning

(* A frozen holder has somebody who will thaw it: its own OnGrant, or the  *)
(* goroutine whose park it met.                                            *)
Rescuers ==
  \/ pc["grant"] \in InThaw
  \/ \E p \in Parkers : \/ pc[p] \in {"stop", "enter"}
                        \/ pc[p] \in InThaw /\ ret[p] = "leave"

ErrorsAreNoted ==
  /\ \A p \in Proc : At(p, "cont") /\ p \in erred => broken
  /\ broken => SignalsFail

HolderRescued ==
  lease = "active" /\ ~notify /\ ~broken /\ stopped # {} => Rescuers

(* Close finds no park under way and lets none begin. *)
ParksAreCounted ==
  /\ \A p \in Parkers : pc[p] \in InPark \/ (pc[p] \in InThaw /\ ret[p] = "leave")
       => p \in parking
  /\ pc["closer"] # "off" => closed
  /\ pc["closer"] \in InThaw \cup {"closed"} => parking = {}

CloserThaws == ~SignalsFail /\ At("closer", "closed") => stopped = {}

ParkInv == LedgerInv /\ ErrorsAreNoted /\ HolderRescued /\ ParksAreCounted /\ CloserThaws

-----------------------------------------------------------------------------
(* The actions one by one. *)
Step ==
  \/ \E p \in Proc : ThawRead(p)
  \/ \E p \in Proc, i \in Pid : ThawSignal(p, i)
  \/ \E p \in Proc : ThawDone(p)
  \/ \E p \in Proc : ThawForget(p)
  \/ \E p \in Parkers : ParkEnter(p)
  \/ \E p \in Parkers : ParkDepth(p)
  \/ \E p \in Parkers : ParkLook(p)
  \/ \E p \in Parkers : ParkSeq(p)
  \/ \E p \in Parkers : ParkList(p)
  \/ \E p \in Parkers, i \in Pid : ParkSignal(p, i)
  \/ \E p \in Parkers : ParkRollback(p)
  \/ \E p \in Parkers : ParkLedger(p)
  \/ \E p \in Parkers : ParkRecheck(p)
  \/ \E p \in Parkers : ParkRecheckUse(p)
  \/ \E p \in Parkers : ParkLeave(p)
  \/ SweepStart
  \/ SweepWeigh
  \/ SweepDrop
  \/ SweepIdle
  \/ Grant
  \/ Release
  \/ OnGrant
  \/ ClearQuarantine
  \/ ResetStart
  \/ ResetWipe
  \/ ResetRebuild
  \/ ResetReboot
  \/ ResetEnd
  \/ BootStart
  \/ BootWake
  \/ BootDone
  \/ ShutdownStart
  \/ ShutdownHalt
  \/ ShutdownEnd
  \/ WatchStart
  \/ WatchOpen
  \/ WatchStop
  \/ AwakeLapses
  \/ CloseStart
  \/ CloseJoin
  \/ Restart

LEMMA StepActions == [Next]_vars => Step \/ UNCHANGED vars
  BY DEF Next, Running, Thaw, ParkIdle, Sweep, Leases, Reset, Operate, Watch, Step

LEMMA Names ==
  /\ "watchdog" \in Proc /\ "reset" \in Proc /\ "grant" \in Proc
  /\ "boot" \in Proc /\ "booter" \in Proc /\ "shutdown" \in Proc
  /\ "viewer" \in Proc /\ "closer" \in Proc
  /\ \A p \in Parkers : p \in Proc /\ ParkedBy(p) \in Labels
  /\ "off" \in Labels /\ "thaw" \in Labels /\ "cont" \in Labels
  /\ "forget" \in Labels /\ "park" \in Labels /\ "depth" \in Labels
  /\ "look" \in Labels /\ "seq" \in Labels /\ "list" \in Labels
  /\ "stop" \in Labels /\ "enter" \in Labels /\ "recheck" \in Labels
  /\ "leave" \in Labels /\ "weigh" \in Labels /\ "drop" \in Labels
  /\ "idle" \in Labels /\ "wipe" \in Labels /\ "rebuild" \in Labels
  /\ "reboot" \in Labels /\ "end" \in Labels /\ "failed" \in Labels
  /\ "wake" \in Labels /\ "booting" \in Labels /\ "halt" \in Labels
  /\ "open" \in Labels /\ "join" \in Labels /\ "closed" \in Labels
  BY DEF Proc, Parkers, Labels, ParkedBy

LEMMA Places ==
  /\ \A p \in Proc : "off" \in PlaceOf(p) /\ PlaceOf(p) \subseteq Labels
                     /\ RetOf(p) \subseteq PlaceOf(p)
  /\ \A p \in Parkers : p \in Proc /\ InPark \subseteq PlaceOf(p)
                        /\ "leave" \in RetOf(p) /\ ParkedBy(p) \in PlaceOf(p)
  BY DEF Proc, Parkers, PlaceOf, RetOf, InPark, ParkedBy, Labels

(* A Thaw ends where the goroutine can be. *)
LEMMA ThawReturns ==
  ASSUME TypeOK, Control, NEW p \in Proc, pc[p] \in InThaw
  PROVE  /\ ret[p] \in RetOf(p) /\ ret[p] \in PlaceOf(p)
         /\ ThawFailedAt(p) \in PlaceOf(p)
<1>1. ret[p] \in RetOf(p)
  BY DEF Control, PlaceOf, InThaw, InPark
<1>2. ThawFailedAt(p) \in PlaceOf(p)
  BY <1>1 DEF ThawFailedAt, RetOf, PlaceOf, InPark, Proc
<1> QED
  BY <1>1, <1>2, Places

(* TypeOK in two halves: the flags, and the rest. *)
Flags ==
  /\ up \in BOOLEAN /\ notify \in BOOLEAN /\ awake \in BOOLEAN /\ down \in BOOLEAN
  /\ watched \in BOOLEAN /\ closed \in BOOLEAN /\ broken \in BOOLEAN

Tables ==
  /\ stopped \in SUBSET Pid
  /\ ledger \in {"none", "live", "dead"}
  /\ lease \in Slots
  /\ busy \in Nat
  /\ parking \in SUBSET Parkers
  /\ pc \in [Proc -> Labels]
  /\ ret \in [Proc -> Labels]
  /\ todo \in [Proc -> SUBSET Pid]
  /\ cached \in [Proc -> {"live", "dead"}]
  /\ erred \in SUBSET Proc
  /\ busy0 \in [Parkers -> Nat]
  /\ regranted \in SUBSET Parkers

LEMMA TypeHalves == TypeOK <=> Flags /\ Tables
  BY DEF TypeOK, Flags, Tables

(* Every step preserves the types. *)
LEMMA StepFlags ==
  ASSUME RunInv, [Next]_vars
  PROVE  Flags'
<1> USE DEF RunInv, TypeOK, Flags, simVars, poolVars, parkVars, thawVars
<1>1. ASSUME NEW p \in Proc, ThawRead(p)
      PROVE  Flags'
  BY <1>1 DEF ThawRead
<1>2. ASSUME NEW p \in Proc, NEW i \in Pid, ThawSignal(p, i)
      PROVE  Flags'
  BY <1>2 DEF ThawSignal
<1>3. ASSUME NEW p \in Proc, ThawDone(p)
      PROVE  Flags'
  BY <1>3 DEF ThawDone
<1>4. ASSUME NEW p \in Proc, ThawForget(p)
      PROVE  Flags'
  BY <1>4 DEF ThawForget
<1>5. ASSUME NEW p \in Parkers,
             \/ ParkEnter(p)
             \/ ParkDepth(p)
             \/ ParkLook(p)
             \/ ParkSeq(p)
      PROVE  Flags'
  BY <1>5 DEF ParkEnter, ParkDepth, ParkLook, ParkSeq
<1>6. ASSUME NEW p \in Parkers,
             \/ ParkList(p)
             \/ (\E i \in Pid : ParkSignal(p, i))
             \/ ParkRollback(p)
             \/ ParkLedger(p)
      PROVE  Flags'
  BY <1>6 DEF ParkList, ParkSignal, ParkRollback, ParkLedger
<1>7. ASSUME NEW p \in Parkers,
             \/ ParkRecheck(p)
             \/ ParkRecheckUse(p)
             \/ ParkLeave(p)
      PROVE  Flags'
  BY <1>7 DEF ParkRecheck, ParkRecheckUse, ParkLeave
<1>8. ASSUME SweepStart \/ SweepWeigh \/ SweepDrop \/ SweepIdle
      PROVE  Flags'
  BY <1>8 DEF SweepStart, SweepWeigh, SweepDrop, SweepIdle
<1>9. ASSUME Grant \/ Release \/ OnGrant \/ ClearQuarantine
      PROVE  Flags'
  BY <1>9 DEF Grant, Release, OnGrant, ClearQuarantine
<1>10. ASSUME ResetStart
      PROVE  Flags'
  BY <1>10 DEF ResetStart
<1>11. ASSUME ResetWipe
      PROVE  Flags'
  BY <1>11 DEF ResetWipe, TreeDies
<1>12. ASSUME ResetRebuild
      PROVE  Flags'
  BY <1>12 DEF ResetRebuild
<1>13. ASSUME ResetReboot
      PROVE  Flags'
  BY <1>13 DEF ResetReboot
<1>14. ASSUME ResetEnd
      PROVE  Flags'
  BY <1>14 DEF ResetEnd
<1>15. ASSUME BootStart \/ BootWake \/ ShutdownStart \/ ShutdownHalt
      PROVE  Flags'
  BY <1>15 DEF BootStart, BootWake, ShutdownStart, ShutdownHalt, TreeDies
<1>16. ASSUME BootDone
      PROVE  Flags'
  BY <1>16 DEF BootDone
<1>17. ASSUME ShutdownEnd
      PROVE  Flags'
  BY <1>17 DEF ShutdownEnd
<1>18. ASSUME WatchStart \/ WatchOpen \/ WatchStop \/ AwakeLapses
      PROVE  Flags'
  BY <1>18 DEF WatchStart, WatchOpen, WatchStop, AwakeLapses
<1>19. ASSUME CloseStart \/ CloseJoin
      PROVE  Flags'
  BY <1>19 DEF CloseStart, CloseJoin
<1>20. ASSUME Restart
      PROVE  Flags'
  BY <1>20 DEF Restart
<1>21. CASE UNCHANGED vars
  BY <1>21 DEF vars
<1> QED
  BY StepActions, <1>1, <1>2, <1>3, <1>4, <1>5, <1>6, <1>7, <1>8, <1>9,
     <1>10, <1>11, <1>12, <1>13, <1>14, <1>15, <1>16, <1>17, <1>18, <1>19,
     <1>20, <1>21 DEF Step

LEMMA StepTables ==
  ASSUME RunInv, [Next]_vars
  PROVE  Tables'
<1> USE Names DEF RunInv, TypeOK, Tables, simVars, poolVars, parkVars, thawVars
<1>1. ASSUME NEW p \in Proc, ThawRead(p)
      PROVE  Tables'
  BY <1>1, ThawReturns, Places DEF ThawRead, Goto, ThawTo, InThaw, At
<1>2. ASSUME NEW p \in Proc, NEW i \in Pid, ThawSignal(p, i)
      PROVE  Tables'
  BY <1>2 DEF ThawSignal
<1>3. ASSUME NEW p \in Proc, ThawDone(p)
      PROVE  Tables'
  BY <1>3, ThawReturns, Places DEF ThawDone, Goto, ThawTo, InThaw, At
<1>4. ASSUME NEW p \in Proc, ThawForget(p)
      PROVE  Tables'
  BY <1>4, ThawReturns, Places DEF ThawForget, Goto, ThawTo, InThaw, At
<1>5. ASSUME NEW p \in Parkers,
             \/ ParkEnter(p)
             \/ ParkDepth(p)
             \/ ParkLook(p)
             \/ ParkSeq(p)
      PROVE  Tables'
  BY <1>5 DEF ParkEnter, ParkDepth, ParkLook, ParkSeq, Goto
<1>6. ASSUME NEW p \in Parkers,
             \/ ParkList(p)
             \/ (\E i \in Pid : ParkSignal(p, i))
             \/ ParkRollback(p)
             \/ ParkLedger(p)
      PROVE  Tables'
  BY <1>6 DEF ParkList, ParkSignal, ParkRollback, ParkLedger, Goto
<1>7. ASSUME NEW p \in Parkers,
             \/ ParkRecheck(p)
             \/ ParkRecheckUse(p)
             \/ ParkLeave(p)
      PROVE  Tables'
  BY <1>7 DEF ParkRecheck, ParkRecheckUse, ParkLeave, ThawBack, Goto, ThawTo
<1>8. ASSUME SweepStart \/ SweepWeigh \/ SweepDrop \/ SweepIdle
      PROVE  Tables'
  BY <1>8 DEF SweepStart, SweepWeigh, SweepDrop, SweepIdle, Goto
<1>9. ASSUME Grant \/ Release \/ OnGrant \/ ClearQuarantine
      PROVE  Tables'
  BY <1>9 DEF Grant, Release, OnGrant, ClearQuarantine, Goto, ThawTo, Regrant,
       Slots
<1>10. ASSUME ResetStart
      PROVE  Tables'
  BY <1>10 DEF ResetStart, Goto, ThawTo, Begin
<1>11. ASSUME ResetWipe
      PROVE  Tables'
  BY <1>11 DEF ResetWipe, Goto, TreeDies
<1>12. ASSUME ResetRebuild
      PROVE  Tables'
  BY <1>12 DEF ResetRebuild, Goto, Begin
<1>13. ASSUME ResetReboot
      PROVE  Tables'
  BY <1>13 DEF ResetReboot, Goto, ThawTo
<1>14. ASSUME ResetEnd
      PROVE  Tables'
  BY <1>14 DEF ResetEnd, At, Goto, Slots, BusyCount, ResetShare, Share, InThaw
<1>15. ASSUME BootStart \/ BootWake \/ ShutdownStart \/ ShutdownHalt
      PROVE  Tables'
  BY <1>15 DEF BootStart, BootWake, ShutdownStart, ShutdownHalt, Goto, ThawTo,
       Begin, TreeDies, Admit, Dismiss, Slots
<1>16. ASSUME BootDone
      PROVE  Tables'
  BY <1>16 DEF BootDone, At, Goto, BusyCount, ResetShare, Share
<1>17. ASSUME ShutdownEnd
      PROVE  Tables'
  BY <1>17 DEF ShutdownEnd, At, Goto, Dismiss, Slots, BusyCount, ResetShare, Share
<1>18. ASSUME WatchStart \/ WatchOpen \/ WatchStop \/ AwakeLapses
      PROVE  Tables'
  BY <1>18 DEF WatchStart, WatchOpen, WatchStop, AwakeLapses, Goto
<1>19. ASSUME CloseStart \/ CloseJoin
      PROVE  Tables'
  BY <1>19 DEF CloseStart, CloseJoin, Goto, ThawTo
<1>20. ASSUME Restart
      PROVE  Tables'
  BY <1>20 DEF Restart, LeftFrozen, Slots
<1>21. CASE UNCHANGED vars
  BY <1>21 DEF vars
<1> QED
  BY StepActions, <1>1, <1>2, <1>3, <1>4, <1>5, <1>6, <1>7, <1>8, <1>9,
     <1>10, <1>11, <1>12, <1>13, <1>14, <1>15, <1>16, <1>17, <1>18, <1>19,
     <1>20, <1>21 DEF Step

(* Goroutines stay on their own path. *)
LEMMA StepControl ==
  ASSUME RunInv, [Next]_vars
  PROVE  Control'
<1> USE Names, Places DEF RunInv, TypeOK, Control, simVars, poolVars, parkVars, thawVars
<1>1. ASSUME NEW p \in Proc, ThawRead(p)
      PROVE  Control'
  BY <1>1, ThawReturns DEF ThawRead, Goto, ThawTo, InThaw, At
<1>2. ASSUME NEW p \in Proc, NEW i \in Pid, ThawSignal(p, i)
      PROVE  Control'
  BY <1>2 DEF ThawSignal
<1>3. ASSUME NEW p \in Proc, ThawDone(p)
      PROVE  Control'
  BY <1>3, ThawReturns DEF ThawDone, Goto, ThawTo, InThaw, At
<1>4. ASSUME NEW p \in Proc, ThawForget(p)
      PROVE  Control'
  BY <1>4, ThawReturns DEF ThawForget, Goto, ThawTo, InThaw, At
<1>5. ASSUME NEW p \in Parkers,
             \/ ParkEnter(p)
             \/ ParkDepth(p)
             \/ ParkLook(p)
             \/ ParkSeq(p)
      PROVE  Control'
  BY <1>5 DEF ParkEnter, ParkDepth, ParkLook, ParkSeq, Goto, InPark
<1>6. ASSUME NEW p \in Parkers,
             \/ ParkList(p)
             \/ (\E i \in Pid : ParkSignal(p, i))
             \/ ParkRollback(p)
             \/ ParkLedger(p)
      PROVE  Control'
  BY <1>6 DEF ParkList, ParkSignal, ParkRollback, ParkLedger, Goto, InPark
<1>7. ASSUME NEW p \in Parkers,
             \/ ParkRecheck(p)
             \/ ParkRecheckUse(p)
             \/ ParkLeave(p)
      PROVE  Control'
  BY <1>7 DEF ParkRecheck, ParkRecheckUse, ParkLeave, ThawBack, Goto, ThawTo,
       InPark, InThaw
<1>8. ASSUME SweepStart \/ SweepWeigh \/ SweepDrop \/ SweepIdle
      PROVE  Control'
  BY <1>8 DEF SweepStart, SweepWeigh, SweepDrop, SweepIdle, Goto, PlaceOf
<1>9. ASSUME Grant \/ Release \/ OnGrant \/ ClearQuarantine
      PROVE  Control'
  BY <1>9 DEF Grant, Release, OnGrant, ClearQuarantine, Goto, ThawTo, RetOf,
       InThaw
<1>10. ASSUME ResetStart
      PROVE  Control'
  BY <1>10 DEF ResetStart, Goto, ThawTo, RetOf, InThaw
<1>11. ASSUME ResetWipe
      PROVE  Control'
  BY <1>11 DEF ResetWipe, Goto, PlaceOf
<1>12. ASSUME ResetRebuild
      PROVE  Control'
  BY <1>12 DEF ResetRebuild, Goto, PlaceOf
<1>13. ASSUME ResetReboot \/ ResetEnd
      PROVE  Control'
  BY <1>13 DEF ResetReboot, ResetEnd, Goto, ThawTo, PlaceOf, RetOf, InThaw
<1>14. ASSUME BootStart
      PROVE  Control'
  BY <1>14 DEF BootStart, Goto, ThawTo, PlaceOf, RetOf, InThaw
<1>15. ASSUME BootWake \/ BootDone
      PROVE  Control'
  BY <1>15 DEF BootWake, BootDone, Goto
<1>16. ASSUME ShutdownStart \/ ShutdownHalt \/ ShutdownEnd
      PROVE  Control'
  BY <1>16 DEF ShutdownStart, ShutdownHalt, ShutdownEnd, Goto, ThawTo,
       PlaceOf, RetOf, InThaw
<1>17. ASSUME WatchStart \/ WatchOpen \/ WatchStop \/ AwakeLapses
      PROVE  Control'
  BY <1>17 DEF WatchStart, WatchOpen, WatchStop, AwakeLapses, Goto, PlaceOf
<1>18. ASSUME CloseStart \/ CloseJoin \/ Restart
      PROVE  Control'
  BY <1>18 DEF CloseStart, CloseJoin, Restart, Goto, ThawTo, PlaceOf, RetOf,
       InThaw
<1>19. CASE UNCHANGED vars
  BY <1>19 DEF vars
<1> QED
  BY StepActions, <1>1, <1>2, <1>3, <1>4, <1>5, <1>6, <1>7, <1>8, <1>9,
     <1>10, <1>11, <1>12, <1>13, <1>14, <1>15, <1>16, <1>17, <1>18, <1>19 DEF Step

(* One goroutine moves, and busy moves with its share. *)
ShareOf(p, label, r) ==
  IF p = "reset" THEN ResetShare(label, r)
  ELSE IF p \in {"booter", "shutdown"} THEN Share(label) ELSE 0

LEMMA ShareNat == \A l, x : ResetShare(l, x) \in Nat /\ Share(l) \in Nat
  BY DEF ResetShare, Share

LEMMA ShareMoves ==
  ASSUME TypeOK, BusyCount, NEW p \in Proc, NEW label, NEW r,
         pc' = [pc EXCEPT ![p] = label],
         ret' = [ret EXCEPT ![p] = r],
         busy' = busy + ShareOf(p, label, r) - ShareOf(p, pc[p], ret[p])
  PROVE  BusyCount'
<1> USE DEF TypeOK, BusyCount, ShareOf
<1>2. CASE p = "reset"
  BY <1>2, ShareNat, Names
<1>3. CASE p = "booter"
  BY <1>3, ShareNat, Names
<1>4. CASE p = "shutdown"
  BY <1>4, ShareNat, Names
<1>5. CASE p \notin {"reset", "booter", "shutdown"}
  BY <1>5, ShareNat, Names
<1> QED
  BY <1>2, <1>3, <1>4, <1>5

(* A move that changes no share. *)
LEMMA SharesKept ==
  ASSUME TypeOK, BusyCount, NEW p \in Proc, NEW label, NEW r,
         pc' = [pc EXCEPT ![p] = label], ret' = [ret EXCEPT ![p] = r],
         busy' = busy, ShareOf(p, label, r) = ShareOf(p, pc[p], ret[p])
  PROVE  BusyCount'
<1>1. ShareOf(p, label, r) \in Nat
  BY DEF ShareOf, ResetShare, Share
<1>2. busy' = busy + ShareOf(p, label, r) - ShareOf(p, pc[p], ret[p])
  BY <1>1 DEF TypeOK
<1> QED
  BY <1>2, ShareMoves

(* Inside Thaw, and when it returns. *)
LEMMA ThawShare ==
  ASSUME RunInv, NEW p \in Proc, pc[p] \in InThaw
  PROVE  /\ \A label \in InThaw : ShareOf(p, label, ret[p]) = ShareOf(p, pc[p], ret[p])
         /\ ShareOf(p, ret[p], "off") = ShareOf(p, pc[p], ret[p])
         /\ ShareOf(p, ThawFailedAt(p), "off") = ShareOf(p, pc[p], ret[p])
<1>1. ret[p] \in RetOf(p)
  BY ThawReturns DEF RunInv
<1>2. CASE p = "reset"
  <2>1. ret[p] \in {"wipe", "park", "leave"}
    BY <1>1, <1>2 DEF RetOf
  <2>2. \/ ret[p] = "wipe" /\ ThawFailedAt(p) = "failed"
        \/ ret[p] = "park" /\ ThawFailedAt(p) = "end"
        \/ ret[p] = "leave" /\ ThawFailedAt(p) = "leave"
    BY <1>2, <2>1 DEF ThawFailedAt
  <2> QED
    BY <1>2, <2>2 DEF ShareOf, ResetShare, InThaw
<1>3. CASE p = "shutdown"
  BY <1>1, <1>3 DEF RetOf, ThawFailedAt, ShareOf, Share, InThaw
<1>4. p # "booter"
  BY <1>1 DEF RetOf
<1>5. CASE p \notin {"reset", "booter", "shutdown"}
  BY <1>5 DEF ShareOf
<1> QED
  BY <1>2, <1>3, <1>4, <1>5

(* Inside parkIdle, and when it returns. *)
LEMMA ParkShare ==
  ASSUME NEW p \in Parkers, NEW from \in InPark \cup {"park"}, NEW r
  PROVE  /\ \A label \in InPark \cup {ParkedBy(p)} : \A x :
              ShareOf(p, label, x) = ShareOf(p, from, r)
         /\ ShareOf(p, "thaw", "leave") = ShareOf(p, from, r)
  BY DEF Parkers, InPark, InThaw, ParkedBy, ShareOf, ResetShare

LEMMA SameRet == TypeOK => \A p \in Proc : ret = [ret EXCEPT ![p] = ret[p]]
  BY DEF TypeOK

(* busy is exact. *)
LEMMA StepBusy ==
  ASSUME RunInv, [Next]_vars
  PROVE  BusyCount'
<1> USE DEF RunInv, TypeOK, simVars, poolVars, parkVars, thawVars
<1>1. ASSUME NEW p \in Proc, ThawRead(p)
      PROVE  BusyCount'
  BY <1>1, ThawShare, SharesKept, SameRet DEF ThawRead, Goto, ThawTo, InThaw, At
<1>2. ASSUME NEW p \in Proc, NEW i \in Pid, ThawSignal(p, i)
      PROVE  BusyCount'
  BY <1>2 DEF ThawSignal, BusyCount
<1>3. ASSUME NEW p \in Proc, ThawDone(p)
      PROVE  BusyCount'
  BY <1>3, ThawShare, SharesKept, SameRet DEF ThawDone, Goto, ThawTo, InThaw, At
<1>4. ASSUME NEW p \in Proc, ThawForget(p)
      PROVE  BusyCount'
  BY <1>4, ThawShare, SharesKept, SameRet DEF ThawForget, Goto, ThawTo, InThaw, At
<1>5. ASSUME NEW p \in Parkers, ParkEnter(p)
      PROVE  BusyCount'
  BY <1>5, ParkShare, SharesKept, SameRet, Names DEF ParkEnter, Goto, At, InPark
<1>6. ASSUME NEW p \in Parkers, ParkDepth(p)
      PROVE  BusyCount'
  BY <1>6, ParkShare, SharesKept, SameRet, Names DEF ParkDepth, Goto, At, InPark
<1>7. ASSUME NEW p \in Parkers, ParkLook(p)
      PROVE  BusyCount'
  BY <1>7, ParkShare, SharesKept, SameRet, Names DEF ParkLook, Goto, At, InPark
<1>8. ASSUME NEW p \in Parkers, ParkSeq(p)
      PROVE  BusyCount'
  BY <1>8, ParkShare, SharesKept, SameRet, Names DEF ParkSeq, Goto, At, InPark
<1>9. ASSUME NEW p \in Parkers, ParkList(p)
      PROVE  BusyCount'
  BY <1>9, ParkShare, SharesKept, SameRet, Names DEF ParkList, Goto, At, InPark
<1>10. ASSUME NEW p \in Parkers, NEW i \in Pid, ParkSignal(p, i)
      PROVE  BusyCount'
  BY <1>10 DEF ParkSignal, BusyCount
<1>11. ASSUME NEW p \in Parkers, ParkRollback(p)
      PROVE  BusyCount'
  <2>1. /\ pc[p] \in InPark /\ pc' = [pc EXCEPT ![p] = "leave"]
        /\ ret' = [ret EXCEPT ![p] = ret[p]] /\ busy' = busy /\ p \in Proc
    BY <1>11, SameRet, Names DEF ParkRollback, Goto, At, InPark
  <2>2. ShareOf(p, "leave", ret[p]) = ShareOf(p, pc[p], ret[p])
    BY <2>1, ParkShare DEF InPark
  <2> QED
    BY <2>1, <2>2, SharesKept
<1>12. ASSUME NEW p \in Parkers, ParkLedger(p)
      PROVE  BusyCount'
  BY <1>12, ParkShare, SharesKept, SameRet, Names DEF ParkLedger, Goto, At, InPark
<1>13. ASSUME NEW p \in Parkers, ParkRecheck(p)
      PROVE  BusyCount'
  BY <1>13, ParkShare, SharesKept, SameRet, Names DEF ParkRecheck, Goto, At, InPark, ThawBack, ThawTo
<1>14. ASSUME NEW p \in Parkers, ParkRecheckUse(p)
      PROVE  BusyCount'
  BY <1>14, ParkShare, SharesKept, SameRet, Names DEF ParkRecheckUse, Goto, At, InPark, ThawBack, ThawTo
<1>15. ASSUME NEW p \in Parkers, ParkLeave(p)
      PROVE  BusyCount'
  <2>1. /\ pc[p] \in InPark /\ pc' = [pc EXCEPT ![p] = ParkedBy(p)]
        /\ ret' = [ret EXCEPT ![p] = ret[p]] /\ busy' = busy /\ p \in Proc
    BY <1>15, SameRet, Names DEF ParkLeave, Goto, At, InPark
  <2>2. ShareOf(p, ParkedBy(p), ret[p]) = ShareOf(p, pc[p], ret[p])
    BY <2>1, ParkShare DEF InPark
  <2> QED
    BY <2>1, <2>2, SharesKept
<1>16. ASSUME SweepStart \/ SweepWeigh \/ SweepDrop \/ SweepIdle
      PROVE  BusyCount'
  BY <1>16, Names DEF SweepStart, SweepWeigh, SweepDrop, SweepIdle, Goto, BusyCount
<1>17. ASSUME Grant \/ Release \/ OnGrant \/ ClearQuarantine
      PROVE  BusyCount'
  BY <1>17, Names DEF Grant, Release, OnGrant, ClearQuarantine, Goto, ThawTo, BusyCount
<1>18. ASSUME ResetStart
      PROVE  BusyCount'
  BY <1>18, Names, ShareNat DEF ResetStart, Goto, ThawTo, Begin, MayStart, Off, At, BusyCount, ResetShare, InThaw
<1>19. ASSUME ResetWipe
      PROVE  BusyCount'
  BY <1>19, ShareMoves, SameRet, Names DEF ResetWipe, Goto, At, BusyCount, ShareOf, ResetShare,
       Share, InThaw
<1>20. ASSUME ResetRebuild
      PROVE  BusyCount'
  BY <1>20, ShareMoves, SameRet, Names DEF ResetRebuild, Goto, At, Begin, BusyCount, ShareOf, ResetShare,
       Share, InThaw
<1>21. ASSUME ResetReboot
      PROVE  BusyCount'
  BY <1>21, ShareMoves, SameRet, Names DEF ResetReboot, Goto, At, ThawTo, BusyCount, ShareOf, ResetShare,
       Share, InThaw
<1>22. ASSUME ResetEnd
      PROVE  BusyCount'
  BY <1>22, ShareMoves, SameRet, Names DEF ResetEnd, Goto, At, BusyCount, ShareOf, ResetShare,
       Share, InThaw
<1>23. ASSUME BootStart
      PROVE  BusyCount'
  BY <1>23, Names, ShareNat DEF BootStart, Goto, ThawTo, Begin, MayStart, Off, At, Share, BusyCount
<1>24. ASSUME BootWake
      PROVE  BusyCount'
  BY <1>24, Names DEF BootWake, Goto, BusyCount
<1>25. ASSUME BootDone
      PROVE  BusyCount'
  BY <1>25, Names, ShareNat DEF BootDone, Goto, At, Share, BusyCount
<1>26. ASSUME ShutdownStart
      PROVE  BusyCount'
  BY <1>26, Names, ShareNat DEF ShutdownStart, Goto, ThawTo, Begin, NoOther, Off, At, Share, BusyCount
<1>27. ASSUME ShutdownHalt
      PROVE  BusyCount'
  BY <1>27, Names, ShareNat DEF ShutdownHalt, Goto, At, Share, BusyCount
<1>28. ASSUME ShutdownEnd
      PROVE  BusyCount'
  BY <1>28, Names, ShareNat DEF ShutdownEnd, Goto, At, Share, BusyCount
<1>29. ASSUME WatchStart \/ WatchOpen \/ WatchStop \/ AwakeLapses
      PROVE  BusyCount'
  BY <1>29, Names DEF WatchStart, WatchOpen, WatchStop, AwakeLapses, Goto, BusyCount
<1>30. ASSUME CloseStart \/ CloseJoin
      PROVE  BusyCount'
  BY <1>30, Names DEF CloseStart, CloseJoin, Goto, ThawTo, BusyCount
<1>31. ASSUME Restart
      PROVE  BusyCount'
  BY <1>31, Names DEF Restart, BusyCount, ResetShare, Share
<1>32. CASE UNCHANGED vars
  BY <1>32 DEF vars, BusyCount
<1> QED
  BY StepActions, <1>1, <1>2, <1>3, <1>4, <1>5, <1>6, <1>7, <1>8, <1>9,
     <1>10, <1>11, <1>12, <1>13, <1>14, <1>15, <1>16, <1>17, <1>18, <1>19,
     <1>20, <1>21, <1>22, <1>23, <1>24, <1>25, <1>26, <1>27, <1>28, <1>29,
     <1>30, <1>31, <1>32 DEF Step

-----------------------------------------------------------------------------
(* The ledger, when parks and thaws exclude each other. *)
LedgerRight ==
  Exclusive /\ Recorded /\ ThawWorks /\ ParksTheLiving /\ ForgetsRunning

LEMMA OutsideParker ==
  ASSUME TypeOK, Control, NEW p \in Proc, pc[p] \in InThaw
  PROVE  /\ ret[p] \notin {"stop", "cont", "forget", "drop"}
         /\ ThawFailedAt(p) \notin {"stop", "cont", "forget", "drop"}
<1>1. ret[p] \in RetOf(p)
  BY ThawReturns
<1>2. ret[p] \in {"leave", "wipe", "park", "off", "wake", "halt", "closed"}
  BY <1>1 DEF RetOf
<1> QED
  BY <1>2 DEF ThawFailedAt

(* A step that signals nothing and writes no ledger entry, with nobody new *)
(* inside a park or a thaw.                                                *)
LEMMA LedgerUntouched ==
  ASSUME TypeOK, LedgerRight, stopped' = stopped, ledger' = ledger,
         \A q \in Proc : pc'[q] \in {"stop", "cont", "forget", "drop"} =>
            /\ pc'[q] = pc[q] /\ cached'[q] = cached[q] /\ todo'[q] = todo[q]
            /\ q \in erred => q \in erred',
         \A q \in Parkers : pc[q] = "stop" => pc'[q] = "stop" /\ cached'[q] = cached[q]
  PROVE  LedgerRight'
<1> USE DEF LedgerRight, InParker, At
<1>1. Exclusive'
  BY DEF Exclusive
<1>2. Recorded'
  BY DEF Recorded
<1>3. ThawWorks'
  BY DEF ThawWorks
<1>4. ForgetsRunning'
  BY DEF ForgetsRunning
<1>5. ParksTheLiving'
  BY Names DEF ParksTheLiving
<1> QED
  BY <1>1, <1>2, <1>3, <1>4, <1>5

(* One goroutine outside moves to a place outside. *)
LEMMA MovesOutside ==
  ASSUME TypeOK, LedgerRight, UNCHANGED <<stopped, ledger, todo, cached>>,
         NEW p \in Proc, NEW label,
         pc[p] \notin {"stop", "cont", "forget", "drop"},
         label \notin {"stop", "cont", "forget", "drop"},
         pc' = [pc EXCEPT ![p] = label],
         \A q \in Proc : q # p /\ q \in erred => q \in erred'
  PROVE  LedgerRight'
<1>1. \A q \in Proc : pc'[q] \in {"stop", "cont", "forget", "drop"} => q # p /\ pc'[q] = pc[q]
  BY DEF TypeOK
<1>2. \A q \in Parkers : pc[q] = "stop" => pc'[q] = "stop"
  BY Names DEF TypeOK
<1> QED
  BY <1>1, <1>2, LedgerUntouched

(* The processes exit. *)
LEMMA TreeGone ==
  ASSUME TypeOK, LedgerRight, TreeDies, NEW p \in Proc, NEW label,
         pc[p] \notin {"stop", "cont", "forget", "drop"},
         label \notin {"stop", "cont", "forget", "drop"},
         pc' = [pc EXCEPT ![p] = label]
  PROVE  LedgerRight'
<1> USE DEF LedgerRight, InParker, At, TypeOK, TreeDies
<1>1. \A q \in Proc : pc'[q] \in {"stop", "cont", "forget", "drop"} => q # p /\ pc'[q] = pc[q]
  OBVIOUS
<1>2. Exclusive' /\ Recorded' /\ ForgetsRunning' /\ ParksTheLiving'
  BY <1>1 DEF Exclusive, Recorded, ForgetsRunning, ParksTheLiving
<1>3. ThawWorks'
  BY <1>1 DEF ThawWorks
<1> QED
  BY <1>2, <1>3

(* Every step keeps the ledger right. *)
LEMMA StepLedger ==
  ASSUME ~Overtaking, RunInv, LedgerRight, [Next]_vars
  PROVE  LedgerRight'
<1> USE DEF RunInv, TypeOK, LedgerRight, simVars, poolVars, parkVars, thawVars
<1>1. ASSUME NEW p \in Proc, ThawRead(p)
      PROVE  LedgerRight'
  <2>1. CASE ledger = "none"
    BY <1>1, <2>1, OutsideParker, MovesOutside DEF ThawRead, At, Goto, InThaw
  <2>2. CASE ledger # "none"
    <3>1. /\ \A q \in Proc : ~InParker(q)
          /\ pc' = [pc EXCEPT ![p] = "cont"] /\ todo' = [todo EXCEPT ![p] = Pid]
          /\ cached' = [cached EXCEPT ![p] = ledger] /\ pc[p] = "thaw"
          /\ UNCHANGED <<stopped, ledger>>
      BY <1>1, <2>2 DEF ThawRead, MayBegin, At, Goto
    <3>2. \A q \in Proc : InParker(q)' => q = p
      BY <3>1 DEF InParker
    <3>3. Exclusive' /\ ForgetsRunning' /\ ParksTheLiving'
      BY <3>1, <3>2, Names DEF Exclusive, ForgetsRunning, ParksTheLiving, InParker, At
    <3>4. \A q \in Parkers : ~At(q, "stop")
      BY <3>1, Names DEF InParker, At
    <3>5. Recorded'
      BY <3>1, <3>4 DEF Recorded
    <3>6. ThawWorks'
      BY <3>1, <3>2 DEF ThawWorks, InParker, At
    <3> QED
      BY <3>3, <3>5, <3>6
  <2> QED
    BY <2>1, <2>2
<1>2. ASSUME NEW p \in Proc, NEW i \in Pid, ThawSignal(p, i)
      PROVE  LedgerRight'
  <2>1. /\ pc' = pc /\ ledger' = ledger /\ cached' = cached /\ pc[p] = "cont"
        /\ todo' = [todo EXCEPT ![p] = @ \ {i}]
        /\ ledger = cached[p] /\ stopped' \subseteq stopped
    BY <1>2 DEF ThawSignal, At, ThawWorks
  <2>2. \A q \in Proc : InParker(q) => q = p
    BY <2>1 DEF Exclusive, InParker
  <2>3. cached'[p] = "live" /\ p \notin erred' => stopped' \subseteq todo'[p]
    BY <1>2, <2>1 DEF ThawSignal, At, ThawWorks
  <2>4. Exclusive' /\ ForgetsRunning' /\ ParksTheLiving'
    BY <2>1 DEF Exclusive, ForgetsRunning, ParksTheLiving, InParker, At
  <2>5. ThawWorks'
    BY <2>1, <2>2, <2>3 DEF ThawWorks, InParker, At
  <2>6. Recorded'
    BY <2>1 DEF Recorded, At
  <2> QED
    BY <2>4, <2>5, <2>6
<1>3. ASSUME NEW p \in Proc, ThawDone(p)
      PROVE  LedgerRight'
  <2>1. /\ pc[p] = "cont" /\ todo[p] = {} /\ stopped' = stopped /\ ledger' = ledger
        /\ cached' = [cached EXCEPT ![p] = "dead"]
    BY <1>3 DEF ThawDone, At
  <2>2. \A q \in Proc : InParker(q) => q = p
    BY <2>1 DEF Exclusive, InParker
  <2>3. \A q \in Parkers : ~At(q, "stop")
    BY <2>1, <2>2, Names DEF InParker, At
  <2>4. p \notin erred => stopped = {}
    BY <2>1, <2>3 DEF ThawWorks, Recorded, At
  <2>5. \/ p \notin erred /\ pc' = [pc EXCEPT ![p] = "forget"]
        \/ pc' = [pc EXCEPT ![p] = ThawFailedAt(p)]
    BY <1>3 DEF ThawDone, KeepsEntry, Goto
  <2>6. ThawFailedAt(p) \notin {"stop", "cont", "forget", "drop"}
    BY <2>1, OutsideParker DEF InThaw
  <2>7. \A q \in Proc : InParker(q)' =>
          q = p /\ pc'[p] = "forget" /\ stopped = {}
    BY <2>2, <2>4, <2>5, <2>6 DEF InParker
  <2>8. Exclusive' /\ ForgetsRunning' /\ ThawWorks' /\ ParksTheLiving'
    BY <2>1, <2>7, Names DEF Exclusive, ForgetsRunning, ThawWorks, ParksTheLiving,
         InParker, At
  <2>9. Recorded'
    BY <2>1, <2>3 DEF Recorded
  <2> QED
    BY <2>8, <2>9
<1>4. ASSUME NEW p \in Proc, ThawForget(p)
      PROVE  LedgerRight'
  <2>1. pc[p] = "forget" /\ stopped' = {} /\ pc' = [pc EXCEPT ![p] = ret[p]]
    BY <1>4 DEF ThawForget, At, Goto, ForgetsRunning
  <2>2. \A q \in Proc : ~InParker(q)'
    BY <2>1, OutsideParker DEF Exclusive, InParker, InThaw
  <2> QED
    BY <2>1, <2>2, Names DEF Exclusive, Recorded, ThawWorks, ForgetsRunning,
         ParksTheLiving, InParker, At
<1>5. ASSUME NEW p \in Parkers, ParkEnter(p)
      PROVE  LedgerRight'
  BY <1>5, Names, MovesOutside DEF ParkEnter, At, Goto, ParkedBy
<1>6. ASSUME NEW p \in Parkers, ParkDepth(p)
      PROVE  LedgerRight'
  BY <1>6, Names, MovesOutside DEF ParkDepth, At, Goto
<1>7. ASSUME NEW p \in Parkers, ParkLook(p)
      PROVE  LedgerRight'
  BY <1>7, Names, MovesOutside DEF ParkLook, At, Goto
<1>8. ASSUME NEW p \in Parkers, ParkSeq(p)
      PROVE  LedgerRight'
  BY <1>8, Names, MovesOutside DEF ParkSeq, At, Goto
<1>9. ASSUME NEW p \in Parkers, ParkList(p)
      PROVE  LedgerRight'
  <2>1. CASE up
    <3>1. /\ \A q \in Proc : ~InParker(q)
          /\ pc' = [pc EXCEPT ![p] = "stop"]
          /\ UNCHANGED <<stopped, ledger>> /\ cached'[p] = "live"
      BY <1>9, <2>1, Names DEF ParkList, MayBegin, Goto
    <3>2. \A q \in Proc : InParker(q)' => q = p /\ pc'[q] = "stop"
      BY <3>1 DEF InParker
    <3>3. \A q \in Parkers : ~At(q, "stop")
      BY <3>1, Names DEF InParker, At
    <3>4. Exclusive' /\ ForgetsRunning' /\ ThawWorks' /\ ParksTheLiving'
      BY <3>1, <3>2, Names DEF Exclusive, ForgetsRunning, ThawWorks, ParksTheLiving,
           InParker, At
    <3>5. Recorded'
      BY <3>1, <3>3 DEF Recorded
    <3> QED
      BY <3>4, <3>5
  <2>2. CASE ~up
    BY <1>9, <2>2, Names, MovesOutside DEF ParkList, At, Goto
  <2> QED
    BY <2>1, <2>2
<1>10. ASSUME NEW p \in Parkers, NEW i \in Pid, ParkSignal(p, i)
      PROVE  LedgerRight'
  <2>1. /\ pc' = pc /\ ledger' = ledger /\ cached' = cached /\ pc[p] = "stop"
        /\ cached[p] # "live" => stopped' = stopped
    BY <1>10 DEF ParkSignal, At
  <2>2. \A q \in Proc : InParker(q) => q = p
    BY <2>1, Names DEF Exclusive, InParker
  <2>3. Exclusive' /\ ForgetsRunning' /\ ThawWorks'
    BY <2>1, <2>2 DEF Exclusive, ForgetsRunning, ThawWorks, InParker, At
  <2>5. ParksTheLiving'
    BY <2>1, <2>2, Names DEF ParksTheLiving, InParker, At
  <2>4. Recorded'
    BY <2>1 DEF Recorded, At
  <2> QED
    BY <2>3, <2>4, <2>5
<1>11. ASSUME NEW p \in Parkers, ParkRollback(p)
      PROVE  LedgerRight'
  <2>1. pc[p] = "stop" /\ stopped' = {} /\ pc' = [pc EXCEPT ![p] = "leave"]
    BY <1>11 DEF ParkRollback, At, Goto
  <2>2. \A q \in Proc : ~InParker(q)'
    BY <2>1, Names DEF Exclusive, InParker
  <2> QED
    BY <2>1, <2>2, Names DEF Exclusive, Recorded, ThawWorks, ForgetsRunning,
         ParksTheLiving, InParker, At
<1>12. ASSUME NEW p \in Parkers, ParkLedger(p)
      PROVE  LedgerRight'
  <2>1. /\ pc[p] = "stop" /\ stopped' = stopped /\ pc' = [pc EXCEPT ![p] = "enter"]
        /\ ledger' = cached[p]
    BY <1>12 DEF ParkLedger, At, Goto
  <2>2. \A q \in Proc : InParker(q) => q = p
    BY <2>1, Names DEF Exclusive, InParker
  <2>3. \A q \in Proc : ~InParker(q)'
    BY <2>1, <2>2, Names DEF InParker
  <2>4. cached[p] # "live" => stopped = {}
    BY <2>1 DEF ParksTheLiving, At
  <2>5. Recorded'
    BY <2>1, <2>4 DEF Recorded
  <2> QED
    BY <2>3, <2>5, Names DEF Exclusive, ThawWorks, ForgetsRunning, ParksTheLiving,
         InParker, At
<1>13. ASSUME NEW p \in Parkers, ParkRecheck(p)
      PROVE  LedgerRight'
  BY <1>13, Names, MovesOutside DEF ParkRecheck, At, Goto, ThawBack, ThawTo
<1>14. ASSUME NEW p \in Parkers, ParkRecheckUse(p)
      PROVE  LedgerRight'
  BY <1>14, Names, MovesOutside DEF ParkRecheckUse, At, Goto, ThawBack, ThawTo
<1>15. ASSUME NEW p \in Parkers, ParkLeave(p)
      PROVE  LedgerRight'
  BY <1>15, Names, MovesOutside DEF ParkLeave, At, Goto, ParkedBy
<1>16. ASSUME SweepStart
      PROVE  LedgerRight'
  BY <1>16, Names, MovesOutside DEF SweepStart, At, Goto, MayStart, Off
<1>17. ASSUME SweepWeigh
      PROVE  LedgerRight'
  <2>1. CASE ledger = "dead"
    <3>1. /\ \A q \in Proc : ~InParker(q)
          /\ pc' = [pc EXCEPT !["watchdog"] = "drop"]
          /\ UNCHANGED <<stopped, ledger>>
      BY <1>17, <2>1 DEF SweepWeigh, MayBegin, Goto
    <3>2. \A q \in Proc : InParker(q)' => q = "watchdog" /\ pc'[q] = "drop"
      BY <3>1 DEF InParker
    <3>3. \A q \in Parkers : ~At(q, "stop")
      BY <3>1, Names DEF InParker, At
    <3>4. stopped = {}
      BY <2>1, <3>3 DEF Recorded
    <3> QED
      BY <3>1, <3>2, <3>4, Names
      DEF Exclusive, Recorded, ThawWorks, ForgetsRunning,
         ParksTheLiving, InParker, At
  <2>2. CASE ledger # "dead"
    BY <1>17, <2>2, Names, MovesOutside DEF SweepWeigh, At, Goto
  <2> QED
    BY <2>1, <2>2
<1>18. ASSUME SweepDrop
      PROVE  LedgerRight'
  <2>1. pc["watchdog"] = "drop" /\ stopped' = {}
          /\ pc' = [pc EXCEPT !["watchdog"] = "idle"]
    BY <1>18, Names DEF SweepDrop, At, Goto, ForgetsRunning
  <2>2. \A q \in Proc : ~InParker(q)'
    BY <2>1, Names DEF Exclusive, InParker
  <2> QED
    BY <2>1, <2>2, Names DEF Exclusive, Recorded, ThawWorks, ForgetsRunning,
         ParksTheLiving, InParker, At
<1>19. ASSUME SweepIdle
      PROVE  LedgerRight'
  BY <1>19, Names, MovesOutside DEF SweepIdle, At, Goto
<1>20. ASSUME Grant \/ Release \/ ClearQuarantine
      PROVE  LedgerRight'
  BY <1>20, LedgerUntouched DEF Grant, Release, ClearQuarantine
<1>21. ASSUME OnGrant
      PROVE  LedgerRight'
  BY <1>21, Names, MovesOutside DEF OnGrant, At, Goto, Off, ThawTo
<1>22. ASSUME ResetStart
      PROVE  LedgerRight'
  BY <1>22, Names, MovesOutside DEF ResetStart, At, Goto, MayStart, Off, ThawTo
<1>23. ASSUME ResetWipe
      PROVE  LedgerRight'
  BY <1>23, Names, TreeGone DEF ResetWipe, At, Goto
<1>24. ASSUME ResetRebuild
      PROVE  LedgerRight'
  BY <1>24, Names, MovesOutside DEF ResetRebuild, At, Goto
<1>25. ASSUME ResetReboot
      PROVE  LedgerRight'
  BY <1>25, Names, MovesOutside DEF ResetReboot, At, Goto
<1>26. ASSUME ResetEnd
      PROVE  LedgerRight'
  BY <1>26, Names, MovesOutside DEF ResetEnd, At, Goto
<1>27. ASSUME BootStart
      PROVE  LedgerRight'
  <2>1. /\ pc["boot"] = "off" /\ UNCHANGED <<stopped, ledger, todo, cached, erred>>
        /\ \/ \E label \in {"thaw", "wake"} : pc' = [pc EXCEPT !["boot"] = label]
           \/ /\ pc["booter"] = "off"
              /\ pc' = [pc EXCEPT !["boot"] = "wake", !["booter"] = "booting"]
    BY <1>27 DEF BootStart, NoOther, MayStart, Off, At, Goto
  <2>2. \A q \in Proc : pc'[q] \in {"stop", "cont", "forget", "drop"} => pc'[q] = pc[q]
    BY <2>1
  <2>3. \A q \in Parkers : pc[q] = "stop" => pc'[q] = "stop"
    BY <2>1, Names
  <2> QED
    BY <2>1, <2>2, <2>3, LedgerUntouched
<1>28. ASSUME BootWake
      PROVE  LedgerRight'
  BY <1>28, Names, MovesOutside DEF BootWake, At, Goto
<1>29. ASSUME BootDone
      PROVE  LedgerRight'
  BY <1>29, Names, MovesOutside DEF BootDone, At, Goto
<1>30. ASSUME ShutdownStart
      PROVE  LedgerRight'
  BY <1>30, Names, MovesOutside DEF ShutdownStart, At, Goto, NoOther, Off, ThawTo
<1>31. ASSUME ShutdownHalt
      PROVE  LedgerRight'
  <2>1. CASE TreeDies
    BY <1>31, <2>1, Names, TreeGone DEF ShutdownHalt, At, Goto
  <2>2. CASE UNCHANGED <<simVars, cached>>
    BY <1>31, <2>2, Names, MovesOutside DEF ShutdownHalt, At, Goto
  <2> QED
    BY <1>31, <2>1, <2>2 DEF ShutdownHalt
<1>32. ASSUME ShutdownEnd
      PROVE  LedgerRight'
  BY <1>32, Names, MovesOutside DEF ShutdownEnd, At, Goto
<1>33. ASSUME WatchStart
      PROVE  LedgerRight'
  BY <1>33, Names, MovesOutside DEF WatchStart, At, Goto, MayStart, Off
<1>34. ASSUME WatchOpen
      PROVE  LedgerRight'
  BY <1>34, Names, MovesOutside DEF WatchOpen, At, Goto
<1>35. ASSUME WatchStop \/ AwakeLapses
      PROVE  LedgerRight'
  BY <1>35, LedgerUntouched DEF WatchStop, AwakeLapses
<1>36. ASSUME CloseStart
      PROVE  LedgerRight'
  BY <1>36, Names, MovesOutside DEF CloseStart, At, Goto, MayStart, Off
<1>37. ASSUME CloseJoin
      PROVE  LedgerRight'
  BY <1>37, Names, MovesOutside DEF CloseJoin, At, Goto, ThawTo
<1>38. ASSUME Restart
      PROVE  LedgerRight'
  BY <1>38, Names DEF Restart, LeftFrozen, Exclusive, Recorded, ThawWorks, ForgetsRunning, ParksTheLiving, InParker, At
<1>39. CASE UNCHANGED vars
  BY <1>39, LedgerUntouched DEF vars
<1> QED
  BY StepActions, <1>1, <1>2, <1>3, <1>4, <1>5, <1>6, <1>7, <1>8, <1>9,
     <1>10, <1>11, <1>12, <1>13, <1>14, <1>15, <1>16, <1>17, <1>18, <1>19,
     <1>20, <1>21, <1>22, <1>23, <1>24, <1>25, <1>26, <1>27, <1>28, <1>29,
     <1>30, <1>31, <1>32, <1>33, <1>34, <1>35, <1>36, <1>37, <1>38, <1>39 DEF Step

-----------------------------------------------------------------------------
(* Errors, holders, and Close. *)
LEMMA ErrorsKept ==
  ASSUME ErrorsAreNoted, broken' = broken,
         \A q \in Proc : pc'[q] = "cont" => pc[q] = "cont" /\ (q \in erred' => q \in erred)
  PROVE  ErrorsAreNoted'
  BY DEF ErrorsAreNoted, At

LEMMA ErrorsMove ==
  ASSUME TypeOK, ErrorsAreNoted, broken' = broken, NEW p \in Proc, NEW label,
         label # "cont", pc' = [pc EXCEPT ![p] = label],
         \A q \in Proc : q # p => (q \in erred' => q \in erred)
  PROVE  ErrorsAreNoted'
  BY ErrorsKept DEF TypeOK

(* A failed SIGCONT is on record. *)
LEMMA StepErrors ==
  ASSUME RunInv, ErrorsAreNoted, [Next]_vars
  PROVE  ErrorsAreNoted'
<1> USE DEF RunInv, TypeOK, simVars, poolVars, parkVars, thawVars
<1>1. ASSUME NEW p \in Proc, ThawRead(p)
      PROVE  ErrorsAreNoted'
  <2>1. CASE ledger = "none"
    BY <1>1, <2>1, OutsideParker, ErrorsMove DEF ThawRead, At, Goto, InThaw
  <2>2. CASE ledger # "none"
    BY <1>1, <2>2 DEF ThawRead, ErrorsAreNoted, Goto, At
  <2> QED
    BY <2>1, <2>2
<1>2. ASSUME NEW p \in Proc, NEW i \in Pid, ThawSignal(p, i)
      PROVE  ErrorsAreNoted'
  BY <1>2 DEF ThawSignal, ErrorsAreNoted, At
<1>3. ASSUME NEW p \in Proc, ThawDone(p)
      PROVE  ErrorsAreNoted'
  <2>1. pc[p] \in InThaw
    BY <1>3 DEF ThawDone, At, InThaw
  <2> QED
    BY <1>3, <2>1, OutsideParker, ErrorsMove DEF ThawDone, Goto
<1>4. ASSUME NEW p \in Proc, ThawForget(p)
      PROVE  ErrorsAreNoted'
  BY <1>4, OutsideParker, ErrorsMove DEF ThawForget, At, Goto, InThaw
<1>5. ASSUME NEW p \in Parkers, ParkEnter(p)
      PROVE  ErrorsAreNoted'
  BY <1>5, Names, ErrorsMove DEF ParkEnter, Goto, ParkedBy
<1>6. ASSUME NEW p \in Parkers, ParkDepth(p)
      PROVE  ErrorsAreNoted'
  BY <1>6, Names, ErrorsMove DEF ParkDepth, Goto
<1>7. ASSUME NEW p \in Parkers, ParkLook(p)
      PROVE  ErrorsAreNoted'
  BY <1>7, Names, ErrorsMove DEF ParkLook, Goto
<1>8. ASSUME NEW p \in Parkers, ParkSeq(p)
      PROVE  ErrorsAreNoted'
  BY <1>8, Names, ErrorsMove DEF ParkSeq, Goto
<1>9. ASSUME NEW p \in Parkers, ParkList(p)
      PROVE  ErrorsAreNoted'
  BY <1>9, Names, ErrorsMove DEF ParkList, Goto
<1>10. ASSUME NEW p \in Parkers, NEW i \in Pid, ParkSignal(p, i)
      PROVE  ErrorsAreNoted'
  BY <1>10, ErrorsKept DEF ParkSignal
<1>11. ASSUME NEW p \in Parkers, ParkRollback(p)
      PROVE  ErrorsAreNoted'
  BY <1>11, Names, ErrorsMove DEF ParkRollback, Goto
<1>12. ASSUME NEW p \in Parkers, ParkLedger(p)
      PROVE  ErrorsAreNoted'
  BY <1>12, Names, ErrorsMove DEF ParkLedger, Goto
<1>13. ASSUME NEW p \in Parkers, ParkRecheck(p)
      PROVE  ErrorsAreNoted'
  BY <1>13, Names, ErrorsMove DEF ParkRecheck, Goto, ThawBack
<1>14. ASSUME NEW p \in Parkers, ParkRecheckUse(p)
      PROVE  ErrorsAreNoted'
  BY <1>14, Names, ErrorsMove DEF ParkRecheckUse, Goto, ThawBack
<1>15. ASSUME NEW p \in Parkers, ParkLeave(p)
      PROVE  ErrorsAreNoted'
  BY <1>15, Names, ErrorsMove DEF ParkLeave, Goto, ParkedBy
<1>16. ASSUME SweepStart
      PROVE  ErrorsAreNoted'
  BY <1>16, Names, ErrorsMove DEF SweepStart, Goto
<1>17. ASSUME SweepWeigh
      PROVE  ErrorsAreNoted'
  BY <1>17, Names, ErrorsMove DEF SweepWeigh, Goto
<1>18. ASSUME SweepDrop
      PROVE  ErrorsAreNoted'
  BY <1>18, Names, ErrorsMove DEF SweepDrop, Goto
<1>19. ASSUME SweepIdle
      PROVE  ErrorsAreNoted'
  BY <1>19, Names, ErrorsMove DEF SweepIdle, Goto
<1>20. ASSUME Grant \/ Release \/ ClearQuarantine
      PROVE  ErrorsAreNoted'
  BY <1>20, ErrorsKept DEF Grant, Release, ClearQuarantine
<1>21. ASSUME OnGrant
      PROVE  ErrorsAreNoted'
  BY <1>21, Names, ErrorsMove DEF OnGrant, Goto
<1>22. ASSUME ResetStart
      PROVE  ErrorsAreNoted'
  BY <1>22, Names, ErrorsMove DEF ResetStart, Goto
<1>23. ASSUME ResetWipe
      PROVE  ErrorsAreNoted'
  BY <1>23, Names, ErrorsMove DEF ResetWipe, Goto
<1>24. ASSUME ResetRebuild
      PROVE  ErrorsAreNoted'
  BY <1>24, Names, ErrorsMove DEF ResetRebuild, Goto
<1>25. ASSUME ResetReboot
      PROVE  ErrorsAreNoted'
  BY <1>25, Names, ErrorsMove DEF ResetReboot, Goto
<1>26. ASSUME ResetEnd
      PROVE  ErrorsAreNoted'
  BY <1>26, Names, ErrorsMove DEF ResetEnd, Goto
<1>27. ASSUME BootStart
      PROVE  ErrorsAreNoted'
  <2>1. /\ UNCHANGED <<broken, erred>>
        /\ \/ \E label \in {"thaw", "wake"} : pc' = [pc EXCEPT !["boot"] = label]
           \/ pc' = [pc EXCEPT !["boot"] = "wake", !["booter"] = "booting"]
    BY <1>27 DEF BootStart, Goto
  <2>2. \A q \in Proc : pc'[q] = "cont" => pc[q] = "cont"
    BY <2>1
  <2> QED
    BY <2>1, <2>2, ErrorsKept
<1>28. ASSUME BootWake
      PROVE  ErrorsAreNoted'
  BY <1>28, Names, ErrorsMove DEF BootWake, Goto
<1>29. ASSUME BootDone
      PROVE  ErrorsAreNoted'
  BY <1>29, Names, ErrorsMove DEF BootDone, Goto
<1>30. ASSUME ShutdownStart
      PROVE  ErrorsAreNoted'
  BY <1>30, Names, ErrorsMove DEF ShutdownStart, Goto
<1>31. ASSUME ShutdownHalt
      PROVE  ErrorsAreNoted'
  BY <1>31, Names, ErrorsMove DEF ShutdownHalt, Goto
<1>32. ASSUME ShutdownEnd
      PROVE  ErrorsAreNoted'
  BY <1>32, Names, ErrorsMove DEF ShutdownEnd, Goto
<1>33. ASSUME WatchStart
      PROVE  ErrorsAreNoted'
  BY <1>33, Names, ErrorsMove DEF WatchStart, Goto
<1>34. ASSUME WatchOpen
      PROVE  ErrorsAreNoted'
  BY <1>34, Names, ErrorsMove DEF WatchOpen, Goto
<1>35. ASSUME WatchStop \/ AwakeLapses
      PROVE  ErrorsAreNoted'
  BY <1>35, ErrorsKept DEF WatchStop, AwakeLapses
<1>36. ASSUME CloseStart
      PROVE  ErrorsAreNoted'
  BY <1>36, Names, ErrorsMove DEF CloseStart, Goto
<1>37. ASSUME CloseJoin
      PROVE  ErrorsAreNoted'
  BY <1>37, Names, ErrorsMove DEF CloseJoin, Goto
<1>38. ASSUME Restart
      PROVE  ErrorsAreNoted'
  BY <1>38 DEF Restart, ErrorsAreNoted, At
<1>39. CASE UNCHANGED vars
  BY <1>39, ErrorsKept DEF vars
<1> QED
  BY StepActions, <1>1, <1>2, <1>3, <1>4, <1>5, <1>6, <1>7, <1>8, <1>9,
     <1>10, <1>11, <1>12, <1>13, <1>14, <1>15, <1>16, <1>17, <1>18, <1>19,
     <1>20, <1>21, <1>22, <1>23, <1>24, <1>25, <1>26, <1>27, <1>28, <1>29,
     <1>30, <1>31, <1>32, <1>33, <1>34, <1>35, <1>36, <1>37, <1>38, <1>39 DEF Step

(* A step that neither stops the tree nor makes anybody a holder, and      *)
(* leaves those who will thaw to it.                                       *)
LEMMA RescueKept ==
  ASSUME HolderRescued, broken' = broken, stopped' \subseteq stopped,
         lease' = "active" /\ ~notify' => lease = "active" /\ ~notify,
         Rescuers => Rescuers'
  PROVE  HolderRescued'
  BY DEF HolderRescued

LEMMA OthersRescue ==
  ASSUME TypeOK, NEW p \in Proc, NEW label, NEW r,
         pc' = [pc EXCEPT ![p] = label], ret' = [ret EXCEPT ![p] = r],
         p \in Parkers \cup {"grant"} =>
           /\ pc[p] \notin {"stop", "enter"}
           /\ pc[p] \in InThaw => p # "grant" /\ ret[p] # "leave"
  PROVE  Rescuers => Rescuers'
<1> SUFFICES ASSUME Rescuers PROVE Rescuers'
  OBVIOUS
<1> USE Names DEF TypeOK, Parkers
<1>1. CASE pc["grant"] \in InThaw
  BY <1>1 DEF Rescuers
<1>2. ASSUME NEW q \in Parkers,
             pc[q] \in {"stop", "enter"} \/ (pc[q] \in InThaw /\ ret[q] = "leave")
      PROVE  Rescuers'
  BY <1>2 DEF Rescuers
<1> QED
  BY <1>1, <1>2 DEF Rescuers

(* A frozen holder keeps somebody who will thaw it. *)
LEMMA StepRescue ==
  ASSUME RunInv, LedgerRight, ErrorsAreNoted, HolderRescued, [Next]_vars
  PROVE  HolderRescued'
<1> USE DEF RunInv, TypeOK, LedgerRight, simVars, poolVars, parkVars, thawVars
<1>1. ASSUME NEW p \in Proc, ThawRead(p)
      PROVE  HolderRescued'
  <2>1. pc[p] = "thaw" /\ UNCHANGED <<broken, stopped, lease, notify>>
    BY <1>1 DEF ThawRead, At
  <2>2. CASE ledger = "none"
    <3>1. stopped # {} => Rescuers'
      <4> SUFFICES ASSUME stopped # {} PROVE Rescuers'
        OBVIOUS
      <4>1. PICK q \in Parkers : At(q, "stop")
        BY <2>2 DEF Recorded
      <4>2. pc'[q] = "stop"
        BY <1>1, <2>1, <2>2, <4>1, Names DEF ThawRead, Goto, At
      <4> QED
        BY <4>2 DEF Rescuers
    <3> QED
      BY <2>1, <3>1 DEF HolderRescued
  <2>3. CASE ledger # "none"
    <3>1. pc' = [pc EXCEPT ![p] = "cont"] /\ ret' = ret
      BY <1>1, <2>3 DEF ThawRead, Goto
    <3>2. Rescuers => Rescuers'
      BY <2>1, <3>1, Names DEF Rescuers, InThaw
    <3> QED
      BY <2>1, <3>2, RescueKept
  <2> QED
    BY <2>2, <2>3
<1>2. ASSUME NEW p \in Proc, NEW i \in Pid, ThawSignal(p, i)
      PROVE  HolderRescued'
  <2>1. /\ UNCHANGED <<pc, ret, lease, notify>> /\ stopped' \subseteq stopped
        /\ broken' = broken \/ broken' = TRUE
    BY <1>2 DEF ThawSignal
  <2> QED
    BY <2>1 DEF HolderRescued, Rescuers
<1>3. ASSUME NEW p \in Proc, ThawDone(p)
      PROVE  HolderRescued'
  <2>1. /\ UNCHANGED <<broken, stopped, lease, notify>> /\ pc[p] = "cont"
    BY <1>3 DEF ThawDone, At
  <2>2. CASE p \in erred
    BY <2>1, <2>2 DEF ErrorsAreNoted, HolderRescued, At
  <2>3. CASE p \notin erred
    <3>1. pc' = [pc EXCEPT ![p] = "forget"] /\ ret' = ret
      BY <1>3, <2>3 DEF ThawDone, KeepsEntry, Goto
    <3>2. Rescuers => Rescuers'
      BY <2>1, <3>1, Names DEF Rescuers, InThaw
    <3> QED
      BY <2>1, <3>2, RescueKept
  <2> QED
    BY <2>2, <2>3
<1>4. ASSUME NEW p \in Proc, ThawForget(p)
      PROVE  HolderRescued'
  BY <1>4 DEF ThawForget, ForgetsRunning, HolderRescued
<1>5. ASSUME NEW p \in Parkers, ParkEnter(p)
      PROVE  HolderRescued'
  BY <1>5, Names, SameRet, RescueKept, OthersRescue DEF ParkEnter, Goto, At, Parkers, InThaw, ParkedBy
<1>6. ASSUME NEW p \in Parkers, ParkDepth(p)
      PROVE  HolderRescued'
  BY <1>6, Names, SameRet, RescueKept, OthersRescue DEF ParkDepth, Goto, At, Parkers, InThaw
<1>7. ASSUME NEW p \in Parkers, ParkLook(p)
      PROVE  HolderRescued'
  BY <1>7, Names, SameRet, RescueKept, OthersRescue DEF ParkLook, Goto, At, Parkers, InThaw
<1>8. ASSUME NEW p \in Parkers, ParkSeq(p)
      PROVE  HolderRescued'
  BY <1>8, Names, SameRet, RescueKept, OthersRescue DEF ParkSeq, Goto, At, Parkers, InThaw
<1>9. ASSUME NEW p \in Parkers, ParkList(p)
      PROVE  HolderRescued'
  BY <1>9, Names, SameRet, RescueKept, OthersRescue DEF ParkList, Goto, At, Parkers, InThaw
<1>10. ASSUME NEW p \in Parkers, NEW i \in Pid, ParkSignal(p, i)
      PROVE  HolderRescued'
  BY <1>10 DEF ParkSignal, HolderRescued, Rescuers, At
<1>11. ASSUME NEW p \in Parkers, ParkRollback(p)
      PROVE  HolderRescued'
  BY <1>11 DEF ParkRollback, HolderRescued
<1>12. ASSUME NEW p \in Parkers, ParkLedger(p)
      PROVE  HolderRescued'
  <2>1. /\ pc[p] = "stop" /\ pc' = [pc EXCEPT ![p] = "enter"]
        /\ UNCHANGED <<broken, stopped, lease, notify, ret>>
    BY <1>12 DEF ParkLedger, At, Goto
  <2>2. Rescuers'
    BY <2>1, Names DEF Rescuers
  <2> QED
    BY <2>1, <2>2 DEF HolderRescued
<1>13. ASSUME NEW p \in Parkers, ParkRecheck(p)
      PROVE  HolderRescued'
  <2>1. UNCHANGED <<broken, stopped, lease, notify>>
    BY <1>13 DEF ParkRecheck
  <2>2. CASE lease = "active"
    <3>1. pc' = [pc EXCEPT ![p] = "thaw"] /\ ret' = [ret EXCEPT ![p] = "leave"]
      BY <1>13, <2>2 DEF ParkRecheck, LandedMidPark, ThawBack, Goto, ThawTo
    <3>2. Rescuers'
      BY <3>1, Names DEF Rescuers, InThaw
    <3> QED
      BY <3>2 DEF HolderRescued
  <2>3. CASE lease # "active"
    BY <2>1, <2>3 DEF HolderRescued
  <2> QED
    BY <2>2, <2>3
<1>14. ASSUME NEW p \in Parkers, ParkRecheckUse(p)
      PROVE  HolderRescued'
  BY <1>14, Names, SameRet, RescueKept, OthersRescue DEF ParkRecheckUse, Goto, At, Parkers, InThaw, ThawBack, ThawTo
<1>15. ASSUME NEW p \in Parkers, ParkLeave(p)
      PROVE  HolderRescued'
  BY <1>15, Names, SameRet, RescueKept, OthersRescue DEF ParkLeave, Goto, At, Parkers, InThaw, ParkedBy
<1>16. ASSUME SweepStart
      PROVE  HolderRescued'
  BY <1>16, Names, SameRet, RescueKept, OthersRescue DEF SweepStart, Goto, At, Parkers, InThaw, MayStart, Off
<1>17. ASSUME SweepWeigh
      PROVE  HolderRescued'
  BY <1>17, Names, SameRet, RescueKept, OthersRescue DEF SweepWeigh, Goto, At, Parkers, InThaw
<1>18. ASSUME SweepDrop
      PROVE  HolderRescued'
  BY <1>18, Names DEF SweepDrop, At, HolderRescued, ForgetsRunning
<1>19. ASSUME SweepIdle
      PROVE  HolderRescued'
  BY <1>19, Names, SameRet, RescueKept, OthersRescue DEF SweepIdle, Goto, At, Parkers, InThaw
<1>20. ASSUME Grant
      PROVE  HolderRescued'
  BY <1>20 DEF Grant, HolderRescued
<1>21. ASSUME Release
      PROVE  HolderRescued'
  BY <1>21 DEF Release, HolderRescued
<1>22. ASSUME OnGrant
      PROVE  HolderRescued'
  <2>1. pc'["grant"] = "thaw"
    BY <1>22, Names DEF OnGrant, Goto
  <2> QED
    BY <2>1 DEF HolderRescued, Rescuers, InThaw
<1>23. ASSUME ClearQuarantine
      PROVE  HolderRescued'
  BY <1>23 DEF ClearQuarantine, HolderRescued
<1>24. ASSUME ResetStart
      PROVE  HolderRescued'
  BY <1>24, Names, SameRet, RescueKept, OthersRescue DEF ResetStart, Goto, At, Parkers, InThaw, MayStart, Off, ThawTo
<1>25. ASSUME ResetWipe
      PROVE  HolderRescued'
  BY <1>25 DEF ResetWipe, TreeDies, HolderRescued
<1>26. ASSUME ResetRebuild
      PROVE  HolderRescued'
  BY <1>26, Names, SameRet, RescueKept, OthersRescue DEF ResetRebuild, Goto, At, Parkers, InThaw
<1>27. ASSUME ResetReboot
      PROVE  HolderRescued'
  BY <1>27, Names, SameRet, RescueKept, OthersRescue DEF ResetReboot, Goto, At, Parkers, InThaw, ThawTo
<1>28. ASSUME ResetEnd
      PROVE  HolderRescued'
  BY <1>28 DEF ResetEnd, HolderRescued
<1>29. ASSUME BootStart
      PROVE  HolderRescued'
  <2>1. /\ UNCHANGED <<broken, stopped, notify>>
        /\ lease' = "active" => lease = "active"
        /\ \E r : ret' = [ret EXCEPT !["boot"] = r]
        /\ \/ \E label \in {"thaw", "wake"} : pc' = [pc EXCEPT !["boot"] = label]
           \/ pc' = [pc EXCEPT !["boot"] = "wake", !["booter"] = "booting"]
    BY <1>29, SameRet, Names DEF BootStart, Goto, ThawTo, Admit
  <2>2. /\ pc'["grant"] = pc["grant"]
        /\ \A q \in Parkers : pc'[q] = pc[q] /\ ret'[q] = ret[q]
    BY <2>1, Names DEF Parkers
  <2>3. Rescuers => Rescuers'
    BY <2>2 DEF Rescuers
  <2> QED
    BY <2>1, <2>3, RescueKept
<1>30. ASSUME BootWake
      PROVE  HolderRescued'
  BY <1>30, Names, SameRet, RescueKept, OthersRescue DEF BootWake, Goto, At, Parkers, InThaw, Dismiss
<1>31. ASSUME BootDone
      PROVE  HolderRescued'
  BY <1>31, Names, SameRet, RescueKept, OthersRescue DEF BootDone, Goto, At, Parkers, InThaw
<1>32. ASSUME ShutdownStart
      PROVE  HolderRescued'
  BY <1>32, Names, SameRet, RescueKept, OthersRescue DEF ShutdownStart, Goto, At, Parkers, InThaw, ThawTo, Admit
<1>33. ASSUME ShutdownHalt
      PROVE  HolderRescued'
  <2>1. CASE TreeDies
    BY <2>1 DEF TreeDies, HolderRescued
  <2>2. CASE UNCHANGED simVars
    BY <1>33, <2>2, Names, SameRet, RescueKept, OthersRescue
    DEF ShutdownHalt, Goto, At, Parkers, InThaw
  <2> QED
    BY <1>33, <2>1, <2>2 DEF ShutdownHalt
<1>34. ASSUME ShutdownEnd
      PROVE  HolderRescued'
  BY <1>34, Names, SameRet, RescueKept, OthersRescue DEF ShutdownEnd, Goto, At, Parkers, InThaw, Dismiss
<1>35. ASSUME WatchStart
      PROVE  HolderRescued'
  BY <1>35, Names, SameRet, RescueKept, OthersRescue DEF WatchStart, Goto, At, Parkers, InThaw
<1>36. ASSUME WatchOpen
      PROVE  HolderRescued'
  BY <1>36, Names, SameRet, RescueKept, OthersRescue DEF WatchOpen, Goto, At, Parkers, InThaw
<1>37. ASSUME WatchStop \/ AwakeLapses
      PROVE  HolderRescued'
  BY <1>37 DEF WatchStop, AwakeLapses, HolderRescued, Rescuers
<1>38. ASSUME CloseStart
      PROVE  HolderRescued'
  BY <1>38, Names, SameRet, RescueKept, OthersRescue DEF CloseStart, Goto, At, Parkers, InThaw
<1>39. ASSUME CloseJoin
      PROVE  HolderRescued'
  BY <1>39, Names, SameRet, RescueKept, OthersRescue DEF CloseJoin, Goto, At, Parkers, InThaw, ThawTo
<1>40. ASSUME Restart
      PROVE  HolderRescued'
  BY <1>40 DEF Restart, LeftFrozen, HolderRescued
<1>41. CASE UNCHANGED vars
  BY <1>41 DEF vars, HolderRescued, Rescuers
<1> QED
  BY StepActions, <1>1, <1>2, <1>3, <1>4, <1>5, <1>6, <1>7, <1>8, <1>9,
     <1>10, <1>11, <1>12, <1>13, <1>14, <1>15, <1>16, <1>17, <1>18, <1>19,
     <1>20, <1>21, <1>22, <1>23, <1>24, <1>25, <1>26, <1>27, <1>28, <1>29,
     <1>30, <1>31, <1>32, <1>33, <1>34, <1>35, <1>36, <1>37, <1>38, <1>39,
     <1>40, <1>41 DEF Step

(* Outside parkIdle a goroutine is not counted among the parks. *)
LEMMA CountKept ==
  ASSUME TypeOK, ParksAreCounted, parking' = parking, closed' = closed,
         NEW p \in Proc, NEW label, NEW r,
         pc' = [pc EXCEPT ![p] = label], ret' = [ret EXCEPT ![p] = r],
         p \in Parkers /\ (label \in InPark \/ (label \in InThaw /\ r = "leave")) =>
           pc[p] \in InPark \/ (pc[p] \in InThaw /\ ret[p] = "leave"),
         p = "closer" =>
           /\ label # "off" => pc[p] # "off"
           /\ label \in InThaw \cup {"closed"} => pc[p] \in InThaw \cup {"closed"}
  PROVE  ParksAreCounted'
<1> USE Names DEF TypeOK
<1>1. ASSUME NEW q \in Parkers,
             pc'[q] \in InPark \/ (pc'[q] \in InThaw /\ ret'[q] = "leave")
      PROVE  q \in parking'
  BY <1>1 DEF ParksAreCounted
<1>2. (pc'["closer"] # "off" => closed')
        /\ (pc'["closer"] \in InThaw \cup {"closed"} => parking' = {})
  BY DEF ParksAreCounted
<1> QED
  BY <1>1, <1>2 DEF ParksAreCounted

LEMMA CountSame ==
  ASSUME ParksAreCounted, UNCHANGED <<parking, closed, pc, ret>>
  PROVE  ParksAreCounted'
  BY DEF ParksAreCounted

(* Every park under way is counted. *)
LEMMA StepCount ==
  ASSUME RunInv, ParksAreCounted, [Next]_vars
  PROVE  ParksAreCounted'
<1> USE DEF RunInv, TypeOK, simVars, poolVars, parkVars, thawVars
<1>1. ASSUME NEW p \in Proc, ThawRead(p)
      PROVE  ParksAreCounted'
  <2>1. pc[p] \in InThaw /\ ret[p] \in RetOf(p)
    BY <1>1, ThawReturns DEF ThawRead, At, InThaw
  <2>2. /\ p = "closer" => ret[p] = "closed" /\ ThawFailedAt(p) = "closed"
        /\ p \in Parkers => \A x \in {ret[p], ThawFailedAt(p)} :
             x \in InPark \cup InThaw => x = "leave" /\ ret[p] = "leave"
    BY <2>1 DEF RetOf, ThawFailedAt, Parkers, InPark, InThaw
  <2> QED
    BY <1>1, <2>1, <2>2, SameRet, CountKept
    DEF ThawRead, Goto, ThawTo, At, InThaw, InPark
<1>2. ASSUME NEW p \in Proc, NEW i \in Pid, ThawSignal(p, i)
      PROVE  ParksAreCounted'
  BY <1>2, CountSame DEF ThawSignal
<1>3. ASSUME NEW p \in Proc, ThawDone(p)
      PROVE  ParksAreCounted'
  <2>1. pc[p] \in InThaw /\ ret[p] \in RetOf(p)
    BY <1>3, ThawReturns DEF ThawDone, At, InThaw
  <2>2. /\ p = "closer" => ret[p] = "closed" /\ ThawFailedAt(p) = "closed"
        /\ p \in Parkers => \A x \in {ret[p], ThawFailedAt(p)} :
             x \in InPark \cup InThaw => x = "leave" /\ ret[p] = "leave"
    BY <2>1 DEF RetOf, ThawFailedAt, Parkers, InPark, InThaw
  <2> QED
    BY <1>3, <2>1, <2>2, SameRet, CountKept
    DEF ThawDone, Goto, ThawTo, At, InThaw, InPark
<1>4. ASSUME NEW p \in Proc, ThawForget(p)
      PROVE  ParksAreCounted'
  <2>1. pc[p] \in InThaw /\ ret[p] \in RetOf(p)
    BY <1>4, ThawReturns DEF ThawForget, At, InThaw
  <2>2. /\ p = "closer" => ret[p] = "closed" /\ ThawFailedAt(p) = "closed"
        /\ p \in Parkers => \A x \in {ret[p], ThawFailedAt(p)} :
             x \in InPark \cup InThaw => x = "leave" /\ ret[p] = "leave"
    BY <2>1 DEF RetOf, ThawFailedAt, Parkers, InPark, InThaw
  <2> QED
    BY <1>4, <2>1, <2>2, SameRet, CountKept
    DEF ThawForget, Goto, ThawTo, At, InThaw, InPark
<1>5. ASSUME NEW p \in Parkers, ParkEnter(p)
      PROVE  ParksAreCounted'
  <2>1. CASE closed
    BY <1>5, <2>1, Names, SameRet, CountKept
    DEF ParkEnter, MayEnter, ParkedBy, Goto, At, Parkers, InThaw, InPark
  <2>2. CASE ~closed
    <3>1. /\ parking' = parking \cup {p} /\ UNCHANGED <<closed, ret>>
          /\ pc' = [pc EXCEPT ![p] = "depth"] /\ p # "closer"
      BY <1>5, <2>2 DEF ParkEnter, MayEnter, Goto, Parkers
    <3>2. pc'["closer"] = "off"
      BY <2>2, <3>1, Names DEF ParksAreCounted
    <3> QED
      BY <2>2, <3>1, <3>2, Names DEF ParksAreCounted, InThaw
  <2> QED
    BY <2>1, <2>2
<1>6. ASSUME NEW p \in Parkers, ParkDepth(p)
      PROVE  ParksAreCounted'
  <2>1. /\ pc[p] \in InPark /\ p # "closer" /\ UNCHANGED <<parking, closed, ret>>
        /\ \E label \in {"look"} : pc' = [pc EXCEPT ![p] = label]
    BY <1>6 DEF ParkDepth, Goto, At, Parkers, InPark, thawVars
  <2> QED
    BY <2>1, Names, SameRet, CountKept
<1>7. ASSUME NEW p \in Parkers, ParkLook(p)
      PROVE  ParksAreCounted'
  <2>1. /\ pc[p] \in InPark /\ p # "closer" /\ UNCHANGED <<parking, closed, ret>>
        /\ \E label \in {"leave", "seq"} : pc' = [pc EXCEPT ![p] = label]
    BY <1>7 DEF ParkLook, Goto, At, Parkers, InPark, parkVars, thawVars
  <2> QED
    BY <2>1, Names, SameRet, CountKept
<1>8. ASSUME NEW p \in Parkers, ParkSeq(p)
      PROVE  ParksAreCounted'
  <2>1. /\ pc[p] \in InPark /\ p # "closer" /\ UNCHANGED <<parking, closed, ret>>
        /\ \E label \in {"list"} : pc' = [pc EXCEPT ![p] = label]
    BY <1>8 DEF ParkSeq, Goto, At, Parkers, InPark, parkVars, thawVars
  <2> QED
    BY <2>1, Names, SameRet, CountKept
<1>9. ASSUME NEW p \in Parkers, ParkList(p)
      PROVE  ParksAreCounted'
  BY <1>9, Names, SameRet, CountKept DEF ParkList, Goto, At, Parkers, InThaw, InPark
<1>10. ASSUME NEW p \in Parkers, NEW i \in Pid, ParkSignal(p, i)
      PROVE  ParksAreCounted'
  BY <1>10, CountSame DEF ParkSignal
<1>11. ASSUME NEW p \in Parkers, ParkRollback(p)
      PROVE  ParksAreCounted'
  BY <1>11, Names, SameRet, CountKept DEF ParkRollback, Goto, At, Parkers, InThaw, InPark
<1>12. ASSUME NEW p \in Parkers, ParkLedger(p)
      PROVE  ParksAreCounted'
  BY <1>12, Names, SameRet, CountKept DEF ParkLedger, Goto, At, Parkers, InThaw, InPark
<1>13. ASSUME NEW p \in Parkers, ParkRecheck(p)
      PROVE  ParksAreCounted'
  BY <1>13, Names, SameRet, CountKept DEF ParkRecheck, Goto, At, Parkers, InThaw, InPark, ThawBack, ThawTo
<1>14. ASSUME NEW p \in Parkers, ParkRecheckUse(p)
      PROVE  ParksAreCounted'
  BY <1>14, Names, SameRet, CountKept DEF ParkRecheckUse, Goto, At, Parkers, InThaw, InPark, ThawBack, ThawTo
<1>15. ASSUME NEW p \in Parkers, ParkLeave(p)
      PROVE  ParksAreCounted'
  <2>1. /\ parking' = parking \ {p} /\ UNCHANGED <<closed, ret>>
        /\ pc' = [pc EXCEPT ![p] = ParkedBy(p)] /\ p # "closer"
        /\ ParkedBy(p) \notin InPark \cup InThaw
    BY <1>15 DEF ParkLeave, Goto, Parkers, ParkedBy, InPark, InThaw
  <2> QED
    BY <2>1, Names DEF ParksAreCounted
<1>16. ASSUME SweepStart
      PROVE  ParksAreCounted'
  BY <1>16, Names, SameRet, CountKept DEF SweepStart, Goto, At, Parkers, InThaw, InPark
<1>17. ASSUME SweepWeigh
      PROVE  ParksAreCounted'
  BY <1>17, Names, SameRet, CountKept DEF SweepWeigh, Goto, At, Parkers, InThaw, InPark
<1>18. ASSUME SweepDrop
      PROVE  ParksAreCounted'
  BY <1>18, Names, SameRet, CountKept DEF SweepDrop, Goto, At, Parkers, InThaw, InPark
<1>19. ASSUME SweepIdle
      PROVE  ParksAreCounted'
  <2>1. UNCHANGED <<parking, closed, ret>>
    BY <1>19 DEF SweepIdle, parkVars, poolVars, thawVars
  <2>2. PICK label \in {"park", "off"} : pc' = [pc EXCEPT !["watchdog"] = label]
    BY <1>19 DEF SweepIdle, Goto
  <2>3. label \notin InPark \cup InThaw
    BY DEF InPark, InThaw
  <2> QED
    BY <2>1, <2>2, <2>3, Names, SameRet, CountKept
<1>20. ASSUME Grant \/ Release \/ ClearQuarantine
      PROVE  ParksAreCounted'
  BY <1>20, CountSame DEF Grant, Release, ClearQuarantine
<1>21. ASSUME OnGrant
      PROVE  ParksAreCounted'
  BY <1>21, Names, SameRet, CountKept DEF OnGrant, Goto, At, Parkers, InThaw, InPark, ThawTo
<1>22. ASSUME ResetStart
      PROVE  ParksAreCounted'
  BY <1>22, Names, SameRet, CountKept DEF ResetStart, Goto, At, Parkers, InThaw, InPark, ThawTo
<1>23. ASSUME ResetWipe
      PROVE  ParksAreCounted'
  <2>1. UNCHANGED <<parking, closed, ret>>
    BY <1>23 DEF ResetWipe, parkVars, poolVars
  <2>2. PICK label \in {"rebuild", "failed"} : pc' = [pc EXCEPT !["reset"] = label]
    BY <1>23 DEF ResetWipe, Goto
  <2>3. label \notin InPark \cup InThaw
    BY DEF InPark, InThaw
  <2> QED
    BY <2>1, <2>2, <2>3, Names, SameRet, CountKept
<1>24. ASSUME ResetRebuild
      PROVE  ParksAreCounted'
  BY <1>24, Names, SameRet, CountKept DEF ResetRebuild, Goto, At, Parkers, InThaw, InPark
<1>25. ASSUME ResetReboot
      PROVE  ParksAreCounted'
  BY <1>25, Names, SameRet, CountKept DEF ResetReboot, Goto, At, Parkers, InThaw, InPark, ThawTo
<1>26. ASSUME ResetEnd
      PROVE  ParksAreCounted'
  BY <1>26, Names, SameRet, CountKept DEF ResetEnd, Goto, At, Parkers, InThaw, InPark
<1>27. ASSUME BootStart
      PROVE  ParksAreCounted'
  <2>1. /\ UNCHANGED <<parking, closed>>
        /\ \E r : ret' = [ret EXCEPT !["boot"] = r]
        /\ \/ \E label \in {"thaw", "wake"} : pc' = [pc EXCEPT !["boot"] = label]
           \/ pc' = [pc EXCEPT !["boot"] = "wake", !["booter"] = "booting"]
    BY <1>27, SameRet, Names DEF BootStart, Goto, ThawTo
  <2>2. /\ pc'["closer"] = pc["closer"]
        /\ \A q \in Parkers : pc'[q] = pc[q] /\ ret'[q] = ret[q]
    BY <2>1, Names DEF Parkers
  <2> QED
    BY <2>1, <2>2 DEF ParksAreCounted
<1>28. ASSUME BootWake
      PROVE  ParksAreCounted'
  BY <1>28, Names, SameRet, CountKept DEF BootWake, Goto, At, Parkers, InThaw, InPark
<1>29. ASSUME BootDone
      PROVE  ParksAreCounted'
  BY <1>29, Names, SameRet, CountKept DEF BootDone, Goto, At, Parkers, InThaw, InPark
<1>30. ASSUME ShutdownStart
      PROVE  ParksAreCounted'
  BY <1>30, Names, SameRet, CountKept DEF ShutdownStart, Goto, At, Parkers, InThaw, InPark, ThawTo
<1>31. ASSUME ShutdownHalt
      PROVE  ParksAreCounted'
  BY <1>31, Names, SameRet, CountKept DEF ShutdownHalt, Goto, At, Parkers, InThaw, InPark
<1>32. ASSUME ShutdownEnd
      PROVE  ParksAreCounted'
  BY <1>32, Names, SameRet, CountKept DEF ShutdownEnd, Goto, At, Parkers, InThaw, InPark
<1>33. ASSUME WatchStart
      PROVE  ParksAreCounted'
  BY <1>33, Names, SameRet, CountKept DEF WatchStart, Goto, At, Parkers, InThaw, InPark
<1>34. ASSUME WatchOpen
      PROVE  ParksAreCounted'
  BY <1>34, Names, SameRet, CountKept DEF WatchOpen, Goto, At, Parkers, InThaw, InPark
<1>35. ASSUME WatchStop \/ AwakeLapses
      PROVE  ParksAreCounted'
  BY <1>35, CountSame DEF WatchStop, AwakeLapses
<1>36. ASSUME CloseStart
      PROVE  ParksAreCounted'
  <2>1. /\ closed' = TRUE /\ UNCHANGED <<parking, ret>>
        /\ pc' = [pc EXCEPT !["closer"] = "join"]
    BY <1>36 DEF CloseStart, Goto
  <2> QED
    BY <2>1, Names DEF ParksAreCounted, Parkers, InThaw
<1>37. ASSUME CloseJoin
      PROVE  ParksAreCounted'
  <2>1. /\ UNCHANGED <<parking, closed>> /\ parking = {} /\ pc["closer"] = "join"
        /\ pc' = [pc EXCEPT !["closer"] = "thaw"]
        /\ ret' = [ret EXCEPT !["closer"] = "closed"]
    BY <1>37 DEF CloseJoin, Joined, At, Goto, ThawTo
  <2> QED
    BY <2>1, Names DEF ParksAreCounted, Parkers
<1>38. ASSUME Restart
      PROVE  ParksAreCounted'
  BY <1>38, Names DEF Restart, ParksAreCounted, InPark, InThaw
<1>39. CASE UNCHANGED vars
  BY <1>39, CountSame DEF vars
<1> QED
  BY StepActions, <1>1, <1>2, <1>3, <1>4, <1>5, <1>6, <1>7, <1>8, <1>9,
     <1>10, <1>11, <1>12, <1>13, <1>14, <1>15, <1>16, <1>17, <1>18, <1>19,
     <1>20, <1>21, <1>22, <1>23, <1>24, <1>25, <1>26, <1>27, <1>28, <1>29,
     <1>30, <1>31, <1>32, <1>33, <1>34, <1>35, <1>36, <1>37, <1>38, <1>39 DEF Step

(* Once Close has returned nothing stops the tree again. *)
LEMMA ClosedKept ==
  ASSUME CloserThaws, stopped' \subseteq stopped, pc'["closer"] = "closed" => pc["closer"] = "closed"
  PROVE  CloserThaws'
  BY DEF CloserThaws, At

LEMMA StepClosed ==
  ASSUME RunInv, LedgerRight, ErrorsAreNoted, ParksAreCounted, CloserThaws, [Next]_vars
  PROVE  CloserThaws'
<1> USE DEF RunInv, TypeOK, LedgerRight, simVars, poolVars, parkVars, thawVars
<1>1. ASSUME NEW p \in Proc, ThawRead(p)
      PROVE  CloserThaws'
  <2>1. CASE p # "closer"
    BY <1>1, <2>1, Names, ClosedKept DEF ThawRead, Goto
  <2>2. CASE p = "closer" /\ ledger # "none"
    BY <1>1, <2>2, Names DEF ThawRead, Goto, At, CloserThaws
  <2>3. CASE p = "closer" /\ ledger = "none"
    <3>1. parking = {} /\ stopped' = stopped
      BY <1>1, <2>3 DEF ThawRead, At, ParksAreCounted, InThaw
    <3>2. \A q \in Parkers : ~At(q, "stop")
      BY <3>1 DEF ParksAreCounted, InPark, At
    <3> QED
      BY <2>3, <3>1, <3>2 DEF Recorded, CloserThaws
  <2> QED
    BY <2>1, <2>2, <2>3
<1>2. ASSUME NEW p \in Proc, NEW i \in Pid, ThawSignal(p, i)
      PROVE  CloserThaws'
  <2>1. stopped' \subseteq stopped /\ pc' = pc
    BY <1>2 DEF ThawSignal
  <2> QED
    BY <2>1, ClosedKept
<1>3. ASSUME NEW p \in Proc, ThawDone(p)
      PROVE  CloserThaws'
  <2>1. CASE p # "closer"
    BY <1>3, <2>1, Names, ClosedKept DEF ThawDone, Goto
  <2>2. CASE p = "closer" /\ p \notin erred
    BY <1>3, <2>2, Names DEF ThawDone, KeepsEntry, Goto, At, CloserThaws
  <2>3. CASE p \in erred
    BY <1>3, <2>3 DEF ThawDone, ErrorsAreNoted, CloserThaws
  <2> QED
    BY <2>1, <2>2, <2>3
<1>4. ASSUME NEW p \in Proc, ThawForget(p)
      PROVE  CloserThaws'
  BY <1>4 DEF ThawForget, ForgetsRunning, CloserThaws
<1>5. ASSUME NEW p \in Parkers, ParkEnter(p)
      PROVE  CloserThaws'
  BY <1>5, Names, ClosedKept DEF ParkEnter, Goto, Parkers, ParkedBy
<1>6. ASSUME NEW p \in Parkers, ParkDepth(p)
      PROVE  CloserThaws'
  BY <1>6, Names, ClosedKept DEF ParkDepth, Goto, Parkers
<1>7. ASSUME NEW p \in Parkers, ParkLook(p)
      PROVE  CloserThaws'
  BY <1>7, Names, ClosedKept DEF ParkLook, Goto, Parkers
<1>8. ASSUME NEW p \in Parkers, ParkSeq(p)
      PROVE  CloserThaws'
  BY <1>8, Names, ClosedKept DEF ParkSeq, Goto, Parkers
<1>9. ASSUME NEW p \in Parkers, ParkList(p)
      PROVE  CloserThaws'
  BY <1>9, Names, ClosedKept DEF ParkList, Goto, Parkers
<1>10. ASSUME NEW p \in Parkers, NEW i \in Pid, ParkSignal(p, i)
      PROVE  CloserThaws'
  <2>1. p \in parking
    BY <1>10 DEF ParkSignal, At, ParksAreCounted, InPark
  <2> QED
    BY <1>10, <2>1 DEF ParkSignal, ParksAreCounted, CloserThaws, At
<1>11. ASSUME NEW p \in Parkers, ParkRollback(p)
      PROVE  CloserThaws'
  BY <1>11 DEF ParkRollback, CloserThaws
<1>12. ASSUME NEW p \in Parkers, ParkLedger(p)
      PROVE  CloserThaws'
  BY <1>12, Names, ClosedKept DEF ParkLedger, Goto, Parkers
<1>13. ASSUME NEW p \in Parkers, ParkRecheck(p)
      PROVE  CloserThaws'
  BY <1>13, Names, ClosedKept DEF ParkRecheck, Goto, Parkers, ThawBack
<1>14. ASSUME NEW p \in Parkers, ParkRecheckUse(p)
      PROVE  CloserThaws'
  BY <1>14, Names, ClosedKept DEF ParkRecheckUse, Goto, Parkers, ThawBack
<1>15. ASSUME NEW p \in Parkers, ParkLeave(p)
      PROVE  CloserThaws'
  BY <1>15, Names, ClosedKept DEF ParkLeave, Goto, Parkers, ParkedBy
<1>16. ASSUME SweepStart
      PROVE  CloserThaws'
  BY <1>16, Names, ClosedKept DEF SweepStart, Goto, Parkers
<1>17. ASSUME SweepWeigh
      PROVE  CloserThaws'
  BY <1>17, Names, ClosedKept DEF SweepWeigh, Goto, Parkers
<1>18. ASSUME SweepDrop
      PROVE  CloserThaws'
  BY <1>18, Names, ClosedKept DEF SweepDrop, Goto, Parkers
<1>19. ASSUME SweepIdle
      PROVE  CloserThaws'
  BY <1>19, Names, ClosedKept DEF SweepIdle, Goto, Parkers
<1>20. ASSUME Grant \/ Release \/ ClearQuarantine
      PROVE  CloserThaws'
  BY <1>20, Names, ClosedKept DEF Grant, Release, ClearQuarantine, Goto, Parkers
<1>21. ASSUME OnGrant
      PROVE  CloserThaws'
  BY <1>21, Names, ClosedKept DEF OnGrant, Goto, Parkers
<1>22. ASSUME ResetStart
      PROVE  CloserThaws'
  BY <1>22, Names, ClosedKept DEF ResetStart, Goto, Parkers
<1>23. ASSUME ResetWipe
      PROVE  CloserThaws'
  BY <1>23 DEF ResetWipe, TreeDies, CloserThaws
<1>24. ASSUME ResetRebuild
      PROVE  CloserThaws'
  BY <1>24, Names, ClosedKept DEF ResetRebuild, Goto, Parkers
<1>25. ASSUME ResetReboot
      PROVE  CloserThaws'
  BY <1>25, Names, ClosedKept DEF ResetReboot, Goto, Parkers
<1>26. ASSUME ResetEnd
      PROVE  CloserThaws'
  BY <1>26, Names, ClosedKept DEF ResetEnd, Goto, Parkers
<1>27. ASSUME BootStart
      PROVE  CloserThaws'
  BY <1>27, Names, ClosedKept DEF BootStart, Goto, Parkers
<1>28. ASSUME BootWake
      PROVE  CloserThaws'
  BY <1>28, Names, ClosedKept DEF BootWake, Goto, Parkers
<1>29. ASSUME BootDone
      PROVE  CloserThaws'
  BY <1>29, Names, ClosedKept DEF BootDone, Goto, Parkers
<1>30. ASSUME ShutdownStart
      PROVE  CloserThaws'
  BY <1>30, Names, ClosedKept DEF ShutdownStart, Goto, Parkers
<1>31. ASSUME ShutdownHalt
      PROVE  CloserThaws'
  <2>1. CASE TreeDies
    BY <2>1 DEF TreeDies, CloserThaws
  <2>2. CASE UNCHANGED simVars
    BY <1>31, <2>2, Names, ClosedKept DEF ShutdownHalt, Goto
  <2> QED
    BY <1>31, <2>1, <2>2 DEF ShutdownHalt
<1>32. ASSUME ShutdownEnd
      PROVE  CloserThaws'
  BY <1>32, Names, ClosedKept DEF ShutdownEnd, Goto, Parkers
<1>33. ASSUME WatchStart
      PROVE  CloserThaws'
  BY <1>33, Names, ClosedKept DEF WatchStart, Goto, Parkers
<1>34. ASSUME WatchOpen
      PROVE  CloserThaws'
  BY <1>34, Names, ClosedKept DEF WatchOpen, Goto, Parkers
<1>35. ASSUME WatchStop \/ AwakeLapses
      PROVE  CloserThaws'
  BY <1>35, Names, ClosedKept DEF WatchStop, AwakeLapses, Goto, Parkers
<1>36. ASSUME CloseStart
      PROVE  CloserThaws'
  BY <1>36, Names, ClosedKept DEF CloseStart, Goto, Parkers
<1>37. ASSUME CloseJoin
      PROVE  CloserThaws'
  BY <1>37, Names, ClosedKept DEF CloseJoin, Goto, Parkers
<1>38. ASSUME Restart
      PROVE  CloserThaws'
  BY <1>38 DEF Restart, LeftFrozen, CloserThaws
<1>39. CASE UNCHANGED vars
  BY <1>39, ClosedKept DEF vars
<1> QED
  BY StepActions, <1>1, <1>2, <1>3, <1>4, <1>5, <1>6, <1>7, <1>8, <1>9,
     <1>10, <1>11, <1>12, <1>13, <1>14, <1>15, <1>16, <1>17, <1>18, <1>19,
     <1>20, <1>21, <1>22, <1>23, <1>24, <1>25, <1>26, <1>27, <1>28, <1>29,
     <1>30, <1>31, <1>32, <1>33, <1>34, <1>35, <1>36, <1>37, <1>38, <1>39 DEF Step

-----------------------------------------------------------------------------
LEMMA InitPark == Init => ParkInv
<1> SUFFICES ASSUME Init PROVE ParkInv
  OBVIOUS
<1> USE Names DEF Init
<1>1. Flags /\ Tables
  BY DEF Flags, Tables, Slots
<1>2. Control /\ BusyCount
  BY Places DEF Control, BusyCount, ResetShare, Share
<1>3. LedgerRight
  BY DEF LedgerRight, Exclusive, Recorded, ThawWorks, ParksTheLiving, ForgetsRunning,
     InParker, At
<1>4. ErrorsAreNoted /\ HolderRescued /\ ParksAreCounted /\ CloserThaws
  BY DEF ErrorsAreNoted, HolderRescued, ParksAreCounted, CloserThaws, At, InPark, InThaw
<1> QED
  BY <1>1, <1>2, <1>3, <1>4, TypeHalves DEF ParkInv, LedgerInv, RunInv, LedgerRight

LEMMA RunInvariant == Spec => []RunInv
<1>1. Init => RunInv
  BY InitPark DEF ParkInv, LedgerInv
<1>2. RunInv /\ [Next]_vars => RunInv'
  <2> SUFFICES ASSUME RunInv, [Next]_vars PROVE RunInv'
    OBVIOUS
  <2>1. TypeOK'
    BY StepFlags, StepTables DEF Flags, Tables, TypeOK
  <2> QED
    BY <2>1, StepControl, StepBusy DEF RunInv
<1> QED
  BY <1>1, <1>2, PTL DEF Spec

(* Every table and counter of the pool keeps its type; busy, which every   *)
(* transition begins and ends on its own, never falls below zero           *)
(* (Pool.begin and its end function).                                      *)
THEOREM ParkTypes == Spec => []TypeOK
<1>1. RunInv => TypeOK
  BY DEF RunInv
<1> QED
  BY <1>1, RunInvariant, PTL

(* The invariant, when parks and thaws exclude each other. *)
LEMMA ParkInvariant ==
  ASSUME ~Overtaking
  PROVE  Spec => []ParkInv
<1>1. ParkInv /\ RunInv' /\ [Next]_vars => ParkInv'
  BY StepLedger, StepErrors, StepRescue, StepCount, StepClosed
  DEF ParkInv, LedgerInv, LedgerRight, RunInv
<1> QED
  BY <1>1, InitPark, RunInvariant, PTL DEF Spec

(* Whenever no park or thaw is under way a stopped tree is in the ledger,  *)
(* after failed signals and after a crash too (Park, Thaw,                 *)
(* RecoverFrozenParks).                                                    *)
THEOREM LedgerFindsFrozen ==
  ASSUME ~Overtaking
  PROVE  Spec => []FrozenIsInLedger
<1>1. ParkInv => FrozenIsInLedger
  BY Names DEF ParkInv, LedgerInv, Recorded, FrozenIsInLedger, Settled, InParker, At
<1> QED
  BY <1>1, ParkInvariant, PTL

(* Between parks and thaws a holder whose grant was announced works on a   *)
(* running tree, unless a SIGCONT failed (parkIdle's second look, OnGrant).*)
THEOREM HoldersRun ==
  ASSUME ~Overtaking
  PROVE  Spec => []HolderNeverFrozen
<1>1. ParkInv => HolderNeverFrozen
  BY Names DEF ParkInv, HolderRescued, Rescuers, InThaw, HolderNeverFrozen, Quiet,
     Settled, InParker, At
<1> QED
  BY <1>1, ParkInvariant, PTL

(* When Close returns, nothing is left stopped, if no signal fails         *)
(* (parking, parkDone).                                                    *)
THEOREM CloseThawsAll ==
  ASSUME ~Overtaking, ~SignalsFail
  PROVE  Spec => []ClosedIsThawed
<1>1. ParkInv => ClosedIsThawed
  BY DEF ParkInv, CloserThaws, ClosedIsThawed
<1> QED
  BY <1>1, ParkInvariant, PTL
=============================================================================
