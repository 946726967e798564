----------------------------- MODULE Snapshots -----------------------------
(***************************************************************************)
(* The state engine of one simulator (internal/state: engine.go, index.go, *)
(* runner.go, copytree.go) under the calls of its successive lease holders *)
(* (internal/server: handlers_state.go, ws_state.go) and the automatic     *)
(* reset between two leases (server.go's ResetSink).  The data directory   *)
(* is known by who used it last; the lease manager is module Lease and     *)
(* appears by its holder.  Careless clients let a lease end, or boot the   *)
(* simulator, under a call that is still running; careful ones do not.     *)
(***************************************************************************)
EXTENDS Naturals, FiniteSets

CONSTANTS
  SnpHolder,     \* leases, each granted once
  Snap,          \* snapshot IDs
  Resetter,      \* the server's reset goroutine
  MaxCalls

ASSUME SnapshotsAssumption ==
  /\ MaxCalls \in Nat /\ Resetter \notin SnpHolder
  \* the names of callers and snapshots stand for nothing else
  /\ (SnpHolder \cup {Resetter}) \cap {"free", "resetting", "quarantined", "stock", "none",
       "missing", "torn", "partial", "never", "gone"} = {}
  /\ Snap \cap {"none", "erase"} = {}

VARIABLES
  careless,  \* what the clients are like, throughout a behaviour
  holder,    \* of the target: a lease, "free", "resetting" or "quarantined"
  ended,     \* leases that are over, with the reset each had asked for
  call,      \* what each caller is in the middle of
  snpLock,   \* lockTarget
  power, data, staging, aside,
  snpIndex, clone,
  calls      \* how many calls have been made

snpVars == <<careless, holder, ended, call, snpLock, power, data, staging, aside, snpIndex, clone, calls>>

SnpCaller == SnpHolder \cup {Resetter}
AnyData == {"stock", "none", "missing", "torn", "partial"} \cup SnpHolder
Resets_ == {"none", "erase"} \cup Snap
IdleCall == [op |-> "none", snap |-> "none", reboot |-> FALSE, step |-> "idle", res |-> "none",
             spoiled |-> FALSE, copied |-> "none"]

SnpTypeOK ==
  /\ careless \in BOOLEAN /\ holder \in {"free", "resetting", "quarantined"} \cup SnpHolder
  /\ ended \subseteq SnpHolder /\ calls \in 0..MaxCalls
  /\ call \in [SnpCaller ->
       [op: {"none", "snapshot", "restore", "erase", "delete", "reset"},
        snap: {"none", "erase"} \cup Snap, reboot: BOOLEAN, spoiled: BOOLEAN,
        copied: AnyData,
        step: {"idle", "lock", "check", "clone", "add", "copy", "aside", "swap", "boot", "wipe",
               "reslim", "owned", "remove", "degrade", "end", "unlocked"},
        res: {"none", "ok", "busy", "failed"}]]
  /\ snpLock \in {"none"} \cup SnpCaller
  /\ power \in {"Shutdown", "Booted"}
  /\ data \in AnyData \ {"none"} /\ staging \in AnyData \ {"missing"} /\ aside \in AnyData
  /\ snpIndex \subseteq Snap /\ clone \in [Snap -> (AnyData \ {"none", "missing"}) \cup {"never", "gone"}]

SnpInit ==
  /\ careless \in BOOLEAN /\ holder = "free" /\ ended = {} /\ call = [c \in SnpCaller |-> IdleCall] /\ snpLock = "none"
  /\ power = "Shutdown" /\ data = "stock" /\ staging = "none" /\ aside = "none"
  /\ snpIndex = {} /\ clone = [s \in Snap |-> "never"] /\ calls = 0

-----------------------------------------------------------------------------
(* The callers.  leasedTarget looks at the lease once, when a call begins. *)
To(c, step) == call' = [call EXCEPT ![c].step = step]
EndsWith(c, res) == call' = [call EXCEPT ![c].step = "end", ![c].res = res]
InCall(c) == call[c].step # "idle"
Begin_(c, op, snap, reboot, step) ==
  /\ ~ InCall(c) /\ calls < MaxCalls /\ calls' = calls + 1
  /\ call' = [call EXCEPT ![c] = [IdleCall EXCEPT !.op = op, !.snap = snap, !.reboot = reboot,
                                                  !.step = step]]
LeasedTarget(c) == holder = c
StateCall(c) ==
  /\ LeasedTarget(c)
  /\ \/ \E s \in Snap : /\ clone[s] = "never" /\ \A b \in SnpCaller : call[b].snap # s
                       /\ Begin_(c, "snapshot", s, FALSE, "lock")
     \/ \E s \in Snap, reboot \in BOOLEAN : Begin_(c, "restore", s, reboot, "lock")
     \/ Begin_(c, "erase", "none", FALSE, "lock")
     \/ \E s \in snpIndex : Begin_(c, "delete", s, FALSE, "owned")   \* snapshotOwnedBy
  /\ UNCHANGED <<careless, holder, ended, snpLock, power, data, staging, aside, snpIndex, clone>>
Returns(c) ==
  /\ call[c].step = "end" /\ c # Resetter
  /\ call' = [call EXCEPT ![c] = IdleCall]
  /\ snpLock' = IF snpLock = c THEN "none" ELSE snpLock
  /\ UNCHANGED <<careless, holder, ended, power, data, staging, aside, snpIndex, clone, calls>>
TakesLock_No(c) ==
  /\ call[c].step = "lock" /\ To(c, "check")
  /\ UNCHANGED <<careless, holder, ended, snpLock, power, data, staging, aside, snpIndex, clone, calls>>
TakesLock(c) ==
  /\ call[c].step = "lock" /\ snpLock = "none" /\ snpLock' = c /\ To(c, "check")
  /\ UNCHANGED <<careless, holder, ended, power, data, staging, aside, snpIndex, clone, calls>>

(* requireShutdown for Snapshot and Erase; Resolve, requireClone and the   *)
(* reboot for Restore; the unconditional shutdown of Reset.                *)
Known(s) == s \in snpIndex /\ clone[s] \notin {"never", "gone"}
SnpChecks(c) ==
  /\ call[c].step = "check"
  /\ LET k == call[c] IN
     CASE k.op \in {"snapshot", "erase"} ->
            /\ IF power # "Shutdown" THEN EndsWith(c, "busy")
               ELSE To(c, IF k.op = "erase" THEN "wipe" ELSE "clone")
            /\ UNCHANGED power
       [] k.op = "restore" ->
            \/ /\ ~ Known(k.snap) /\ EndsWith(c, "failed") /\ UNCHANGED power
            \/ /\ Known(k.snap) /\ power # "Shutdown" /\ ~ k.reboot
               /\ EndsWith(c, "busy") /\ UNCHANGED power
            \/ /\ Known(k.snap) /\ (power = "Shutdown" \/ k.reboot)
               /\ power' = "Shutdown"
               /\ call' = [call EXCEPT ![c].step = "copy", ![c].reboot = (power # "Shutdown")]
       [] k.op = "reset" ->
            /\ power' = "Shutdown"
            /\ To(c, IF k.snap = "erase" THEN "wipe" ELSE IF Known(k.snap) THEN "copy" ELSE "degrade")
  /\ UNCHANGED <<careless, holder, ended, snpLock, data, staging, aside, snpIndex, clone, calls>>

(* Snapshot: simctl clone, then the index entry; without it no clone stays.*)
SnpClones(c) ==
  /\ call[c].step = "clone"
  /\ \/ /\ clone' = [clone EXCEPT ![call[c].snap] = IF power = "Booted" THEN "torn" ELSE data]
        /\ To(c, "add")
     \/ EndsWith(c, "failed") /\ UNCHANGED clone
  /\ UNCHANGED <<careless, holder, ended, snpLock, power, data, staging, aside, snpIndex, calls>>
SnpAdds_Leaves(c) ==
  /\ call[c].step = "add"
  /\ \/ snpIndex' = snpIndex \cup {call[c].snap} /\ EndsWith(c, "ok")
     \/ EndsWith(c, "failed") /\ UNCHANGED snpIndex
  /\ UNCHANGED <<careless, holder, ended, snpLock, power, data, staging, aside, clone, calls>>
SnpAdds(c) ==
  /\ call[c].step = "add"
  /\ \/ /\ snpIndex' = snpIndex \cup {call[c].snap} /\ EndsWith(c, "ok") /\ UNCHANGED clone
     \/ /\ clone' = [clone EXCEPT ![call[c].snap] = "gone"]
        /\ EndsWith(c, "failed") /\ UNCHANGED snpIndex
  /\ UNCHANGED <<careless, holder, ended, snpLock, power, data, staging, aside, calls>>

(* DeleteSnapshot, without lockTarget: the clone first, the entry last.  A *)
(* copy that reads the clone meanwhile may miss some of it.                *)
SnpDeletesClone_Last(c) ==
  /\ call[c].step = "owned" /\ snpIndex' = snpIndex \ {call[c].snap} /\ To(c, "remove")
  /\ UNCHANGED <<careless, holder, ended, snpLock, power, data, staging, aside, clone, calls>>
SnpDeletesClone(c) ==
  /\ call[c].step = "owned"
  /\ \/ /\ clone' = [clone EXCEPT ![call[c].snap] = "gone"]
        /\ call' = [b \in SnpCaller |->
             IF b = c THEN [call[c] EXCEPT !.step = "remove"]
             ELSE [call[b] EXCEPT !.spoiled = @ \/ (call[b].step = "copy" /\ call[b].snap = call[c].snap)]]
     \/ EndsWith(c, "failed") /\ UNCHANGED clone
  /\ UNCHANGED <<careless, holder, ended, snpLock, power, data, staging, aside, snpIndex, calls>>
SnpRemoves(c) ==
  /\ call[c].step = "remove"
  /\ \/ snpIndex' = snpIndex \ {call[c].snap} /\ EndsWith(c, "ok")
     \/ EndsWith(c, "failed") /\ UNCHANGED snpIndex
  /\ UNCHANGED <<careless, holder, ended, snpLock, power, data, staging, aside, clone, calls>>

(* ReplaceDir: copied beside, moved aside, swapped in, rolled back.        *)
SnpCopies(c) ==
  /\ call[c].step = "copy"
  /\ \/ /\ staging' = IF call[c].spoiled THEN "partial" ELSE clone[call[c].snap]
        /\ call' = [call EXCEPT ![c].step = "aside", ![c].copied = staging']
     \/ /\ staging' = "none"
        /\ call' = [call EXCEPT ![c].step = IF call[c].reboot THEN "boot" ELSE "end", ![c].res = "failed"]
  /\ UNCHANGED <<careless, holder, ended, snpLock, power, data, aside, snpIndex, clone, calls>>
SnpMovesAside(c) ==
  /\ call[c].step = "aside" /\ aside' = data /\ data' = "missing" /\ To(c, "swap")
  /\ UNCHANGED <<careless, holder, ended, snpLock, power, staging, snpIndex, clone, calls>>
SnpSwapsIn_NoRollback(c) ==
  /\ call[c].step = "swap" /\ staging' = "none" /\ aside' = "none"
  /\ \/ data' = staging /\ EndsWith(c, "ok")
     \/ data' = data /\ EndsWith(c, "failed")
  /\ UNCHANGED <<careless, holder, ended, snpLock, power, snpIndex, clone, calls>>
SnpSwapsIn(c) ==
  /\ call[c].step = "swap" /\ staging' = "none" /\ aside' = "none"
  /\ LET then == IF call[c].reboot THEN "boot" ELSE "end" IN
     \/ /\ data' = IF power = "Booted" THEN "torn" ELSE staging
        /\ call' = [call EXCEPT ![c].step = then, ![c].res = "ok"]
     \/ /\ data' = aside /\ call' = [call EXCEPT ![c].step = then, ![c].res = "failed"]
  /\ UNCHANGED <<careless, holder, ended, snpLock, power, snpIndex, clone, calls>>
SnpBootsDetached(c) ==
  /\ call[c].step = "boot" /\ power' \in {"Booted", power} /\ To(c, "end")
  /\ UNCHANGED <<careless, holder, ended, snpLock, data, staging, aside, snpIndex, clone, calls>>

(* simctl erase, which refuses a booted simulator, and runPostErase.       *)
SnpWipes(c) ==
  /\ call[c].step = "wipe"
  /\ \/ power = "Shutdown" /\ data' = "stock" /\ To(c, "reslim")
     \/ EndsWith(c, "failed") /\ UNCHANGED data
  /\ UNCHANGED <<careless, holder, ended, snpLock, power, staging, aside, snpIndex, clone, calls>>
SnpReslims(c) ==
  /\ call[c].step = "reslim" /\ \E res \in {"ok", "failed"} : EndsWith(c, res)
  /\ UNCHANGED <<careless, holder, ended, snpLock, power, data, staging, aside, snpIndex, clone, calls>>

-----------------------------------------------------------------------------
(* A lease ends; ResetSink degrades a snapshot that cannot be found to an  *)
(* erase, under a second lockTarget, and an error quarantines.             *)
MayEnd(h) == careless \/ ~ InCall(h)
SnpEndLease(h) ==
  /\ holder = h /\ MayEnd(h) /\ ended' = ended \cup {h}
  /\ \E spec \in Resets_ :
       IF spec = "none" THEN holder' = "free" /\ UNCHANGED <<call>>
       ELSE /\ holder' = "resetting"
            /\ call' = [call EXCEPT ![Resetter] = [IdleCall EXCEPT !.op = "reset", !.snap = spec, !.step = "lock"]]
  /\ UNCHANGED <<careless, snpLock, power, data, staging, aside, snpIndex, clone, calls>>
SnpDegrades(c) ==
  /\ call[c].step = "degrade" /\ snpLock' = "none"
  /\ call' = [call EXCEPT ![c].step = "lock", ![c].snap = "erase"]
  /\ UNCHANGED <<careless, holder, ended, power, data, staging, aside, snpIndex, clone, calls>>
ResetUnlocks ==
  /\ call[Resetter].step = "end" /\ To(Resetter, "unlocked") /\ snpLock' = "none"
  /\ UNCHANGED <<careless, holder, ended, power, data, staging, aside, snpIndex, clone, calls>>
ResetReturns_AlwaysFree ==
  /\ call[Resetter].step = "unlocked" /\ call' = [call EXCEPT ![Resetter] = IdleCall] /\ holder' = "free"
  /\ UNCHANGED <<careless, ended, snpLock, power, data, staging, aside, snpIndex, clone, calls>>
ResetReturns ==
  /\ call[Resetter].step = "unlocked" /\ call' = [call EXCEPT ![Resetter] = IdleCall]
  /\ holder' = IF call[Resetter].res = "ok" THEN "free" ELSE "quarantined"
  /\ UNCHANGED <<careless, ended, snpLock, power, data, staging, aside, snpIndex, clone, calls>>
SnpGrant(h) ==
  /\ holder = "free" /\ h \notin ended /\ holder' = h
  /\ UNCHANGED <<careless, ended, call, snpLock, power, data, staging, aside, snpIndex, clone, calls>>
(* The holder boots the simulator and uses it, or shuts it down.           *)
HolderUses(h) ==
  /\ holder = h /\ (careless \/ ~ InCall(h))
  /\ \/ power' = "Booted" /\ data' = h /\ data # "missing"
     \/ power' = "Shutdown" /\ UNCHANGED data
  /\ UNCHANGED <<careless, holder, ended, call, snpLock, staging, aside, snpIndex, clone, calls>>

SnpStep(c) ==
  \/ TakesLock(c) \/ SnpChecks(c) \/ SnpClones(c) \/ SnpAdds(c) \/ SnpDeletesClone(c)
  \/ SnpRemoves(c) \/ SnpCopies(c) \/ SnpMovesAside(c) \/ SnpSwapsIn(c)
  \/ SnpBootsDetached(c) \/ SnpWipes(c) \/ SnpReslims(c) \/ SnpDegrades(c) \/ Returns(c)
SnpNext ==
  \/ \E c \in SnpCaller : SnpStep(c)
  \/ ResetUnlocks \/ ResetReturns
  \/ \E h \in SnpHolder : StateCall(h) \/ SnpEndLease(h) \/ SnpGrant(h) \/ HolderUses(h)
SnpSpec == SnpInit /\ [][SnpNext]_snpVars

-----------------------------------------------------------------------------
(* A snapshot is listed with its clone, and no clone is left that the      *)
(* index does not know, outside the calls that are making or deleting it   *)
(* (Snapshot, DeleteSnapshot).                                             *)
SnpBacked ==
  \A s \in Snap :
    \/ s \in snpIndex <=> clone[s] \notin {"never", "gone"}
    \/ s \in snpIndex /\ clone[s] = "gone"       \* its entry could not be removed
    \/ \E c \in SnpCaller : call[c].snap = s /\ call[c].op \in {"snapshot", "delete"}

(* Calls on one target never work in each other's staging and backup       *)
(* directories: what is swapped in is what the call itself copied, and     *)
(* whatever fails a simulator that nobody works on has its data directory  *)
(* (lockTarget, ReplaceDir's swap and roll-back).                          *)
SnpWhole ==
  /\ \A c \in SnpCaller : call[c].step = "swap" => staging = call[c].copied /\ aside # "missing"
  /\ (\A c \in SnpCaller : ~ InCall(c)) => data # "missing"

(* "The next agent always gets a clean sim": what a former holder left is  *)
(* gone when a reset has freed the target, unless it is what the snapshot  *)
(* that was asked for holds; with careful clients (ResetSink, Reset).      *)
SnpNextClean ==
  ~ careless /\ holder = "resetting" /\ holder' = "free" =>
    data = "stock" \/ \E s \in Snap : call[Resetter].snap = s /\ data = clone[s]

SnpSafe == SnpBacked /\ SnpWhole
=============================================================================
