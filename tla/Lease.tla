-------------------------------- MODULE Lease --------------------------------
(***************************************************************************)
(* The lease manager of internal/lease: an in-memory table that gives each *)
(* target (simulator or device) to at most one holder, queues requests     *)
(* first-in first-out per matching key, expires what is not renewed, and   *)
(* keeps a target back while it is reset after (or before) a lease.        *)
(*                                                                         *)
(* Every method of Manager is one critical section of its mutex.  A method *)
(* that loops inside the section (expiry, promotion, the offer of free     *)
(* targets) is modelled by several steps: op names the method that holds   *)
(* the mutex, and nothing else may move until it lets go (op.kind =        *)
(* "idle").  Methods that take the mutex twice (the end of a reset,        *)
(* ClearQuarantine) are interruptible between the two sections, as in the  *)
(* code.                                                                   *)
(*                                                                         *)
(* Time is abstract: age[l] says which of its deadlines lease l has passed *)
(* and moves on nondeterministically (action Tick).                        *)
(***************************************************************************)
EXTENDS Naturals, FiniteSets

CONSTANTS
  Lease,      \* lease IDs; newID never repeats one
  Target,     \* target UDIDs
  Device,     \* the targets that are physical devices (no reset possible)
  Key,        \* canonical request keys: a label set plus any pinned UDID
  Matches,    \* Matches[k]: the targets a request with key k accepts
  Asked,      \* the reset specs clients ask for
  Listings,   \* what registry.List may return
  Grace,      \* whether a renewal grace window is configured
  Clearable,  \* the targets an operator may call ClearQuarantine on
  Poolable,   \* the targets the pool or the dashboard may Reserve
  MaxFinish   \* bound on concurrent FinishReset callers an operator adds

free == "free"                        \* no entry in byTarget
resetSentinel == "__resetting__"
reserveSentinel == "__reserved__"
NoTarget == "no target"
NoLease == "no lease"
NoKey == "no key"

ASSUME LeaseAssumption ==
  /\ Lease \cap {free, resetSentinel, reserveSentinel, NoLease} = {}
  /\ NoTarget \notin Target
  /\ NoKey \notin Key
  /\ Device \subseteq Target
  /\ Matches \in [Key -> SUBSET Target]
  /\ Asked \subseteq {"none", "erase", "snapshot"}
  /\ Listings \subseteq SUBSET Target
  /\ Grace \in BOOLEAN
  /\ Clearable \subseteq Target
  /\ Poolable \subseteq Target
  /\ MaxFinish \in Nat

Resets == {"none", "erase", "snapshot"}
Live == {"queued", "active"}
Terminal == {"released", "expired"}
States == {"unborn", "collected"} \cup Live \cup Terminal

VARIABLES
  state,        \* lease -> its State ("unborn": not acquired yet;
                \*          "collected": dropped by the terminal GC)
  key,          \* lease -> queueKey of its request
  reset,        \* lease -> Reset, "" and "none" being the same
  target,       \* lease -> TargetUDID
  age,          \* lease -> deadlines passed: active: "late" is past
                \*   ExpiresAt, "gone" past the grace window as well;
                \*   queued: "late" is past QueuePromoteLiveness since the
                \*   last poll, "gone" past queueDeadline
  warned,       \* leases with GraceUntil set
  polled,       \* queuePolled
  paused,       \* leases with Paused set
  byTarget,     \* target -> lease, sentinel or free
  queue,        \* key -> the queued leases (the slice m.queues[key]) ...
  ahead,        \* ... and, for each of them, those in front of it
  preGrant,     \* lease -> target being erased for it
  resetInFlight,\* targets whose reset goroutine is running
  dirty,        \* targets used since their last successful reset
  takeoverHold, \* Reserve holds that displaced a quarantine
  known,        \* the target cache m.targets
  jobs,         \* running reset goroutines: <<lease, target>>
  finishing,    \* target -> number of callers between the critical section
                \*   that precedes FinishReset(target) and FinishReset
  op,           \* the method holding the mutex
  promoting,    \* the target promoteLocked is being run for
  offer,        \* Acquire: targets still to be offered to the queues
  soiled,       \* history: targets really used since they were last wiped
  failed        \* history: targets whose last reset or rebuild failed

leaseVars == <<state, key, reset, target, age, warned, polled, paused>>
queueVars == <<queue, ahead, preGrant>>
targetVars == <<byTarget, resetInFlight, dirty, takeoverHold, known>>
jobVars == <<jobs, finishing>>
lockVars == <<op, promoting, offer>>
histVars == <<soiled, failed>>
vars == <<leaseVars, queueVars, targetVars, jobVars, lockVars, histVars>>

Op == [kind : {"idle", "promote", "sweep", "acquire", "get", "renew",
               "pause", "resume", "release"},
       l : Lease \cup {NoLease},
       k : Key \cup {NoKey},
       r : Resets]

Idle == [kind |-> "idle", l |-> NoLease, k |-> NoKey, r |-> "none"]

(* The mutex is held only to run promoteLocked, by a method that ends there. *)
Promotion == [Idle EXCEPT !.kind = "promote"]

On(kind, l) == [kind |-> kind, l |-> l, k |-> NoKey, r |-> "none"]

TypeOK ==
  /\ state \in [Lease -> States]
  /\ key \in [Lease -> Key \cup {NoKey}]
  /\ reset \in [Lease -> Resets]
  /\ target \in [Lease -> Target \cup {NoTarget}]
  /\ age \in [Lease -> {"fresh", "late", "gone"}]
  /\ warned \in SUBSET Lease
  /\ polled \in SUBSET Lease
  /\ paused \in SUBSET Lease
  /\ byTarget \in [Target -> Lease \cup {free, resetSentinel, reserveSentinel}]
  /\ queue \in [Key -> SUBSET Lease]
  /\ ahead \in [Lease -> SUBSET Lease]
  /\ preGrant \in [Lease -> Target \cup {NoTarget}]
  /\ resetInFlight \in SUBSET Target
  /\ dirty \in SUBSET Target
  /\ takeoverHold \in SUBSET Target
  /\ known \in SUBSET Target
  /\ jobs \in SUBSET (Lease \X Target)
  /\ finishing \in [Target -> Nat]
  /\ op \in Op
  /\ promoting \in Target \cup {NoTarget}
  /\ offer \in SUBSET Target
  /\ soiled \in SUBSET Target
  /\ failed \in SUBSET Target

(* newManager: an empty table; no simulator has carried a lease yet. *)
Init ==
  /\ state = [l \in Lease |-> "unborn"]
  /\ key = [l \in Lease |-> NoKey]
  /\ reset = [l \in Lease |-> "none"]
  /\ target = [l \in Lease |-> NoTarget]
  /\ age = [l \in Lease |-> "fresh"]
  /\ warned = {} /\ polled = {} /\ paused = {}
  /\ byTarget = [t \in Target |-> free]
  /\ queue = [k \in Key |-> {}]
  /\ ahead = [l \in Lease |-> {}]
  /\ preGrant = [l \in Lease |-> NoTarget]
  /\ resetInFlight = {} /\ dirty = {} /\ takeoverHold = {} /\ known = {}
  /\ jobs = {}
  /\ finishing = [t \in Target |-> 0]
  /\ op = Idle /\ promoting = NoTarget /\ offer = {}
  /\ soiled = {} /\ failed = {}

-----------------------------------------------------------------------------
(* The pieces the methods share. *)

(* Variant: devices are not excluded. *)
Suits_Device(k, r, t) == t \in Matches[k]

(* A request with key k and reset r can use target t (matchesRequest, and  *)
(* no reset on a physical device).                                         *)
Suits(k, r, t) == t \in Matches[k] /\ (r # "none" => t \notin Device)

(* preGrantEraseNeededLocked *)
NeedsErase(r, t) == r = "erase" /\ t \in dirty

(* needsResetLocked, for a lease that holds a target *)
NeedsReset(l) == reset[l] # "none"

(* queueOwnerSilentLocked *)
Silent(l) == l \in polled /\ age[l] # "fresh"

(* Variant: the IDs stay in the queue. *)
Dequeue_KeepingIDs(S) ==
  /\ queue' = queue
  /\ ahead' = [l \in Lease |-> IF l \in S THEN {} ELSE ahead[l] \ S]
  /\ polled' = polled \ S

(* Take the leases S out of every queue; their deadlines, poll marks and   *)
(* pre-grant marks go with them (removeFromQueueLocked and its callers).   *)
Dequeue(S) ==
  /\ queue' = [k \in Key |-> queue[k] \ S]
  /\ ahead' = [l \in Lease |-> IF l \in S THEN {} ELSE ahead[l] \ S]
  /\ polled' = polled \ S

ForgetPreGrant(S) == [l \in Lease |-> IF l \in S THEN NoTarget ELSE preGrant[l]]

(* Variant: the target is not held while it is reset. *)
StartReset_Unheld(l, t) ==
  /\ byTarget' = [byTarget EXCEPT ![t] = free]
  /\ resetInFlight' = resetInFlight \cup {t}
  /\ jobs' = jobs \cup {<<l, t>>}

(* Hold t under the reset sentinel and start a reset of it for lease l. *)
StartReset(l, t) ==
  /\ byTarget' = [byTarget EXCEPT ![t] = resetSentinel]
  /\ resetInFlight' = resetInFlight \cup {t}
  /\ jobs' = jobs \cup {<<l, t>>}

(* Variant: the grant does not mark the target dirty. *)
Assign_Unmarked(l, t) ==
  /\ byTarget' = [byTarget EXCEPT ![t] = l]
  /\ dirty' = dirty
  /\ soiled' = soiled \cup {t}
  /\ target' = [target EXCEPT ![l] = t]

(* Give t to l. *)
Assign(l, t) ==
  /\ byTarget' = [byTarget EXCEPT ![t] = l]
  /\ dirty' = dirty \cup {t}
  /\ soiled' = soiled \cup {t}
  /\ target' = [target EXCEPT ![l] = t]

ClearPause(l) == paused' = paused \ {l}

(* What an active lease leaves behind when it ends in terminal state s:    *)
(* its target is held for the reset it asked for, or offered to the queues *)
(* by the method that goes on as next.                                     *)
EndActive(l, s, next) ==
  LET t == target[l] IN
  /\ state' = [state EXCEPT ![l] = s]
  /\ age' = [age EXCEPT ![l] = "fresh"]
  /\ ClearPause(l)
  /\ \/ /\ NeedsReset(l)
        /\ StartReset(l, t)
        /\ op' = (IF next.kind = "promote" THEN Idle ELSE next)
        /\ UNCHANGED promoting
     \/ /\ ~NeedsReset(l)
        /\ byTarget' = [byTarget EXCEPT ![t] = free]
        /\ promoting' = t
        /\ op' = next
        /\ UNCHANGED <<resetInFlight, jobs>>

(* What a queued lease leaves behind when it ends in state s. *)
EndQueued(l, s) ==
  /\ state' = [state EXCEPT ![l] = s]
  /\ age' = [age EXCEPT ![l] = "fresh"]
  /\ Dequeue({l})
  /\ preGrant' = ForgetPreGrant({l})

-----------------------------------------------------------------------------
(* promoteLocked(promoting): walk the queues, in any order of their keys,  *)
(* for the first lease that can use the target.  On the way, leases whose  *)
(* owner has gone silent expire.                                           *)

CanTake(l, t) == Suits(key[l], reset[l], t)

(* Variants: one lease may have several targets erased for it; silence is  *)
(* not checked.                                                            *)
Stops_ManyErases(l, t) == CanTake(l, t) /\ ~Silent(l)
Stops_Silent(l, t) ==
  CanTake(l, t) /\ (NeedsErase(reset[l], t) => preGrant[l] = NoTarget)

(* The walk ends at l: it is granted t, or t is erased for it. *)
Stops(l, t) ==
  /\ CanTake(l, t)
  /\ ~Silent(l)
  /\ NeedsErase(reset[l], t) => preGrant[l] = NoTarget

(* Variant: any taker will do. *)
First_Any(l, t) == l \in queue[key[l]] /\ Stops(l, t)
First(l, t) ==
  /\ l \in queue[key[l]] /\ Stops(l, t)
  /\ \A x \in queue[key[l]] \cap ahead[l] : ~Stops(x, t)

Dry(k, t) == \A l \in queue[k] : ~Stops(l, t)

SilentIn(S, t) == {l \in S : CanTake(l, t) /\ Silent(l)}

(* The leases walked over before the walk ends at l, having gone through   *)
(* the keys K without finding a taker.                                     *)
WalkedOver(l, K) == (UNION {queue[k] : k \in K}) \cup (queue[key[l]] \cap ahead[l])

EndPromotion ==
  /\ promoting' = NoTarget
  /\ op' = IF op.kind = "promote" THEN Idle ELSE op

PromoteNone ==
  LET t == promoting
      S == IF t \in known THEN SilentIn(UNION {queue[k] : k \in Key}, t) ELSE {}
  IN
  /\ t # NoTarget
  /\ t \in known => \A k \in Key : Dry(k, t)
  /\ state' = [l \in Lease |-> IF l \in S THEN "expired" ELSE state[l]]
  /\ age' = [l \in Lease |-> IF l \in S THEN "fresh" ELSE age[l]]
  /\ Dequeue(S)
  /\ preGrant' = ForgetPreGrant(S)
  /\ EndPromotion
  /\ UNCHANGED <<key, reset, target, warned, paused, targetVars, jobVars,
                 offer, histVars>>

PromoteErase(l, K) ==
  LET t == promoting
      S == SilentIn(WalkedOver(l, K), t)
  IN
  /\ t # NoTarget /\ t \in known
  /\ state[l] = "queued" /\ First(l, t) /\ NeedsErase(reset[l], t)
  /\ \A k \in K : Dry(k, t)
  /\ state' = [x \in Lease |-> IF x \in S THEN "expired" ELSE state[x]]
  /\ age' = [x \in Lease |-> IF x \in S THEN "fresh" ELSE age[x]]
  /\ Dequeue(S)
  /\ preGrant' = [ForgetPreGrant(S) EXCEPT ![l] = t]
  /\ StartReset(l, t)
  /\ EndPromotion
  /\ UNCHANGED <<key, reset, target, warned, paused, dirty, takeoverHold,
                 known, finishing, offer, histVars>>

PromoteGrant(l, K) ==
  LET t == promoting
      S == SilentIn(WalkedOver(l, K), t)
  IN
  /\ t # NoTarget /\ t \in known
  /\ state[l] = "queued" /\ First(l, t) /\ ~NeedsErase(reset[l], t)
  /\ \A k \in K : Dry(k, t)
  /\ state' = [x \in Lease |-> IF x \in S THEN "expired"
                               ELSE IF x = l THEN "active" ELSE state[x]]
  /\ age' = [x \in Lease |-> IF x \in S \cup {l} THEN "fresh" ELSE age[x]]
  /\ warned' = warned \ {l}
  /\ Dequeue(S \cup {l})
  /\ preGrant' = ForgetPreGrant(S)
  /\ Assign(l, t)
  /\ EndPromotion
  /\ UNCHANGED <<key, reset, paused, resetInFlight, takeoverHold, known,
                 jobVars, offer, failed>>

Promote ==
  \/ PromoteNone
  \/ \E l \in Lease, K \in SUBSET Key : PromoteErase(l, K)
  \/ \E l \in Lease, K \in SUBSET Key : PromoteGrant(l, K)

-----------------------------------------------------------------------------
(* expireLocked, the first thing Acquire, Get, Renew, Pause, Resume,       *)
(* Release, Active, List and ExpireNow do.                                 *)

Abandoned(l) == state[l] = "queued" /\ age[l] = "gone"

(* Variant: a lease already warned is skipped. *)
Overdue_OnceWarned(l) == state[l] = "active" /\ age[l] # "fresh" /\ l \notin warned

(* An active lease expireLocked has to act on: to open its grace window,   *)
(* or to end it.                                                           *)
Overdue(l) ==
  /\ state[l] = "active"
  /\ \/ age[l] = "gone"
     \/ age[l] = "late" /\ l \notin warned

(* Variant: the grace window is ignored. *)
PastGrace_AtNominalExpiry(l) == age[l] # "fresh"
PastGrace(l) == age[l] = "gone"

Due == \E l \in Lease : Abandoned(l) \/ Overdue(l)

Expiring == op.kind \notin {"idle", "promote"} /\ promoting = NoTarget

(* The abandoned queue entries go first. *)
ExpireQueued(l) ==
  /\ Expiring /\ Abandoned(l)
  /\ EndQueued(l, "expired")
  /\ UNCHANGED <<key, reset, target, warned, paused, targetVars, jobVars,
                 lockVars, histVars>>

OpenGrace(l) ==
  /\ Expiring /\ \A x \in Lease : ~Abandoned(x)
  /\ Overdue(l) /\ age[l] = "late"
  /\ warned' = warned \cup {l}
  /\ UNCHANGED <<state, key, reset, target, age, polled, paused, queueVars,
                 targetVars, jobVars, lockVars, histVars>>

ExpireActive(l) ==
  /\ Expiring /\ \A x \in Lease : ~Abandoned(x)
  /\ Overdue(l) /\ PastGrace(l)
  /\ warned' = IF Grace THEN warned \cup {l} ELSE warned
  /\ EndActive(l, "expired", op)
  /\ UNCHANGED <<key, reset, target, polled, queueVars, dirty, takeoverHold,
                 known, finishing, offer, histVars>>

(* The terminal leases kept long enough are dropped from the table.  Every *)
(* expiry pass does this last; nothing reads a terminal lease in between,  *)
(* so it is enough to let the sweep's pass do it.                          *)
Collect(l) ==
  /\ Expiring /\ ~Due
  /\ op.kind = "sweep" /\ state[l] \in Terminal
  /\ state' = [state EXCEPT ![l] = "collected"]
  /\ UNCHANGED <<key, reset, target, age, warned, polled, paused, queueVars,
                 targetVars, jobVars, lockVars, histVars>>

Expire ==
  \E l \in Lease : ExpireQueued(l) \/ OpenGrace(l) \/ ExpireActive(l) \/ Collect(l)

(* The body of the method runs once the expiry pass is over. *)
Body(kind) == op.kind = kind /\ promoting = NoTarget /\ ~Due

-----------------------------------------------------------------------------
(* The methods.  A call on a terminal or unknown lease does nothing beyond *)
(* the expiry pass, which Sweep stands for.                                *)

Lock(o) == op = Idle /\ op' = o

(* ExpireNow, every second; also Active and List, which only read.         *)
Sweep ==
  /\ Lock(On("sweep", NoLease))
  /\ UNCHANGED <<leaseVars, queueVars, targetVars, jobVars, promoting, offer,
                 histVars>>

SweepDone ==
  /\ Body("sweep")
  /\ op' = Idle
  /\ UNCHANGED <<leaseVars, queueVars, targetVars, jobVars, promoting, offer,
                 histVars>>

(* Acquire, with a lease ID not used before.  The listing was taken before *)
(* the mutex; it replaces the cache, and once the expiry pass is over the  *)
(* free targets in it are offered to the leases already waiting.           *)
Acquire(l, k, r, listing) ==
  /\ state[l] = "unborn"
  /\ Lock([kind |-> "acquire", l |-> l, k |-> k, r |-> r])
  /\ known' = listing
  /\ offer' = listing
  /\ UNCHANGED <<leaseVars, queueVars, byTarget, resetInFlight, dirty,
                 takeoverHold, jobVars, promoting, histVars>>

(* Variant: free targets are not offered to the leases already waiting. *)
Offered_Never(t) == NoTarget
Offered(t) == IF byTarget[t] = free THEN t ELSE NoTarget

AcquireOffer(t) ==
  /\ Body("acquire") /\ t \in offer
  /\ offer' = offer \ {t}
  /\ promoting' = Offered(t)
  /\ UNCHANGED <<leaseVars, queueVars, targetVars, jobVars, op, histVars>>

AcquireMatching == {t \in known : Suits(op.k, op.r, t)}

(* Variants: a leased target counts as free; others waiting are ignored. *)
AcquireFree_Leased ==
  {t \in AcquireMatching : byTarget[t] # reserveSentinel /\ queue[op.k] = {}}
AcquireFree_Jumping ==
  {t \in AcquireMatching : byTarget[t] = free}

(* The targets the request may get now: none if others wait with its key;  *)
(* for reset "erase" a clean one if there is one.                          *)
AcquireFree ==
  LET F == {t \in AcquireMatching : byTarget[t] = free /\ queue[op.k] = {}}
  IN IF op.r = "erase" /\ F \ dirty # {} THEN F \ dirty ELSE F

AcquireBody == Body("acquire") /\ offer = {}

AcquireNoMatch ==
  /\ AcquireBody /\ AcquireMatching = {}
  /\ op' = Idle
  /\ UNCHANGED <<leaseVars, queueVars, targetVars, jobVars, promoting, offer,
                 histVars>>

Born(l, s) ==
  /\ state' = [state EXCEPT ![l] = s]
  /\ key' = [key EXCEPT ![l] = op.k]
  /\ reset' = [reset EXCEPT ![l] = op.r]

Enqueue(l) ==
  /\ Born(l, "queued")
  /\ queue' = [queue EXCEPT ![op.k] = @ \cup {l}]
  /\ ahead' = [ahead EXCEPT ![l] = queue[op.k]]

AcquireGrant(t) ==
  /\ AcquireBody /\ t \in AcquireFree /\ ~NeedsErase(op.r, t)
  /\ Born(op.l, "active")
  /\ Assign(op.l, t)
  /\ op' = Idle
  /\ UNCHANGED <<age, warned, polled, paused, queueVars, resetInFlight,
                 takeoverHold, known, jobVars, promoting, offer, failed>>

(* A free but dirty target is erased first; the lease waits in its queue. *)
AcquireErase(t) ==
  /\ AcquireBody /\ t \in AcquireFree /\ NeedsErase(op.r, t)
  /\ Enqueue(op.l)
  /\ preGrant' = [preGrant EXCEPT ![op.l] = t]
  /\ StartReset(op.l, t)
  /\ op' = Idle
  /\ UNCHANGED <<target, age, warned, polled, paused, dirty, takeoverHold,
                 known, finishing, promoting, offer, histVars>>

AcquireQueue ==
  /\ AcquireBody /\ AcquireMatching # {} /\ AcquireFree = {}
  /\ Enqueue(op.l)
  /\ op' = Idle
  /\ UNCHANGED <<target, age, warned, polled, paused, preGrant, targetVars,
                 jobVars, promoting, offer, histVars>>

(* Get, Renew, Pause, Resume and Release on a lease that is live when the  *)
(* call takes the mutex.                                                   *)
Call(kind, l) ==
  /\ state[l] \in Live
  /\ Lock(On(kind, l))
  /\ UNCHANGED <<leaseVars, queueVars, targetVars, jobVars, promoting, offer,
                 histVars>>

(* A poll restarts the deadlines of a queued lease. *)
GetBody ==
  LET q == state[op.l] = "queued" IN
  /\ Body("get")
  /\ age' = IF q THEN [age EXCEPT ![op.l] = "fresh"] ELSE age
  /\ polled' = IF q THEN polled \cup {op.l} ELSE polled
  /\ op' = Idle
  /\ UNCHANGED <<state, key, reset, target, warned, paused, queueVars,
                 targetVars, jobVars, promoting, offer, histVars>>

RenewBody ==
  LET holds == state[op.l] = "active" IN
  /\ Body("renew")
  /\ age' = IF holds THEN [age EXCEPT ![op.l] = "fresh"] ELSE age
  /\ warned' = IF holds THEN warned \ {op.l} ELSE warned
  /\ op' = Idle
  /\ UNCHANGED <<state, key, reset, target, polled, paused, queueVars,
                 targetVars, jobVars, promoting, offer, histVars>>

PauseBody ==
  /\ Body("pause")
  /\ paused' = IF state[op.l] = "active" THEN paused \cup {op.l} ELSE paused
  /\ op' = Idle
  /\ UNCHANGED <<state, key, reset, target, age, warned, polled, queueVars,
                 targetVars, jobVars, promoting, offer, histVars>>

ResumeBody ==
  /\ Body("resume")
  /\ paused' = IF state[op.l] = "active" THEN paused \ {op.l} ELSE paused
  /\ op' = Idle
  /\ UNCHANGED <<state, key, reset, target, age, warned, polled, queueVars,
                 targetVars, jobVars, promoting, offer, histVars>>

ReleaseActive ==
  /\ Body("release") /\ state[op.l] = "active"
  /\ EndActive(op.l, "released", Promotion)
  /\ UNCHANGED <<key, reset, target, warned, polled, queueVars, dirty,
                 takeoverHold, known, finishing, offer, histVars>>

(* Variant: a queued lease is ended like an active one. *)
ReleaseQueued_AsActive ==
  /\ Body("release") /\ state[op.l] = "queued"
  /\ EndActive(op.l, "released", Promotion)
  /\ UNCHANGED <<key, reset, target, warned, polled, queueVars, dirty,
                 takeoverHold, known, finishing, offer, histVars>>

ReleaseQueued ==
  /\ Body("release") /\ state[op.l] = "queued"
  /\ EndQueued(op.l, "released")
  /\ op' = Idle
  /\ UNCHANGED <<key, reset, target, warned, paused, targetVars, jobVars,
                 promoting, offer, histVars>>

(* The expiry pass of this very call ended the lease. *)
ReleaseTooLate ==
  /\ Body("release") /\ state[op.l] \notin Live
  /\ op' = Idle
  /\ UNCHANGED <<leaseVars, queueVars, targetVars, jobVars, promoting, offer,
                 histVars>>

-----------------------------------------------------------------------------
(* Resets.  resetFn ran on its own goroutine; it succeeded or failed.  A   *)
(* failed reset leaves the sentinel in place: the target is quarantined.   *)
(* A wipe under a holder (who should not be there) leaves its data behind. *)

(* Variant: the goroutine forgets to call FinishReset. *)
WillFinish_Never(t, ok) == finishing
WillFinish(t, ok) == IF ok THEN [finishing EXCEPT ![t] = @ + 1] ELSE finishing

ResetDone(l, t, ok) ==
  /\ op = Idle /\ <<l, t>> \in jobs
  /\ jobs' = jobs \ {<<l, t>>}
  /\ resetInFlight' = resetInFlight \ {t}
  /\ preGrant' = [preGrant EXCEPT ![l] = NoTarget]
  /\ dirty' = IF ok THEN dirty \ {t} ELSE dirty
  /\ soiled' = IF ok /\ byTarget[t] \notin Lease THEN soiled \ {t} ELSE soiled
  /\ failed' = IF ok THEN failed \ {t} ELSE failed \cup {t}
  /\ finishing' = WillFinish(t, ok)
  /\ UNCHANGED <<leaseVars, queue, ahead, byTarget, takeoverHold, known,
                 lockVars>>

(* The operator's call: it looks, lets go of the mutex, and only then      *)
(* calls FinishReset.                                                      *)
ClearQuarantine(t) ==
  /\ op = Idle /\ t \in Clearable
  /\ t \notin resetInFlight
  /\ finishing[t] < MaxFinish
  /\ finishing' = [finishing EXCEPT ![t] = @ + 1]
  /\ UNCHANGED <<leaseVars, queueVars, targetVars, jobs, lockVars, histVars>>

(* Variant: FinishReset frees the target whoever holds it. *)
HeldForReset_Unchecked(t) == byTarget[t] # free
HeldForReset(t) == byTarget[t] = resetSentinel

FinishReset(t) ==
  LET held == HeldForReset(t) IN
  /\ op = Idle /\ finishing[t] > 0
  /\ finishing' = [finishing EXCEPT ![t] = @ - 1]
  /\ byTarget' = IF held THEN [byTarget EXCEPT ![t] = free] ELSE byTarget
  /\ promoting' = IF held THEN t ELSE NoTarget
  /\ op' = IF held THEN Promotion ELSE Idle
  /\ UNCHANGED <<leaseVars, queueVars, resetInFlight, dirty, takeoverHold,
                 known, jobs, offer, histVars>>

(* Variant: only a running reset keeps a target from being reserved. *)
Reservable_EvenLeased(t) == t \notin resetInFlight
Reservable(t) ==
  \/ byTarget[t] = free
  \/ byTarget[t] = resetSentinel /\ t \notin resetInFlight

(* Holds for pool lifecycle work and dashboard operations. *)
Reserve(t) ==
  /\ op = Idle /\ t \in Poolable /\ Reservable(t)
  /\ byTarget' = [byTarget EXCEPT ![t] = reserveSentinel]
  /\ takeoverHold' = IF byTarget[t] = resetSentinel
                     THEN takeoverHold \cup {t} ELSE takeoverHold \ {t}
  /\ UNCHANGED <<leaseVars, queueVars, resetInFlight, dirty, known, jobVars,
                 lockVars, histVars>>

(* The holder gives a target back unusable: its rebuild failed (broken),   *)
(* or it displaced a quarantine it has no business with.                   *)
Quarantine(t, broken) ==
  /\ op = Idle /\ byTarget[t] = reserveSentinel
  /\ ~broken => t \in takeoverHold
  /\ byTarget' = [byTarget EXCEPT ![t] = resetSentinel]
  /\ takeoverHold' = takeoverHold \ {t}
  /\ failed' = IF broken THEN failed \cup {t} ELSE failed
  /\ UNCHANGED <<leaseVars, queueVars, resetInFlight, dirty, known, jobVars,
                 lockVars, soiled>>

(* The holder of a takeover must have erased the target (Reserve's         *)
(* contract); a plain hold leaves its data alone.                          *)
Unreserve(t) ==
  /\ op = Idle /\ byTarget[t] = reserveSentinel
  /\ dirty' = IF t \in takeoverHold THEN dirty \ {t} ELSE dirty
  /\ soiled' = IF t \in takeoverHold THEN soiled \ {t} ELSE soiled
  /\ failed' = IF t \in takeoverHold THEN failed \ {t} ELSE failed
  /\ takeoverHold' = takeoverHold \ {t}
  /\ byTarget' = [byTarget EXCEPT ![t] = free]
  /\ promoting' = t
  /\ op' = Promotion
  /\ UNCHANGED <<leaseVars, queueVars, resetInFlight, known, jobVars, offer>>

(* A rebuild under a hold erased the target (MarkClean). *)
MarkClean(t) ==
  /\ op = Idle /\ byTarget[t] = reserveSentinel
  /\ dirty' = dirty \ {t}
  /\ soiled' = soiled \ {t}
  /\ UNCHANGED <<leaseVars, queueVars, byTarget, resetInFlight, takeoverHold,
                 known, jobVars, lockVars, failed>>

(* Time passes for lease l. *)
Tick(l) ==
  /\ op = Idle /\ state[l] \in Live /\ age[l] # "gone"
  /\ age' = [age EXCEPT ![l] =
               IF age[l] = "late" \/ (state[l] = "active" /\ ~Grace)
               THEN "gone" ELSE "late"]
  /\ UNCHANGED <<state, key, reset, target, warned, polled, paused, queueVars,
                 targetVars, jobVars, lockVars, histVars>>

-----------------------------------------------------------------------------

AcquireStep ==
  \/ \E l \in Lease, k \in Key, r \in Asked, listing \in Listings :
       Acquire(l, k, r, listing)
  \/ \E t \in Target : AcquireOffer(t) \/ AcquireGrant(t) \/ AcquireErase(t)
  \/ AcquireNoMatch
  \/ AcquireQueue

CallStep ==
  \/ \E l \in Lease : Call("get", l)
  \/ \E l \in Lease : Call("renew", l)
  \/ \E l \in Lease : Call("pause", l)
  \/ \E l \in Lease : Call("resume", l)
  \/ \E l \in Lease : Call("release", l)
  \/ GetBody \/ RenewBody \/ PauseBody \/ ResumeBody
  \/ ReleaseActive \/ ReleaseQueued \/ ReleaseTooLate

TargetStep ==
  \E t \in Target :
    \/ ClearQuarantine(t)
    \/ FinishReset(t)
    \/ Reserve(t)
    \/ \E broken \in BOOLEAN : Quarantine(t, broken)
    \/ Unreserve(t)
    \/ MarkClean(t)

ResetStep == \E l \in Lease, t \in Target, ok \in BOOLEAN : ResetDone(l, t, ok)

Next ==
  \/ Promote
  \/ Expire
  \/ Sweep \/ SweepDone
  \/ AcquireStep
  \/ CallStep
  \/ ResetStep
  \/ TargetStep
  \/ \E l \in Lease : Tick(l)

Spec == Init /\ [][Next]_vars

(* What the scheduler guarantees: a method holding the mutex goes on; the  *)
(* expiry ticker, a finished reset and a pending FinishReset get the mutex *)
(* in the end, however busy it is (sync.Mutex does not starve a waiter);   *)
(* resetFn returns.  Nothing is assumed of clients, operators, the pool or *)
(* the passing of time.                                                    *)
Fairness ==
  /\ WF_vars(op # Idle /\ Next)
  /\ SF_vars(Sweep)
  /\ \A l \in Lease, t \in Target : SF_vars(\E ok \in BOOLEAN : ResetDone(l, t, ok))
  /\ \A t \in Target : SF_vars(FinishReset(t))

FairSpec == Spec /\ Fairness
-----------------------------------------------------------------------------
(* Properties. *)

(* byTarget and the leases agree, at every step: a lease is active exactly *)
(* when the target it names points back at it.  Hence no target has two    *)
(* holders and no active lease has lost its target (Acquire,               *)
(* promoteLocked, expireLocked, Release each update both sides).           *)
Ownership ==
  \A l \in Lease : \A t \in Target :
    byTarget[t] = l <=> state[l] = "active" /\ target[l] = t

(* The queues hold exactly the leases in state queued, each under its own  *)
(* key, and in one total order: promoteLocked can dereference every ID it  *)
(* finds, and no waiting lease is lost or queued twice.                    *)
QueueExact ==
  /\ \A l \in Lease, k \in Key :
       l \in queue[k] <=> state[l] = "queued" /\ key[l] = k
  /\ \A l \in Lease : ahead[l] # {} => state[l] = "queued" /\ ahead[l] \subseteq queue[key[l]]
  /\ \A k \in Key : \A l, m \in queue[k] :
       l # m => (l \in ahead[m] <=> m \notin ahead[l])
  /\ \A l \in Lease : l \notin ahead[l]
  /\ \A l \in Lease : \A m \in ahead[l] : ahead[m] \subseteq ahead[l]

(* One queued lease never has two targets erased for it, and its pre-grant *)
(* mark lasts exactly as long as the erase runs (preGrant in startResets,  *)
(* promoteLocked, removeFromQueueLocked).                                  *)
OneErasePerLease ==
  \A l \in Lease : \A t \in Target :
    state[l] = "queued" => (<<l, t>> \in jobs <=> preGrant[l] = t)

(* No lease that carries a reset ends up on a physical device, and no      *)
(* reset is ever run on one (Acquire, promoteLocked); the server's         *)
(* refuseDeviceResetGrant has nothing left to refuse.                      *)
NoResetOnDevice ==
  /\ \A l \in Lease : state[l] = "active" /\ reset[l] # "none" => target[l] \notin Device
  /\ \A j \in jobs : j[2] \notin Device

(* The targets only the lease manager itself ever frees. *)
Private == Target \ (Clearable \cup Poolable)

(* A target whose reset is running is held by the reset sentinel: nobody   *)
(* is granted a target mid-wipe.  Claimed of the targets neither an        *)
(* operator nor the pool frees or takes over (see MidResetHeldAlways).     *)
MidResetHeld ==
  \A t \in Private :
    /\ t \in resetInFlight <=> \E l \in Lease : <<l, t>> \in jobs
    /\ t \in resetInFlight => byTarget[t] = resetSentinel

(* A lease that demanded reset "erase" is only ever handed a target wiped  *)
(* since its last use.                                                     *)
EraseGrantIsClean ==
  [][\A l \in Lease : state[l] # "active" /\ state'[l] = "active"
        /\ reset'[l] = "erase" /\ target'[l] \in Private
      => target'[l] \notin soiled]_vars

(* Grants are first-in first-out per key: a lease is passed over only when *)
(* it cannot use the target or waits for its own erase, or its owner went  *)
(* silent (then it ends).                                                  *)
FIFOPerKey ==
  [][\A l \in Lease : state[l] = "queued" /\ state'[l] = "active" =>
       \A x \in ahead[l] :
         \/ state'[x] \notin Live
         \/ preGrant[x] # NoTarget
         \/ reset[x] # "none" /\ target'[l] \in Device]_vars

(* A newcomer never overtakes a waiting lease with its own key. *)
NoQueueJumping ==
  [][\A l \in Lease : state[l] = "unborn" /\ state'[l] = "active" =>
       \A x \in Lease : ~(state[x] = "queued" /\ key[x] = key'[l])]_vars

(* A target is never given to a lease whose owner polled and then fell     *)
(* silent, and a lease that ended never comes back.                        *)
NoGrantToTheSilent ==
  [][\A l \in Lease : state'[l] = "active" /\ state[l] # "active" =>
       state[l] \in {"unborn", "queued"} /\ ~Silent(l)]_vars

(* With a grace window a lease expires only after its warning was given    *)
(* and no renewal came, and a renewal always rescues it.                   *)
ExpiryIsWarned ==
  [][\A l \in Lease : state[l] = "active" /\ state'[l] = "expired" =>
       age[l] = "gone" /\ (Grace => l \in warned')]_vars
(* No target idles while a lease that could use it waits: between two      *)
(* methods, a free target in the cache has no willing taker.  It holds     *)
(* while nobody asks for reset "erase" and no target is a device: only     *)
(* then can no lease be passed over for a target the lease behind it can   *)
(* use.                                                                    *)
WorkConserving ==
  op = Idle =>
    \A l \in Lease, t \in known :
      state[l] = "queued" /\ CanTake(l, t) /\ ~Silent(l) => byTarget[t] # free

(* Every step is a step of the abstract service, or leaves it alone. *)
slotOf ==
  [t \in Target |-> IF byTarget[t] \in {resetSentinel, reserveSentinel}
                    THEN "withheld" ELSE byTarget[t]]

phaseOf ==
  [l \in Lease |-> CASE state[l] = "unborn" -> "new"
                     [] state[l] = "queued" -> "waiting"
                     [] state[l] = "active" -> "holding"
                     [] OTHER -> "done"]

Service == INSTANCE TargetService WITH slot <- slotOf, phase <- phaseOf

(* The lease manager implements the abstract target service: one holder    *)
(* per target, only free targets handed out, every lease ends once.        *)
ImplementsService == Service!SSpec

(* An abandoned holder cannot keep its target: a lease past its grace      *)
(* window ends (expiryLoop).                                               *)
LapsedLeaseEnds ==
  \A l \in Lease :
    state[l] = "active" /\ age[l] = "gone" ~> state[l] \in Terminal \cup {"collected"}

(* A reset that was started ends with the target free for the next holder  *)
(* or, if it failed, quarantined: the second critical section of           *)
(* startResets is never lost.                                              *)
ResetIsResolved ==
  \A t \in Private :
    t \in resetInFlight ~>
      t \notin resetInFlight /\ (byTarget[t] # resetSentinel \/ t \in failed)

-----------------------------------------------------------------------------
(* Statements of the code's comments and of the protocol that do not hold. *)

(* "a queued lease is never promoted onto a sim mid-wipe" (ClearQuarantine),*)
(* "a stray call can never double-assign a busy target" (FinishReset).     *)
MidResetHeldAlways ==
  \A t \in Target : t \in resetInFlight => byTarget[t] = resetSentinel
=============================================================================
