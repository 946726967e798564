------------------------------- MODULE Broker -------------------------------
(***************************************************************************)
(* The fleet broker's leases and runs (internal/broker): an acquire is     *)
(* tried on the candidate hosts one after the other, queued grants are     *)
(* kept or released speculatively, the winner is remembered and counted    *)
(* against its host, and the prober reconciles what the broker remembers   *)
(* with what the daemons know.  Every call to a daemon may be lost on the  *)
(* way there or on the way back.  The order of the candidates is module    *)
(* Placement's and is any order here.  A request owns at most one lease    *)
(* per host, so a lease is named by its request and its host.  Time is     *)
(* counted in windows: a queued lease nobody polls for MaxQuiet of them    *)
(* is expired by its daemon (QueueWaitTTL), and the broker looks at it     *)
(* one window later (queuedReconcileAfter).                                *)
(***************************************************************************)
EXTENDS Naturals, Sequences, FiniteSets

CONSTANTS
  FHost,        \* the fleet's hosts
  Asker,        \* requests: acquires
  FleetRun,     \* requests: runs
  NoFHost,
  WantsReset,   \* do the acquires ask for a reset at the lease's end?
  MaxQuiet

ASSUME BrkAssumption ==
  /\ NoFHost \notin FHost /\ WantsReset \in BOOLEAN /\ MaxQuiet \in Nat \ {0}
  /\ IsFiniteSet(FHost) /\ IsFiniteSet(Asker) /\ IsFiniteSet(FleetRun)
  /\ FleetRun \cap (Asker \X FHost) = {}

VARIABLES
  onDaemon,   \* each lease as its daemon has it
  quiet,      \* windows since the daemon last saw a poll of it
  entry,      \* Broker.leases: state, and windows since lastPoll
  orphans,    \* Broker.orphans
  load,       \* host.leases
  unload,     \* addLease(-1) calls still to come, per host
  acq,        \* the acquire handlers
  left,       \* requests whose client has gone
  lostAnswer, \* history: leases granted by an answer the broker never saw
  frun,       \* the runs: on their daemon, and Broker.runs
  counted     \* history: what addLease(+1) has counted and not given back

brkVars == <<onDaemon, quiet, entry, orphans, load, unload, acq, left, lostAnswer,
             frun, counted>>

FLease == Asker \X FHost
LiveOn == {"queued", "active"}
MaybeHost == FHost \cup {NoFHost}
NoEntryYet == [state |-> "none", quiet |-> 0]

BrkTypeOK ==
  /\ onDaemon \in [FLease -> {"none", "queued", "active", "over", "gone"}]
  /\ quiet \in [FLease -> 0..MaxQuiet]
  /\ entry \in [FLease -> [state: {"none", "queued", "active", "terminal"},
                           quiet: 0..(MaxQuiet + 1)]]
  /\ orphans \subseteq FLease
  /\ load \in [FHost -> Nat] /\ unload \in [FHost -> Nat]
  /\ acq \in [Asker -> [at: {"idle", "asking", "compare", "dropping", "granted",
                             "freeing", "deliver", "adding", "answered", "failed"},
                        todo: Seq(FHost), kept: MaybeHost, cur: MaybeHost,
                        drop: MaybeHost, then: {"", "asking", "deliver", "failed"},
                        seen: {"queued", "active"}]]
  /\ left \subseteq Asker
  /\ lostAnswer \subseteq FLease
  /\ frun \in [FleetRun -> [on: MaybeHost, is: {"none", "running", "finished", "gone"},
                            entry: {"none", "loaded", "settled"}, adding: BOOLEAN]]
  /\ counted \in [FHost -> SUBSET (FLease \cup FleetRun)]

Unasked == [at |-> "idle", todo |-> <<>>, kept |-> NoFHost, cur |-> NoFHost,
            drop |-> NoFHost, then |-> "", seen |-> "active"]
BrkInit ==
  /\ onDaemon = [l \in FLease |-> "none"] /\ quiet = [l \in FLease |-> 0]
  /\ entry = [l \in FLease |-> NoEntryYet]
  /\ orphans = {} /\ lostAnswer = {} /\ left = {}
  /\ load = [h \in FHost |-> 0] /\ unload = [h \in FHost |-> 0]
  /\ acq = [k \in Asker |-> Unasked]
  /\ frun = [r \in FleetRun |-> [on |-> NoFHost, is |-> "none", entry |-> "none",
                              adding |-> FALSE]]
  /\ counted = [h \in FHost |-> {}]

(* A release as the daemon performs it: a live lease is over. *)
Ended(l) == [onDaemon EXCEPT ![l] = IF @ \in LiveOn THEN "over" ELSE @]

-----------------------------------------------------------------------------
(* handleAcquireLease. *)
Orders == {s \in UNION {[1..n -> FHost] : n \in 1..Cardinality(FHost)} :
             \A i, j \in DOMAIN s : i # j => s[i] # s[j]}
AskStart(k) ==
  /\ acq[k].at = "idle"
  /\ \E s \in Orders : acq' = [acq EXCEPT ![k].at = "asking", ![k].todo = s]
  /\ UNCHANGED <<onDaemon, quiet, entry, orphans, load, unload, left, lostAnswer, frun,
                 counted>>

(* The first host that grants wins; a first queued answer is kept aside, a *)
(* second one is compared with it.                                         *)
AskAnswered(k, ans) ==
  LET h == Head(acq[k].todo) IN
  /\ acq[k].at = "asking" /\ acq[k].todo # <<>>
  /\ onDaemon' = [onDaemon EXCEPT ![<<k, h>>] = ans]
  /\ acq' = [acq EXCEPT ![k] =
       CASE ans = "active" -> [acq[k] EXCEPT !.at = "granted", !.cur = h, !.todo = Tail(@),
                                             !.seen = "active"]
         [] ans = "queued" /\ acq[k].kept = NoFHost ->
              [acq[k] EXCEPT !.kept = h, !.todo = Tail(@)]
         [] OTHER -> [acq[k] EXCEPT !.at = "compare", !.cur = h, !.todo = Tail(@)]]
  /\ UNCHANGED <<quiet, entry, orphans, load, unload, left, lostAnswer, frun, counted>>

(* A wire error or a lost call goes on to the next host; when it was the   *)
(* answer that got lost, the daemon has a lease the broker never hears of. *)
AskFailed(k, ans) ==
  LET h == Head(acq[k].todo) IN
  /\ acq[k].at = "asking" /\ acq[k].todo # <<>>
  /\ onDaemon' = [onDaemon EXCEPT ![<<k, h>>] = ans]
  /\ lostAnswer' = IF ans = "none" THEN lostAnswer ELSE lostAnswer \cup {<<k, h>>}
  /\ acq' = [acq EXCEPT ![k].todo = Tail(@)]
  /\ UNCHANGED <<quiet, entry, orphans, load, unload, left, frun, counted>>

AskedAll(k) ==
  /\ acq[k].at = "asking" /\ acq[k].todo = <<>>
  /\ acq' = [acq EXCEPT ![k] =
       IF @.kept = NoFHost THEN [@ EXCEPT !.at = "failed"]
       ELSE [@ EXCEPT !.at = "deliver", !.cur = acq[k].kept, !.kept = NoFHost,
                      !.seen = "queued"]]
  /\ UNCHANGED <<onDaemon, quiet, entry, orphans, load, unload, left, lostAnswer, frun,
                 counted>>

(* Keep the shallower queue: which of the two it is is the daemons' word.  *)
Compare(k) ==
  /\ acq[k].at = "compare"
  /\ \/ acq' = [acq EXCEPT ![k].at = "dropping", ![k].drop = acq[k].cur]
     \/ acq' = [acq EXCEPT ![k].at = "dropping", ![k].drop = acq[k].kept,
                           ![k].kept = acq[k].cur]
  /\ UNCHANGED <<onDaemon, quiet, entry, orphans, load, unload, left, lostAnswer, frun,
                 counted>>

(* releaseSpeculative: with a reset, a lease found active is adopted       *)
(* instead of being released.                                              *)
Promoted(k, h) == WantsReset /\ onDaemon[<<k, h>>] = "active"
Free(k, h, next) == [acq[k] EXCEPT !.at = "freeing", !.drop = h, !.then = next]
DropAdopts(k) ==
  /\ acq[k].at = "dropping" /\ Promoted(k, acq[k].drop)
  /\ acq' = [acq EXCEPT ![k].at = "granted", ![k].cur = acq[k].drop, ![k].drop = NoFHost,
                        ![k].seen = "active"]
  /\ UNCHANGED <<onDaemon, quiet, entry, orphans, load, unload, left, lostAnswer, frun,
                 counted>>
DropFrees(k) ==      \* not active, not asked, or the question got lost
  /\ acq[k].at = "dropping"
  /\ acq' = [acq EXCEPT ![k] = Free(k, acq[k].drop, "asking")]
  /\ UNCHANGED <<onDaemon, quiet, entry, orphans, load, unload, left, lostAnswer, frun,
                 counted>>

(* A grant while another lease is queued: that one is released, or, found  *)
(* active too, adopted in place of the grant (it is the earlier one).      *)
Granted_KeepsQueued(k) ==
  /\ acq[k].at = "granted"
  /\ acq' = [acq EXCEPT ![k] = [@ EXCEPT !.at = "deliver", !.kept = NoFHost]]
  /\ UNCHANGED <<onDaemon, quiet, entry, orphans, load, unload, left, lostAnswer, frun,
                 counted>>
Granted(k) ==
  /\ acq[k].at = "granted"
  /\ \/ acq[k].kept = NoFHost /\ acq' = [acq EXCEPT ![k].at = "deliver"]
     \/ /\ acq[k].kept # NoFHost
        /\ acq' = [acq EXCEPT ![k] = [Free(k, acq[k].kept, "deliver") EXCEPT !.kept = NoFHost]]
     \/ /\ acq[k].kept # NoFHost /\ Promoted(k, acq[k].kept)
        /\ acq' = [acq EXCEPT ![k] = [Free(k, acq[k].cur, "deliver") EXCEPT
                                        !.cur = acq[k].kept, !.kept = NoFHost]]
  /\ UNCHANGED <<onDaemon, quiet, entry, orphans, load, unload, left, lostAnswer, frun,
                 counted>>

(* releaseQuietly: a release that is not confirmed becomes an orphan. *)
Freed(k) == acq' = [acq EXCEPT ![k].at = acq[k].then, ![k].drop = NoFHost, ![k].then = ""]
FreeConfirmed(k) ==
  /\ acq[k].at = "freeing" /\ Freed(k)
  /\ onDaemon' = Ended(<<k, acq[k].drop>>)
  /\ UNCHANGED <<quiet, entry, orphans, load, unload, left, lostAnswer, frun, counted>>
FreeUnconfirmed_Drops(k) ==
  /\ acq[k].at = "freeing" /\ Freed(k)
  /\ onDaemon' \in {onDaemon, Ended(<<k, acq[k].drop>>)}
  /\ UNCHANGED <<quiet, entry, orphans, load, unload, left, lostAnswer, frun, counted>>
FreeUnconfirmed(k) ==
  /\ acq[k].at = "freeing" /\ Freed(k)
  /\ onDaemon' \in {onDaemon, Ended(<<k, acq[k].drop>>)}
  /\ orphans' = orphans \cup {<<k, acq[k].drop>>}
  /\ UNCHANGED <<quiet, entry, load, unload, left, lostAnswer, frun, counted>>

(* The client has hung up, or the lease is remembered and then counted.    *)
Undeliverable(k) ==
  /\ acq[k].at = "deliver" /\ k \in left
  /\ acq' = [acq EXCEPT ![k] = Free(k, acq[k].cur, "failed")]
  /\ UNCHANGED <<onDaemon, quiet, entry, orphans, load, unload, left, lostAnswer, frun,
                 counted>>
RememberLease(k) ==
  /\ acq[k].at = "deliver" /\ k \notin left
  /\ entry' = [entry EXCEPT ![<<k, acq[k].cur>>] = [state |-> acq[k].seen, quiet |-> 0]]
  /\ acq' = [acq EXCEPT ![k].at = "adding"]
  /\ UNCHANGED <<onDaemon, quiet, orphans, load, unload, left, lostAnswer, frun, counted>>
AddLease(k) ==
  LET h == acq[k].cur IN
  /\ acq[k].at = "adding"
  /\ load' = [load EXCEPT ![h] = @ + 1]
  /\ counted' = [counted EXCEPT ![h] = @ \cup {<<k, h>>}]
  /\ acq' = [acq EXCEPT ![k].at = "answered"]
  /\ UNCHANGED <<onDaemon, quiet, entry, orphans, unload, left, lostAnswer, frun>>
Leaves(k) ==
  /\ k \notin left /\ acq[k].at # "idle" /\ left' = left \cup {k}
  /\ UNCHANGED <<onDaemon, quiet, entry, orphans, load, unload, acq, lostAnswer, frun,
                 counted>>

-----------------------------------------------------------------------------
(* What the broker makes of a daemon's answer about lease l: a terminal    *)
(* state tombstones the entry and a 404 forgets it, and both give the load *)
(* back once, outside the lock.                                            *)
GivesBack(l) ==
  /\ entry[l].state \in LiveOn
  /\ unload' = [unload EXCEPT ![l[2]] = @ + 1]
MarkTerminal_Always(l) ==
  /\ entry' = [entry EXCEPT ![l] = [state |-> "terminal", quiet |-> 0]]
  /\ unload' = [unload EXCEPT ![l[2]] = @ + 1]
MarkTerminal(l) ==
  /\ entry' = [entry EXCEPT ![l] = [state |-> "terminal", quiet |-> 0]]
  /\ GivesBack(l) \/ (entry[l].state \notin LiveOn /\ UNCHANGED unload)
ForgetLease(l) ==
  /\ entry' = [entry EXCEPT ![l] = NoEntryYet]
  /\ GivesBack(l) \/ (entry[l].state \notin LiveOn /\ UNCHANGED unload)
Note(l, state) ==
  CASE state = "over" -> MarkTerminal(l)
    [] state = "gone" -> ForgetLease(l)
    [] OTHER -> entry' = [entry EXCEPT ![l] = [state |-> state, quiet |-> 0]] /\ UNCHANGED unload

(* A poll or a renewal through the broker: the daemon counts it as a sign  *)
(* of life of a queued lease even when the answer is lost.                 *)
ProxyGet(l) ==
  /\ entry[l].state # "none" /\ l[1] \notin left /\ acq[l[1]].at = "answered"
  /\ quiet' = [quiet EXCEPT ![l] = 0]
  /\ Note(l, onDaemon[l]) \/ UNCHANGED <<entry, unload>>
  /\ UNCHANGED <<onDaemon, orphans, load, acq, left, lostAnswer, frun, counted>>
ProxyRelease(l) ==
  /\ entry[l].state # "none" /\ l[1] \notin left /\ acq[l[1]].at = "answered"
  /\ onDaemon' = Ended(l)
  /\ Note(l, onDaemon'[l]) \/ UNCHANGED <<entry, unload>>
  /\ UNCHANGED <<quiet, orphans, load, acq, left, lostAnswer, frun, counted>>
SubLease(h) ==
  /\ unload[h] > 0
  /\ unload' = [unload EXCEPT ![h] = @ - 1]
  /\ load' = [load EXCEPT ![h] = IF @ = 0 THEN 0 ELSE @ - 1]
  /\ UNCHANGED <<onDaemon, quiet, entry, orphans, acq, left, lostAnswer, frun, counted>>

(* The probe round of a host that answers: orphans, leases, tombstones,    *)
(* runs.  A queued lease is left alone until its client has been quiet for *)
(* longer than the daemon waits, since asking would keep it alive.         *)
Reconcilable_Always(l) == entry[l].state \in LiveOn
Reconcilable(l) ==
  \/ entry[l].state = "active"
  \/ entry[l].state = "queued" /\ entry[l].quiet > MaxQuiet
ReconcileLease(l) ==
  /\ Reconcilable(l)
  /\ quiet' = [quiet EXCEPT ![l] = 0]
  /\ Note(l, onDaemon[l])
  /\ UNCHANGED <<onDaemon, orphans, load, acq, left, lostAnswer, frun, counted>>
ReleaseOrphan(l) ==
  /\ l \in orphans /\ onDaemon' = Ended(l) /\ orphans' = orphans \ {l}
  /\ UNCHANGED <<quiet, entry, load, unload, acq, left, lostAnswer, frun, counted>>
PruneTombstone(l) ==
  /\ entry[l].state = "terminal" /\ entry' = [entry EXCEPT ![l] = NoEntryYet]
  /\ UNCHANGED <<onDaemon, quiet, orphans, load, unload, acq, left, lostAnswer, frun,
                 counted>>

-----------------------------------------------------------------------------
(* The daemons: promotion, expiry, a release that bypasses the broker,     *)
(* collection, a restart, and time.                                        *)
DaemonStep(l) ==
  /\ \/ onDaemon[l] = "queued" /\ onDaemon' = [onDaemon EXCEPT ![l] = "active"]
     \/ onDaemon[l] \in LiveOn /\ onDaemon' = [onDaemon EXCEPT ![l] = "gone"]
     \/ onDaemon[l] = "over" /\ onDaemon' = [onDaemon EXCEPT ![l] = "gone"]
  /\ UNCHANGED <<quiet, entry, orphans, load, unload, acq, left, lostAnswer, frun, counted>>
DaemonExpires(l) ==
  /\ onDaemon[l] = "active" \/ (onDaemon[l] = "queued" /\ quiet[l] = MaxQuiet)
  /\ onDaemon' = [onDaemon EXCEPT ![l] = "over"]
  /\ UNCHANGED <<quiet, entry, orphans, load, unload, acq, left, lostAnswer, frun, counted>>
WindowPasses ==
  /\ \A l \in FLease : onDaemon[l] = "queued" => quiet[l] < MaxQuiet
  /\ \E l \in FLease : onDaemon[l] = "queued" \/ entry[l].state = "queued"
  /\ quiet' = [l \in FLease |-> IF onDaemon[l] = "queued" THEN quiet[l] + 1 ELSE 0]
  /\ entry' = [l \in FLease |-> [entry[l] EXCEPT !.quiet =
                 IF entry[l].state = "queued" /\ @ <= MaxQuiet THEN @ + 1 ELSE @]]
  /\ UNCHANGED <<onDaemon, orphans, load, unload, acq, left, lostAnswer, frun, counted>>

(* Runs: a host accepts one, it is remembered and counted, it finishes or  *)
(* its daemon forgets it, and whoever notices settles it, once.  A run the *)
(* broker no longer remembers is found again by asking every host, and     *)
(* counts for nothing.                                                     *)
PlaceRun(r, h) ==
  /\ frun[r].is = "none"
  /\ frun' = [frun EXCEPT ![r] = [on |-> h, is |-> "running", entry |-> "loaded",
                                     adding |-> TRUE]]
  /\ UNCHANGED <<onDaemon, quiet, entry, orphans, load, unload, acq, left, lostAnswer,
                 counted>>
AddRun(r) ==
  LET h == frun[r].on IN
  /\ frun[r].adding
  /\ frun' = [frun EXCEPT ![r].adding = FALSE]
  /\ load' = [load EXCEPT ![h] = @ + 1]
  /\ counted' = [counted EXCEPT ![h] = @ \cup {r}]
  /\ UNCHANGED <<onDaemon, quiet, entry, orphans, unload, acq, left, lostAnswer>>
RunEnds(r) ==
  /\ frun[r].is = "running" /\ frun' \in {[frun EXCEPT ![r].is = s] : s \in {"finished", "gone"}}
  /\ UNCHANGED <<onDaemon, quiet, entry, orphans, load, unload, acq, left, lostAnswer,
                 counted>>
(* A poll that shows the run over or forgotten: waitRunSync's, a client's  *)
(* or the prober's.                                                        *)
RunPolled(r) == frun[r].is \in {"finished", "gone"}
SettleRun(r) ==
  /\ frun[r].entry = "loaded" /\ RunPolled(r)
  /\ frun' = [frun EXCEPT ![r].entry = "settled"]
  /\ unload' = [unload EXCEPT ![frun[r].on] = @ + 1]
  /\ UNCHANGED <<onDaemon, quiet, entry, orphans, load, acq, left, lostAnswer, counted>>
(* The retention of the routes: a run pruned while loaded is given back.   *)
PruneRun(r) ==
  /\ frun[r].entry # "none" /\ ~ frun[r].adding
  /\ frun' = [frun EXCEPT ![r].entry = "none"]
  /\ unload' = IF frun[r].entry = "loaded" THEN [unload EXCEPT ![frun[r].on] = @ + 1]
               ELSE unload
  /\ UNCHANGED <<onDaemon, quiet, entry, orphans, load, acq, left, lostAnswer, counted>>
RunFound(r) ==       \* handleRunGet without a route: the host that knows it
  /\ frun[r].entry = "none" /\ frun[r].is \in {"running", "finished"}
  /\ frun' = [frun EXCEPT ![r].entry = "settled"]
  /\ UNCHANGED <<onDaemon, quiet, entry, orphans, load, unload, acq, left, lostAnswer,
                 counted>>

BrkNext ==
  \/ \E k \in Asker :
       \/ AskStart(k) \/ AskedAll(k) \/ Compare(k) \/ DropAdopts(k) \/ DropFrees(k)
       \/ Granted(k) \/ FreeConfirmed(k) \/ FreeUnconfirmed(k) \/ Undeliverable(k)
       \/ RememberLease(k) \/ AddLease(k) \/ Leaves(k)
       \/ \E ans \in LiveOn : AskAnswered(k, ans)
       \/ \E ans \in LiveOn \cup {"none"} : AskFailed(k, ans)
  \/ \E l \in FLease :
       \/ ProxyGet(l) \/ ProxyRelease(l) \/ ReconcileLease(l) \/ ReleaseOrphan(l)
       \/ PruneTombstone(l) \/ DaemonStep(l) \/ DaemonExpires(l)
  \/ \E h \in FHost : SubLease(h)
  \/ WindowPasses
  \/ \E r \in FleetRun : AddRun(r) \/ RunEnds(r) \/ SettleRun(r) \/ PruneRun(r)
                         \/ RunFound(r)
                         \/ \E h \in FHost : PlaceRun(r, h)

BrkSpec == BrkInit /\ [][BrkNext]_brkVars

(* The probe loop reaches a host that answers again and again, a daemon's  *)
(* expiry loop runs, and time passes.                                      *)
BrkFairness ==
  /\ SF_brkVars(\E l \in FLease : ReleaseOrphan(l))
  /\ WF_brkVars(\E l \in FLease : ReconcileLease(l))
  /\ WF_brkVars(\E l \in FLease : DaemonExpires(l))
  /\ WF_brkVars(WindowPasses)
BrkFairSpec == BrkSpec /\ BrkFairness

-----------------------------------------------------------------------------
(* No grant is leaked: once an acquire is answered, a lease of it that is  *)
(* alive on some daemon is the one handed to the client, or an orphan the  *)
(* prober will release, or one whose answer never reached the broker       *)
(* (handleAcquireLease, releaseSpeculative, releaseQuietly).               *)
BrkNoLeak ==
  \A l \in FLease :
    onDaemon[l] \in LiveOn /\ acq[l[1]].at \in {"adding", "answered", "failed"} =>
      \/ entry[l].state \in LiveOn /\ l[2] = acq[l[1]].cur
      \/ l \in orphans \/ l \in lostAnswer

(* A host never looks less loaded than the leases and runs the broker has  *)
(* counted on it and still believes in, but for counts on their way: none  *)
(* is given back twice, even by a release, a poll and a probe that all see *)
(* the same end (addLease, markLeaseTerminal, forgetLease, settleRun).     *)
Adding(h) ==
  Cardinality({k \in Asker : acq[k].at = "adding" /\ acq[k].cur = h})
    + Cardinality({r \in FleetRun : frun[r].adding /\ frun[r].on = h})
BrkLoadCovers ==
  \A h \in FHost :
    Cardinality({x \in counted[h] :
      IF x \in FLease THEN entry[x].state \in LiveOn ELSE frun[x].entry = "loaded"})
      <= load[h] + Adding(h)

BrkSafe == BrkNoLeak /\ BrkLoadCovers

(* Looking after a queued lease does not keep it alive: when its client    *)
(* has gone, an unpolled lease leaves the queue, and no lease is an orphan *)
(* for ever (reconcilableLeases, releaseOrphans).                          *)
BrkAbandonedEnds ==
  \A l \in FLease :
    /\ (onDaemon[l] = "queued" /\ l[1] \in left /\ acq[l[1]].at = "answered")
         ~> onDaemon[l] # "queued"
    /\ l \in orphans ~> l \notin orphans
=============================================================================
