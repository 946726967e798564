----------------------------- MODULE Placement -----------------------------
(***************************************************************************)
(* Where the broker places a request (internal/broker: placement.go,       *)
(* explain.go, rebalance.go and the error paths of handleAcquireLease and  *)
(* handleRunCreate): the candidates and their order, the refusal a client  *)
(* gets, the ring of recent decisions and the advice derived from it.      *)
(* Hosts are numbered in the configured order.  Label h \in 1..NHosts is   *)
(* host h's name (or one of its extra labels) and label 0 a label of       *)
(* targets.  A host's view is fixed by Init; decisions accumulate, up to   *)
(* MaxDecisions, and WindowMoves lets the demand window pass them.         *)
(***************************************************************************)
EXTENDS Integers, Sequences, FiniteSets

CONSTANTS
  NHosts,
  Views,             \* host -> the views of it to start from
  decisionRingCap, growColdThreshold, shrinkMinDemand,
  MaxDecisions

HostNo == 1..NHosts
Uncapped == 1000     \* math.MaxInt

(* What the broker knows of a host: its cached targets, the snapshot of    *)
(* its pool (none, or one), its own lease count, what it placed since the  *)
(* snapshot, and whether it was up for a whole demand window.              *)
HostView ==
  [up: BOOLEAN, listed: BOOLEAN, longUp: BOOLEAN, leases: Nat, bump: Int,
   cache: SUBSET [ios: BOOLEAN, warm: BOOLEAN, booted: BOOLEAN],
   stats: SUBSET [cap: Int, running: Nat, booting: Nat, active: Nat, queued: Nat,
                  parked: Nat, gatesOK: BOOLEAN]]

ASSUME PlaceAssumption ==
  /\ NHosts \in Nat \ {0} /\ decisionRingCap \in Nat \ {0}
  /\ growColdThreshold \in Nat \ {0} /\ shrinkMinDemand \in Nat
  /\ MaxDecisions \in Nat
  /\ \A h \in HostNo : \A v \in Views[h] : v \in HostView /\ IsFiniteSet(v.cache)

VARIABLES
  view,     \* host -> what the broker knows of it
  rr,       \* Broker.rr
  ring,     \* decisionLog: buf, next, full
  made,     \* history: every decision, oldest first
  outside   \* how many of them the demand window has passed

placeVars == <<view, rr, ring, made, outside>>

-----------------------------------------------------------------------------
Carries(h, t, labels) == labels \subseteq {h} \cup (IF t.ios THEN {0} ELSE {})
HostMatches(h, labels) == \E t \in view[h].cache : Carries(h, t, labels)
HostWarmMatch(h, labels) ==
  \E t \in view[h].cache : (t.warm \/ t.booted) /\ Carries(h, t, labels)
WarmIdleCount(h, labels) ==
  Cardinality({t \in view[h].cache : t.warm /\ Carries(h, t, labels)})
RunHeadroom(st) ==
  IF st.cap <= 0 THEN Uncapped ELSE st.cap - st.running - st.booting
HostTier(h, labels) ==
  IF view[h].stats = {} THEN 1
  ELSE LET st == CHOOSE x \in view[h].stats : TRUE IN
       IF HostWarmMatch(h, labels) THEN 0
       ELSE IF RunHeadroom(st) > 0 /\ st.gatesOK THEN 1
       ELSE 2
EffectiveLoad(h) ==
  IF view[h].stats = {} THEN view[h].leases
  ELSE LET st == CHOOSE x \in view[h].stats : TRUE
           n == st.active + st.queued + view[h].bump
       IN IF n > 0 THEN n ELSE 0
(* What /v0/fleet/placements shows as headroom: -1 only for uncapped.      *)
ExplainHeadroom(st) ==
  IF RunHeadroom(st) = Uncapped THEN -1
  ELSE IF RunHeadroom(st) < 0 THEN 0
  ELSE RunHeadroom(st)
StripHostLabels(labels, h) == labels \ {h}

-----------------------------------------------------------------------------
(* rankCandidates: a stable sort by tier, load and idle warm depth, then   *)
(* every run of equals rotated by the round-robin counter.                 *)
Rank(h, labels) == <<HostTier(h, labels), EffectiveLoad(h), -WarmIdleCount(h, labels)>>
Better(a, b) ==
  \/ a[1] < b[1]
  \/ a[1] = b[1] /\ a[2] < b[2]
  \/ a[1] = b[1] /\ a[2] = b[2] /\ a[3] < b[3]
CandidateSet(labels) ==
  {[h |-> h, rank |-> Rank(h, labels)] :
     h \in {g \in HostNo : view[g].up /\ HostMatches(g, labels)}}
Sorted(C) ==
  LET pos(c) == Cardinality({d \in C : \/ Better(d.rank, c.rank)
                                       \/ d.rank = c.rank /\ d.h <= c.h})
  IN [i \in 1..Cardinality(C) |-> CHOOSE c \in C : pos(c) = i]
Tied_SameTier(c, d) == c.rank[1] = d.rank[1]
Tied(c, d) == c.rank = d.rank
Rotated(s, k) ==
  LET run(i) == {j \in DOMAIN s : Tied(s[i], s[j])}
      lo(i) == CHOOSE j \in run(i) : \A m \in run(i) : j <= m
  IN [i \in DOMAIN s |-> s[lo(i) + ((i - lo(i) + k) % Cardinality(run(i)))]]
RankCandidates(labels, k) ==
  LET s == Rotated(Sorted(CandidateSet(labels)), k) IN [i \in DOMAIN s |-> s[i].h]

(* Nobody to ask: an outage when a host that is down, or was never listed, *)
(* might match.                                                            *)
DownHostMatches(labels) ==
  \E h \in HostNo : ~ view[h].up /\ (h \in labels \/ HostMatches(h, labels))
AnyHostUnlisted == \E h \in HostNo : view[h].up /\ ~ view[h].listed
NoCandidates(labels) ==
  IF (\A h \in HostNo : ~ view[h].up) \/ DownHostMatches(labels) \/ AnyHostUnlisted
    THEN "unavailable" ELSE "no_match"

(* Everybody asked, nobody granted: what the answers add up to.            *)
Answer == {"unreachable", "5xx", "4xx"}
Verdict_LastWins(res) ==
  CASE \E i \in DOMAIN res : res[i] = "unreachable" -> "unavailable"
    [] OTHER -> res[Len(res)]
Verdict(res) ==
  IF \E i \in DOMAIN res : res[i] = "unreachable" THEN "unavailable"
  ELSE IF \E i \in DOMAIN res : res[i] = "5xx" THEN "5xx"
  ELSE IF \E i \in DOMAIN res : res[i] = "4xx" THEN "4xx"
  ELSE "no_match"
(* For a run a host whose labels only pin it is not asked, and a bad spec  *)
(* is bad on every host.                                                   *)
RunAnswer == Answer \cup {"bad_spec", "pinned"}
RunVerdict(res) ==
  IF \E i \in DOMAIN res : res[i] = "bad_spec" THEN "bad_request"
  ELSE IF Verdict(res) # "no_match" THEN Verdict(res)
  ELSE IF \E i \in DOMAIN res : res[i] = "pinned" THEN "bad_request"
  ELSE "no_match"
RunCandidates(labels, known, k) ==   \* hostHasUDID
  SelectSeq(RankCandidates(labels, k), LAMBDA h : h \in known)

-----------------------------------------------------------------------------
(* decisionLog. *)
RingInit == [buf |-> [i \in 0..(decisionRingCap - 1) |-> {}], next |-> 0, full |-> FALSE]
RingAdd_LateFull(r, d) ==
  [buf |-> [r.buf EXCEPT ![r.next] = {d}], next |-> (r.next + 1) % decisionRingCap,
   full |-> r.full \/ r.next = 0]
RingAdd(r, d) ==
  [buf |-> [r.buf EXCEPT ![r.next] = {d}], next |-> (r.next + 1) % decisionRingCap,
   full |-> r.full \/ (r.next + 1) % decisionRingCap = 0]
RingRecent(r, n) ==
  LET size == IF r.full THEN decisionRingCap ELSE r.next
      m == IF n <= 0 \/ n > size THEN size ELSE n
  IN [i \in 1..m |-> r.buf[(r.next - i + decisionRingCap) % decisionRingCap]]
RingSince(r, age) ==     \* the decisions whose number is above age
  SelectSeq(RingRecent(r, 0), LAMBDA d : \A x \in d : x.no > age)

-----------------------------------------------------------------------------
(* computeHints: a class that went cold often enough is to grow on every   *)
(* host that matches it; a host with parked simulators nobody used all     *)
(* window, and with nothing to grow, is to shrink.                         *)
Placed(window) == SelectSeq(window, LAMBDA d : \A x \in d : x.outcome \in {"active", "queued"})
WarmHit(x) == x.tier = 0 /\ x.outcome = "active"
Count(s, P(_)) == Cardinality({i \in DOMAIN s : \A x \in s[i] : P(x)})
GrowLabels_PinsToo(h, labels) == {StripHostLabels(labels, h)}
GrowLabels(h, labels) ==
  IF StripHostLabels(labels, h) = {} THEN {} ELSE {StripHostLabels(labels, h)}
Grows(h, window) ==
  UNION {GrowLabels(h, labels) : labels \in
    {c \in {x.labels : x \in UNION {window[i] : i \in DOMAIN window}} :
       /\ Count(Placed(window), LAMBDA x : x.labels = c /\ ~ WarmHit(x)) >= growColdThreshold
       /\ HostMatches(h, c)}}
Shrinks(h, window) ==
  /\ \E st \in view[h].stats : st.parked > 0
  /\ Grows(h, window) = {} /\ view[h].longUp
  /\ Count(Placed(window), LAMBDA x : x.host = h /\ WarmHit(x)) = 0
  /\ Len(Placed(window)) >= shrinkMinDemand
ComputeHints(h) ==
  LET window == RingSince(ring, outside) IN
  IF ~ view[h].up THEN {}
  ELSE {[action |-> "grow", labels |-> c] : c \in Grows(h, window)}
       \cup (IF Shrinks(h, window) THEN {[action |-> "shrink", labels |-> {}]} ELSE {})
(* handleAdvisePool's check of what it is sent.                            *)
AdviceAccepted(a) == a.action = "grow" => a.labels # {}

-----------------------------------------------------------------------------
PlaceInit ==
  /\ view \in [HostNo -> UNION {Views[h] : h \in HostNo}]
  /\ \A h \in HostNo : view[h] \in Views[h]
  /\ rr = 0 /\ ring = RingInit /\ made = <<>> /\ outside = 0

Decide(labels, outcome, h) ==
  LET d == [no |-> Len(made) + 1, labels |-> labels, outcome |-> outcome, host |-> h,
            tier |-> IF h = 0 THEN 3 ELSE HostTier(h, labels)]
  IN ring' = RingAdd(ring, d) /\ made' = made \o <<d>>

(* An acquire: refused at once, refused by everyone, or placed.            *)
Place(labels) ==
  LET s == RankCandidates(labels, rr + 1) IN
  /\ Len(made) < MaxDecisions
  /\ rr' = rr + 1
  /\ \/ s = <<>> /\ Decide(labels, NoCandidates(labels), 0)
     \/ s # <<>> /\ \E res \in [DOMAIN s -> Answer] : Decide(labels, Verdict(res), 0)
     \/ \E i \in DOMAIN s, outcome \in {"active", "queued"} : Decide(labels, outcome, s[i])
  /\ UNCHANGED <<view, outside>>
WindowMoves ==
  /\ outside < Len(made) /\ outside' = Len(made)
  /\ UNCHANGED <<view, rr, ring, made>>

Requests == {{0}, {1}}
PlaceNext == WindowMoves \/ \E labels \in Requests : Place(labels)
PlaceSpec == PlaceInit /\ [][PlaceNext]_placeVars

PlaceTypeOK ==
  /\ DOMAIN view = HostNo /\ (\A h \in HostNo : view[h] \in Views[h]) /\ rr \in 0..MaxDecisions
  /\ ring.next \in 0..(decisionRingCap - 1) /\ ring.full \in BOOLEAN
  /\ Len(made) <= MaxDecisions /\ outside \in 0..Len(made)

(* The ranking is an order of exactly the candidates, never puts a host    *)
(* before a better one, and over as many requests as there are best hosts  *)
(* each of them comes first once: equals share the load (rankCandidates).  *)
PlaceRanked ==
  \A labels \in Requests :
    LET C == CandidateSet(labels)
        s == Rotated(Sorted(C), rr)
        best == {c \in C : \A d \in C : ~ Better(d.rank, c.rank)}
    IN /\ Len(s) = Cardinality(C) /\ {s[i] : i \in DOMAIN s} = C
       /\ \A i, j \in DOMAIN s : i < j => ~ Better(s[j].rank, s[i].rank)
       /\ {Rotated(Sorted(C), rr + k)[1] : k \in 0..(Cardinality(best) - 1)} = best

(* A request that some unreachable or failing host might have served is    *)
(* never refused for good: only a set of plain refusals adds up to one     *)
(* (handleAcquireLease, handleRunCreate).                                  *)
PlaceRetryable ==
  \A res \in [1..Cardinality(CandidateSet({0})) -> RunAnswer] :
    /\ Verdict(res) \in {"4xx", "no_match"} =>
         \A i \in DOMAIN res : res[i] \notin {"unreachable", "5xx"}
    /\ RunVerdict(res) \in {"4xx", "no_match"} =>
         \A i \in DOMAIN res : res[i] \in {"4xx", "pinned"}

(* The ring holds the last decisions and lists them newest first           *)
(* (decisionLog.add, decisionLog.recent).                                  *)
PlaceRingExact ==
  LET n == IF Len(made) < decisionRingCap THEN Len(made) ELSE decisionRingCap
  IN RingRecent(ring, 0) = [i \in 1..n |-> {made[Len(made) + 1 - i]}]

(* A daemon accepts whatever advice the broker derives for it, so that a   *)
(* push is not refused for ever (computeHints against handleAdvisePool).   *)
PlaceAdviceFits == \A h \in HostNo : \A a \in ComputeHints(h) : AdviceAccepted(a)

PlaceSafe == PlaceRanked /\ PlaceRetryable /\ PlaceRingExact /\ PlaceAdviceFits
=============================================================================
