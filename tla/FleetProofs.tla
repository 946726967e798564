---------------------------- MODULE FleetProofs -----------------------------
(***************************************************************************)
(* What is proved of the fleet's components for every value of their       *)
(* constants: boots, pool membership, the broker and its clients.  The     *)
(* components share no variable, so each has an inductive invariant of its *)
(* own, and a step of the composition is a step of the one that moves.     *)
(***************************************************************************)
EXTENDS MCFleet, FiniteSetTheorems, TLAPS

-----------------------------------------------------------------------------
(* The advice a broker keeps on one host.                                  *)

(* While no history says otherwise the key of the last push is what the    *)
(* daemon recorded, and a host that answers and was told nothing yet is    *)
(* due a push.                                                             *)
KeyIsRecorded ==
  /\ hostUp /\ hidden = {} /\ advicePushed => recorded = lastAdviceKey
  /\ hostUp /\ ~ advicePushed => adviceResync

AdviceInv == AdviceTypeOK /\ KeyIsRecorded /\ AdviceWriteOff

-----------------------------------------------------------------------------
(* The client's routes.                                                    *)

(* Only the owner ever answers for the lease, so only it is cached, and a  *)
(* route once known is kept.                                               *)
RoutesToOwner ==
  /\ routes \in {NoCHost, COwner}
  /\ hadRoute => routes = COwner
  /\ rcall.at = "host" => rcall.to = COwner
  /\ rcall.at = "fan" /\ rcall.answer = "ok" => rcall.to = COwner

(* Where a call may be, and how often it has run by then. *)
CallRuns ==
  /\ rcall.kind = "control" => rcall.at \notin {"resolve", "list", "fan"}
  /\ rcall.at \in {"list", "fan"} => rcall.kind = "read"
  /\ rcall.at = "fan" => rcall.to \notin rcall.left
  /\ rcall.at \in {"base", "resolve", "list"} => ran = 0
  /\ rcall.at = "judge" => ran <= 1
  /\ rcall.at = "judge" /\ rcall.answer = "miss" => ran = 0
  /\ rcall.at = "host" /\ rcall.answer = "none" /\ rcall.kind # "control" => ran = 0
  /\ rcall.at = "host" /\ rcall.answer = "none" => ran <= 1
  /\ rcall.at = "fan" /\ (COwner \in rcall.left \/ (rcall.to = COwner /\ rcall.answer = "none"))
       => ran = 0
  /\ ran <= 2 /\ (rcall.kind # "control" => ran <= 1)

(* A control call whose owner is cached and well cannot end badly. *)
ControlGetsThrough ==
  /\ ~ faulty => COwner \in hostsUp
  /\ rcall.kind = "control" /\ hadRoute /\ ~ faulty =>
       /\ rcall.at = "judge" => rcall.answer \in {"ok", "conn", "unknown"}
       /\ rcall.at \in {"host", "idle"} => rcall.answer \in {"none", "ok"}

RouteInv ==
  RouteTypeOK /\ RoutesToOwner /\ CallRuns /\ ControlGetsThrough /\ RoutePrivate

-----------------------------------------------------------------------------
(* The life of one simulator under the pool.                               *)

Holds(a) ==
  \/ a \in {"adopt", "reset"} \cup Rebuilder /\ doing[a] \in {"wiping", "booting"}
  \/ a \in Reclaimer /\ doing[a] \in {"stopping", "reap"}

(* Where each goroutine may be. *)
PlaceOf(a) ==
  CASE a = "guard" -> {"idle", "marking"}
    [] a = "boot" -> {"idle", "queued", "waiting"}
    [] a \in {"adopt", "reset"} \cup Rebuilder -> {"idle", "wiping", "booting"}
    [] a = "janitor" -> {"idle", "saw on", "saw off", "stopping", "reap"}
    [] a = "ended" -> {"idle", "due", "reclaim", "saw on", "saw off", "stopping"}

PoolControl == \A a \in Actor : doing[a] \in PlaceOf(a)

(* The lease manager's hold has one taker, and only a hold displaces a     *)
(* quarantine.                                                             *)
OneTaker ==
  /\ \A a \in Actor : Holds(a) => holder = "held"
  /\ \A a, b \in Actor : Holds(a) /\ Holds(b) => a = b
  /\ took => holder = "held"

(* What was wiped is clean until it is given back, and a hold that neither *)
(* wipes nor came from quarantine leaves the dirty mark as it found it.    *)
DirtIsKnown ==
  /\ \A a \in {"reset"} \cup Rebuilder : doing[a] = "booting" => ~ oldData
  /\ doing["adopt"] = "booting" /\ took => ~ oldData
  /\ (\/ holder = "free"
      \/ ~ took /\ doing["adopt"] = "booting"
      \/ ~ took /\ \E a \in Reclaimer : doing[a] \in {"stopping", "reap"})
       => (oldData => unclean)

(* A boot that a client asked for is up and owned, and what the janitor    *)
(* saw off is off.                                                         *)
BootsOwned ==
  /\ byClient => up # "off" /\ (member \/ ours)
  /\ \A a \in Reclaimer : doing[a] = "saw off" => up = "off"

PoolCore == PoolTypeOK /\ PoolControl /\ OneTaker /\ DirtIsKnown
PoolInv == PoolCore /\ BootsOwned

-----------------------------------------------------------------------------
(* Boots under the host's limits.                                          *)

Gated == {q \in Request : request[q].at \in {"gated", "waiting"}}

(* The simulators that count against the cap or may yet: those running     *)
(* because a gated boot brought them up, and those such a boot may bring up.*)
Claimed == (Running \ ungated) \cup {request[q].sim : q \in Gated}

BootRequests ==
  \A q \in Request :
    request[q] = NoRequest \/ (request[q].at # "none" /\ request[q].sim \in BootSim)

(* A simulator on its way up is somebody's who waits with a slot, or known *)
(* to have escaped the gate; one that is off or parked has not escaped.    *)
ComingIsWaitedFor ==
  /\ \A s \in BootSim : simState[s] = "coming" /\ s \notin ungated =>
       \E q \in Request : request[q].at = "waiting" /\ request[q].sim = s
  /\ \A s \in ungated : simState[s] \in {"on", "coming"}

SlotsHeld == Cardinality(Holders) <= MaxConcurrentBoots
ClaimsFit == Cardinality(Claimed) <= MaxBootedRunning + MaxConcurrentBoots - 1

BootInv ==
  /\ BootTypeOK /\ BootRequests /\ ComingIsWaitedFor /\ SlotsHeld /\ ClaimsFit
  /\ BootFailuresTold

-----------------------------------------------------------------------------
(* The broker.                                                             *)

AcqRec == [at: {"idle", "asking", "compare", "dropping", "granted", "freeing", "deliver",
                "adding", "answered", "failed"},
           todo: Seq(FHost), kept: MaybeHost, cur: MaybeHost, drop: MaybeHost,
           then: {"", "asking", "deliver", "failed"}, seen: {"queued", "active"}]
Delivered == {"adding", "answered"}

(* The hosts on which a handler in state a may have a lease it knows of. *)
KnownIn(a) ==
  IF a.at = "asking" THEN {a.kept}
  ELSE IF a.at \in {"compare", "granted"} THEN {a.kept, a.cur}
  ELSE IF a.at = "dropping" THEN {a.kept, a.drop}
  ELSE IF a.at = "freeing" THEN
    {a.drop} \cup (IF a.then = "asking" THEN {a.kept}
                   ELSE IF a.then = "deliver" THEN {a.cur} ELSE {})
  ELSE IF a.at \in {"deliver"} \cup Delivered THEN {a.cur}
  ELSE {}

(* A live lease is one its handler knows, an orphan, or was never heard of.*)
NoneEscapes ==
  \A k \in Asker, h \in FHost : onDaemon[<<k, h>>] \in LiveOn =>
    h \in KnownIn(acq[k]) \/ <<k, h>> \in orphans \cup lostAnswer

(* The hosts a handler works with are there when it needs them. *)
HandlerIn(a) ==
  /\ a.at \in {"compare", "granted", "deliver"} \cup Delivered => a.cur \in FHost
  /\ a.at = "compare" => a.kept \in FHost
  /\ a.at \in {"dropping", "freeing"} => a.drop \in FHost
  /\ a.at = "freeing" => a.then # ""
  /\ a.at = "freeing" /\ a.then = "deliver" => a.cur \in FHost
HandlerOK == \A k \in Asker : HandlerIn(acq[k])

(* Entries are those of delivered leases, and what the broker holds to be  *)
(* over is over.                                                           *)
EntryOK(k, h) ==
  /\ entry[<<k, h>>].state # "none" => acq[k].at \in Delivered /\ h = acq[k].cur
  /\ entry[<<k, h>>].state = "terminal" => onDaemon[<<k, h>>] \notin LiveOn
  /\ acq[k].at \in Delivered /\ h = acq[k].cur /\ onDaemon[<<k, h>>] \in LiveOn
       => entry[<<k, h>>].state \in LiveOn
EntriesOK == \A k \in Asker, h \in FHost : EntryOK(k, h)

RunsOK ==
  /\ \A r \in FleetRun : /\ frun[r].is = "none" => frun[r].entry = "none" /\ ~ frun[r].adding
                         /\ frun[r].is # "none" => frun[r].on \in FHost
  /\ \A h \in FHost : \A r \in FleetRun : r \in counted[h] => frun[r].on = h /\ frun[r].is # "none"
  /\ \A h \in FHost : \A l \in FLease : l \in counted[h] => l[2] = h

LeasesOn(h) == {l \in FLease : l[2] = h /\ entry[l].state \in LiveOn}
RunsOn(h) == {r \in FleetRun : frun[r].on = h /\ frun[r].entry = "loaded"}
AskersAdding(h) == {k \in Asker : acq[k].at = "adding" /\ acq[k].cur = h}
RunsAdding(h) == {r \in FleetRun : frun[r].adding /\ frun[r].on = h}

(* What is believed in, and what was and is still to be given back, was    *)
(* counted or is about to be.                                              *)
Balanced ==
  \A h \in FHost :
    Cardinality(LeasesOn(h)) + Cardinality(RunsOn(h)) + unload[h]
      <= load[h] + Cardinality(AskersAdding(h)) + Cardinality(RunsAdding(h))

BrkInv ==
  /\ BrkTypeOK /\ HandlerOK /\ NoneEscapes /\ EntriesOK /\ RunsOK /\ Balanced

-----------------------------------------------------------------------------
(* Counting. *)
LEMMA OneMore ==
  ASSUME NEW S, NEW x, IsFiniteSet(S)
  PROVE  /\ IsFiniteSet(S \cup {x}) /\ Cardinality(S) \in Nat /\ Cardinality(S \cup {x}) \in Nat
         /\ Cardinality(S \cup {x}) = IF x \in S THEN Cardinality(S) ELSE Cardinality(S) + 1
<1>1. IsFiniteSet(S \cup {x})
        /\ Cardinality(S \cup {x}) = IF x \in S THEN Cardinality(S) ELSE Cardinality(S) + 1
  BY FS_AddElement
<1> QED
  BY <1>1, FS_CardinalityType

LEMMA OneLess ==
  ASSUME NEW S, NEW x, IsFiniteSet(S)
  PROVE  /\ IsFiniteSet(S \ {x}) /\ Cardinality(S) \in Nat /\ Cardinality(S \ {x}) \in Nat
         /\ Cardinality(S \ {x}) = IF x \in S THEN Cardinality(S) - 1 ELSE Cardinality(S)
<1>1. IsFiniteSet(S \ {x})
        /\ Cardinality(S \ {x}) = IF x \in S THEN Cardinality(S) - 1 ELSE Cardinality(S)
  BY FS_RemoveElement
<1> QED
  BY <1>1, FS_CardinalityType

-----------------------------------------------------------------------------
(* A step of the fleet is one of the part that moves. *)
LEMMA Moves ==
  ASSUME [FleetNext]_fleetVars
  PROVE  /\ UNCHANGED part
         /\ Active("boots") => [BootNext]_bootVars
         /\ Active("pool") => [PoolNext]_poolVars
         /\ Active("broker") => [BrkNext]_brkVars
         /\ Active("placement") => [PlaceNext]_placeVars
         /\ Active("advice") => [AdviceNext]_adviceVars
         /\ Active("routing") => [RouteNext]_routeVars
<1>1. CASE FleetNext
  BY <1>1 DEF FleetNext, Alone, Active
<1>2. CASE UNCHANGED fleetVars
  BY <1>2 DEF fleetVars
<1> QED
  BY <1>1, <1>2

-----------------------------------------------------------------------------
LEMMA AdviceStarts == AdviceInit => AdviceInv
  BY AdviceAssumption
  DEF AdviceInit, AdviceInv, AdviceTypeOK, KeyIsRecorded, AdviceWriteOff

LEMMA AdviceStep == ASSUME AdviceInv, [AdviceNext]_adviceVars PROVE AdviceInv'
<1> USE AdviceAssumption
    DEF AdviceInv, AdviceTypeOK, KeyIsRecorded, AdviceWriteOff, NothingToSay
<1>1. CASE DaemonStops
  BY <1>1 DEF DaemonStops
<1>2. CASE DaemonStarts
  BY <1>2 DEF DaemonStarts
<1>3. CASE LinkHeals
  BY <1>3 DEF LinkHeals
<1>4. CASE DemandShifts
  BY <1>4 DEF DemandShifts
<1>5. CASE ProbeFails
  BY <1>5 DEF ProbeFails
<1>6. CASE ProbeSucceeds
  BY <1>6 DEF ProbeSucceeds
<1>7. CASE AdviseSkips
  BY <1>7 DEF AdviseSkips
<1>8. CASE AdvisePushes
  BY <1>8 DEF AdvisePushes
<1>9. CASE AdviseRefused
  BY <1>9 DEF AdviseRefused
<1>10. CASE AdviseLost
  BY <1>10 DEF AdviseLost
<1>11. CASE UNCHANGED adviceVars
  BY <1>11 DEF adviceVars
<1> QED
  BY <1>1, <1>2, <1>3, <1>4, <1>5, <1>6, <1>7, <1>8, <1>9, <1>10, <1>11 DEF AdviceNext

LEMMA AdviceHolds == AdviceInv => AdviceSafe
  BY DEF AdviceInv, KeyIsRecorded, AdviceSafe, AdviceInSync, NothingToSay

-----------------------------------------------------------------------------
LEMMA RouteStarts == RouteInit => RouteInv
<1> SUFFICES ASSUME RouteInit PROVE RouteInv
  OBVIOUS
<1> USE RouteAssumption DEF RouteInit, NoRouteCall
<1>1. RouteTypeOK
  <2>1. base \in {Broker, COwner} /\ {brokerUp, brokerKnows, hadRoute, faulty} \subseteq BOOLEAN
    BY DEF Broker
  <2>2. rcall \in [kind : RouteKinds, at : {"idle", "base", "host", "resolve", "list", "fan", "judge"},
                   to : CHost \cup {NoCHost}, left : SUBSET CHost,
                   answer : {"none", "ok", "conn", "miss", "unknown", "failed"}]
    BY DEF RouteKinds
  <2> QED
    BY <2>1, <2>2 DEF RouteTypeOK
<1>2. RoutesToOwner /\ CallRuns /\ ControlGetsThrough /\ RoutePrivate
  BY DEF RoutesToOwner, CallRuns, ControlGetsThrough, RoutePrivate
<1> QED
  BY <1>1, <1>2 DEF RouteInv

CallAt == {"idle", "base", "host", "resolve", "list", "fan", "judge"}
CallAnswer == {"none", "ok", "conn", "miss", "unknown", "failed"}
Calls == [kind : RouteKinds, at : CallAt, to : CHost \cup {NoCHost}, left : SUBSET CHost,
          answer : CallAnswer]

LEMMA Answered ==
  ASSUME rcall \in Calls, NEW at \in CallAt, NEW answer \in CallAnswer,
         RouteGoes(at, answer)
  PROVE  /\ rcall' \in Calls /\ rcall'.at = at /\ rcall'.answer = answer
         /\ rcall'.kind = rcall.kind /\ rcall'.to = rcall.to /\ rcall'.left = rcall.left
  BY DEF Calls, RouteGoes

LEMMA Redirected ==
  ASSUME rcall \in Calls, NEW at \in CallAt, NEW to \in CHost \cup {NoCHost},
         NEW left2 \in SUBSET CHost,
         rcall' = [rcall EXCEPT !.at = at, !.to = to, !.left = left2, !.answer = "none"]
  PROVE  /\ rcall' \in Calls /\ rcall'.at = at /\ rcall'.answer = "none"
         /\ rcall'.kind = rcall.kind /\ rcall'.to = to /\ rcall'.left = left2
  BY DEF Calls, CallAnswer

(* The owner ran the call once more, or was not reached. *)
LEMMA OwnerAnswered ==
  ASSUME rcall \in Calls, NEW at \in CallAt, OwnerAnswers(at)
  PROVE  /\ rcall' \in Calls /\ rcall'.at = at /\ ran' = ran + 1
         /\ rcall'.kind = rcall.kind /\ rcall'.to = rcall.to /\ rcall'.left = rcall.left
         /\ \/ rcall'.answer = "ok" /\ UNCHANGED faulty
            \/ rcall'.answer = "conn" /\ faulty'
  BY Answered DEF OwnerAnswers, CallAnswer

LEMMA RouteStep == ASSUME RouteInv, [RouteNext]_routeVars PROVE RouteInv'
<1> USE RouteAssumption DEF RouteInv, Broker, routeEnvVars
<1>0. /\ rcall \in Calls /\ routes \in CHost \cup {NoCHost} /\ ran \in 0..3
      /\ base \in {Broker, COwner} /\ contacted \subseteq CHost \cup {Broker}
      /\ brokerUp \in BOOLEAN /\ brokerKnows \in BOOLEAN /\ hadRoute \in BOOLEAN
      /\ faulty \in BOOLEAN /\ hostsUp \subseteq CHost
  BY DEF RouteTypeOK, Calls, CallAt, CallAnswer
<1>types. ASSUME /\ rcall' \in Calls /\ routes' \in CHost \cup {NoCHost} /\ ran' \in 0..3
                 /\ base' \in {Broker, COwner} /\ contacted' \subseteq CHost \cup {Broker}
                 /\ brokerUp' \in BOOLEAN /\ brokerKnows' \in BOOLEAN
                 /\ hadRoute' \in BOOLEAN /\ faulty' \in BOOLEAN /\ hostsUp' \subseteq CHost
          PROVE  RouteTypeOK'
  BY <1>types DEF RouteTypeOK, Calls, CallAt, CallAnswer
<1> DEFINE Parts3 == RoutesToOwner /\ CallRuns /\ ControlGetsThrough /\ RoutePrivate
<1>1. CASE FleetMoves
  <2>1. hostsUp' \subseteq CHost /\ brokerUp' \in BOOLEAN /\ brokerKnows' \in BOOLEAN
        /\ faulty' \in BOOLEAN
    BY <1>0, <1>1 DEF FleetMoves
  <2>2. RouteTypeOK'
    BY <1>0, <1>1, <1>types, <2>1 DEF FleetMoves
  <2>3. faulty' = (faulty \/ COwner \notin hostsUp')
        /\ UNCHANGED <<base, routes, rcall, contacted, ran, hadRoute>>
    BY <1>1 DEF FleetMoves
  <2>4. Parts3'
    BY <2>3, <1>0 DEF RoutesToOwner, CallRuns, ControlGetsThrough, RoutePrivate
  <2> QED
    BY <2>2, <2>4
<1>2. CASE CallBegins
  <2>1. PICK k \in RouteKinds :
          rcall' = [NoRouteCall EXCEPT !.kind = k, !.to = routes,
                      !.at = IF k # "control" /\ routes # NoCHost THEN "host" ELSE "base"]
    BY <1>2 DEF CallBegins
  <2>2. /\ rcall' \in Calls /\ rcall'.kind = k /\ rcall'.to = routes /\ rcall'.answer = "none"
        /\ rcall'.at = IF k # "control" /\ routes # NoCHost THEN "host" ELSE "base"
        /\ rcall'.left = {}
    BY <1>0, <2>1 DEF NoRouteCall, Calls, CallAt, CallAnswer
  <2>3. /\ contacted' = {} /\ ran' = 0 /\ hadRoute' = (routes = COwner)
        /\ faulty' = (COwner \notin hostsUp) /\ UNCHANGED <<routeEnvVars, routes>>
    BY <1>2 DEF CallBegins
  <2>4. RouteTypeOK'
    BY <1>0, <1>types, <2>2, <2>3
  <2>5. Parts3'
    BY <2>2, <2>3, <1>0 DEF RoutesToOwner, CallRuns, ControlGetsThrough, RoutePrivate, RouteKinds
  <2> QED
    BY <2>4, <2>5
<1>3. CASE SendsToBase
  <2>1. /\ rcall.at = "base" /\ contacted' = contacted \cup {base}
        /\ UNCHANGED <<routeEnvVars, routes, hadRoute>>
    BY <1>3 DEF SendsToBase
  <2>2. \/ OwnerAnswers("judge") /\ (base = Broker => rcall.kind = "control")
        \/ RouteGoes("judge", "conn") /\ UNCHANGED <<ran, faulty>>
             /\ (base # Broker => COwner \notin hostsUp)
        \/ RouteGoes("judge", "miss") /\ UNCHANGED <<ran, faulty>> /\ rcall.kind # "control"
        \/ RouteGoes("judge", "unknown") /\ UNCHANGED <<ran, faulty>>
        \/ RouteGoes("judge", "failed") /\ UNCHANGED <<ran, faulty>> /\ COwner \notin hostsUp
    BY <1>3, <1>0 DEF SendsToBase
  <2>3. /\ rcall' \in Calls /\ rcall'.at = "judge" /\ rcall'.kind = rcall.kind
        /\ ran' = IF rcall'.answer = "ok" \/ ran' # ran THEN ran + 1 ELSE ran
        /\ ran' = ran \/ rcall'.answer \in {"ok", "conn"}
        /\ faulty' \in BOOLEAN /\ (faulty => faulty')
        /\ rcall'.answer = "miss" => rcall.kind # "control"
        /\ rcall'.answer = "failed" => COwner \notin hostsUp
        /\ rcall'.answer # "none"
    BY <2>2, <1>0, Answered, OwnerAnswered DEF CallAt, CallAnswer
  <2>4. ran = 0 /\ ran' \in 0..1
    BY <2>1, <2>3, <1>0 DEF CallRuns
  <2>5. RouteTypeOK'
    BY <1>0, <1>types, <2>1, <2>3, <2>4
  <2>6. CallRuns' /\ RoutePrivate' /\ RoutesToOwner'
    BY <2>1, <2>3, <2>4 DEF RoutesToOwner, CallRuns, RoutePrivate
  <2>7. ControlGetsThrough'
    BY <2>1, <2>3, <1>0 DEF ControlGetsThrough, Calls, CallAnswer
  <2> QED
    BY <2>5, <2>6, <2>7
<1>4. CASE SendsToHost
  <2>1. /\ rcall.at \in {"host", "fan"} /\ rcall.to # NoCHost /\ rcall.answer = "none"
        /\ contacted' = contacted \cup {rcall.to} /\ rcall.to \in CHost
        /\ UNCHANGED <<routeEnvVars, routes, hadRoute>>
    BY <1>4, <1>0 DEF SendsToHost, Calls
  <2>2. \/ OwnerAnswers(rcall.at) /\ rcall.to = COwner
        \/ RouteGoes(rcall.at, "conn") /\ UNCHANGED <<ran, faulty>> /\ rcall.to \notin hostsUp
        \/ RouteGoes(rcall.at, "unknown") /\ UNCHANGED <<ran, faulty>> /\ rcall.to # COwner
    BY <1>4, <1>0 DEF SendsToHost
  <2>3. /\ rcall' \in Calls /\ rcall'.at = rcall.at /\ rcall'.kind = rcall.kind
        /\ rcall'.to = rcall.to /\ rcall'.left = rcall.left
        /\ rcall'.answer \in {"ok", "conn", "unknown"}
        /\ rcall'.answer = "ok" => rcall.to = COwner
        /\ ran' = ran \/ (ran' = ran + 1 /\ rcall.to = COwner)
        /\ faulty' \in BOOLEAN /\ (faulty => faulty')
        /\ rcall'.answer = "conn" => faulty' \/ rcall.to \notin hostsUp
        /\ rcall'.answer = "unknown" => rcall.to # COwner
    BY <2>1, <2>2, <1>0, Answered, OwnerAnswered DEF CallAt, CallAnswer
  <2>4. ran' \in 0..2 /\ CallRuns'
    BY <2>1, <2>3, <1>0 DEF CallRuns
  <2>5. RouteTypeOK'
    BY <1>0, <1>types, <2>1, <2>3, <2>4
  <2>6. RoutePrivate' /\ RoutesToOwner'
    BY <2>1, <2>3 DEF RoutesToOwner, CallRuns, RoutePrivate
  <2>7. ControlGetsThrough'
    BY <2>1, <2>3, <1>0 DEF ControlGetsThrough, RoutesToOwner, CallRuns
  <2> QED
    BY <2>4, <2>5, <2>6, <2>7
<1>5. CASE HostAnswered
  <2>1. /\ rcall.at = "host" /\ rcall.answer # "none" /\ rcall.to = COwner
        /\ routes' \in {routes, COwner} /\ RouteGoes("idle", rcall.answer)
        /\ UNCHANGED <<routeEnvVars, contacted, ran, hadRoute, faulty>>
    BY <1>5 DEF HostAnswered, AfterHost, RoutesToOwner
  <2>2. /\ rcall' \in Calls /\ rcall'.at = "idle" /\ rcall'.kind = rcall.kind
        /\ rcall'.answer = rcall.answer
    BY <2>1, <1>0, Answered DEF CallAt, Calls
  <2>3. RouteTypeOK'
    BY <1>0, <1>types, <2>1, <2>2
  <2>4. Parts3'
    BY <2>1, <2>2, <1>0 DEF RoutesToOwner, CallRuns, ControlGetsThrough, RoutePrivate
  <2> QED
    BY <2>3, <2>4
<1>6. CASE Judged
  <2>1. rcall.at = "judge" /\ UNCHANGED <<routeEnvVars, contacted, ran, hadRoute, faulty>>
    BY <1>6 DEF Judged
  <2>2. CASE rcall.kind # "control" /\ rcall.answer = "miss" /\ RouteGoes("resolve", "none")
             /\ UNCHANGED routes
    <3>1. /\ rcall' \in Calls /\ rcall'.at = "resolve" /\ rcall'.kind = rcall.kind
          /\ rcall'.answer = "none"
      BY <2>2, <1>0, Answered DEF CallAt, CallAnswer
    <3>2. RouteTypeOK'
      BY <1>0, <1>types, <2>1, <2>2, <3>1
    <3>3. Parts3'
      BY <2>1, <2>2, <3>1, <1>0 DEF RoutesToOwner, CallRuns, ControlGetsThrough, RoutePrivate
    <3> QED
      BY <3>2, <3>3
  <2>3. CASE /\ rcall.kind = "control" /\ rcall.answer \in {"conn", "unknown"}
             /\ routes # NoCHost /\ UNCHANGED routes
             /\ rcall' = [rcall EXCEPT !.at = "host", !.to = routes, !.answer = "none"]
    <3>1. /\ rcall' \in Calls /\ rcall'.at = "host" /\ rcall'.kind = rcall.kind
          /\ rcall'.answer = "none" /\ rcall'.to = COwner
      BY <2>3, <1>0 DEF Calls, CallAt, CallAnswer, RoutesToOwner
    <3>2. RouteTypeOK'
      BY <1>0, <1>types, <2>1, <2>3, <3>1
    <3>3. Parts3'
      BY <2>1, <2>3, <3>1, <1>0 DEF RoutesToOwner, CallRuns, ControlGetsThrough, RoutePrivate
    <3> QED
      BY <3>2, <3>3
  <2>4. CASE /\ RouteGoes("idle", rcall.answer) /\ routes' \in {routes, COwner}
             /\ ~ (rcall.kind = "control" /\ rcall.answer \in {"conn", "unknown"}
                   /\ routes # NoCHost)
    <3>1. /\ rcall' \in Calls /\ rcall'.at = "idle" /\ rcall'.kind = rcall.kind
          /\ rcall'.answer = rcall.answer
      BY <2>4, <1>0, Answered DEF CallAt, Calls
    <3>2. RouteTypeOK'
      BY <1>0, <1>types, <2>1, <2>4, <3>1
    <3>3. Parts3'
      BY <2>1, <2>4, <3>1, <1>0 DEF RoutesToOwner, CallRuns, ControlGetsThrough, RoutePrivate
    <3> QED
      BY <3>2, <3>3
  <2> QED
    BY <1>6, <2>2, <2>3, <2>4 DEF Judged
<1>7. CASE Resolves
  <2>1. rcall.at = "resolve" /\ UNCHANGED <<routeEnvVars, contacted, ran, hadRoute, faulty>>
    BY <1>7 DEF Resolves
  <2>2. /\ rcall' \in Calls /\ rcall'.kind = rcall.kind /\ routes' \in {routes, COwner}
        /\ \/ rcall'.at = "host" /\ rcall'.to = COwner /\ rcall'.answer = "none"
           \/ rcall'.at = "list" /\ rcall.kind = "read"
           \/ rcall'.at = "idle"
    <3>1. CASE routes' = COwner
                 /\ rcall' = [rcall EXCEPT !.at = "host", !.to = COwner, !.answer = "none"]
      BY <3>1, <1>0 DEF Calls, CallAt, CallAnswer
    <3>2. CASE rcall.kind = "read" /\ RouteGoes("list", "none") /\ UNCHANGED routes
      BY <3>2, <1>0, Answered DEF CallAt, CallAnswer
    <3>3. CASE RouteGoes("idle", "miss") /\ UNCHANGED routes
      BY <3>3, <1>0, Answered DEF CallAt, CallAnswer
    <3> QED
      BY <1>7, <3>1, <3>2, <3>3 DEF Resolves, FansOut
  <2>3. RouteTypeOK'
    BY <1>0, <1>types, <2>1, <2>2
  <2>4. Parts3'
    BY <2>1, <2>2, <1>0 DEF RoutesToOwner, CallRuns, ControlGetsThrough, RoutePrivate
  <2> QED
    BY <2>3, <2>4
<1>8. CASE ListsHosts
  <2>1. rcall.at = "list" /\ UNCHANGED <<routeEnvVars, routes, contacted, ran, hadRoute, faulty>>
    BY <1>8 DEF ListsHosts
  <2>2. /\ rcall' \in Calls /\ rcall'.kind = rcall.kind
        /\ rcall'.at = "idle" \/ (rcall'.at = "fan" /\ rcall'.answer = "none" /\ rcall'.to \notin rcall'.left)
    <3>1. ASSUME NEW hosts \in SUBSET CHost,
                 rcall' = [rcall EXCEPT !.at = "fan", !.left = hosts, !.to = NoCHost,
                                        !.answer = "none"]
          PROVE  <2>2!1 /\ <2>2!2
      BY <3>1, <1>0 DEF Calls, CallAt, CallAnswer
    <3>2. CASE RouteGoes("idle", "miss")
      BY <3>2, <1>0, Answered DEF CallAt, CallAnswer
    <3> QED
      BY <1>8, <3>1, <3>2 DEF ListsHosts
  <2>3. RouteTypeOK'
    BY <1>0, <1>types, <2>1, <2>2
  <2>4. Parts3'
    BY <2>1, <2>2, <1>0 DEF RoutesToOwner, CallRuns, ControlGetsThrough, RoutePrivate
  <2> QED
    BY <2>3, <2>4
<1>9. CASE FansOn
  <2>1. /\ rcall.at = "fan" /\ UNCHANGED <<routeEnvVars, contacted, ran, hadRoute, faulty>>
        /\ rcall.to = NoCHost \/ rcall.answer # "none"
    BY <1>9 DEF FansOn
  <2>2. /\ rcall' \in Calls /\ rcall'.kind = rcall.kind /\ routes' \in {routes, COwner}
        /\ \/ rcall'.at = "idle"
           \/ /\ rcall'.at = "fan" /\ rcall'.answer = "none"
              /\ rcall'.to \in rcall.left /\ rcall'.left = rcall.left \ {rcall'.to}
    <3>1. CASE rcall.answer = "ok" /\ routes' = rcall.to /\ RouteGoes("idle", "ok")
      BY <2>1, <3>1, <1>0, Answered DEF CallAt, CallAnswer, RoutesToOwner
    <3>2. ASSUME UNCHANGED routes, NEW h \in rcall.left,
                 rcall' = [rcall EXCEPT !.to = h, !.left = @ \ {h}, !.answer = "none"]
          PROVE  <2>2!1 /\ <2>2!2
      BY <2>1, <3>2, <1>0 DEF Calls, CallAt, CallAnswer
    <3>3. CASE RouteGoes("idle", "miss") /\ UNCHANGED routes
      BY <3>3, <1>0, Answered DEF CallAt, CallAnswer
    <3> QED
      BY <1>9, <3>1, <3>2, <3>3 DEF FansOn
  <2>3. RouteTypeOK'
    BY <1>0, <1>types, <2>1, <2>2
  <2>4. Parts3'
    BY <2>1, <2>2, <1>0 DEF RoutesToOwner, CallRuns, ControlGetsThrough, RoutePrivate
  <2> QED
    BY <2>3, <2>4
<1>10. CASE UNCHANGED routeVars
  BY <1>10 DEF routeVars, RouteTypeOK, RoutesToOwner, CallRuns, ControlGetsThrough, RoutePrivate
<1> QED
  BY <1>1, <1>2, <1>3, <1>4, <1>5, <1>6, <1>7, <1>8, <1>9, <1>10 DEF RouteNext

LEMMA RouteHolds == RouteInv => RouteSafe
  BY DEF RouteInv, RouteTypeOK, CallRuns, ControlGetsThrough, RoutePrivate,
         RouteSafe, RouteActOnce, RouteRecovers

-----------------------------------------------------------------------------
(* The types, by kind. *)
PoolPlaces ==
  /\ up \in {"off", "coming", "on", "parked"}
  /\ holder \in {"free", "leased", "quarantined", "held"}
  /\ fleetLock \in {"fresh", "stale", "missing", "malformed", "no dir"}
PoolFlags ==
  /\ took \in BOOLEAN /\ oldData \in BOOLEAN /\ unclean \in BOOLEAN
  /\ configured \in BOOLEAN /\ member \in BOOLEAN /\ ours \in BOOLEAN
  /\ awake \in BOOLEAN /\ isDown \in BOOLEAN /\ used \in BOOLEAN
  /\ idleMark \in BOOLEAN /\ staleMark \in BOOLEAN /\ byClient \in BOOLEAN
PoolDoing ==
  doing \in [Actor -> {"idle", "marking", "queued", "waiting", "due", "saw on",
                      "saw off", "stopping", "wiping", "booting", "reclaim", "reap"}]
PoolTables == backoff \in [wait: {0, 2, 4, 8, 16, 30}, due: BOOLEAN] /\ PoolDoing

LEMMA PoolKinds == PoolTypeOK <=> PoolPlaces /\ PoolFlags /\ PoolTables
  BY DEF PoolTypeOK, PoolPlaces, PoolFlags, PoolTables, PoolDoing

LEMMA LongerTyped ==
  ASSUME backoff \in [wait: {0, 2, 4, 8, 16, 30}, due: BOOLEAN]
  PROVE  Longer \in [wait: {0, 2, 4, 8, 16, 30}, due: BOOLEAN]
<1>1. backoff.wait \in {0, 2, 4, 8, 16, 30}
  OBVIOUS
<1> QED
  BY <1>1 DEF Longer

LEMMA PoolStarts == PoolInit => PoolInv
<1> SUFFICES ASSUME PoolInit PROVE PoolInv
  OBVIOUS
<1> USE DEF PoolInit, Actor, Rebuilder, Reclaimer
<1>1. PoolTypeOK
  BY DEF PoolTypeOK, NoBackoff
<1>2. PoolControl
  BY DEF PoolControl, PlaceOf
<1>3. OneTaker
  BY DEF OneTaker, Holds
<1>4. DirtIsKnown /\ BootsOwned
  BY DEF DirtIsKnown, BootsOwned
<1> QED
  BY <1>1, <1>2, <1>3, <1>4 DEF PoolInv, PoolCore

LEMMA PoolPlacesKept ==
  ASSUME PoolCore, [PoolNext]_poolVars
  PROVE  PoolPlaces'
<1> USE DEF PoolCore, simVars, markVars, envVars, PoolPlaces, PoolFlags, PoolTables, PoolDoing
<1>1. ASSUME GuardBoot
      PROVE  PoolPlaces'
   BY <1>1, PoolKinds DEF GuardBoot
<1>2. ASSUME GuardMarks
      PROVE  PoolPlaces'
   BY <1>2, PoolKinds DEF GuardMarks, Goes
<1>3. ASSUME BootIssue
      PROVE  PoolPlaces'
   BY <1>3, PoolKinds DEF BootIssue, Goes
<1>4. ASSUME BootRefused
      PROVE  PoolPlaces'
   BY <1>4, PoolKinds DEF BootRefused, Goes
<1>5. ASSUME BootEnds
      PROVE  PoolPlaces'
   BY <1>5, PoolKinds DEF BootEnds, Goes
<1>6. ASSUME ClientShutdown
      PROVE  PoolPlaces'
   BY <1>6, PoolKinds DEF ClientShutdown, ShutOff, Forgets
<1>7. ASSUME GrantLease
      PROVE  PoolPlaces'
   BY <1>7, PoolKinds DEF GrantLease
<1>8. ASSUME LeaseEnds
      PROVE  PoolPlaces'
   BY <1>8, PoolKinds DEF LeaseEnds, Noticed
<1>9. ASSUME LeaseResets
      PROVE  PoolPlaces'
   BY <1>9, PoolKinds DEF LeaseResets, Noticed
<1>10. ASSUME AddStarts
      PROVE  PoolPlaces'
   BY <1>10, PoolKinds DEF AddStarts, Goes, Take
<1>11. ASSUME AddFails
      PROVE  PoolPlaces'
   BY <1>11, PoolKinds DEF AddFails, Goes, GiveBack
<1>12. ASSUME WatchdogTakes
      PROVE  PoolPlaces'
   BY <1>12, PoolKinds DEF WatchdogTakes, Goes, Take, Idling, Rebuildable, Busy
<1>13. ASSUME RebuildWaits
      PROVE  PoolPlaces'
   BY <1>13, PoolKinds DEF RebuildWaits, Longer, Rebuildable, Idling, Busy
<1>14. ASSUME WatchdogParks
      PROVE  PoolPlaces'
   BY <1>14, PoolKinds DEF WatchdogParks, Idling, Busy
<1>15. ASSUME SweepMarks
      PROVE  PoolPlaces'
   BY <1>15, PoolKinds DEF SweepMarks, InUseNow, Busy
<1>16. ASSUME OnLeaseEnd
      PROVE  PoolPlaces'
   BY <1>16, PoolKinds DEF OnLeaseEnd, Goes
<1>17. ASSUME ReapMarks
      PROVE  PoolPlaces'
   BY <1>17, PoolKinds DEF ReapMarks, PoolAbandoned, InUseNow, Unmanaged, Busy
<1>18. ASSUME ReapHolds
      PROVE  PoolPlaces'
   BY <1>18, PoolKinds DEF ReapHolds, Goes, Take, PoolAbandoned, InUseNow, Unmanaged,
     Busy
<1>19. ASSUME HostStep
      PROVE  PoolPlaces'
  <2>1. CASE UNCHANGED <<holder, took, oldData, unclean, markVars, envVars, doing>>
     BY <1>19, <2>1, PoolKinds DEF HostStep
  <2>2. CASE UNCHANGED <<simVars, markVars, configured, fleetLock, doing, byClient>>
     BY <1>19, <2>2, PoolKinds DEF HostStep
  <2>3. CASE UNCHANGED <<simVars, markVars, configured, used, doing, byClient>>
     BY <1>19, <2>3, PoolKinds DEF HostStep
  <2>4. CASE /\ awake' = FALSE
             /\ UNCHANGED <<simVars, member, ours, isDown, idleMark, staleMark, backoff, envVars,
                            doing, byClient>>
     BY <1>19, <2>4, PoolKinds DEF HostStep
  <2> QED
     BY <1>19, <2>1, <2>2, <2>3, <2>4 DEF HostStep
<1>20. ASSUME NEW ok \in BOOLEAN, ResetWipes(ok)
      PROVE  PoolPlaces'
   BY <1>20, PoolKinds DEF ResetWipes, Goes, GiveBack, Wiped
<1>21. ASSUME NEW ok \in BOOLEAN, ResetRebuilds(ok)
      PROVE  PoolPlaces'
   BY <1>21, PoolKinds DEF ResetRebuilds, Goes, GiveBack, Rejoins
<1>22. ASSUME NEW ok \in BOOLEAN, AddWipes(ok)
      PROVE  PoolPlaces'
   BY <1>22, PoolKinds DEF AddWipes, Goes, GiveBack, Wiped
<1>23. ASSUME NEW ok \in BOOLEAN, Add(ok)
      PROVE  PoolPlaces'
   BY <1>23, PoolKinds DEF Add, Goes, GiveBack
<1>24. ASSUME NEW ok \in BOOLEAN, ReapStops(ok)
      PROVE  PoolPlaces'
   BY <1>24, PoolKinds DEF ReapStops, Goes, ShutOff, ReclaimRelease, GiveBack, Forgets
<1>25. ASSUME NEW ok \in BOOLEAN, NEW a \in Rebuilder, WatchdogWipes(a, ok)
      PROVE  PoolPlaces'
   BY <1>25, PoolKinds DEF WatchdogWipes, Goes, GiveBack, Wiped, Defers, Longer
<1>26. ASSUME NEW ok \in BOOLEAN, NEW a \in Rebuilder, WatchdogRebuilds(a, ok)
      PROVE  PoolPlaces'
   BY <1>26, PoolKinds DEF WatchdogRebuilds, Goes, Rejoins, Defers, NoBackoff, Longer
<1>27. ASSUME NEW a \in Reclaimer, ReclaimLooks(a)
      PROVE  PoolPlaces'
   BY <1>27, PoolKinds DEF ReclaimLooks, Goes, InUseNow, Busy
<1>28. ASSUME NEW a \in Reclaimer, ReclaimForgets(a)
      PROVE  PoolPlaces'
   BY <1>28, PoolKinds DEF ReclaimForgets, Goes, Forgets
<1>29. ASSUME NEW a \in Reclaimer, ReclaimHolds(a)
      PROVE  PoolPlaces'
   BY <1>29, PoolKinds DEF ReclaimHolds, Goes, Take, Busy
<1>30. ASSUME NEW ok \in BOOLEAN, NEW a \in Reclaimer, ReclaimStops(a, ok)
      PROVE  PoolPlaces'
   BY <1>30, PoolKinds DEF ReclaimStops, Goes, ShutOff, ReclaimRelease, GiveBack,
     Forgets
<1>31. CASE UNCHANGED poolVars
  BY <1>31, PoolKinds DEF poolVars
<1> QED
   BY <1>1, <1>2, <1>3, <1>4, <1>5, <1>6, <1>7, <1>8, <1>9, <1>10, <1>11, <1>12,
     <1>13, <1>14, <1>15, <1>16, <1>17, <1>18, <1>19, <1>20, <1>21, <1>22, <1>23,
     <1>24, <1>25, <1>26, <1>27, <1>28, <1>29, <1>30, <1>31 DEF PoolNext, Others,
     Reclaim

LEMMA PoolFlagsKept ==
  ASSUME PoolCore, [PoolNext]_poolVars
  PROVE  PoolFlags'
<1> USE DEF PoolCore, simVars, markVars, envVars, PoolFlags
<1>1. ASSUME GuardBoot
      PROVE  PoolFlags'
   BY <1>1, PoolKinds, ZenonT(40) DEF GuardBoot
<1>2. ASSUME GuardMarks
      PROVE  PoolFlags'
   BY <1>2, PoolKinds DEF GuardMarks, Goes
<1>3. ASSUME BootIssue
      PROVE  PoolFlags'
   BY <1>3, PoolKinds DEF BootIssue, Goes
<1>4. ASSUME BootRefused
      PROVE  PoolFlags'
   BY <1>4, PoolKinds DEF BootRefused, Goes
<1>5. ASSUME BootEnds
      PROVE  PoolFlags'
   BY <1>5, PoolKinds DEF BootEnds, Goes
<1>6. ASSUME ClientShutdown
      PROVE  PoolFlags'
   BY <1>6, PoolKinds DEF ClientShutdown, ShutOff, Forgets
<1>7. ASSUME GrantLease
      PROVE  PoolFlags'
   BY <1>7, PoolKinds DEF GrantLease
<1>8. ASSUME LeaseEnds
      PROVE  PoolFlags'
   BY <1>8, PoolKinds DEF LeaseEnds, Noticed
<1>9. ASSUME LeaseResets
      PROVE  PoolFlags'
   BY <1>9, PoolKinds DEF LeaseResets, Noticed
<1>10. ASSUME AddStarts
      PROVE  PoolFlags'
   BY <1>10, PoolKinds DEF AddStarts, Goes, Take
<1>11. ASSUME AddFails
      PROVE  PoolFlags'
   BY <1>11, PoolKinds DEF AddFails, Goes, GiveBack
<1>12. ASSUME WatchdogTakes
      PROVE  PoolFlags'
   BY <1>12, PoolKinds DEF WatchdogTakes, Goes, Take, Idling, Rebuildable, Busy
<1>13. ASSUME RebuildWaits
      PROVE  PoolFlags'
   BY <1>13, PoolKinds DEF RebuildWaits, Longer, Rebuildable, Idling, Busy
<1>14. ASSUME WatchdogParks
      PROVE  PoolFlags'
   BY <1>14, PoolKinds DEF WatchdogParks, Idling, Busy
<1>15. ASSUME SweepMarks
      PROVE  PoolFlags'
   BY <1>15, PoolKinds DEF SweepMarks, InUseNow, Busy
<1>16. ASSUME OnLeaseEnd
      PROVE  PoolFlags'
   BY <1>16, PoolKinds DEF OnLeaseEnd, Goes
<1>17. ASSUME ReapMarks
      PROVE  PoolFlags'
   BY <1>17, PoolKinds DEF ReapMarks, PoolAbandoned, InUseNow, Unmanaged, Busy
<1>18. ASSUME ReapHolds
      PROVE  PoolFlags'
   BY <1>18, PoolKinds DEF ReapHolds, Goes, Take, PoolAbandoned, InUseNow, Unmanaged,
     Busy
<1>19. ASSUME HostStep
      PROVE  PoolFlags'
  <2>1. byClient' \in BOOLEAN /\ awake' \in BOOLEAN /\ used' \in BOOLEAN
    BY <1>19, PoolKinds DEF HostStep
  <2>2. UNCHANGED <<took, oldData, unclean, configured, member, ours, isDown, idleMark, staleMark>>
    BY <1>19 DEF HostStep
  <2> QED
    BY <2>1, <2>2, PoolKinds
<1>20. ASSUME NEW ok \in BOOLEAN, ResetWipes(ok)
      PROVE  PoolFlags'
   BY <1>20, PoolKinds, ZenonT(40) DEF ResetWipes, Goes, GiveBack, Wiped
<1>21. ASSUME NEW ok \in BOOLEAN, ResetRebuilds(ok)
      PROVE  PoolFlags'
   BY <1>21, PoolKinds DEF ResetRebuilds, Goes, GiveBack, Rejoins
<1>22. ASSUME NEW ok \in BOOLEAN, AddWipes(ok)
      PROVE  PoolFlags'
   BY <1>22, PoolKinds, ZenonT(40) DEF AddWipes, Goes, GiveBack, Wiped
<1>23. ASSUME NEW ok \in BOOLEAN, Add(ok)
      PROVE  PoolFlags'
   BY <1>23, PoolKinds DEF Add, Goes, GiveBack
<1>24. ASSUME NEW ok \in BOOLEAN, ReapStops(ok)
      PROVE  PoolFlags'
   BY <1>24, PoolKinds DEF ReapStops, Goes, ShutOff, ReclaimRelease, GiveBack, Forgets
<1>25. ASSUME NEW ok \in BOOLEAN, NEW a \in Rebuilder, WatchdogWipes(a, ok)
      PROVE  PoolFlags'
   BY <1>25, PoolKinds, ZenonT(40) DEF WatchdogWipes, Goes, GiveBack, Wiped, Defers, Longer
<1>26. ASSUME NEW ok \in BOOLEAN, NEW a \in Rebuilder, WatchdogRebuilds(a, ok)
      PROVE  PoolFlags'
   BY <1>26, PoolKinds DEF WatchdogRebuilds, Goes, Rejoins, Defers, NoBackoff, Longer
<1>27. ASSUME NEW a \in Reclaimer, ReclaimLooks(a)
      PROVE  PoolFlags'
   BY <1>27, PoolKinds, ZenonT(40) DEF ReclaimLooks, Goes, InUseNow, Busy
<1>28. ASSUME NEW a \in Reclaimer, ReclaimForgets(a)
      PROVE  PoolFlags'
   BY <1>28, PoolKinds DEF ReclaimForgets, Goes, Forgets
<1>29. ASSUME NEW a \in Reclaimer, ReclaimHolds(a)
      PROVE  PoolFlags'
   BY <1>29, PoolKinds DEF ReclaimHolds, Goes, Take, Busy
<1>30. ASSUME NEW ok \in BOOLEAN, NEW a \in Reclaimer, ReclaimStops(a, ok)
      PROVE  PoolFlags'
   BY <1>30, PoolKinds DEF ReclaimStops, Goes, ShutOff, ReclaimRelease, GiveBack,
     Forgets
<1>31. CASE UNCHANGED poolVars
  BY <1>31, PoolKinds DEF poolVars
<1> QED
   BY <1>1, <1>2, <1>3, <1>4, <1>5, <1>6, <1>7, <1>8, <1>9, <1>10, <1>11, <1>12,
     <1>13, <1>14, <1>15, <1>16, <1>17, <1>18, <1>19, <1>20, <1>21, <1>22, <1>23,
     <1>24, <1>25, <1>26, <1>27, <1>28, <1>29, <1>30, <1>31 DEF PoolNext, Others,
     Reclaim

LEMMA PoolTablesKept ==
  ASSUME PoolCore, [PoolNext]_poolVars
  PROVE  PoolTables'
<1> USE DEF PoolCore, simVars, markVars, envVars, PoolTables, PoolDoing, PoolFlags, Actor, Rebuilder, Reclaimer
<1>1. ASSUME GuardBoot
      PROVE  PoolTables'
  <2>1. CASE up \in {"on", "parked"}
     BY <1>1, <2>1, PoolKinds, LongerTyped DEF GuardBoot
  <2>2. CASE up \notin {"on", "parked"}
     BY <1>1, <2>2, PoolKinds, LongerTyped DEF GuardBoot
  <2> QED
     BY <1>1, <2>1, <2>2
<1>2. ASSUME GuardMarks
      PROVE  PoolTables'
   BY <1>2, PoolKinds, LongerTyped DEF GuardMarks, Goes
<1>3. ASSUME BootIssue
      PROVE  PoolTables'
   BY <1>3, PoolKinds, LongerTyped DEF BootIssue, Goes
<1>4. ASSUME BootRefused
      PROVE  PoolTables'
   BY <1>4, PoolKinds, LongerTyped DEF BootRefused, Goes
<1>5. ASSUME BootEnds
      PROVE  PoolTables'
   BY <1>5, PoolKinds, LongerTyped DEF BootEnds, Goes
<1>6. ASSUME ClientShutdown
      PROVE  PoolTables'
   BY <1>6, PoolKinds, LongerTyped DEF ClientShutdown, ShutOff, Forgets
<1>7. ASSUME GrantLease
      PROVE  PoolTables'
   BY <1>7, PoolKinds, LongerTyped DEF GrantLease
<1>8. ASSUME LeaseEnds
      PROVE  PoolTables'
   BY <1>8, PoolKinds, LongerTyped DEF LeaseEnds, Noticed
<1>9. ASSUME LeaseResets
      PROVE  PoolTables'
   BY <1>9, PoolKinds, LongerTyped DEF LeaseResets, Noticed
<1>10. ASSUME AddStarts
      PROVE  PoolTables'
   BY <1>10, PoolKinds, LongerTyped DEF AddStarts, Goes, Take
<1>11. ASSUME AddFails
      PROVE  PoolTables'
   BY <1>11, PoolKinds, LongerTyped DEF AddFails, Goes, GiveBack
<1>12. ASSUME WatchdogTakes
      PROVE  PoolTables'
  <2>1. CASE Goes("rebuild", "wiping")
     BY <1>12, <2>1, PoolKinds, LongerTyped DEF WatchdogTakes, Goes, Take, Idling,
     Rebuildable, Busy
  <2>2. CASE Goes("recycle", "wiping")
     BY <1>12, <2>2, PoolKinds, LongerTyped DEF WatchdogTakes, Goes, Take, Idling,
     Rebuildable, Busy
  <2> QED
     BY <1>12, <2>1, <2>2 DEF WatchdogTakes
<1>13. ASSUME RebuildWaits
      PROVE  PoolTables'
   BY <1>13, PoolKinds, LongerTyped DEF RebuildWaits, Longer, Rebuildable, Idling,
     Busy
<1>14. ASSUME WatchdogParks
      PROVE  PoolTables'
   BY <1>14, PoolKinds, LongerTyped DEF WatchdogParks, Idling, Busy
<1>15. ASSUME SweepMarks
      PROVE  PoolTables'
   BY <1>15, PoolKinds, LongerTyped DEF SweepMarks, InUseNow, Busy
<1>16. ASSUME OnLeaseEnd
      PROVE  PoolTables'
   BY <1>16, PoolKinds, LongerTyped DEF OnLeaseEnd, Goes
<1>17. ASSUME ReapMarks
      PROVE  PoolTables'
   BY <1>17, PoolKinds, LongerTyped DEF ReapMarks, PoolAbandoned, InUseNow, Unmanaged,
     Busy
<1>18. ASSUME ReapHolds
      PROVE  PoolTables'
   BY <1>18, PoolKinds, LongerTyped DEF ReapHolds, Goes, Take, PoolAbandoned,
     InUseNow, Unmanaged, Busy
<1>19. ASSUME HostStep
      PROVE  PoolTables'
   BY <1>19, PoolKinds, LongerTyped DEF HostStep
<1>20. ASSUME NEW ok \in BOOLEAN, ResetWipes(ok)
      PROVE  PoolTables'
   BY <1>20, PoolKinds, LongerTyped, ZenonT(40) DEF ResetWipes, Goes, GiveBack, Wiped
<1>21. ASSUME NEW ok \in BOOLEAN, ResetRebuilds(ok)
      PROVE  PoolTables'
   BY <1>21, PoolKinds, LongerTyped DEF ResetRebuilds, Goes, GiveBack, Rejoins
<1>22. ASSUME NEW ok \in BOOLEAN, AddWipes(ok)
      PROVE  PoolTables'
   BY <1>22, PoolKinds, LongerTyped, ZenonT(40) DEF AddWipes, Goes, GiveBack, Wiped
<1>23. ASSUME NEW ok \in BOOLEAN, Add(ok)
      PROVE  PoolTables'
   BY <1>23, PoolKinds, LongerTyped DEF Add, Goes, GiveBack
<1>24. ASSUME NEW ok \in BOOLEAN, ReapStops(ok)
      PROVE  PoolTables'
   BY <1>24, PoolKinds, LongerTyped DEF ReapStops, Goes, ShutOff, ReclaimRelease,
     GiveBack, Forgets
<1>25. ASSUME NEW ok \in BOOLEAN, NEW a \in Rebuilder, WatchdogWipes(a, ok)
      PROVE  PoolTables'
  <2>1. CASE ok
     BY <1>25, <2>1, PoolKinds, LongerTyped DEF WatchdogWipes, Goes, GiveBack,
     Wiped, Defers, Longer
  <2>2. CASE ~ ok
     BY <1>25, <2>2, PoolKinds, LongerTyped DEF WatchdogWipes, Goes, GiveBack,
     Wiped, Defers, Longer
  <2> QED
     BY <1>25, <2>1, <2>2
<1>26. ASSUME NEW ok \in BOOLEAN, NEW a \in Rebuilder, WatchdogRebuilds(a, ok)
      PROVE  PoolTables'
  <2>1. backoff' \in {backoff, Longer, NoBackoff} /\ doing' = [doing EXCEPT ![a] = "idle"]
    BY <1>26 DEF WatchdogRebuilds, Goes, Defers
  <2>2. NoBackoff \in [wait: {0, 2, 4, 8, 16, 30}, due: BOOLEAN]
    BY DEF NoBackoff
  <2> QED
    BY <2>1, <2>2, PoolKinds, LongerTyped, ZenonT(40)
<1>27. ASSUME NEW a \in Reclaimer, ReclaimLooks(a)
      PROVE  PoolTables'
   BY <1>27, PoolKinds, LongerTyped DEF ReclaimLooks, Goes, InUseNow, Busy
<1>28. ASSUME NEW a \in Reclaimer, ReclaimForgets(a)
      PROVE  PoolTables'
   BY <1>28, PoolKinds, LongerTyped DEF ReclaimForgets, Goes, Forgets
<1>29. ASSUME NEW a \in Reclaimer, ReclaimHolds(a)
      PROVE  PoolTables'
   BY <1>29, PoolKinds, LongerTyped, ZenonT(40) DEF ReclaimHolds, Goes, Take, Busy
<1>30. ASSUME NEW ok \in BOOLEAN, NEW a \in Reclaimer, ReclaimStops(a, ok)
      PROVE  PoolTables'
   BY <1>30, PoolKinds, LongerTyped DEF ReclaimStops, Goes, ShutOff, ReclaimRelease,
     GiveBack, Forgets
<1>31. CASE UNCHANGED poolVars
  BY <1>31, PoolKinds, LongerTyped DEF poolVars
<1> QED
   BY <1>1, <1>2, <1>3, <1>4, <1>5, <1>6, <1>7, <1>8, <1>9, <1>10, <1>11, <1>12,
     <1>13, <1>14, <1>15, <1>16, <1>17, <1>18, <1>19, <1>20, <1>21, <1>22, <1>23,
     <1>24, <1>25, <1>26, <1>27, <1>28, <1>29, <1>30, <1>31 DEF PoolNext, Others,
     Reclaim

LEMMA ControlMoved ==
  ASSUME PoolCore, NEW a \in Actor, NEW x \in PlaceOf(a), doing' = [doing EXCEPT ![a] = x]
  PROVE  PoolControl'
  BY PoolKinds DEF PoolCore, PoolControl, PoolTables, PoolDoing

LEMMA GuardMoves ==
  ASSUME PoolCore, GuardBoot
  PROVE  \A b \in Actor : \/ doing'[b] = doing[b]
                          \/ b = "boot" /\ doing'[b] = "queued"
                          \/ b = "guard" /\ doing'[b] = "marking"
<1>1. \/ UNCHANGED doing
      \/ doing' = [doing EXCEPT !["boot"] = "queued", !["guard"] = "marking"]
  BY DEF GuardBoot
<1> QED
  BY <1>1, PoolKinds DEF PoolCore, PoolTables, PoolDoing

(* What a hold's taker, its end and everybody else do to it. *)
LEMMA Taken ==
  ASSUME PoolCore, holder # "held", holder' = "held", NEW a \in Actor, NEW x,
         doing' = [doing EXCEPT ![a] = x]
  PROVE  OneTaker'
  BY PoolKinds DEF PoolCore, PoolTables, PoolDoing, OneTaker, Holds
LEMMA WorksOn ==
  ASSUME PoolCore, NEW a \in Actor, Holds(a), doing' = [doing EXCEPT ![a] = "booting"],
         UNCHANGED <<holder, took>>
  PROVE  OneTaker'
  BY PoolKinds DEF PoolCore, PoolTables, PoolDoing, OneTaker, Holds
LEMMA Given ==
  ASSUME PoolCore, NEW a \in Actor, Holds(a), doing' = [doing EXCEPT ![a] = "idle"], ~ took'
  PROVE  OneTaker'
<1>1. ASSUME NEW b \in Actor PROVE ~ Holds(b)'
  <2>1. CASE b = a
    BY <2>1, PoolKinds DEF PoolCore, PoolTables, PoolDoing, Holds
  <2>2. CASE b # a
    <3>1. doing'[b] = doing[b] /\ ~ Holds(b)
      BY <2>2, PoolKinds DEF PoolCore, PoolTables, PoolDoing, OneTaker
    <3> QED
      BY <3>1 DEF Holds
  <2> QED
    BY <2>1, <2>2
<1> QED
  BY <1>1 DEF OneTaker
LEMMA NotAboutIt ==
  ASSUME PoolCore, NEW a \in Actor, NEW x, x \notin {"wiping", "booting", "stopping", "reap"},
         doing' = [doing EXCEPT ![a] = x], UNCHANGED <<holder, took>>
  PROVE  OneTaker'
<1>1. ASSUME NEW b \in Actor, Holds(b)' PROVE Holds(b)
  <2>1. CASE b = a
    BY <1>1, <2>1, PoolKinds DEF PoolCore, PoolTables, PoolDoing, Holds
  <2>2. CASE b # a
    BY <1>1, <2>2, PoolKinds DEF PoolCore, PoolTables, PoolDoing, Holds
  <2> QED
    BY <2>1, <2>2
<1> QED
  BY <1>1 DEF PoolCore, OneTaker

LEMMA PoolControlKept ==
  ASSUME PoolCore, [PoolNext]_poolVars
  PROVE  PoolControl'
<1> USE DEF PoolCore, PoolTables, PoolDoing, Actor, Rebuilder, Reclaimer, simVars, markVars, envVars, PoolControl, PlaceOf
<1>1. ASSUME GuardBoot
      PROVE  PoolControl'
  <2>1. \A b \in Actor : \/ doing'[b] = doing[b]
                         \/ b = "boot" /\ doing'[b] = "queued"
                         \/ b = "guard" /\ doing'[b] = "marking"
    BY <1>1, GuardMoves
  <2> QED
    BY <2>1 DEF PoolControl, PlaceOf, Actor, Rebuilder, Reclaimer
<1>2. ASSUME GuardMarks
      PROVE  PoolControl'
   BY <1>2, PoolKinds DEF GuardMarks, Goes
<1>3. ASSUME BootIssue
      PROVE  PoolControl'
   BY <1>3, PoolKinds DEF BootIssue, Goes
<1>4. ASSUME BootRefused
      PROVE  PoolControl'
   BY <1>4, PoolKinds DEF BootRefused, Goes
<1>5. ASSUME BootEnds
      PROVE  PoolControl'
   BY <1>5, PoolKinds DEF BootEnds, Goes
<1>6. ASSUME ClientShutdown
      PROVE  PoolControl'
   BY <1>6, PoolKinds DEF ClientShutdown, ShutOff, Forgets
<1>7. ASSUME GrantLease
      PROVE  PoolControl'
   BY <1>7, PoolKinds DEF GrantLease
<1>8. ASSUME LeaseEnds
      PROVE  PoolControl'
   BY <1>8, PoolKinds DEF LeaseEnds, Noticed
<1>9. ASSUME LeaseResets
      PROVE  PoolControl'
   BY <1>9, PoolKinds DEF LeaseResets, Noticed
<1>10. ASSUME AddStarts
      PROVE  PoolControl'
   BY <1>10, PoolKinds DEF AddStarts, Goes, Take
<1>11. ASSUME AddFails
      PROVE  PoolControl'
   BY <1>11, PoolKinds DEF AddFails, Goes, GiveBack
<1>12. ASSUME WatchdogTakes
      PROVE  PoolControl'
  <2>1. PICK a \in Rebuilder : doing' = [doing EXCEPT ![a] = "wiping"]
    BY <1>12 DEF WatchdogTakes, Goes, Rebuilder
  <2> QED
    BY <2>1, ControlMoved DEF PlaceOf, Actor, Rebuilder, Reclaimer
<1>13. ASSUME RebuildWaits
      PROVE  PoolControl'
   BY <1>13, PoolKinds DEF RebuildWaits, Longer, Rebuildable, Idling, Busy
<1>14. ASSUME WatchdogParks
      PROVE  PoolControl'
   BY <1>14, PoolKinds DEF WatchdogParks, Idling, Busy
<1>15. ASSUME SweepMarks
      PROVE  PoolControl'
   BY <1>15, PoolKinds DEF SweepMarks, InUseNow, Busy
<1>16. ASSUME OnLeaseEnd
      PROVE  PoolControl'
   BY <1>16, PoolKinds DEF OnLeaseEnd, Goes
<1>17. ASSUME ReapMarks
      PROVE  PoolControl'
   BY <1>17, PoolKinds DEF ReapMarks, PoolAbandoned, InUseNow, Unmanaged, Busy
<1>18. ASSUME ReapHolds
      PROVE  PoolControl'
   BY <1>18, PoolKinds DEF ReapHolds, Goes, Take, PoolAbandoned, InUseNow, Unmanaged,
     Busy
<1>19. ASSUME HostStep
      PROVE  PoolControl'
   BY <1>19, PoolKinds DEF HostStep
<1>20. ASSUME NEW ok \in BOOLEAN, ResetWipes(ok)
      PROVE  PoolControl'
  <2>1. PICK x \in {"idle", "booting"} : doing' = [doing EXCEPT !["reset"] = x]
    BY <1>20 DEF ResetWipes, Goes
  <2> QED
    BY <2>1, ControlMoved, ZenonT(40) DEF PlaceOf, Actor, Rebuilder, Reclaimer
<1>21. ASSUME NEW ok \in BOOLEAN, ResetRebuilds(ok)
      PROVE  PoolControl'
   BY <1>21, PoolKinds DEF ResetRebuilds, Goes, GiveBack, Rejoins
<1>22. ASSUME NEW ok \in BOOLEAN, AddWipes(ok)
      PROVE  PoolControl'
  <2>1. PICK x \in {"idle", "booting"} : doing' = [doing EXCEPT !["adopt"] = x]
    BY <1>22 DEF AddWipes, Goes
  <2> QED
    BY <2>1, ControlMoved, ZenonT(40) DEF PlaceOf, Actor, Rebuilder, Reclaimer
<1>23. ASSUME NEW ok \in BOOLEAN, Add(ok)
      PROVE  PoolControl'
   BY <1>23, PoolKinds DEF Add, Goes, GiveBack
<1>24. ASSUME NEW ok \in BOOLEAN, ReapStops(ok)
      PROVE  PoolControl'
   BY <1>24, PoolKinds DEF ReapStops, Goes, ShutOff, ReclaimRelease, GiveBack, Forgets
<1>25. ASSUME NEW ok \in BOOLEAN, NEW a \in Rebuilder, WatchdogWipes(a, ok)
      PROVE  PoolControl'
  <2>1. PICK x \in {"idle", "booting"} : doing' = [doing EXCEPT ![a] = x]
    BY <1>25 DEF WatchdogWipes, Goes
  <2> QED
    BY <2>1, ControlMoved DEF PlaceOf, Actor, Rebuilder, Reclaimer
<1>26. ASSUME NEW ok \in BOOLEAN, NEW a \in Rebuilder, WatchdogRebuilds(a, ok)
      PROVE  PoolControl'
   BY <1>26, PoolKinds DEF WatchdogRebuilds, Goes, Rejoins, Defers, NoBackoff, Longer
<1>27. ASSUME NEW a \in Reclaimer, ReclaimLooks(a)
      PROVE  PoolControl'
   BY <1>27, PoolKinds DEF ReclaimLooks, Goes, InUseNow, Busy
<1>28. ASSUME NEW a \in Reclaimer, ReclaimForgets(a)
      PROVE  PoolControl'
   BY <1>28, PoolKinds DEF ReclaimForgets, Goes, Forgets
<1>29. ASSUME NEW a \in Reclaimer, ReclaimHolds(a)
      PROVE  PoolControl'
  <2>1. PICK x \in {"idle", "stopping"} : doing' = [doing EXCEPT ![a] = x]
    BY <1>29 DEF ReclaimHolds, Goes
  <2> QED
    BY <2>1, ControlMoved DEF PlaceOf, Actor, Rebuilder, Reclaimer
<1>30. ASSUME NEW ok \in BOOLEAN, NEW a \in Reclaimer, ReclaimStops(a, ok)
      PROVE  PoolControl'
   BY <1>30, PoolKinds DEF ReclaimStops, Goes, ShutOff, ReclaimRelease, GiveBack,
     Forgets
<1>31. CASE UNCHANGED poolVars
  BY <1>31, PoolKinds DEF poolVars
<1> QED
   BY <1>1, <1>2, <1>3, <1>4, <1>5, <1>6, <1>7, <1>8, <1>9, <1>10, <1>11, <1>12,
     <1>13, <1>14, <1>15, <1>16, <1>17, <1>18, <1>19, <1>20, <1>21, <1>22, <1>23,
     <1>24, <1>25, <1>26, <1>27, <1>28, <1>29, <1>30, <1>31 DEF PoolNext, Others,
     Reclaim

LEMMA PoolTakerKept ==
  ASSUME PoolCore, [PoolNext]_poolVars
  PROVE  OneTaker'
<1> USE DEF PoolCore, PoolTables, PoolDoing, Actor, Rebuilder, Reclaimer, simVars, markVars, envVars, PoolControl, PlaceOf, OneTaker, Holds
<1>1. ASSUME GuardBoot
      PROVE  OneTaker'
  <2>1. \A b \in Actor : \/ doing'[b] = doing[b]
                         \/ b = "boot" /\ doing'[b] = "queued"
                         \/ b = "guard" /\ doing'[b] = "marking"
    BY <1>1, GuardMoves
  <2>2. \A b \in Actor : Holds(b)' => Holds(b)
    BY <2>1 DEF Holds, Actor, Rebuilder, Reclaimer
  <2>3. UNCHANGED <<holder, took>>
    BY <1>1 DEF GuardBoot
  <2> QED
    BY <2>2, <2>3 DEF OneTaker
<1>2. ASSUME GuardMarks
      PROVE  OneTaker'
   BY <1>2, PoolKinds, ZenonT(40) DEF GuardMarks, Goes
<1>3. ASSUME BootIssue
      PROVE  OneTaker'
   BY <1>3, PoolKinds, ZenonT(40) DEF BootIssue, Goes
<1>4. ASSUME BootRefused
      PROVE  OneTaker'
   BY <1>4, PoolKinds, ZenonT(40) DEF BootRefused, Goes
<1>5. ASSUME BootEnds
      PROVE  OneTaker'
   BY <1>5, PoolKinds, ZenonT(40) DEF BootEnds, Goes
<1>6. ASSUME ClientShutdown
      PROVE  OneTaker'
   BY <1>6, PoolKinds DEF ClientShutdown, ShutOff, Forgets
<1>7. ASSUME GrantLease
      PROVE  OneTaker'
   BY <1>7, PoolKinds DEF GrantLease
<1>8. ASSUME LeaseEnds
      PROVE  OneTaker'
   BY <1>8, PoolKinds DEF LeaseEnds, Noticed
<1>9. ASSUME LeaseResets
      PROVE  OneTaker'
  <2>1. \A b \in Actor : ~ Holds(b)
    BY <1>9 DEF LeaseResets
  <2>2. \A b \in Actor \ {"reset", "ended"} : doing'[b] = doing[b]
    BY <1>9, PoolKinds DEF LeaseResets, Noticed
  <2>3. doing'["ended"] \in {doing["ended"], "due"}
    BY <1>9, PoolKinds DEF LeaseResets, Noticed
  <2>4. \A b \in Actor : Holds(b)' => b = "reset"
    BY <2>1, <2>2, <2>3
  <2>5. holder' = "held"
    BY <1>9 DEF LeaseResets
  <2> QED
    BY <2>4, <2>5
<1>10. ASSUME AddStarts
      PROVE  OneTaker'
   BY <1>10, PoolKinds, ZenonT(40) DEF AddStarts, Goes, Take
<1>11. ASSUME AddFails
      PROVE  OneTaker'
   BY <1>11, PoolKinds, ZenonT(40) DEF AddFails, Goes, GiveBack
<1>12. ASSUME WatchdogTakes
      PROVE  OneTaker'
  <2>1. CASE Goes("rebuild", "wiping")
     BY <1>12, <2>1, PoolKinds DEF WatchdogTakes, Goes, Take, Idling, Rebuildable,
     Busy
  <2>2. CASE Goes("recycle", "wiping")
     BY <1>12, <2>2, PoolKinds DEF WatchdogTakes, Goes, Take, Idling, Rebuildable,
     Busy
  <2> QED
     BY <1>12, <2>1, <2>2 DEF WatchdogTakes
<1>13. ASSUME RebuildWaits
      PROVE  OneTaker'
   BY <1>13, PoolKinds DEF RebuildWaits, Longer, Rebuildable, Idling, Busy
<1>14. ASSUME WatchdogParks
      PROVE  OneTaker'
   BY <1>14, PoolKinds DEF WatchdogParks, Idling, Busy
<1>15. ASSUME SweepMarks
      PROVE  OneTaker'
   BY <1>15, PoolKinds DEF SweepMarks, InUseNow, Busy
<1>16. ASSUME OnLeaseEnd
      PROVE  OneTaker'
   BY <1>16, PoolKinds, ZenonT(40) DEF OnLeaseEnd, Goes
<1>17. ASSUME ReapMarks
      PROVE  OneTaker'
   BY <1>17, PoolKinds DEF ReapMarks, PoolAbandoned, InUseNow, Unmanaged, Busy
<1>18. ASSUME ReapHolds
      PROVE  OneTaker'
   BY <1>18, PoolKinds, ZenonT(40) DEF ReapHolds, Goes, Take, PoolAbandoned, InUseNow, Unmanaged,
     Busy
<1>19. ASSUME HostStep
      PROVE  OneTaker'
  <2>1. CASE UNCHANGED <<holder, took, oldData, unclean, markVars, envVars, doing>>
     BY <1>19, <2>1, PoolKinds DEF HostStep
  <2>2. CASE UNCHANGED <<simVars, markVars, configured, fleetLock, doing, byClient>>
     BY <1>19, <2>2, PoolKinds DEF HostStep
  <2>3. CASE UNCHANGED <<simVars, markVars, configured, used, doing, byClient>>
     BY <1>19, <2>3, PoolKinds DEF HostStep
  <2>4. CASE /\ awake' = FALSE
             /\ UNCHANGED <<simVars, member, ours, isDown, idleMark, staleMark, backoff, envVars,
                            doing, byClient>>
     BY <1>19, <2>4, PoolKinds DEF HostStep
  <2> QED
     BY <1>19, <2>1, <2>2, <2>3, <2>4 DEF HostStep
<1>20. ASSUME NEW ok \in BOOLEAN, ResetWipes(ok)
      PROVE  OneTaker'
  <2>1. "reset" \in Actor /\ Holds("reset")
    BY <1>20 DEF ResetWipes, Holds, Actor, Rebuilder, Reclaimer
  <2>2. CASE ok
    BY <1>20, <2>1, <2>2, WorksOn DEF ResetWipes, Goes
  <2>3. CASE ~ ok
    BY <1>20, <2>1, <2>3, Given DEF ResetWipes, Goes, GiveBack
  <2> QED
    BY <2>2, <2>3
<1>21. ASSUME NEW ok \in BOOLEAN, ResetRebuilds(ok)
      PROVE  OneTaker'
  <2>1. "reset" \in Actor /\ Holds("reset")
    BY <1>21 DEF ResetRebuilds, Holds, Actor, Rebuilder, Reclaimer
  <2>2. doing' = [doing EXCEPT !["reset"] = "idle"] /\ ~ took'
    BY <1>21 DEF ResetRebuilds, Goes, GiveBack
  <2> QED
    BY <2>1, <2>2, Given
<1>22. ASSUME NEW ok \in BOOLEAN, AddWipes(ok)
      PROVE  OneTaker'
  <2>1. "adopt" \in Actor /\ Holds("adopt")
    BY <1>22 DEF AddWipes, Holds, Actor, Rebuilder, Reclaimer
  <2>2. CASE ok
    BY <1>22, <2>1, <2>2, WorksOn DEF AddWipes, Goes
  <2>3. CASE ~ ok
    BY <1>22, <2>1, <2>3, Given DEF AddWipes, Goes, GiveBack
  <2> QED
    BY <2>2, <2>3
<1>23. ASSUME NEW ok \in BOOLEAN, Add(ok)
      PROVE  OneTaker'
   BY <1>23, PoolKinds, ZenonT(40) DEF Add, Goes, GiveBack
<1>24. ASSUME NEW ok \in BOOLEAN, ReapStops(ok)
      PROVE  OneTaker'
   BY <1>24, PoolKinds, ZenonT(40) DEF ReapStops, Goes, ShutOff, ReclaimRelease, GiveBack, Forgets
<1>25. ASSUME NEW ok \in BOOLEAN, NEW a \in Rebuilder, WatchdogWipes(a, ok)
      PROVE  OneTaker'
  <2>1. a \in Actor /\ Holds(a)
    BY <1>25 DEF WatchdogWipes, Holds, Actor, Rebuilder, Reclaimer
  <2>2. CASE ok
    BY <1>25, <2>1, <2>2, WorksOn DEF WatchdogWipes, Goes
  <2>3. CASE ~ ok
    BY <1>25, <2>1, <2>3, Given DEF WatchdogWipes, Goes, GiveBack
  <2> QED
    BY <2>2, <2>3
<1>26. ASSUME NEW ok \in BOOLEAN, NEW a \in Rebuilder, WatchdogRebuilds(a, ok)
      PROVE  OneTaker'
  <2>1. CASE ok
     BY <1>26, <2>1, PoolKinds, ZenonT(40) DEF WatchdogRebuilds, Goes, Rejoins, Defers,
     NoBackoff, Longer
  <2>2. CASE ~ ok
     BY <1>26, <2>2, PoolKinds DEF WatchdogRebuilds, Goes, Rejoins, Defers,
     NoBackoff, Longer
  <2> QED
     BY <1>26, <2>1, <2>2
<1>27. ASSUME NEW a \in Reclaimer, ReclaimLooks(a)
      PROVE  OneTaker'
   BY <1>27, PoolKinds, ZenonT(40) DEF ReclaimLooks, Goes, InUseNow, Busy
<1>28. ASSUME NEW a \in Reclaimer, ReclaimForgets(a)
      PROVE  OneTaker'
   BY <1>28, PoolKinds DEF ReclaimForgets, Goes, Forgets
<1>29. ASSUME NEW a \in Reclaimer, ReclaimHolds(a)
      PROVE  OneTaker'
  <2>1. CASE Take /\ Goes(a, "stopping")
    BY <2>1, Taken DEF Take, Goes, Actor, Rebuilder, Reclaimer
  <2>2. CASE Goes(a, "idle") /\ UNCHANGED <<holder, took>>
    BY <2>2, NotAboutIt DEF Goes, Actor, Rebuilder, Reclaimer
  <2> QED
    BY <1>29, <2>1, <2>2 DEF ReclaimHolds
<1>30. ASSUME NEW ok \in BOOLEAN, NEW a \in Reclaimer, ReclaimStops(a, ok)
      PROVE  OneTaker'
  <2>1. CASE ok
     BY <1>30, <2>1, PoolKinds DEF ReclaimStops, Goes, ShutOff, ReclaimRelease,
     GiveBack, Forgets
  <2>2. CASE ~ ok
     BY <1>30, <2>2, PoolKinds DEF ReclaimStops, Goes, ShutOff, ReclaimRelease,
     GiveBack, Forgets
  <2> QED
     BY <1>30, <2>1, <2>2
<1>31. CASE UNCHANGED poolVars
  BY <1>31, PoolKinds DEF poolVars
<1> QED
   BY <1>1, <1>2, <1>3, <1>4, <1>5, <1>6, <1>7, <1>8, <1>9, <1>10, <1>11, <1>12,
     <1>13, <1>14, <1>15, <1>16, <1>17, <1>18, <1>19, <1>20, <1>21, <1>22, <1>23,
     <1>24, <1>25, <1>26, <1>27, <1>28, <1>29, <1>30, <1>31 DEF PoolNext, Others,
     Reclaim

LEMMA PoolDirtKept ==
  ASSUME PoolCore, [PoolNext]_poolVars
  PROVE  DirtIsKnown'
<1> USE DEF PoolCore, PoolTables, PoolDoing, Actor, Rebuilder, Reclaimer, simVars, markVars, envVars, PoolControl, PlaceOf, OneTaker, Holds, DirtIsKnown
<1>1. ASSUME GuardBoot
      PROVE  DirtIsKnown'
  <2>1. \A b \in Actor : \/ doing'[b] = doing[b]
                         \/ b = "boot" /\ doing'[b] = "queued"
                         \/ b = "guard" /\ doing'[b] = "marking"
    BY <1>1, GuardMoves
  <2>2. \A b \in Actor \ {"boot", "guard"} : doing'[b] = doing[b]
    BY <2>1
  <2>3. UNCHANGED <<holder, took, oldData, unclean>>
    BY <1>1 DEF GuardBoot
  <2> QED
    BY <2>2, <2>3 DEF DirtIsKnown, Actor, Rebuilder, Reclaimer
<1>2. ASSUME GuardMarks
      PROVE  DirtIsKnown'
   BY <1>2, PoolKinds DEF GuardMarks, Goes
<1>3. ASSUME BootIssue
      PROVE  DirtIsKnown'
   BY <1>3, PoolKinds DEF BootIssue, Goes
<1>4. ASSUME BootRefused
      PROVE  DirtIsKnown'
   BY <1>4, PoolKinds DEF BootRefused, Goes
<1>5. ASSUME BootEnds
      PROVE  DirtIsKnown'
   BY <1>5, PoolKinds DEF BootEnds, Goes
<1>6. ASSUME ClientShutdown
      PROVE  DirtIsKnown'
   BY <1>6, PoolKinds DEF ClientShutdown, ShutOff, Forgets
<1>7. ASSUME GrantLease
      PROVE  DirtIsKnown'
   BY <1>7, PoolKinds DEF GrantLease
<1>8. ASSUME LeaseEnds
      PROVE  DirtIsKnown'
   BY <1>8, PoolKinds DEF LeaseEnds, Noticed
<1>9. ASSUME LeaseResets
      PROVE  DirtIsKnown'
   BY <1>9, PoolKinds DEF LeaseResets, Noticed
<1>10. ASSUME AddStarts
      PROVE  DirtIsKnown'
   BY <1>10, PoolKinds DEF AddStarts, Goes, Take
<1>11. ASSUME AddFails
      PROVE  DirtIsKnown'
   BY <1>11, PoolKinds DEF AddFails, Goes, GiveBack
<1>12. ASSUME WatchdogTakes
      PROVE  DirtIsKnown'
   BY <1>12, PoolKinds, ZenonT(40) DEF WatchdogTakes, Goes, Take, Idling, Rebuildable, Busy
<1>13. ASSUME RebuildWaits
      PROVE  DirtIsKnown'
   BY <1>13, PoolKinds DEF RebuildWaits, Longer, Rebuildable, Idling, Busy
<1>14. ASSUME WatchdogParks
      PROVE  DirtIsKnown'
   BY <1>14, PoolKinds DEF WatchdogParks, Idling, Busy
<1>15. ASSUME SweepMarks
      PROVE  DirtIsKnown'
   BY <1>15, PoolKinds DEF SweepMarks, InUseNow, Busy
<1>16. ASSUME OnLeaseEnd
      PROVE  DirtIsKnown'
   BY <1>16, PoolKinds DEF OnLeaseEnd, Goes
<1>17. ASSUME ReapMarks
      PROVE  DirtIsKnown'
   BY <1>17, PoolKinds DEF ReapMarks, PoolAbandoned, InUseNow, Unmanaged, Busy
<1>18. ASSUME ReapHolds
      PROVE  DirtIsKnown'
   BY <1>18, PoolKinds DEF ReapHolds, Goes, Take, PoolAbandoned, InUseNow, Unmanaged,
     Busy
<1>19. ASSUME HostStep
      PROVE  DirtIsKnown'
  <2>1. CASE UNCHANGED <<holder, took, oldData, unclean, markVars, envVars, doing>>
     BY <1>19, <2>1, PoolKinds DEF HostStep
  <2>2. CASE UNCHANGED <<simVars, markVars, configured, fleetLock, doing, byClient>>
     BY <1>19, <2>2, PoolKinds DEF HostStep
  <2>3. CASE UNCHANGED <<simVars, markVars, configured, used, doing, byClient>>
     BY <1>19, <2>3, PoolKinds DEF HostStep
  <2>4. CASE /\ awake' = FALSE
             /\ UNCHANGED <<simVars, member, ours, isDown, idleMark, staleMark, backoff, envVars,
                            doing, byClient>>
     BY <1>19, <2>4, PoolKinds DEF HostStep
  <2> QED
     BY <1>19, <2>1, <2>2, <2>3, <2>4 DEF HostStep
<1>20. ASSUME NEW ok \in BOOLEAN, ResetWipes(ok)
      PROVE  DirtIsKnown'
   BY <1>20, PoolKinds, ZenonT(40) DEF ResetWipes, Goes, GiveBack, Wiped
<1>21. ASSUME NEW ok \in BOOLEAN, ResetRebuilds(ok)
      PROVE  DirtIsKnown'
   BY <1>21, PoolKinds DEF ResetRebuilds, Goes, GiveBack, Rejoins
<1>22. ASSUME NEW ok \in BOOLEAN, AddWipes(ok)
      PROVE  DirtIsKnown'
   BY <1>22, PoolKinds, ZenonT(40) DEF AddWipes, Goes, GiveBack, Wiped
<1>23. ASSUME NEW ok \in BOOLEAN, Add(ok)
      PROVE  DirtIsKnown'
   BY <1>23, PoolKinds DEF Add, Goes, GiveBack
<1>24. ASSUME NEW ok \in BOOLEAN, ReapStops(ok)
      PROVE  DirtIsKnown'
   BY <1>24, PoolKinds DEF ReapStops, Goes, ShutOff, ReclaimRelease, GiveBack, Forgets
<1>25. ASSUME NEW ok \in BOOLEAN, NEW a \in Rebuilder, WatchdogWipes(a, ok)
      PROVE  DirtIsKnown'
   BY <1>25, PoolKinds, ZenonT(40) DEF WatchdogWipes, Goes, GiveBack, Wiped, Defers, Longer
<1>26. ASSUME NEW ok \in BOOLEAN, NEW a \in Rebuilder, WatchdogRebuilds(a, ok)
      PROVE  DirtIsKnown'
   BY <1>26, PoolKinds DEF WatchdogRebuilds, Goes, Rejoins, Defers, NoBackoff, Longer
<1>27. ASSUME NEW a \in Reclaimer, ReclaimLooks(a)
      PROVE  DirtIsKnown'
   BY <1>27, PoolKinds DEF ReclaimLooks, Goes, InUseNow, Busy
<1>28. ASSUME NEW a \in Reclaimer, ReclaimForgets(a)
      PROVE  DirtIsKnown'
   BY <1>28, PoolKinds DEF ReclaimForgets, Goes, Forgets
<1>29. ASSUME NEW a \in Reclaimer, ReclaimHolds(a)
      PROVE  DirtIsKnown'
  <2>1. CASE Take /\ Goes(a, "stopping")
    <3>1. /\ holder' = "held" /\ (~ took' => holder = "free") /\ UNCHANGED <<oldData, unclean>>
          /\ doing' = [doing EXCEPT ![a] = "stopping"]
          /\ \A b \in Actor : ~ Holds(b)
      BY <1>29, <2>1 DEF ReclaimHolds, Take, Goes, OneTaker
    <3> QED
      BY <3>1, PoolKinds DEF DirtIsKnown, PoolTables, PoolDoing, Holds, Actor, Rebuilder, Reclaimer
  <2>2. CASE Goes(a, "idle") /\ UNCHANGED <<holder, took>>
    <3>1. doing' = [doing EXCEPT ![a] = "idle"] /\ UNCHANGED <<holder, took, oldData, unclean>>
      BY <1>29, <2>2 DEF ReclaimHolds, Goes
    <3> QED
      BY <3>1, PoolKinds DEF DirtIsKnown, PoolTables, PoolDoing, Actor, Rebuilder, Reclaimer
  <2> QED
    BY <1>29, <2>1, <2>2 DEF ReclaimHolds
<1>30. ASSUME NEW ok \in BOOLEAN, NEW a \in Reclaimer, ReclaimStops(a, ok)
      PROVE  DirtIsKnown'
   BY <1>30, PoolKinds DEF ReclaimStops, Goes, ShutOff, ReclaimRelease, GiveBack,
     Forgets
<1>31. CASE UNCHANGED poolVars
  BY <1>31, PoolKinds DEF poolVars
<1> QED
   BY <1>1, <1>2, <1>3, <1>4, <1>5, <1>6, <1>7, <1>8, <1>9, <1>10, <1>11, <1>12,
     <1>13, <1>14, <1>15, <1>16, <1>17, <1>18, <1>19, <1>20, <1>21, <1>22, <1>23,
     <1>24, <1>25, <1>26, <1>27, <1>28, <1>29, <1>30, <1>31 DEF PoolNext, Others,
     Reclaim

LEMMA PoolBootsKept ==
  ASSUME ~ SlowChecks, PoolInv, [PoolNext]_poolVars
  PROVE  BootsOwned'
<1> USE DEF PoolInv, PoolCore, PoolTables, PoolDoing, Actor, Rebuilder, Reclaimer, simVars, markVars, envVars, PoolControl, PlaceOf, BootsOwned, Looked
<1>1. ASSUME ~ Looked, GuardBoot
      PROVE  BootsOwned'
   BY <1>1, PoolKinds, ZenonT(40) DEF GuardBoot
<1>2. ASSUME ~ Looked, GuardMarks
      PROVE  BootsOwned'
   BY <1>2, PoolKinds DEF GuardMarks, Goes
<1>3. ASSUME ~ Looked, BootIssue
      PROVE  BootsOwned'
   BY <1>3, PoolKinds DEF BootIssue, Goes
<1>4. ASSUME ~ Looked, BootRefused
      PROVE  BootsOwned'
   BY <1>4, PoolKinds DEF BootRefused, Goes
<1>5. ASSUME ~ Looked, BootEnds
      PROVE  BootsOwned'
   BY <1>5, PoolKinds DEF BootEnds, Goes
<1>6. ASSUME ~ Looked, ClientShutdown
      PROVE  BootsOwned'
   BY <1>6, PoolKinds DEF ClientShutdown, ShutOff, Forgets
<1>7. ASSUME ~ Looked, GrantLease
      PROVE  BootsOwned'
   BY <1>7, PoolKinds DEF GrantLease
<1>8. ASSUME ~ Looked, LeaseEnds
      PROVE  BootsOwned'
   BY <1>8, PoolKinds DEF LeaseEnds, Noticed
<1>9. ASSUME ~ Looked, LeaseResets
      PROVE  BootsOwned'
   BY <1>9, PoolKinds DEF LeaseResets, Noticed
<1>10. ASSUME ~ Looked, AddStarts
      PROVE  BootsOwned'
   BY <1>10, PoolKinds DEF AddStarts, Goes, Take
<1>11. ASSUME ~ Looked, AddFails
      PROVE  BootsOwned'
   BY <1>11, PoolKinds DEF AddFails, Goes, GiveBack
<1>12. ASSUME ~ Looked, WatchdogTakes
      PROVE  BootsOwned'
   BY <1>12, PoolKinds, ZenonT(40) DEF WatchdogTakes, Goes, Take, Idling, Rebuildable, Busy
<1>13. ASSUME ~ Looked, RebuildWaits
      PROVE  BootsOwned'
   BY <1>13, PoolKinds DEF RebuildWaits, Longer, Rebuildable, Idling, Busy
<1>14. ASSUME ~ Looked, WatchdogParks
      PROVE  BootsOwned'
   BY <1>14, PoolKinds DEF WatchdogParks, Idling, Busy
<1>15. ASSUME ~ Looked, SweepMarks
      PROVE  BootsOwned'
   BY <1>15, PoolKinds DEF SweepMarks, InUseNow, Busy
<1>16. ASSUME ~ Looked, OnLeaseEnd
      PROVE  BootsOwned'
   BY <1>16, PoolKinds DEF OnLeaseEnd, Goes
<1>17. ASSUME ~ Looked, ReapMarks
      PROVE  BootsOwned'
   BY <1>17, PoolKinds DEF ReapMarks, PoolAbandoned, InUseNow, Unmanaged, Busy
<1>18. ASSUME ~ Looked, ReapHolds
      PROVE  BootsOwned'
   BY <1>18, PoolKinds DEF ReapHolds, Goes, Take, PoolAbandoned, InUseNow, Unmanaged,
     Busy
<1>19. ASSUME ~ Looked, HostStep
      PROVE  BootsOwned'
  <2>1. UNCHANGED <<member, ours, doing>>
    BY <1>19 DEF HostStep
  <2>2. byClient' => byClient /\ (up' = up \/ up' = "on")
    BY <1>19 DEF HostStep
  <2>3. \A a \in Reclaimer : doing'[a] # "saw off"
    BY <1>19, <2>1 DEF Looked
  <2> QED
    BY <2>1, <2>2, <2>3 DEF BootsOwned
<1>20. ASSUME ~ Looked, NEW ok \in BOOLEAN, ResetWipes(ok)
      PROVE  BootsOwned'
   BY <1>20, PoolKinds, ZenonT(40) DEF ResetWipes, Goes, GiveBack, Wiped
<1>21. ASSUME ~ Looked, NEW ok \in BOOLEAN, ResetRebuilds(ok)
      PROVE  BootsOwned'
   BY <1>21, PoolKinds DEF ResetRebuilds, Goes, GiveBack, Rejoins
<1>22. ASSUME ~ Looked, NEW ok \in BOOLEAN, AddWipes(ok)
      PROVE  BootsOwned'
   BY <1>22, PoolKinds, ZenonT(40) DEF AddWipes, Goes, GiveBack, Wiped
<1>23. ASSUME ~ Looked, NEW ok \in BOOLEAN, Add(ok)
      PROVE  BootsOwned'
   BY <1>23, PoolKinds DEF Add, Goes, GiveBack
<1>24. ASSUME ~ Looked, NEW ok \in BOOLEAN, ReapStops(ok)
      PROVE  BootsOwned'
   BY <1>24, PoolKinds DEF ReapStops, Goes, ShutOff, ReclaimRelease, GiveBack, Forgets
<1>25. ASSUME ~ Looked, NEW ok \in BOOLEAN, NEW a \in Rebuilder, WatchdogWipes(a, ok)
      PROVE  BootsOwned'
   BY <1>25, PoolKinds, ZenonT(40) DEF WatchdogWipes, Goes, GiveBack, Wiped, Defers, Longer
<1>26. ASSUME ~ Looked, NEW ok \in BOOLEAN, NEW a \in Rebuilder, WatchdogRebuilds(a, ok)
      PROVE  BootsOwned'
   BY <1>26, PoolKinds DEF WatchdogRebuilds, Goes, Rejoins, Defers, NoBackoff, Longer
<1>27. ASSUME NEW a \in Reclaimer, ReclaimLooks(a)
      PROVE  BootsOwned'
   BY <1>27, PoolKinds DEF ReclaimLooks, Goes, InUseNow, Busy
<1>28. ASSUME NEW a \in Reclaimer, ReclaimForgets(a)
      PROVE  BootsOwned'
   BY <1>28, PoolKinds DEF ReclaimForgets, Goes, Forgets
<1>29. ASSUME NEW a \in Reclaimer, ReclaimHolds(a)
      PROVE  BootsOwned'
  <2>1. UNCHANGED <<up, byClient, member, ours>> /\ \E y \in {"idle", "stopping"} : doing' = [doing EXCEPT ![a] = y]
    BY <1>29 DEF ReclaimHolds, Goes
  <2> QED
    BY <2>1, PoolKinds DEF BootsOwned, PoolTables, PoolDoing
<1>30. ASSUME NEW ok \in BOOLEAN, NEW a \in Reclaimer, ReclaimStops(a, ok)
      PROVE  BootsOwned'
   BY <1>30, PoolKinds DEF ReclaimStops, Goes, ShutOff, ReclaimRelease, GiveBack,
     Forgets
<1>31. CASE UNCHANGED poolVars
  BY <1>31, PoolKinds DEF poolVars
<1> QED
   BY <1>1, <1>2, <1>3, <1>4, <1>5, <1>6, <1>7, <1>8, <1>9, <1>10, <1>11, <1>12,
     <1>13, <1>14, <1>15, <1>16, <1>17, <1>18, <1>19, <1>20, <1>21, <1>22, <1>23,
     <1>24, <1>25, <1>26, <1>27, <1>28, <1>29, <1>30, <1>31 DEF PoolNext, Others,
     Reclaim

LEMMA PoolCoreStep ==
  ASSUME PoolCore, [PoolNext]_poolVars
  PROVE  PoolCore'
<1>1. PoolTypeOK'
  BY PoolKinds, PoolPlacesKept, PoolFlagsKept, PoolTablesKept
  DEF PoolTypeOK, PoolPlaces, PoolFlags, PoolTables, PoolDoing
<1> QED
  BY <1>1, PoolControlKept, PoolTakerKept, PoolDirtKept DEF PoolCore

LEMMA PoolStep ==
  ASSUME ~ SlowChecks, PoolInv, [PoolNext]_poolVars
  PROVE  PoolInv'
  BY PoolCoreStep, PoolBootsKept DEF PoolInv

LEMMA PoolHolds == (PoolCore => PoolCleanGrants) /\ (PoolInv => PoolSafe)
  BY DEF PoolInv, PoolCore, DirtIsKnown, BootsOwned, PoolSafe, PoolCleanGrants, PoolBootsOwned

-----------------------------------------------------------------------------
(* The types of Boots, the requests' first.                                *)
RequestRec == [at: {"none", "queued", "slot", "gated", "waiting"},
               sim: BootSim \cup {NoSim}, sync: BOOLEAN]
BootTables ==
  /\ simState \in [BootSim -> {"off", "coming", "on", "parked"}]
  /\ bootErr \in [BootSim -> BOOLEAN] /\ promised \in [BootSim -> BOOLEAN]
BootHost == strained \in BOOLEAN /\ cached \in {"old", "low", "full"} /\ ungated \subseteq BootSim

LEMMA BootKinds ==
  BootTypeOK <=> BootTables /\ BootHost /\ request \in [Request -> RequestRec]
  BY DEF BootTypeOK, BootTables, BootHost, RequestRec

LEMMA BootStarts == BootInit => BootInv
<1> SUFFICES ASSUME BootInit PROVE BootInv
  OBVIOUS
<1> USE BootAssumption DEF BootInit
<1>1. BootTypeOK
  BY BootKinds DEF BootTables, BootHost, RequestRec, NoRequest, Running
<1>2. BootRequests /\ ComingIsWaitedFor /\ BootFailuresTold
  BY DEF BootRequests, ComingIsWaitedFor, BootFailuresTold, Running
<1>3. Holders = {} /\ Claimed = {}
  BY DEF Holders, Claimed, Gated, NoRequest, Running
<1>4. SlotsHeld /\ ClaimsFit
  BY <1>3, FS_EmptySet DEF SlotsHeld, ClaimsFit
<1> QED
  BY <1>1, <1>2, <1>4 DEF BootInv

(* A request that is under way has a simulator. *)
LEMMA UnderWay ==
  ASSUME BootInv, NEW q \in Request
  PROVE  /\ request[q] \in RequestRec
         /\ request[q].at # "none" => request[q].sim \in BootSim
  BY BootKinds DEF BootInv, BootRequests, NoRequest, RequestRec

(* How a request's steps change the table of requests. *)
LEMMA RequestAt ==
  ASSUME BootInv, NEW q \in Request,
         NEW where \in {"queued", "slot", "gated", "waiting"}, At(q, where)
  PROVE  /\ request' \in [Request -> RequestRec]
         /\ request'[q].at = where /\ request'[q].sim = request[q].sim
         /\ request'[q].sync = request[q].sync
         /\ \A p \in Request : p # q => request'[p] = request[p]
  BY BootKinds DEF BootInv, At, RequestRec

LEMMA RequestSet ==
  ASSUME BootInv, NEW q \in Request, NEW r \in RequestRec,
         request' = [request EXCEPT ![q] = r]
  PROVE  /\ request' \in [Request -> RequestRec] /\ request'[q] = r
         /\ \A p \in Request : p # q => request'[p] = request[p]
  BY BootKinds DEF BootInv

LEMMA NoRequestIsOne == NoRequest \in RequestRec
  BY DEF NoRequest, RequestRec

LEMMA RequestBegun ==
  ASSUME BootInv, NEW q \in Request, NEW s \in BootSim, BootAsync(q, s) \/ BootGated(q, s)
  PROVE  /\ request[q] = NoRequest /\ request'[q].at = "queued" /\ request'[q].sim = s
         /\ request'[q].sync \in BOOLEAN /\ (BootAsync(q, s) => ~ request'[q].sync)
         /\ \A p \in Request : p # q => request'[p] = request[p]
         /\ request' \in [Request -> RequestRec] /\ UNCHANGED <<simState, ungated>>
<1>1. PICK sync \in BOOLEAN :
        /\ request' = [request EXCEPT ![q] = [at |-> "queued", sim |-> s, sync |-> sync]]
        /\ BootAsync(q, s) => sync = FALSE
  BY DEF BootAsync, BootGated
<1>2. [at |-> "queued", sim |-> s, sync |-> sync] \in RequestRec
  BY DEF RequestRec
<1>3. request[q] = NoRequest /\ UNCHANGED <<simState, ungated>>
  BY DEF BootAsync, BootGated
<1> QED
  BY <1>1, <1>2, <1>3, RequestSet

LEMMA BootTablesKept ==
  ASSUME BootInv, [BootNext]_bootVars
  PROVE  BootTables'
<1> USE DEF BootInv, BootTables
<1>1. ASSUME NEW s \in BootSim, ThawParked(s)
      PROVE  BootTables'
   BY <1>1, BootKinds, UnderWay DEF ThawParked, SeenUp
<1>2. ASSUME NEW s \in BootSim, AlreadyUp(s)
      PROVE  BootTables'
   BY <1>2, BootKinds, UnderWay DEF AlreadyUp, SeenUp
<1>3. ASSUME NEW s \in BootSim, TellFailure(s)
      PROVE  BootTables'
   BY <1>3, BootKinds, UnderWay DEF TellFailure, SeenUp
<1>4. ASSUME NEW s \in BootSim, GateRefused(s)
      PROVE  BootTables'
   BY <1>4, BootKinds, UnderWay DEF GateRefused
<1>5. ASSUME NEW s \in BootSim, ComesUp(s)
      PROVE  BootTables'
   BY <1>5, BootKinds, UnderWay DEF ComesUp
<1>6. ASSUME NEW s \in BootSim, ForeignBoot(s)
      PROVE  BootTables'
   BY <1>6, BootKinds, UnderWay DEF ForeignBoot
<1>7. ASSUME NEW s \in BootSim, GoesDown(s)
      PROVE  BootTables'
   BY <1>7, BootKinds, UnderWay DEF GoesDown
<1>8. ASSUME NEW s \in BootSim, GoesParked(s)
      PROVE  BootTables'
   BY <1>8, BootKinds, UnderWay DEF GoesParked
<1>9. ASSUME NEW s \in BootSim, ThawForGrant(s)
      PROVE  BootTables'
   BY <1>9, BootKinds, UnderWay DEF ThawForGrant
<1>10. ASSUME NEW s \in BootSim, NEW q \in Request, BootAsync(q, s)
      PROVE  BootTables'
   BY <1>10, BootKinds, UnderWay DEF BootAsync
<1>11. ASSUME NEW s \in BootSim, NEW q \in Request, BootGated(q, s)
      PROVE  BootTables'
   BY <1>11, BootKinds, UnderWay DEF BootGated
<1>12. ASSUME NEW q \in Request, TakeSlot(q)
      PROVE  BootTables'
   BY <1>12, BootKinds, UnderWay DEF TakeSlot
<1>13. ASSUME NEW q \in Request, NoSlotInTime(q)
      PROVE  BootTables'
   BY <1>13, BootKinds, UnderWay DEF NoSlotInTime, Failed
<1>14. ASSUME NEW q \in Request, FoundUp(q)
      PROVE  BootTables'
   BY <1>14, BootKinds, UnderWay DEF FoundUp, SeenUp
<1>15. ASSUME NEW q \in Request, Recheck(q)
      PROVE  BootTables'
   BY <1>15, BootKinds, UnderWay DEF Recheck, MustBoot
<1>16. ASSUME NEW q \in Request, RecheckRefused(q)
      PROVE  BootTables'
   BY <1>16, BootKinds, UnderWay DEF RecheckRefused, Failed, MustBoot
<1>17. ASSUME NEW q \in Request, Issue(q)
      PROVE  BootTables'
   BY <1>17, BootKinds, UnderWay DEF Issue
<1>18. ASSUME NEW q \in Request, IssueFails(q)
      PROVE  BootTables'
   BY <1>18, BootKinds, UnderWay DEF IssueFails, Failed
<1>19. ASSUME NEW q \in Request, Booted(q)
      PROVE  BootTables'
   BY <1>19, BootKinds, UnderWay DEF Booted, SeenUp
<1>20. ASSUME NEW q \in Request, GiveUp(q)
      PROVE  BootTables'
   BY <1>20, BootKinds, UnderWay DEF GiveUp, Failed
<1>21. ASSUME HostChanges
      PROVE  BootTables'
   BY <1>21, BootKinds, UnderWay DEF HostChanges
<1>22. CASE UNCHANGED bootVars
  BY <1>22, BootKinds, UnderWay DEF bootVars
<1> QED
   BY <1>1, <1>2, <1>3, <1>4, <1>5, <1>6, <1>7, <1>8, <1>9, <1>10, <1>11, <1>12,
     <1>13, <1>14, <1>15, <1>16, <1>17, <1>18, <1>19, <1>20, <1>21, <1>22 DEF
     BootNext, BootWaited

LEMMA BootHostKept ==
  ASSUME BootInv, [BootNext]_bootVars
  PROVE  BootHost'
<1> USE DEF BootInv, BootHost
<1>1. ASSUME NEW s \in BootSim, ThawParked(s)
      PROVE  BootHost'
   BY <1>1, BootKinds, UnderWay DEF ThawParked
<1>2. ASSUME NEW s \in BootSim, AlreadyUp(s)
      PROVE  BootHost'
   BY <1>2, BootKinds, UnderWay DEF AlreadyUp
<1>3. ASSUME NEW s \in BootSim, TellFailure(s)
      PROVE  BootHost'
   BY <1>3, BootKinds, UnderWay DEF TellFailure
<1>4. ASSUME NEW s \in BootSim, GateRefused(s)
      PROVE  BootHost'
   BY <1>4, BootKinds, UnderWay DEF GateRefused, Counted
<1>5. ASSUME NEW s \in BootSim, ComesUp(s)
      PROVE  BootHost'
   BY <1>5, BootKinds, UnderWay DEF ComesUp
<1>6. ASSUME NEW s \in BootSim, ForeignBoot(s)
      PROVE  BootHost'
   BY <1>6, BootKinds, UnderWay DEF ForeignBoot
<1>7. ASSUME NEW s \in BootSim, GoesDown(s)
      PROVE  BootHost'
   BY <1>7, BootKinds, UnderWay DEF GoesDown
<1>8. ASSUME NEW s \in BootSim, GoesParked(s)
      PROVE  BootHost'
   BY <1>8, BootKinds, UnderWay DEF GoesParked
<1>9. ASSUME NEW s \in BootSim, ThawForGrant(s)
      PROVE  BootHost'
   BY <1>9, BootKinds, UnderWay DEF ThawForGrant
<1>10. ASSUME NEW s \in BootSim, NEW q \in Request, BootAsync(q, s)
      PROVE  BootHost'
   BY <1>10, BootKinds, UnderWay DEF BootAsync, Counted
<1>11. ASSUME NEW s \in BootSim, NEW q \in Request, BootGated(q, s)
      PROVE  BootHost'
   BY <1>11, BootKinds, UnderWay DEF BootGated
<1>12. ASSUME NEW q \in Request, TakeSlot(q)
      PROVE  BootHost'
   BY <1>12, BootKinds, UnderWay DEF TakeSlot
<1>13. ASSUME NEW q \in Request, NoSlotInTime(q)
      PROVE  BootHost'
   BY <1>13, BootKinds, UnderWay DEF NoSlotInTime
<1>14. ASSUME NEW q \in Request, FoundUp(q)
      PROVE  BootHost'
   BY <1>14, BootKinds, UnderWay DEF FoundUp
<1>15. ASSUME NEW q \in Request, Recheck(q)
      PROVE  BootHost'
   BY <1>15, BootKinds, UnderWay DEF Recheck, Counted, MustBoot
<1>16. ASSUME NEW q \in Request, RecheckRefused(q)
      PROVE  BootHost'
   BY <1>16, BootKinds, UnderWay DEF RecheckRefused, Counted, MustBoot
<1>17. ASSUME NEW q \in Request, Issue(q)
      PROVE  BootHost'
   BY <1>17, BootKinds, UnderWay DEF Issue
<1>18. ASSUME NEW q \in Request, IssueFails(q)
      PROVE  BootHost'
   BY <1>18, BootKinds, UnderWay DEF IssueFails
<1>19. ASSUME NEW q \in Request, Booted(q)
      PROVE  BootHost'
   BY <1>19, BootKinds, UnderWay DEF Booted
<1>20. ASSUME NEW q \in Request, GiveUp(q)
      PROVE  BootHost'
   BY <1>20, BootKinds, UnderWay DEF GiveUp
<1>21. ASSUME HostChanges
      PROVE  BootHost'
   BY <1>21, BootKinds, UnderWay DEF HostChanges
<1>22. CASE UNCHANGED bootVars
  BY <1>22, BootKinds, UnderWay DEF bootVars
<1> QED
   BY <1>1, <1>2, <1>3, <1>4, <1>5, <1>6, <1>7, <1>8, <1>9, <1>10, <1>11, <1>12,
     <1>13, <1>14, <1>15, <1>16, <1>17, <1>18, <1>19, <1>20, <1>21, <1>22 DEF
     BootNext, BootWaited

LEMMA RequestsKept ==
  ASSUME BootInv, [BootNext]_bootVars
  PROVE  request' \in [Request -> RequestRec] /\ BootRequests'
<1> USE DEF BootInv, BootRequests
<1>1. ASSUME NEW s \in BootSim, ThawParked(s)
      PROVE  request' \in [Request -> RequestRec] /\ BootRequests'
   BY <1>1, BootKinds, RequestAt, RequestSet, NoRequestIsOne, UnderWay DEF ThawParked
<1>2. ASSUME NEW s \in BootSim, AlreadyUp(s)
      PROVE  request' \in [Request -> RequestRec] /\ BootRequests'
   BY <1>2, BootKinds, RequestAt, RequestSet, NoRequestIsOne, UnderWay DEF AlreadyUp
<1>3. ASSUME NEW s \in BootSim, TellFailure(s)
      PROVE  request' \in [Request -> RequestRec] /\ BootRequests'
   BY <1>3, BootKinds, RequestAt, RequestSet, NoRequestIsOne, UnderWay DEF TellFailure
<1>4. ASSUME NEW s \in BootSim, GateRefused(s)
      PROVE  request' \in [Request -> RequestRec] /\ BootRequests'
   BY <1>4, BootKinds, RequestAt, RequestSet, NoRequestIsOne, UnderWay DEF GateRefused
<1>5. ASSUME NEW s \in BootSim, ComesUp(s)
      PROVE  request' \in [Request -> RequestRec] /\ BootRequests'
   BY <1>5, BootKinds, RequestAt, RequestSet, NoRequestIsOne, UnderWay DEF ComesUp
<1>6. ASSUME NEW s \in BootSim, ForeignBoot(s)
      PROVE  request' \in [Request -> RequestRec] /\ BootRequests'
   BY <1>6, BootKinds, RequestAt, RequestSet, NoRequestIsOne, UnderWay DEF ForeignBoot
<1>7. ASSUME NEW s \in BootSim, GoesDown(s)
      PROVE  request' \in [Request -> RequestRec] /\ BootRequests'
   BY <1>7, BootKinds, RequestAt, RequestSet, NoRequestIsOne, UnderWay DEF GoesDown
<1>8. ASSUME NEW s \in BootSim, GoesParked(s)
      PROVE  request' \in [Request -> RequestRec] /\ BootRequests'
   BY <1>8, BootKinds, RequestAt, RequestSet, NoRequestIsOne, UnderWay DEF GoesParked
<1>9. ASSUME NEW s \in BootSim, ThawForGrant(s)
      PROVE  request' \in [Request -> RequestRec] /\ BootRequests'
   BY <1>9, BootKinds, RequestAt, RequestSet, NoRequestIsOne, UnderWay DEF
     ThawForGrant
<1>10. ASSUME NEW s \in BootSim, NEW q \in Request, BootAsync(q, s)
      PROVE  request' \in [Request -> RequestRec] /\ BootRequests'
  BY <1>10, RequestBegun
<1>11. ASSUME NEW s \in BootSim, NEW q \in Request, BootGated(q, s)
      PROVE  request' \in [Request -> RequestRec] /\ BootRequests'
  BY <1>11, RequestBegun
<1>12. ASSUME NEW q \in Request, TakeSlot(q)
      PROVE  request' \in [Request -> RequestRec] /\ BootRequests'
   BY <1>12, BootKinds, RequestAt, RequestSet, NoRequestIsOne, UnderWay DEF TakeSlot
<1>13. ASSUME NEW q \in Request, NoSlotInTime(q)
      PROVE  request' \in [Request -> RequestRec] /\ BootRequests'
   BY <1>13, BootKinds, RequestAt, RequestSet, NoRequestIsOne, UnderWay DEF
     NoSlotInTime, Failed, Finished
<1>14. ASSUME NEW q \in Request, FoundUp(q)
      PROVE  request' \in [Request -> RequestRec] /\ BootRequests'
   BY <1>14, BootKinds, RequestAt, RequestSet, NoRequestIsOne, UnderWay DEF FoundUp,
     Finished
<1>15. ASSUME NEW q \in Request, Recheck(q)
      PROVE  request' \in [Request -> RequestRec] /\ BootRequests'
   BY <1>15, BootKinds, RequestAt, RequestSet, NoRequestIsOne, UnderWay DEF Recheck,
     MustBoot
<1>16. ASSUME NEW q \in Request, RecheckRefused(q)
      PROVE  request' \in [Request -> RequestRec] /\ BootRequests'
   BY <1>16, BootKinds, RequestAt, RequestSet, NoRequestIsOne, UnderWay DEF
     RecheckRefused, Failed, MustBoot, Finished
<1>17. ASSUME NEW q \in Request, Issue(q)
      PROVE  request' \in [Request -> RequestRec] /\ BootRequests'
   BY <1>17, BootKinds, RequestAt, RequestSet, NoRequestIsOne, UnderWay DEF Issue
<1>18. ASSUME NEW q \in Request, IssueFails(q)
      PROVE  request' \in [Request -> RequestRec] /\ BootRequests'
   BY <1>18, BootKinds, RequestAt, RequestSet, NoRequestIsOne, UnderWay DEF
     IssueFails, Failed, Finished
<1>19. ASSUME NEW q \in Request, Booted(q)
      PROVE  request' \in [Request -> RequestRec] /\ BootRequests'
   BY <1>19, BootKinds, RequestAt, RequestSet, NoRequestIsOne, UnderWay DEF Booted,
     Finished
<1>20. ASSUME NEW q \in Request, GiveUp(q)
      PROVE  request' \in [Request -> RequestRec] /\ BootRequests'
   BY <1>20, BootKinds, RequestAt, RequestSet, NoRequestIsOne, UnderWay DEF GiveUp,
     Failed, Finished
<1>21. ASSUME HostChanges
      PROVE  request' \in [Request -> RequestRec] /\ BootRequests'
   BY <1>21, BootKinds, RequestAt, RequestSet, NoRequestIsOne, UnderWay DEF
     HostChanges
<1>22. CASE UNCHANGED bootVars
  BY <1>22, BootKinds, RequestAt, RequestSet, NoRequestIsOne, UnderWay DEF bootVars
<1> QED
   BY <1>1, <1>2, <1>3, <1>4, <1>5, <1>6, <1>7, <1>8, <1>9, <1>10, <1>11, <1>12,
     <1>13, <1>14, <1>15, <1>16, <1>17, <1>18, <1>19, <1>20, <1>21, <1>22 DEF
     BootNext, BootWaited

(* A request table in which q alone changed, with the same simulator or gone. *)
LEMMA OthersWait ==
  ASSUME BootInv, NEW q \in Request, NEW s \in BootSim,
         \A p \in Request : p # q => request'[p] = request[p],
         simState[s] = "coming", s \notin ungated, request[q].sim # s \/ request[q].at # "waiting"
  PROVE  \E p \in Request : request'[p].at = "waiting" /\ request'[p].sim = s
  BY DEF BootInv, ComingIsWaitedFor

LEMMA ComingKept ==
  ASSUME BootInv, [BootNext]_bootVars
  PROVE  ComingIsWaitedFor'
<1> USE DEF BootInv, ComingIsWaitedFor, BootTables, BootHost
<1>1. ASSUME NEW s \in BootSim, ThawParked(s)
      PROVE  ComingIsWaitedFor'
   BY <1>1, BootKinds, RequestAt, RequestSet, NoRequestIsOne, UnderWay, OthersWait,
     BootHostKept DEF ThawParked
<1>2. ASSUME NEW s \in BootSim, AlreadyUp(s)
      PROVE  ComingIsWaitedFor'
   BY <1>2, BootKinds, RequestAt, RequestSet, NoRequestIsOne, UnderWay, OthersWait,
     BootHostKept DEF AlreadyUp
<1>3. ASSUME NEW s \in BootSim, TellFailure(s)
      PROVE  ComingIsWaitedFor'
   BY <1>3, BootKinds, RequestAt, RequestSet, NoRequestIsOne, UnderWay, OthersWait,
     BootHostKept DEF TellFailure
<1>4. ASSUME NEW s \in BootSim, GateRefused(s)
      PROVE  ComingIsWaitedFor'
   BY <1>4, BootKinds, RequestAt, RequestSet, NoRequestIsOne, UnderWay, OthersWait,
     BootHostKept DEF GateRefused
<1>5. ASSUME NEW s \in BootSim, ComesUp(s)
      PROVE  ComingIsWaitedFor'
   BY <1>5, BootKinds, RequestAt, RequestSet, NoRequestIsOne, UnderWay, OthersWait,
     BootHostKept DEF ComesUp
<1>6. ASSUME NEW s \in BootSim, ForeignBoot(s)
      PROVE  ComingIsWaitedFor'
   BY <1>6, BootKinds, RequestAt, RequestSet, NoRequestIsOne, UnderWay, OthersWait,
     BootHostKept DEF ForeignBoot
<1>7. ASSUME NEW s \in BootSim, GoesDown(s)
      PROVE  ComingIsWaitedFor'
   BY <1>7, BootKinds, RequestAt, RequestSet, NoRequestIsOne, UnderWay, OthersWait,
     BootHostKept DEF GoesDown
<1>8. ASSUME NEW s \in BootSim, GoesParked(s)
      PROVE  ComingIsWaitedFor'
   BY <1>8, BootKinds, RequestAt, RequestSet, NoRequestIsOne, UnderWay, OthersWait,
     BootHostKept DEF GoesParked
<1>9. ASSUME NEW s \in BootSim, ThawForGrant(s)
      PROVE  ComingIsWaitedFor'
   BY <1>9, BootKinds, RequestAt, RequestSet, NoRequestIsOne, UnderWay, OthersWait,
     BootHostKept DEF ThawForGrant
<1>10. ASSUME NEW s \in BootSim, NEW q \in Request, BootAsync(q, s)
      PROVE  ComingIsWaitedFor'
  <2>1. request[q] = NoRequest /\ \A p \in Request : p # q => request'[p] = request[p]
    BY <1>10, RequestBegun
  <2>2. UNCHANGED <<simState, ungated>> /\ request[q].at # "waiting"
    BY <1>10, RequestBegun DEF NoRequest
  <2> QED
    BY <2>1, <2>2, OthersWait
<1>11. ASSUME NEW s \in BootSim, NEW q \in Request, BootGated(q, s)
      PROVE  ComingIsWaitedFor'
  <2>1. request[q] = NoRequest /\ \A p \in Request : p # q => request'[p] = request[p]
    BY <1>11, RequestBegun
  <2>2. UNCHANGED <<simState, ungated>> /\ request[q].at # "waiting"
    BY <1>11, RequestBegun DEF NoRequest
  <2> QED
    BY <2>1, <2>2, OthersWait
<1>12. ASSUME NEW q \in Request, TakeSlot(q)
      PROVE  ComingIsWaitedFor'
   BY <1>12, BootKinds, RequestAt, RequestSet, NoRequestIsOne, UnderWay, OthersWait,
     BootHostKept DEF TakeSlot
<1>13. ASSUME NEW q \in Request, NoSlotInTime(q)
      PROVE  ComingIsWaitedFor'
   BY <1>13, BootKinds, RequestAt, RequestSet, NoRequestIsOne, UnderWay, OthersWait,
     BootHostKept DEF NoSlotInTime, Failed, Finished
<1>14. ASSUME NEW q \in Request, FoundUp(q)
      PROVE  ComingIsWaitedFor'
   BY <1>14, BootKinds, RequestAt, RequestSet, NoRequestIsOne, UnderWay, OthersWait,
     BootHostKept DEF FoundUp, Finished
<1>15. ASSUME NEW q \in Request, Recheck(q)
      PROVE  ComingIsWaitedFor'
   BY <1>15, BootKinds, RequestAt, RequestSet, NoRequestIsOne, UnderWay, OthersWait,
     BootHostKept DEF Recheck, MustBoot
<1>16. ASSUME NEW q \in Request, RecheckRefused(q)
      PROVE  ComingIsWaitedFor'
   BY <1>16, BootKinds, RequestAt, RequestSet, NoRequestIsOne, UnderWay, OthersWait,
     BootHostKept DEF RecheckRefused, Failed, MustBoot, Finished
<1>17. ASSUME NEW q \in Request, Issue(q)
      PROVE  ComingIsWaitedFor'
   BY <1>17, BootKinds, RequestAt, RequestSet, NoRequestIsOne, UnderWay, OthersWait,
     BootHostKept DEF Issue
<1>18. ASSUME NEW q \in Request, IssueFails(q)
      PROVE  ComingIsWaitedFor'
   BY <1>18, BootKinds, RequestAt, RequestSet, NoRequestIsOne, UnderWay, OthersWait,
     BootHostKept DEF IssueFails, Failed, Finished
<1>19. ASSUME NEW q \in Request, Booted(q)
      PROVE  ComingIsWaitedFor'
   BY <1>19, BootKinds, RequestAt, RequestSet, NoRequestIsOne, UnderWay, OthersWait,
     BootHostKept DEF Booted, Finished
<1>20. ASSUME NEW q \in Request, GiveUp(q)
      PROVE  ComingIsWaitedFor'
   BY <1>20, BootKinds, RequestAt, RequestSet, NoRequestIsOne, UnderWay, OthersWait,
     BootHostKept DEF GiveUp, Failed, Finished
<1>21. ASSUME HostChanges
      PROVE  ComingIsWaitedFor'
   BY <1>21, BootKinds, RequestAt, RequestSet, NoRequestIsOne, UnderWay, OthersWait,
     BootHostKept DEF HostChanges
<1>22. CASE UNCHANGED bootVars
  BY <1>22, BootKinds, RequestAt, RequestSet, NoRequestIsOne, UnderWay, OthersWait, BootHostKept DEF bootVars
<1> QED
   BY <1>1, <1>2, <1>3, <1>4, <1>5, <1>6, <1>7, <1>8, <1>9, <1>10, <1>11, <1>12,
     <1>13, <1>14, <1>15, <1>16, <1>17, <1>18, <1>19, <1>20, <1>21, <1>22 DEF
     BootNext, BootWaited

(* Slots are only taken by TakeSlot, and claims only staked by Recheck. *)
LEMMA FewerSlots ==
  ASSUME BootInv, Holders' \subseteq Holders
  PROVE  SlotsHeld'
<1>1. IsFiniteSet(Holders) /\ Cardinality(Holders') <= Cardinality(Holders)
  BY BootAssumption, FS_Subset DEF Holders
<1>2. Cardinality(Holders) \in Nat /\ Cardinality(Holders') \in Nat
  BY <1>1, FS_Subset, FS_CardinalityType
<1> QED
  BY <1>1, <1>2, BootAssumption DEF BootInv, SlotsHeld

LEMMA SlotTaken ==
  ASSUME BootInv, NEW q \in Request, TakeSlot(q)
  PROVE  SlotsHeld'
<1>1. Holders' = Holders \cup {q}
  BY RequestAt DEF TakeSlot, Holders
<1>2. IsFiniteSet(Holders)
  BY BootAssumption, FS_Subset DEF Holders
<1>3. Cardinality(Holders) \in Nat /\ Cardinality(Holders \cup {q}) <= Cardinality(Holders) + 1
      /\ Cardinality(Holders \cup {q}) \in Nat
  BY <1>2, OneMore
<1>4. Cardinality(Holders) < MaxConcurrentBoots
  BY DEF TakeSlot
<1>5. Cardinality(Holders') \in Nat /\ Cardinality(Holders') <= MaxConcurrentBoots
  BY <1>1, <1>3, <1>4, BootAssumption
<1> QED
  BY <1>5 DEF SlotsHeld

LEMMA ClaimsFinite == BootInv => Claimed \subseteq BootSim /\ IsFiniteSet(Claimed)
<1> SUFFICES ASSUME BootInv PROVE Claimed \subseteq BootSim /\ IsFiniteSet(Claimed)
  OBVIOUS
<1>1. Claimed \subseteq BootSim
  BY UnderWay DEF Claimed, Gated, Running
<1> QED
  BY <1>1, BootAssumption, FS_Subset

LEMMA FewerClaims ==
  ASSUME BootInv, Claimed' \subseteq Claimed
  PROVE  ClaimsFit'
<1>1. IsFiniteSet(Claimed) /\ Cardinality(Claimed') <= Cardinality(Claimed)
  BY ClaimsFinite, FS_Subset
<1>2. Cardinality(Claimed) \in Nat /\ Cardinality(Claimed') \in Nat
  BY <1>1, FS_Subset, FS_CardinalityType
<1> QED
  BY <1>1, <1>2, BootAssumption DEF BootInv, ClaimsFit

LEMMA SlotsKept ==
  ASSUME BootInv, [BootNext]_bootVars
  PROVE  SlotsHeld'
<1> USE DEF BootInv, Holders
<1>1. ASSUME NEW s \in BootSim, ThawParked(s)
      PROVE  SlotsHeld'
   BY <1>1, RequestAt, RequestSet, NoRequestIsOne, FewerSlots DEF ThawParked
<1>2. ASSUME NEW s \in BootSim, AlreadyUp(s)
      PROVE  SlotsHeld'
   BY <1>2, RequestAt, RequestSet, NoRequestIsOne, FewerSlots DEF AlreadyUp
<1>3. ASSUME NEW s \in BootSim, TellFailure(s)
      PROVE  SlotsHeld'
   BY <1>3, RequestAt, RequestSet, NoRequestIsOne, FewerSlots DEF TellFailure
<1>4. ASSUME NEW s \in BootSim, GateRefused(s)
      PROVE  SlotsHeld'
   BY <1>4, RequestAt, RequestSet, NoRequestIsOne, FewerSlots DEF GateRefused
<1>5. ASSUME NEW s \in BootSim, ComesUp(s)
      PROVE  SlotsHeld'
   BY <1>5, RequestAt, RequestSet, NoRequestIsOne, FewerSlots DEF ComesUp
<1>6. ASSUME NEW s \in BootSim, ForeignBoot(s)
      PROVE  SlotsHeld'
   BY <1>6, RequestAt, RequestSet, NoRequestIsOne, FewerSlots DEF ForeignBoot
<1>7. ASSUME NEW s \in BootSim, GoesDown(s)
      PROVE  SlotsHeld'
   BY <1>7, RequestAt, RequestSet, NoRequestIsOne, FewerSlots DEF GoesDown
<1>8. ASSUME NEW s \in BootSim, GoesParked(s)
      PROVE  SlotsHeld'
   BY <1>8, RequestAt, RequestSet, NoRequestIsOne, FewerSlots DEF GoesParked
<1>9. ASSUME NEW s \in BootSim, ThawForGrant(s)
      PROVE  SlotsHeld'
   BY <1>9, RequestAt, RequestSet, NoRequestIsOne, FewerSlots DEF ThawForGrant
<1>10. ASSUME NEW s \in BootSim, NEW q \in Request, BootAsync(q, s)
      PROVE  SlotsHeld'
   BY <1>10, RequestAt, RequestSet, NoRequestIsOne, FewerSlots DEF BootAsync
<1>11. ASSUME NEW s \in BootSim, NEW q \in Request, BootGated(q, s)
      PROVE  SlotsHeld'
   BY <1>11, RequestAt, RequestSet, NoRequestIsOne, FewerSlots DEF BootGated
<1>12. ASSUME NEW q \in Request, TakeSlot(q)
      PROVE  SlotsHeld'
  BY <1>12, SlotTaken
<1>13. ASSUME NEW q \in Request, NoSlotInTime(q)
      PROVE  SlotsHeld'
  <2>1. Finished(q)
    BY <1>13 DEF NoSlotInTime, Failed
  <2>2. request'[q] = NoRequest /\ \A p \in Request : p # q => request'[p] = request[p]
    BY <2>1, RequestSet, NoRequestIsOne DEF Finished
  <2> QED
    BY <2>2, FewerSlots DEF NoRequest
<1>14. ASSUME NEW q \in Request, FoundUp(q)
      PROVE  SlotsHeld'
   BY <1>14, RequestAt, RequestSet, NoRequestIsOne, FewerSlots DEF FoundUp, Finished
<1>15. ASSUME NEW q \in Request, Recheck(q)
      PROVE  SlotsHeld'
   BY <1>15, RequestAt, RequestSet, NoRequestIsOne, FewerSlots DEF Recheck, MustBoot
<1>16. ASSUME NEW q \in Request, RecheckRefused(q)
      PROVE  SlotsHeld'
   BY <1>16, RequestAt, RequestSet, NoRequestIsOne, FewerSlots DEF RecheckRefused,
     Failed, MustBoot, Finished
<1>17. ASSUME NEW q \in Request, Issue(q)
      PROVE  SlotsHeld'
   BY <1>17, RequestAt, RequestSet, NoRequestIsOne, FewerSlots DEF Issue
<1>18. ASSUME NEW q \in Request, IssueFails(q)
      PROVE  SlotsHeld'
   BY <1>18, RequestAt, RequestSet, NoRequestIsOne, FewerSlots DEF IssueFails, Failed,
     Finished
<1>19. ASSUME NEW q \in Request, Booted(q)
      PROVE  SlotsHeld'
   BY <1>19, RequestAt, RequestSet, NoRequestIsOne, FewerSlots DEF Booted, Finished
<1>20. ASSUME NEW q \in Request, GiveUp(q)
      PROVE  SlotsHeld'
   BY <1>20, RequestAt, RequestSet, NoRequestIsOne, FewerSlots DEF GiveUp, Failed,
     Finished
<1>21. ASSUME HostChanges
      PROVE  SlotsHeld'
   BY <1>21, RequestAt, RequestSet, NoRequestIsOne, FewerSlots DEF HostChanges
<1>22. CASE UNCHANGED bootVars
  BY <1>22, RequestAt, RequestSet, NoRequestIsOne, FewerSlots DEF bootVars
<1> QED
   BY <1>1, <1>2, <1>3, <1>4, <1>5, <1>6, <1>7, <1>8, <1>9, <1>10, <1>11, <1>12,
     <1>13, <1>14, <1>15, <1>16, <1>17, <1>18, <1>19, <1>20, <1>21, <1>22 DEF
     BootNext, BootWaited

LEMMA ClaimsRemain ==
  ASSUME BootInv, Running' \ ungated' \subseteq Claimed,
         \A p \in Request : request'[p].at \in {"gated", "waiting"} =>
           request[p].at \in {"gated", "waiting"} /\ request'[p].sim = request[p].sim
  PROVE  ClaimsFit'
<1>1. Claimed' \subseteq Claimed
  BY DEF Claimed, Gated
<1> QED
  BY <1>1, FewerClaims

LEMMA ClaimsKept ==
  ASSUME BootInv, [BootNext]_bootVars
  PROVE  ClaimsFit'
<1> USE DEF BootInv, Claimed, Gated, Running
<1>1. ASSUME NEW s \in BootSim, ThawParked(s)
      PROVE  ClaimsFit'
   BY <1>1, BootKinds, RequestAt, RequestSet, NoRequestIsOne, UnderWay, FewerClaims
     DEF ThawParked
<1>2. ASSUME NEW s \in BootSim, AlreadyUp(s)
      PROVE  ClaimsFit'
   BY <1>2, BootKinds, RequestAt, RequestSet, NoRequestIsOne, UnderWay, FewerClaims
     DEF AlreadyUp
<1>3. ASSUME NEW s \in BootSim, TellFailure(s)
      PROVE  ClaimsFit'
   BY <1>3, BootKinds, RequestAt, RequestSet, NoRequestIsOne, UnderWay, FewerClaims
     DEF TellFailure
<1>4. ASSUME NEW s \in BootSim, GateRefused(s)
      PROVE  ClaimsFit'
   BY <1>4, BootKinds, RequestAt, RequestSet, NoRequestIsOne, UnderWay, FewerClaims
     DEF GateRefused
<1>5. ASSUME NEW s \in BootSim, ComesUp(s)
      PROVE  ClaimsFit'
  <2>1. UNCHANGED request /\ Running' \ ungated' \subseteq (Running \ ungated) \cup ({s} \ ungated)
    BY <1>5, BootKinds DEF ComesUp, BootTables
  <2>2. s \notin ungated => s \in Claimed
    BY <1>5 DEF ComesUp, ComingIsWaitedFor
  <2> QED
    BY <2>1, <2>2, ClaimsRemain
<1>6. ASSUME NEW s \in BootSim, ForeignBoot(s)
      PROVE  ClaimsFit'
   BY <1>6, BootKinds, RequestAt, RequestSet, NoRequestIsOne, UnderWay, FewerClaims
     DEF ForeignBoot
<1>7. ASSUME NEW s \in BootSim, GoesDown(s)
      PROVE  ClaimsFit'
  <2>1. UNCHANGED request /\ Running' \ ungated' \subseteq Running \ ungated
    BY <1>7, BootKinds DEF GoesDown, BootTables
  <2> QED
    BY <2>1, ClaimsRemain
<1>8. ASSUME NEW s \in BootSim, GoesParked(s)
      PROVE  ClaimsFit'
  <2>1. UNCHANGED request /\ Running' \ ungated' \subseteq Running \ ungated
    BY <1>8, BootKinds DEF GoesParked, BootTables
  <2> QED
    BY <2>1, ClaimsRemain
<1>9. ASSUME NEW s \in BootSim, ThawForGrant(s)
      PROVE  ClaimsFit'
   BY <1>9, BootKinds, RequestAt, RequestSet, NoRequestIsOne, UnderWay, FewerClaims
     DEF ThawForGrant
<1>10. ASSUME NEW s \in BootSim, NEW q \in Request, BootAsync(q, s)
      PROVE  ClaimsFit'
   BY <1>10, BootKinds, RequestAt, RequestSet, NoRequestIsOne, UnderWay, FewerClaims
     DEF BootAsync
<1>11. ASSUME NEW s \in BootSim, NEW q \in Request, BootGated(q, s)
      PROVE  ClaimsFit'
   BY <1>11, BootKinds, RequestAt, RequestSet, NoRequestIsOne, UnderWay, FewerClaims
     DEF BootGated
<1>12. ASSUME NEW q \in Request, TakeSlot(q)
      PROVE  ClaimsFit'
   BY <1>12, BootKinds, RequestAt, RequestSet, NoRequestIsOne, UnderWay, FewerClaims
     DEF TakeSlot
<1>13. ASSUME NEW q \in Request, NoSlotInTime(q)
      PROVE  ClaimsFit'
  <2>1. Finished(q) /\ Running' \ ungated' \subseteq Running \ ungated
    BY <1>13 DEF NoSlotInTime, Failed, BootTables
  <2>2. request'[q] = NoRequest /\ \A p \in Request : p # q => request'[p] = request[p]
    BY <2>1, RequestSet, NoRequestIsOne DEF Finished
  <2> QED
    BY <2>1, <2>2, ClaimsRemain DEF NoRequest
<1>14. ASSUME NEW q \in Request, FoundUp(q)
      PROVE  ClaimsFit'
  <2>1. Finished(q) /\ Running' \ ungated' \subseteq Running \ ungated
    BY <1>14, BootKinds, UnderWay DEF FoundUp, Failed, BootTables
  <2>2. request'[q] = NoRequest /\ \A p \in Request : p # q => request'[p] = request[p]
    BY <2>1, RequestSet, NoRequestIsOne DEF Finished
  <2> QED
    BY <2>1, <2>2, ClaimsRemain DEF NoRequest
<1>15. ASSUME NEW q \in Request, Recheck(q)
      PROVE  ClaimsFit'
  <2> DEFINE s == request[q].sim
            G == (Running \ ungated) \ {s}
            f == [p \in Gated' |-> request'[p].sim]
            W == {request'[p].sim : p \in Gated'}
  <2>1. /\ UNCHANGED <<simState, ungated>> /\ Gate(s) /\ q \in Gated'
        /\ Gated' \subseteq Holders /\ \A p \in Request : request'[p].sim = request[p].sim
    BY <1>15, RequestAt DEF Recheck, MustBoot, Gated, Holders
  <2>2. IsFiniteSet(Running) /\ IsFiniteSet(Holders)
    BY BootAssumption, FS_Subset DEF Running, Holders
  <2>3. IsFiniteSet(G) /\ Cardinality(G) <= MaxBootedRunning - 1 /\ Cardinality(G) \in Nat
    <3>1. IsFiniteSet(Running \ {s}) /\ G \subseteq Running \ {s}
      BY <2>2, FS_Subset
    <3>2. Cardinality(G) <= Cardinality(Running \ {s}) /\ IsFiniteSet(G)
      BY <3>1, FS_Subset
    <3> QED
      BY <2>1, <3>1, <3>2, BootAssumption, FS_CardinalityType DEF Gate
  <2>4. IsFiniteSet(Gated') /\ Cardinality(Gated') <= MaxConcurrentBoots /\ Cardinality(Gated') \in Nat
    BY <2>1, <2>2, BootAssumption, FS_Subset, FS_CardinalityType DEF SlotsHeld
  <2>5. IsFiniteSet(W) /\ Cardinality(W) <= MaxConcurrentBoots /\ Cardinality(W) \in Nat
    <3>1. f \in Surjection(Gated', W)
      BY DEF Surjection
    <3> QED
      BY <2>4, <3>1, BootAssumption, FS_Surjection, FS_CardinalityType
  <2>6. Claimed' = G \cup W
    BY <2>1 DEF Claimed, Running
  <2>7. Cardinality(Claimed') <= Cardinality(G) + Cardinality(W) /\ Cardinality(Claimed') \in Nat
    <3>1. IsFiniteSet(G \cup W) /\ IsFiniteSet(G \cap W)
          /\ Cardinality(G \cup W) = Cardinality(G) + Cardinality(W) - Cardinality(G \cap W)
      BY <2>3, <2>5, FS_Union, FS_Subset
    <3>2. Cardinality(G \cup W) \in Nat /\ Cardinality(G \cap W) \in Nat
      BY <3>1, FS_CardinalityType
    <3>3. Cardinality(G \cup W) <= Cardinality(G) + Cardinality(W)
      BY <2>3, <2>5, <3>1, <3>2
    <3> QED
      BY <2>6, <3>2, <3>3
  <2> QED
    BY <2>3, <2>5, <2>7, BootAssumption DEF ClaimsFit
<1>16. ASSUME NEW q \in Request, RecheckRefused(q)
      PROVE  ClaimsFit'
  <2>1. Finished(q) /\ Running' \ ungated' \subseteq Running \ ungated
    BY <1>16 DEF RecheckRefused, Failed, BootTables
  <2>2. request'[q] = NoRequest /\ \A p \in Request : p # q => request'[p] = request[p]
    BY <2>1, RequestSet, NoRequestIsOne DEF Finished
  <2> QED
    BY <2>1, <2>2, ClaimsRemain DEF NoRequest
<1>17. ASSUME NEW q \in Request, Issue(q)
      PROVE  ClaimsFit'
  <2>1. /\ request'[q].sim = request[q].sim /\ \A p \in Request : p # q => request'[p] = request[p]
        /\ request[q].at = "gated" /\ request[q].sim \in BootSim
    BY <1>17, RequestAt, UnderWay DEF Issue
  <2>2. Running' \ ungated' \subseteq Running \ ungated
    BY <1>17, <2>1, BootKinds DEF Issue, BootTables
  <2> QED
    BY <2>1, <2>2, ClaimsRemain
<1>18. ASSUME NEW q \in Request, IssueFails(q)
      PROVE  ClaimsFit'
  <2>1. Finished(q) /\ Running' \ ungated' \subseteq Running \ ungated
    BY <1>18 DEF IssueFails, Failed, BootTables
  <2>2. request'[q] = NoRequest /\ \A p \in Request : p # q => request'[p] = request[p]
    BY <2>1, RequestSet, NoRequestIsOne DEF Finished
  <2> QED
    BY <2>1, <2>2, ClaimsRemain DEF NoRequest
<1>19. ASSUME NEW q \in Request, Booted(q)
      PROVE  ClaimsFit'
  <2>1. Finished(q) /\ Running' \ ungated' \subseteq Running \ ungated
    BY <1>19 DEF Booted, Failed, BootTables
  <2>2. request'[q] = NoRequest /\ \A p \in Request : p # q => request'[p] = request[p]
    BY <2>1, RequestSet, NoRequestIsOne DEF Finished
  <2> QED
    BY <2>1, <2>2, ClaimsRemain DEF NoRequest
<1>20. ASSUME NEW q \in Request, GiveUp(q)
      PROVE  ClaimsFit'
  <2>1. Finished(q) /\ Running' \ ungated' \subseteq Running \ ungated
    BY <1>20 DEF GiveUp, Failed, BootTables
  <2>2. request'[q] = NoRequest /\ \A p \in Request : p # q => request'[p] = request[p]
    BY <2>1, RequestSet, NoRequestIsOne DEF Finished
  <2> QED
    BY <2>1, <2>2, ClaimsRemain DEF NoRequest
<1>21. ASSUME HostChanges
      PROVE  ClaimsFit'
   BY <1>21, BootKinds, RequestAt, RequestSet, NoRequestIsOne, UnderWay, FewerClaims
     DEF HostChanges
<1>22. CASE UNCHANGED bootVars
  BY <1>22, BootKinds, RequestAt, RequestSet, NoRequestIsOne, UnderWay, FewerClaims DEF bootVars
<1> QED
   BY <1>1, <1>2, <1>3, <1>4, <1>5, <1>6, <1>7, <1>8, <1>9, <1>10, <1>11, <1>12,
     <1>13, <1>14, <1>15, <1>16, <1>17, <1>18, <1>19, <1>20, <1>21, <1>22 DEF
     BootNext, BootWaited

LEMMA ToldKept ==
  ASSUME BootInv, [BootNext]_bootVars
  PROVE  BootFailuresTold'
<1> USE DEF BootInv, BootFailuresTold, BootTables
<1>1. ASSUME NEW s \in BootSim, ThawParked(s)
      PROVE  BootFailuresTold'
   BY <1>1, BootKinds, RequestAt, RequestSet, NoRequestIsOne, UnderWay, BootAssumption
     DEF ThawParked, SeenUp
<1>2. ASSUME NEW s \in BootSim, AlreadyUp(s)
      PROVE  BootFailuresTold'
   BY <1>2, BootKinds, RequestAt, RequestSet, NoRequestIsOne, UnderWay, BootAssumption
     DEF AlreadyUp, SeenUp
<1>3. ASSUME NEW s \in BootSim, TellFailure(s)
      PROVE  BootFailuresTold'
   BY <1>3, BootKinds, RequestAt, RequestSet, NoRequestIsOne, UnderWay, BootAssumption
     DEF TellFailure, SeenUp
<1>4. ASSUME NEW s \in BootSim, GateRefused(s)
      PROVE  BootFailuresTold'
   BY <1>4, BootKinds, RequestAt, RequestSet, NoRequestIsOne, UnderWay, BootAssumption
     DEF GateRefused
<1>5. ASSUME NEW s \in BootSim, ComesUp(s)
      PROVE  BootFailuresTold'
   BY <1>5, BootKinds, RequestAt, RequestSet, NoRequestIsOne, UnderWay, BootAssumption
     DEF ComesUp
<1>6. ASSUME NEW s \in BootSim, ForeignBoot(s)
      PROVE  BootFailuresTold'
   BY <1>6, BootKinds, RequestAt, RequestSet, NoRequestIsOne, UnderWay, BootAssumption
     DEF ForeignBoot
<1>7. ASSUME NEW s \in BootSim, GoesDown(s)
      PROVE  BootFailuresTold'
   BY <1>7, BootKinds, RequestAt, RequestSet, NoRequestIsOne, UnderWay, BootAssumption
     DEF GoesDown
<1>8. ASSUME NEW s \in BootSim, GoesParked(s)
      PROVE  BootFailuresTold'
   BY <1>8, BootKinds, RequestAt, RequestSet, NoRequestIsOne, UnderWay, BootAssumption
     DEF GoesParked
<1>9. ASSUME NEW s \in BootSim, ThawForGrant(s)
      PROVE  BootFailuresTold'
   BY <1>9, BootKinds, RequestAt, RequestSet, NoRequestIsOne, UnderWay, BootAssumption
     DEF ThawForGrant
<1>10. ASSUME NEW s \in BootSim, NEW q \in Request, BootAsync(q, s)
      PROVE  BootFailuresTold'
  <2>1. request[q].sim = NoSim /\ \A p \in Request : p # q => request'[p] = request[p]
    BY <1>10, RequestBegun DEF NoRequest
  <2> QED
    BY <1>10, <2>1, RequestBegun, BootKinds, BootAssumption DEF BootAsync
<1>11. ASSUME NEW s \in BootSim, NEW q \in Request, BootGated(q, s)
      PROVE  BootFailuresTold'
  <2>1. request[q].sim = NoSim /\ \A p \in Request : p # q => request'[p] = request[p]
    BY <1>11, RequestBegun DEF NoRequest
  <2> QED
    BY <1>11, <2>1, RequestBegun, BootKinds, BootAssumption DEF BootGated
<1>12. ASSUME NEW q \in Request, TakeSlot(q)
      PROVE  BootFailuresTold'
   BY <1>12, BootKinds, RequestAt, RequestSet, NoRequestIsOne, UnderWay,
     BootAssumption DEF TakeSlot
<1>13. ASSUME NEW q \in Request, NoSlotInTime(q)
      PROVE  BootFailuresTold'
   BY <1>13, BootKinds, RequestAt, RequestSet, NoRequestIsOne, UnderWay,
     BootAssumption DEF NoSlotInTime, Failed, Finished
<1>14. ASSUME NEW q \in Request, FoundUp(q)
      PROVE  BootFailuresTold'
   BY <1>14, BootKinds, RequestAt, RequestSet, NoRequestIsOne, UnderWay,
     BootAssumption DEF FoundUp, Finished, SeenUp
<1>15. ASSUME NEW q \in Request, Recheck(q)
      PROVE  BootFailuresTold'
   BY <1>15, BootKinds, RequestAt, RequestSet, NoRequestIsOne, UnderWay,
     BootAssumption DEF Recheck, MustBoot
<1>16. ASSUME NEW q \in Request, RecheckRefused(q)
      PROVE  BootFailuresTold'
   BY <1>16, BootKinds, RequestAt, RequestSet, NoRequestIsOne, UnderWay,
     BootAssumption DEF RecheckRefused, Failed, MustBoot, Finished
<1>17. ASSUME NEW q \in Request, Issue(q)
      PROVE  BootFailuresTold'
   BY <1>17, BootKinds, RequestAt, RequestSet, NoRequestIsOne, UnderWay,
     BootAssumption DEF Issue
<1>18. ASSUME NEW q \in Request, IssueFails(q)
      PROVE  BootFailuresTold'
   BY <1>18, BootKinds, RequestAt, RequestSet, NoRequestIsOne, UnderWay,
     BootAssumption DEF IssueFails, Failed, Finished
<1>19. ASSUME NEW q \in Request, Booted(q)
      PROVE  BootFailuresTold'
   BY <1>19, BootKinds, RequestAt, RequestSet, NoRequestIsOne, UnderWay,
     BootAssumption DEF Booted, Finished, SeenUp
<1>20. ASSUME NEW q \in Request, GiveUp(q)
      PROVE  BootFailuresTold'
   BY <1>20, BootKinds, RequestAt, RequestSet, NoRequestIsOne, UnderWay,
     BootAssumption DEF GiveUp, Failed, Finished
<1>21. ASSUME HostChanges
      PROVE  BootFailuresTold'
   BY <1>21, BootKinds, RequestAt, RequestSet, NoRequestIsOne, UnderWay,
     BootAssumption DEF HostChanges
<1>22. CASE UNCHANGED bootVars
  BY <1>22, BootKinds, RequestAt, RequestSet, NoRequestIsOne, UnderWay, BootAssumption DEF bootVars
<1> QED
   BY <1>1, <1>2, <1>3, <1>4, <1>5, <1>6, <1>7, <1>8, <1>9, <1>10, <1>11, <1>12,
     <1>13, <1>14, <1>15, <1>16, <1>17, <1>18, <1>19, <1>20, <1>21, <1>22 DEF
     BootNext, BootWaited

LEMMA BootStep == ASSUME BootInv, [BootNext]_bootVars PROVE BootInv'
<1>1. BootTypeOK'
  BY BootTablesKept, BootHostKept, RequestsKept DEF BootTypeOK, BootTables, BootHost, RequestRec
<1> QED
  BY <1>1, RequestsKept, ComingKept, SlotsKept, ClaimsKept, ToldKept DEF BootInv

(* Everything a gated boot has brought up is claimed. *)
LEMMA BootHolds == BootInv => BootSafe
<1> SUFFICES ASSUME BootInv PROVE BootSafe
  OBVIOUS
<1>1. Running \ ungated \subseteq Claimed /\ IsFiniteSet(Claimed)
  BY ClaimsFinite DEF Claimed
<1>2. /\ Cardinality(Running \ ungated) <= Cardinality(Claimed)
      /\ Cardinality(Running \ ungated) \in Nat /\ Cardinality(Claimed) \in Nat
  BY <1>1, FS_Subset, FS_CardinalityType
<1> QED
  BY <1>2, BootAssumption DEF BootInv, ClaimsFit, BootSafe, BootCapHeld

-----------------------------------------------------------------------------
(* The broker's types, by kind. *)
EntryRec == [state: {"none", "queued", "active", "terminal"}, quiet: 0..(MaxQuiet + 1)]
RunRec == [on: MaybeHost, is: {"none", "running", "finished", "gone"},
           entry: {"none", "loaded", "settled"}, adding: BOOLEAN]
LeaseStates == {"none", "queued", "active", "over", "gone"}
LeaseTables ==
  /\ onDaemon \in [FLease -> LeaseStates] /\ quiet \in [FLease -> 0..MaxQuiet]
  /\ entry \in [FLease -> EntryRec] /\ orphans \subseteq FLease /\ lostAnswer \subseteq FLease
HandlerTables == acq \in [Asker -> AcqRec] /\ left \subseteq Asker
LoadTables ==
  /\ load \in [FHost -> Nat] /\ unload \in [FHost -> Nat] /\ frun \in [FleetRun -> RunRec]
  /\ counted \in [FHost -> SUBSET (FLease \cup FleetRun)]

LEMMA BrkKinds == BrkTypeOK <=> LeaseTables /\ HandlerTables /\ LoadTables
  BY DEF BrkTypeOK, LeaseTables, HandlerTables, LoadTables, EntryRec, RunRec, AcqRec, LeaseStates
LEMMA BrkKindsNext == BrkTypeOK' <=> LeaseTables' /\ HandlerTables' /\ LoadTables'
  BY DEF BrkTypeOK, LeaseTables, HandlerTables, LoadTables, EntryRec, RunRec, AcqRec, LeaseStates

LEMMA CountsFinite ==
  ASSUME NEW h
  PROVE  /\ IsFiniteSet(LeasesOn(h)) /\ IsFiniteSet(RunsOn(h))
         /\ IsFiniteSet(AskersAdding(h)) /\ IsFiniteSet(RunsAdding(h))
         /\ IsFiniteSet(LeasesOn(h)') /\ IsFiniteSet(RunsOn(h)')
         /\ IsFiniteSet(AskersAdding(h)') /\ IsFiniteSet(RunsAdding(h)')
<1>1. IsFiniteSet(FLease)
  BY FS_Product, BrkAssumption DEF FLease
<1> QED
  BY <1>1, FS_Subset, BrkAssumption DEF LeasesOn, RunsOn, AskersAdding, RunsAdding

LEMMA Counts ==
  ASSUME NEW h
  PROVE  /\ Cardinality(LeasesOn(h)) \in Nat /\ Cardinality(RunsOn(h)) \in Nat
         /\ Cardinality(AskersAdding(h)) \in Nat /\ Cardinality(RunsAdding(h)) \in Nat
         /\ Cardinality(LeasesOn(h)') \in Nat /\ Cardinality(RunsOn(h)') \in Nat
         /\ Cardinality(AskersAdding(h)') \in Nat /\ Cardinality(RunsAdding(h)') \in Nat
  BY CountsFinite, FS_CardinalityType

LEMMA BrkStarts == BrkInit => BrkInv
<1> SUFFICES ASSUME BrkInit PROVE BrkInv
  OBVIOUS
<1>1. Unasked \in AcqRec /\ HandlerIn(Unasked) /\ Unasked.at \notin Delivered
  BY DEF Unasked, AcqRec, MaybeHost, HandlerIn, Delivered
<1>2. BrkTypeOK
  BY <1>1, BrkKinds, BrkAssumption
  DEF BrkInit, LeaseTables, HandlerTables, LoadTables, NoEntryYet, EntryRec, RunRec, MaybeHost, LeaseStates
<1>3. HandlerOK /\ NoneEscapes /\ EntriesOK /\ RunsOK
  BY <1>1 DEF BrkInit, HandlerOK, NoneEscapes, EntriesOK, EntryOK, RunsOK, NoEntryYet, LiveOn, FLease
<1>4. Balanced
  <2> SUFFICES ASSUME NEW h \in FHost
               PROVE  Cardinality(LeasesOn(h)) + Cardinality(RunsOn(h)) + unload[h]
                        <= load[h] + Cardinality(AskersAdding(h)) + Cardinality(RunsAdding(h))
    BY DEF Balanced
  <2>1. LeasesOn(h) = {} /\ RunsOn(h) = {}
    BY DEF LeasesOn, RunsOn, BrkInit, NoEntryYet, LiveOn
  <2>2. Cardinality(LeasesOn(h)) = 0 /\ Cardinality(RunsOn(h)) = 0
    BY <2>1, FS_EmptySet
  <2>3. load[h] = 0 /\ unload[h] = 0
    BY DEF BrkInit
  <2> QED
    BY <2>2, <2>3, Counts
<1> QED
  BY <1>2, <1>3, <1>4 DEF BrkInv

-----------------------------------------------------------------------------
(* A handler's step before its lease is delivered: it loses sight of no    *)
(* live lease but by making it an orphan, or unheard.                      *)
HandlerMove(k, r) ==
  /\ acq' = [acq EXCEPT ![k] = r] /\ r \in AcqRec /\ HandlerIn(r)
  /\ acq[k].at \notin Delivered /\ r.at \notin Delivered
  /\ onDaemon' \in [FLease -> LeaseStates]
  /\ \A l \in FLease : l[1] # k => onDaemon'[l] = onDaemon[l]
  /\ \A h \in FHost : onDaemon'[<<k, h>>] \in LiveOn =>
       h \in KnownIn(r) \/ <<k, h>> \in orphans' \cup lostAnswer'
  /\ orphans \subseteq orphans' /\ orphans' \subseteq FLease
  /\ lostAnswer \subseteq lostAnswer' /\ lostAnswer' \subseteq FLease
  /\ UNCHANGED <<quiet, entry, load, unload, left, frun, counted>>

LEMMA HandlerMoveKeeps ==
  ASSUME BrkInv, NEW k \in Asker, NEW r, HandlerMove(k, r)
  PROVE  BrkInv'
<1>0. LeaseTables /\ HandlerTables /\ LoadTables
  BY BrkKinds DEF BrkInv
<1>1. BrkTypeOK'
  <2>1. LeaseTables'
    BY <1>0 DEF LeaseTables, HandlerMove
  <2>2. HandlerTables'
    BY <1>0 DEF HandlerTables, HandlerMove
  <2>3. LoadTables'
    BY <1>0 DEF LoadTables, HandlerMove
  <2> QED
    BY <2>1, <2>2, <2>3, BrkKindsNext
<1>2. acq'[k] = r /\ \A j \in Asker : j # k => acq'[j] = acq[j]
  BY <1>0 DEF HandlerTables, HandlerMove
<1>3. HandlerOK'
  BY <1>2 DEF HandlerOK, HandlerMove, BrkInv
<1>4. NoneEscapes'
  BY <1>2 DEF NoneEscapes, HandlerMove, BrkInv, FLease
<1>5. EntriesOK'
  <2> SUFFICES ASSUME NEW j \in Asker, NEW h \in FHost
               PROVE  EntryOK(j, h)'
    BY DEF EntriesOK
  <2>1. EntryOK(j, h) /\ entry' = entry
    BY DEF BrkInv, EntriesOK, HandlerMove
  <2>2. CASE j = k
    BY <2>1, <2>2, <1>2 DEF EntryOK, HandlerMove
  <2>3. CASE j # k
    <3>1. onDaemon'[<<j, h>>] = onDaemon[<<j, h>>]
      BY <2>3 DEF HandlerMove, FLease
    <3> QED
      BY <2>1, <2>3, <1>2, <3>1 DEF EntryOK
  <2> QED
    BY <2>2, <2>3
<1>6. RunsOK'
  BY DEF RunsOK, HandlerMove, BrkInv
<1>7. Balanced'
  <2>1. \A h \in FHost : /\ LeasesOn(h)' = LeasesOn(h) /\ RunsOn(h)' = RunsOn(h)
                        /\ RunsAdding(h)' = RunsAdding(h) /\ AskersAdding(h)' = AskersAdding(h)
    BY <1>2 DEF LeasesOn, RunsOn, RunsAdding, AskersAdding, HandlerMove, Delivered
  <2> QED
    BY <2>1 DEF Balanced, HandlerMove, BrkInv
<1> QED
  BY <1>1, <1>3, <1>4, <1>5, <1>6, <1>7 DEF BrkInv

(* The steps of handleAcquireLease up to the delivery. *)
LEMMA HandlerSteps ==
  ASSUME BrkInv, NEW k \in Asker,
         \/ AskStart(k) \/ AskedAll(k) \/ Compare(k) \/ DropAdopts(k) \/ DropFrees(k)
         \/ Granted(k) \/ FreeConfirmed(k) \/ FreeUnconfirmed(k) \/ Undeliverable(k)
         \/ \E ans \in LiveOn : AskAnswered(k, ans)
         \/ \E ans \in LiveOn \cup {"none"} : AskFailed(k, ans)
  PROVE  \E r : HandlerMove(k, r)
<1>0. LeaseTables /\ HandlerTables /\ LoadTables
  BY BrkKinds DEF BrkInv
<1>a. acq[k] \in AcqRec /\ HandlerIn(acq[k])
  BY <1>0 DEF HandlerTables, BrkInv, HandlerOK
<1>b. \A h \in FHost : onDaemon[<<k, h>>] \in LiveOn =>
         h \in KnownIn(acq[k]) \/ <<k, h>> \in orphans \cup lostAnswer
  BY DEF BrkInv, NoneEscapes
(* A step of the handler alone needs only keep what it knows. *)
<1>quiet. ASSUME NEW r, acq' = [acq EXCEPT ![k] = r], r \in AcqRec, HandlerIn(r),
                 acq[k].at \notin Delivered, r.at \notin Delivered,
                 KnownIn(acq[k]) \cap FHost \subseteq KnownIn(r),
                 UNCHANGED <<onDaemon, quiet, entry, orphans, load, unload, left, lostAnswer,
                             frun, counted>>
          PROVE  HandlerMove(k, r)
  BY <1>quiet, <1>b, <1>0 DEF HandlerMove, LeaseTables
(* One that changes a lease changes the one named. *)
<1>at. ASSUME NEW g \in FHost, NEW v \in LeaseStates, onDaemon' = [onDaemon EXCEPT ![<<k, g>>] = v]
       PROVE  /\ onDaemon' \in [FLease -> LeaseStates] /\ onDaemon'[<<k, g>>] = v
              /\ \A l \in FLease : l[1] # k => onDaemon'[l] = onDaemon[l]
              /\ \A h \in FHost : h # g => onDaemon'[<<k, h>>] = onDaemon[<<k, h>>]
  <2>1. <<k, g>> \in FLease /\ \A h \in FHost : <<k, h>> \in FLease
    BY DEF FLease
  <2> QED
    BY <1>at, <1>0, <2>1 DEF LeaseTables
<1>1. CASE AskStart(k)
  <2>1. PICK s \in Orders : acq' = [acq EXCEPT ![k].at = "asking", ![k].todo = s]
    BY <1>1 DEF AskStart
  <2> DEFINE r == [acq[k] EXCEPT !.at = "asking", !.todo = s]
  <2>2. acq' = [acq EXCEPT ![k] = r]
    BY <2>1, <1>0 DEF HandlerTables
  <2>3. s \in Seq(FHost)
    BY DEF Orders
  <2>4. r \in AcqRec /\ HandlerIn(r) /\ r.at \notin Delivered
    BY <1>a, <2>3 DEF AcqRec, HandlerIn, Delivered
  <2>5. KnownIn(acq[k]) = {} /\ acq[k].at \notin Delivered
    BY <1>1 DEF AskStart, KnownIn, Delivered
  <2> QED
    BY <1>quiet, <2>2, <2>4, <2>5, <1>1 DEF AskStart
<1>2. CASE AskedAll(k)
  <2> DEFINE r == IF acq[k].kept = NoFHost THEN [acq[k] EXCEPT !.at = "failed"]
                  ELSE [acq[k] EXCEPT !.at = "deliver", !.cur = acq[k].kept,
                                      !.kept = NoFHost, !.seen = "queued"]
  <2>1. acq' = [acq EXCEPT ![k] = r] /\ acq[k].at = "asking"
    BY <1>2, <1>0 DEF HandlerTables, AskedAll
  <2>2. r \in AcqRec
    BY <1>a DEF AcqRec, MaybeHost
  <2>3. HandlerIn(r) /\ r.at \notin Delivered /\ KnownIn(acq[k]) \cap FHost \subseteq KnownIn(r)
    BY <1>a, <2>1, BrkAssumption, ZenonT(40) DEF AcqRec, HandlerIn, Delivered, KnownIn, MaybeHost
  <2> QED
    BY <1>quiet, <2>1, <2>2, <2>3, <1>2 DEF AskedAll, Delivered
<1>3. CASE Compare(k)
  <2> DEFINE r1 == [acq[k] EXCEPT !.at = "dropping", !.drop = acq[k].cur]
             r2 == [acq[k] EXCEPT !.at = "dropping", !.drop = acq[k].kept, !.kept = acq[k].cur]
  <2>1. (acq' = [acq EXCEPT ![k] = r1] \/ acq' = [acq EXCEPT ![k] = r2]) /\ acq[k].at = "compare"
    BY <1>3, <1>0 DEF HandlerTables, Compare
  <2>2. r1 \in AcqRec /\ r2 \in AcqRec
    BY <1>a DEF AcqRec, MaybeHost
  <2>3. /\ HandlerIn(r1) /\ r1.at \notin Delivered /\ KnownIn(acq[k]) \cap FHost \subseteq KnownIn(r1)
        /\ HandlerIn(r2) /\ r2.at \notin Delivered /\ KnownIn(acq[k]) \cap FHost \subseteq KnownIn(r2)
    BY <1>a, <2>1 DEF AcqRec, HandlerIn, Delivered, KnownIn
  <2> QED
    BY <1>quiet, <2>1, <2>2, <2>3, <1>3 DEF Compare, Delivered
<1>4. CASE DropAdopts(k)
  <2> DEFINE r == [acq[k] EXCEPT !.at = "granted", !.cur = acq[k].drop, !.drop = NoFHost,
                                 !.seen = "active"]
  <2>1. acq' = [acq EXCEPT ![k] = r] /\ acq[k].at = "dropping"
    BY <1>4, <1>0 DEF HandlerTables, DropAdopts
  <2>2. r \in AcqRec
    BY <1>a DEF AcqRec, MaybeHost
  <2>3. HandlerIn(r) /\ r.at \notin Delivered /\ KnownIn(acq[k]) \cap FHost \subseteq KnownIn(r)
    BY <1>a, <2>1 DEF AcqRec, HandlerIn, Delivered, KnownIn
  <2> QED
    BY <1>quiet, <2>1, <2>2, <2>3, <1>4 DEF DropAdopts, Delivered
<1>5. CASE DropFrees(k)
  <2> DEFINE r == Free(k, acq[k].drop, "asking")
  <2>1. acq' = [acq EXCEPT ![k] = r] /\ acq[k].at = "dropping"
    BY <1>5, <1>0 DEF HandlerTables, DropFrees
  <2>2. r \in AcqRec
    BY <1>a DEF AcqRec, MaybeHost, Free
  <2>3. HandlerIn(r) /\ r.at \notin Delivered /\ KnownIn(acq[k]) \cap FHost \subseteq KnownIn(r)
    BY <1>a, <2>1 DEF AcqRec, HandlerIn, Delivered, KnownIn, Free
  <2> QED
    BY <1>quiet, <2>1, <2>2, <2>3, <1>5 DEF DropFrees, Delivered
<1>6. CASE Granted(k)
  <2>0. acq[k].at = "granted" /\ acq[k].kept \in MaybeHost
    BY <1>6, <1>a DEF Granted, AcqRec
  <2>1. CASE acq[k].kept = NoFHost /\ acq' = [acq EXCEPT ![k].at = "deliver"]
    <3> DEFINE r == [acq[k] EXCEPT !.at = "deliver"]
    <3>1. acq' = [acq EXCEPT ![k] = r]
      BY <2>1, <1>0 DEF HandlerTables
    <3>2. r \in AcqRec
      BY <1>a DEF AcqRec
    <3>3. HandlerIn(r) /\ r.at \notin Delivered /\ KnownIn(acq[k]) \cap FHost \subseteq KnownIn(r)
      BY <1>a, <2>0, <2>1, BrkAssumption DEF AcqRec, HandlerIn, Delivered, KnownIn
    <3> QED
      BY <1>quiet, <2>0, <3>1, <3>2, <3>3, <1>6 DEF Granted, Delivered
  <2>2. CASE /\ acq[k].kept # NoFHost
             /\ acq' = [acq EXCEPT ![k] = [Free(k, acq[k].kept, "deliver") EXCEPT !.kept = NoFHost]]
    <3> DEFINE r == [Free(k, acq[k].kept, "deliver") EXCEPT !.kept = NoFHost]
    <3>1. acq' = [acq EXCEPT ![k] = r]
      BY <2>2
    <3>2. r \in AcqRec
      BY <1>a, <2>0 DEF AcqRec, Free, MaybeHost
    <3>3. HandlerIn(r) /\ r.at \notin Delivered /\ KnownIn(acq[k]) \cap FHost \subseteq KnownIn(r)
      BY <1>a, <2>0, <2>2 DEF AcqRec, HandlerIn, Delivered, KnownIn, Free, MaybeHost
    <3> QED
      BY <1>quiet, <2>0, <3>1, <3>2, <3>3, <1>6 DEF Granted, Delivered
  <2>3. CASE /\ acq[k].kept # NoFHost
             /\ acq' = [acq EXCEPT ![k] = [Free(k, acq[k].cur, "deliver") EXCEPT
                                             !.cur = acq[k].kept, !.kept = NoFHost]]
    <3> DEFINE r == [Free(k, acq[k].cur, "deliver") EXCEPT !.cur = acq[k].kept, !.kept = NoFHost]
    <3>1. acq' = [acq EXCEPT ![k] = r]
      BY <2>3
    <3>2. r \in AcqRec
      BY <1>a, <2>0 DEF AcqRec, Free, MaybeHost
    <3>3. HandlerIn(r) /\ r.at \notin Delivered /\ KnownIn(acq[k]) \cap FHost \subseteq KnownIn(r)
      BY <1>a, <2>0, <2>3 DEF AcqRec, HandlerIn, Delivered, KnownIn, Free, MaybeHost
    <3> QED
      BY <1>quiet, <2>0, <3>1, <3>2, <3>3, <1>6 DEF Granted, Delivered
  <2> QED
    BY <1>6, <2>1, <2>2, <2>3 DEF Granted
(* A release the daemon confirms ends the lease; one it does not makes it  *)
(* an orphan.                                                              *)
<1>free. ASSUME acq[k].at = "freeing", Freed(k),
                onDaemon' = onDaemon \/ onDaemon' = Ended(<<k, acq[k].drop>>),
                (onDaemon' = Ended(<<k, acq[k].drop>>) /\ orphans' = orphans)
                  \/ orphans' = orphans \cup {<<k, acq[k].drop>>},
                UNCHANGED <<quiet, entry, load, unload, left, lostAnswer, frun, counted>>
         PROVE  \E r : HandlerMove(k, r)
  <2> DEFINE r == [acq[k] EXCEPT !.at = acq[k].then, !.drop = NoFHost, !.then = ""]
             g == acq[k].drop
  <2>1. acq' = [acq EXCEPT ![k] = r] /\ g \in FHost /\ <<k, g>> \in FLease
    BY <1>free, <1>0, <1>a DEF HandlerTables, Freed, HandlerIn, FLease
  <2>2. r \in AcqRec
    BY <1>a, <1>free DEF AcqRec, MaybeHost, HandlerIn
  <2>3. HandlerIn(r) /\ r.at \notin Delivered /\ acq[k].at \notin Delivered
        /\ KnownIn(acq[k]) \ {g} \subseteq KnownIn(r)
    BY <1>a, <1>free DEF AcqRec, HandlerIn, Delivered, KnownIn
  <2> DEFINE v == IF onDaemon[<<k, g>>] \in LiveOn THEN "over" ELSE onDaemon[<<k, g>>]
  <2>v. v \in LeaseStates /\ v \notin LiveOn
    BY <1>0, <2>1 DEF LeaseTables, LeaseStates, LiveOn
  <2>w. Ended(<<k, g>>) = [onDaemon EXCEPT ![<<k, g>>] = v]
    BY <1>0, <2>1 DEF LeaseTables, Ended
  <2>4. /\ onDaemon' \in [FLease -> LeaseStates]
        /\ \A l \in FLease : l[1] # k => onDaemon'[l] = onDaemon[l]
        /\ \A h \in FHost : h # g => onDaemon'[<<k, h>>] = onDaemon[<<k, h>>]
        /\ onDaemon'[<<k, g>>] \notin LiveOn \/ <<k, g>> \in orphans'
    <3>1. CASE onDaemon' = onDaemon
      BY <3>1, <1>free, <1>0, <2>w, <2>v, <2>1 DEF LeaseTables
    <3>2. CASE onDaemon' = [onDaemon EXCEPT ![<<k, g>>] = v]
      <4> HIDE DEF v
      <4> QED
        BY <3>2, <1>at, <2>1, <2>v
    <3> QED
      BY <1>free, <2>w, <3>1, <3>2
  <2>5. orphans \subseteq orphans' /\ orphans' \subseteq FLease
    BY <1>free, <1>0, <2>1 DEF LeaseTables
  <2>6. \A h \in FHost : onDaemon'[<<k, h>>] \in LiveOn =>
          h \in KnownIn(r) \/ <<k, h>> \in orphans' \cup lostAnswer'
    <3> SUFFICES ASSUME NEW h \in FHost, onDaemon'[<<k, h>>] \in LiveOn
                 PROVE  h \in KnownIn(r) \/ <<k, h>> \in orphans' \cup lostAnswer'
      OBVIOUS
    <3> HIDE DEF r
    <3> QED
      BY <1>b, <2>3, <2>4, <2>5, <1>free
  <2> HIDE DEF r
  <2> QED
    BY <2>1, <2>2, <2>3, <2>4, <2>5, <2>6, <1>0, <1>free DEF HandlerMove, LeaseTables
<1>7. CASE FreeConfirmed(k)
  BY <1>7, <1>free DEF FreeConfirmed
<1>8. CASE FreeUnconfirmed(k)
  BY <1>8, <1>free DEF FreeUnconfirmed
<1>9. CASE Undeliverable(k)
  <2> DEFINE r == Free(k, acq[k].cur, "failed")
  <2>1. acq' = [acq EXCEPT ![k] = r] /\ acq[k].at = "deliver"
    BY <1>9, <1>0 DEF HandlerTables, Undeliverable
  <2>2. r \in AcqRec
    BY <1>a DEF AcqRec, MaybeHost, Free
  <2>3. HandlerIn(r) /\ r.at \notin Delivered /\ KnownIn(acq[k]) \cap FHost \subseteq KnownIn(r)
    BY <1>a, <2>1 DEF AcqRec, HandlerIn, Delivered, KnownIn, Free
  <2> QED
    BY <1>quiet, <2>1, <2>2, <2>3, <1>9 DEF Undeliverable, Delivered
<1>head. ASSUME acq[k].todo # <<>>
         PROVE  Head(acq[k].todo) \in FHost /\ Tail(acq[k].todo) \in Seq(FHost)
  <2>1. acq[k].todo \in Seq(FHost)
    BY <1>a DEF AcqRec
  <2> HIDE <1>a
  <2> QED
    BY <1>head, <2>1
<1>10. ASSUME NEW ans \in LiveOn, AskAnswered(k, ans)
       PROVE  \E r : HandlerMove(k, r)
  <2> DEFINE g == Head(acq[k].todo)
             r == CASE ans = "active" -> [acq[k] EXCEPT !.at = "granted", !.cur = g,
                                                 !.todo = Tail(@), !.seen = "active"]
                    [] ans = "queued" /\ acq[k].kept = NoFHost ->
                         [acq[k] EXCEPT !.kept = g, !.todo = Tail(@)]
                    [] OTHER -> [acq[k] EXCEPT !.at = "compare", !.cur = g, !.todo = Tail(@)]
  <2>1. /\ acq' = [acq EXCEPT ![k] = r] /\ acq[k].at = "asking"
        /\ onDaemon' = [onDaemon EXCEPT ![<<k, g>>] = ans]
        /\ UNCHANGED <<quiet, entry, orphans, load, unload, left, lostAnswer, frun, counted>>
    <3>1. \/ ans = "active"
          \/ ans # "active" /\ ans = "queued" /\ acq[k].kept = NoFHost
          \/ ans # "active" /\ ~ (ans = "queued" /\ acq[k].kept = NoFHost)
      OBVIOUS
    <3>2. acq \in [Asker -> AcqRec]
      BY <1>0 DEF HandlerTables
    <3> QED
      BY <1>10, <3>1, <3>2 DEF AskAnswered
  <2>2. g \in FHost /\ Tail(acq[k].todo) \in Seq(FHost) /\ ans \in LeaseStates
    BY <1>10, <1>head DEF AskAnswered, LiveOn, LeaseStates
  <2>3. r \in AcqRec
    BY <1>a, <2>2 DEF AcqRec, MaybeHost
  <2>4. /\ HandlerIn(r) /\ r.at \notin Delivered /\ g \in KnownIn(r)
        /\ KnownIn(acq[k]) \cap FHost \subseteq KnownIn(r)
    BY <1>a, <2>1, <2>2, BrkAssumption DEF AcqRec, HandlerIn, Delivered, KnownIn, MaybeHost, LiveOn
  <2>5. /\ onDaemon' \in [FLease -> LeaseStates]
        /\ \A l \in FLease : l[1] # k => onDaemon'[l] = onDaemon[l]
        /\ \A h \in FHost : h # g => onDaemon'[<<k, h>>] = onDaemon[<<k, h>>]
    BY <1>at, <2>1, <2>2
  <2> HIDE DEF r
  <2>6. \A h \in FHost : onDaemon'[<<k, h>>] \in LiveOn =>
          h \in KnownIn(r) \/ <<k, h>> \in orphans' \cup lostAnswer'
    BY <1>b, <2>1, <2>4, <2>5
  <2> QED
    BY <2>1, <2>3, <2>4, <2>5, <2>6, <1>0 DEF HandlerMove, LeaseTables, Delivered
<1>11. ASSUME NEW ans \in LiveOn \cup {"none"}, AskFailed(k, ans)
       PROVE  \E r : HandlerMove(k, r)
  <2> DEFINE g == Head(acq[k].todo)
             r == [acq[k] EXCEPT !.todo = Tail(@)]
  <2>1. /\ acq' = [acq EXCEPT ![k] = r] /\ acq[k].at = "asking"
        /\ onDaemon' = [onDaemon EXCEPT ![<<k, g>>] = ans]
        /\ lostAnswer' = IF ans = "none" THEN lostAnswer ELSE lostAnswer \cup {<<k, g>>}
        /\ UNCHANGED <<quiet, entry, orphans, load, unload, left, frun, counted>>
    BY <1>11, <1>0 DEF HandlerTables, AskFailed
  <2>2. g \in FHost /\ Tail(acq[k].todo) \in Seq(FHost) /\ ans \in LeaseStates
        /\ <<k, g>> \in FLease
    BY <1>11, <1>head DEF AskFailed, LiveOn, LeaseStates, FLease
  <2>3. r \in AcqRec
    BY <1>a, <2>2 DEF AcqRec, MaybeHost
  <2>4. HandlerIn(r) /\ r.at \notin Delivered /\ KnownIn(acq[k]) = KnownIn(r)
    BY <1>a, <2>1, <2>2 DEF AcqRec, HandlerIn, Delivered, KnownIn
  <2>5. /\ onDaemon' \in [FLease -> LeaseStates] /\ onDaemon'[<<k, g>>] = ans
        /\ \A l \in FLease : l[1] # k => onDaemon'[l] = onDaemon[l]
        /\ \A h \in FHost : h # g => onDaemon'[<<k, h>>] = onDaemon[<<k, h>>]
    BY <1>at, <2>1, <2>2
  <2>6. lostAnswer \subseteq lostAnswer' /\ lostAnswer' \subseteq FLease
        /\ (ans \in LiveOn => <<k, g>> \in lostAnswer')
    BY <2>1, <2>2, <1>0 DEF LeaseTables, LiveOn
  <2> HIDE DEF r
  <2>7. \A h \in FHost : onDaemon'[<<k, h>>] \in LiveOn =>
          h \in KnownIn(r) \/ <<k, h>> \in orphans' \cup lostAnswer'
    BY <1>b, <2>1, <2>4, <2>5, <2>6
  <2> QED
    BY <2>1, <2>3, <2>4, <2>5, <2>6, <2>7, <1>0 DEF HandlerMove, LeaseTables, Delivered
<1> QED
  BY <1>1, <1>2, <1>3, <1>4, <1>5, <1>6, <1>7, <1>8, <1>9, <1>10, <1>11

-----------------------------------------------------------------------------
(* What a step that touches no count keeps: the sides of Balanced. *)
LEMMA SameCounts ==
  ASSUME Balanced, UNCHANGED <<load, unload>>,
         \A h \in FHost : /\ LeasesOn(h)' = LeasesOn(h) /\ RunsOn(h)' = RunsOn(h)
                        /\ RunsAdding(h)' = RunsAdding(h) /\ AskersAdding(h)' = AskersAdding(h)
  PROVE  Balanced'
  BY DEF Balanced

(* The lease is entered before it is counted against its host. *)
LEMMA Remembered ==
  ASSUME BrkInv, NEW k \in Asker, RememberLease(k)
  PROVE  BrkInv'
<1>0. LeaseTables /\ HandlerTables /\ LoadTables
  BY BrkKinds DEF BrkInv
<1> DEFINE g == acq[k].cur
           e == [state |-> acq[k].seen, quiet |-> 0]
           r == [acq[k] EXCEPT !.at = "adding"]
<1>a. /\ acq[k] \in AcqRec /\ g \in FHost /\ <<k, g>> \in FLease /\ acq[k].at = "deliver"
      /\ e \in EntryRec /\ e.state \in LiveOn
  <2>1. acq[k] \in AcqRec /\ HandlerIn(acq[k]) /\ acq[k].at = "deliver"
    BY <1>0 DEF HandlerTables, BrkInv, HandlerOK, RememberLease
  <2>2. g \in FHost /\ <<k, g>> \in FLease
    BY <2>1 DEF HandlerIn, FLease
  <2>3. acq[k].seen \in {"queued", "active"}
    BY <2>1 DEF AcqRec
  <2>4. e \in EntryRec /\ e.state \in LiveOn
    BY <2>3, BrkAssumption DEF EntryRec, LiveOn
  <2> QED
    BY <2>1, <2>2, <2>4
<1>b. /\ entry' = [entry EXCEPT ![<<k, g>>] = e] /\ acq' = [acq EXCEPT ![k] = r]
      /\ UNCHANGED <<onDaemon, quiet, orphans, load, unload, left, lostAnswer, frun, counted>>
  BY <1>0 DEF RememberLease, HandlerTables
<1>c. r \in AcqRec /\ r.at = "adding" /\ r.cur = g /\ HandlerIn(r) /\ KnownIn(r) = KnownIn(acq[k])
  BY <1>a DEF AcqRec, HandlerIn, KnownIn, Delivered
<1>d. acq'[k] = r /\ \A j \in Asker : j # k => acq'[j] = acq[j]
  BY <1>0, <1>b DEF HandlerTables
<1>e. entry'[<<k, g>>] = e /\ \A l \in FLease : l # <<k, g>> => entry'[l] = entry[l]
  BY <1>0, <1>a, <1>b DEF LeaseTables
<1>1. BrkTypeOK'
  <2>1. LeaseTables' /\ LoadTables'
    BY <1>0, <1>a, <1>b DEF LeaseTables, LoadTables
  <2>2. HandlerTables'
    BY <1>0, <1>b, <1>c DEF HandlerTables
  <2> QED
    BY <2>1, <2>2, BrkKindsNext
<1> HIDE DEF e, r
<1>2. HandlerOK' /\ NoneEscapes' /\ RunsOK'
  BY <1>b, <1>c, <1>d DEF HandlerOK, NoneEscapes, RunsOK, BrkInv
<1>3. EntriesOK'
  <2> SUFFICES ASSUME NEW j \in Asker, NEW h \in FHost
               PROVE  EntryOK(j, h)'
    BY DEF EntriesOK
  <2>1. EntryOK(j, h) /\ <<j, h>> \in FLease
    BY DEF BrkInv, EntriesOK, FLease
  <2>2. CASE j = k
    <3>1. entry[<<k, h>>].state = "none"
      BY <2>1, <2>2, <1>a DEF EntryOK, Delivered
    <3> QED
      BY <2>1, <2>2, <3>1, <1>a, <1>b, <1>c, <1>d, <1>e DEF EntryOK, Delivered, LiveOn
  <2>3. CASE j # k
    BY <2>1, <2>3, <1>b, <1>d, <1>e DEF EntryOK
  <2> QED
    BY <2>2, <2>3
<1>4. Balanced'
  <2> SUFFICES ASSUME NEW h \in FHost
               PROVE  (Cardinality(LeasesOn(h)) + Cardinality(RunsOn(h)) + unload[h]
                        <= load[h] + Cardinality(AskersAdding(h)) + Cardinality(RunsAdding(h)))'
    BY DEF Balanced
  <2>0. Cardinality(LeasesOn(h)) + Cardinality(RunsOn(h)) + unload[h]
           <= load[h] + Cardinality(AskersAdding(h)) + Cardinality(RunsAdding(h))
    BY DEF BrkInv, Balanced
  <2>n. load[h] \in Nat /\ unload[h] \in Nat /\ load' = load /\ unload' = unload
    BY <1>0, <1>b DEF LoadTables
  <2>1. RunsOn(h)' = RunsOn(h) /\ RunsAdding(h)' = RunsAdding(h)
    BY <1>b DEF RunsOn, RunsAdding
  <2>2. CASE h = g
    <3>1. LeasesOn(h)' = LeasesOn(h) \cup {<<k, g>>}
      BY <2>2, <1>a, <1>e DEF LeasesOn
    <3>2. AskersAdding(h)' = AskersAdding(h) \cup {k} /\ k \notin AskersAdding(h)
      BY <2>2, <1>a, <1>c, <1>d DEF AskersAdding
    <3>3. Cardinality(LeasesOn(h)') <= Cardinality(LeasesOn(h)) + 1
      <4>1. Cardinality(LeasesOn(h)') = Cardinality(LeasesOn(h))
              \/ Cardinality(LeasesOn(h)') = Cardinality(LeasesOn(h)) + 1
        BY <3>1, OneMore, CountsFinite
      <4> QED
        BY <4>1, Counts
    <3>4. Cardinality(AskersAdding(h)') = Cardinality(AskersAdding(h)) + 1
      BY <3>2, OneMore, CountsFinite
    <3> QED
      BY <2>0, <2>n, <2>1, <3>3, <3>4, Counts
  <2>3. CASE h # g
    <3>1. LeasesOn(h)' = LeasesOn(h)
      BY <2>3, <1>a, <1>e DEF LeasesOn
    <3>2. AskersAdding(h)' = AskersAdding(h)
      BY <2>3, <1>a, <1>c, <1>d DEF AskersAdding
    <3> QED
      BY <2>0, <2>n, <2>1, <3>1, <3>2
  <2> QED
    BY <2>2, <2>3
<1> QED
  BY <1>1, <1>2, <1>3, <1>4 DEF BrkInv

(* The count follows. *)
LEMMA LeaseAdded ==
  ASSUME BrkInv, NEW k \in Asker, AddLease(k)
  PROVE  BrkInv'
<1>0. LeaseTables /\ HandlerTables /\ LoadTables
  BY BrkKinds DEF BrkInv
<1> DEFINE g == acq[k].cur
           r == [acq[k] EXCEPT !.at = "answered"]
<1>a. acq[k] \in AcqRec /\ g \in FHost /\ <<k, g>> \in FLease /\ acq[k].at = "adding"
  BY <1>0 DEF HandlerTables, BrkInv, HandlerOK, HandlerIn, AddLease, FLease, Delivered
<1>b. /\ load' = [load EXCEPT ![g] = load[g] + 1] /\ acq' = [acq EXCEPT ![k] = r]
      /\ counted' = [counted EXCEPT ![g] = counted[g] \cup {<<k, g>>}]
      /\ UNCHANGED <<onDaemon, quiet, entry, orphans, unload, left, lostAnswer, frun>>
  BY <1>0 DEF AddLease, HandlerTables
<1>c. r \in AcqRec /\ r.at = "answered" /\ r.cur = g /\ HandlerIn(r) /\ KnownIn(r) = KnownIn(acq[k])
  BY <1>a DEF AcqRec, HandlerIn, KnownIn, Delivered
<1>d. acq'[k] = r /\ \A j \in Asker : j # k => acq'[j] = acq[j]
  BY <1>0, <1>b DEF HandlerTables
<1>1. BrkTypeOK'
  <2>1. LeaseTables'
    BY <1>0, <1>b DEF LeaseTables
  <2>2. HandlerTables'
    BY <1>0, <1>b, <1>c DEF HandlerTables
  <2>3. LoadTables'
    BY <1>0, <1>a, <1>b DEF LoadTables
  <2> QED
    BY <2>1, <2>2, <2>3, BrkKindsNext
<1> HIDE DEF r
<1>2. HandlerOK' /\ NoneEscapes'
  BY <1>b, <1>c, <1>d DEF HandlerOK, NoneEscapes, BrkInv
<1>3. EntriesOK'
  <2> SUFFICES ASSUME NEW j \in Asker, NEW h \in FHost
               PROVE  EntryOK(j, h)'
    BY DEF EntriesOK
  <2>1. EntryOK(j, h)
    BY DEF BrkInv, EntriesOK
  <2>2. acq'[j].cur = acq[j].cur /\ (acq'[j].at \in Delivered <=> acq[j].at \in Delivered)
    BY <1>a, <1>c, <1>d DEF Delivered
  <2> QED
    BY <2>1, <2>2, <1>b DEF EntryOK
<1>4. RunsOK'
  <2>1. <<k, g>> \notin FleetRun /\ <<k, g>>[2] = g
    BY <1>a, BrkAssumption DEF FLease
  <2>2. \A h \in FHost : counted'[h] = IF h = g THEN counted[h] \cup {<<k, g>>} ELSE counted[h]
    BY <1>0, <1>a, <1>b DEF LoadTables
  <2> QED
    BY <1>b, <2>1, <2>2 DEF RunsOK, BrkInv
<1>5. Balanced'
  <2> SUFFICES ASSUME NEW h \in FHost
               PROVE  (Cardinality(LeasesOn(h)) + Cardinality(RunsOn(h)) + unload[h]
                        <= load[h] + Cardinality(AskersAdding(h)) + Cardinality(RunsAdding(h)))'
    BY DEF Balanced
  <2>0. Cardinality(LeasesOn(h)) + Cardinality(RunsOn(h)) + unload[h]
           <= load[h] + Cardinality(AskersAdding(h)) + Cardinality(RunsAdding(h))
    BY DEF BrkInv, Balanced
  <2>n. load[h] \in Nat /\ unload[h] \in Nat /\ unload' = unload
        /\ load'[h] = IF h = g THEN load[h] + 1 ELSE load[h]
    BY <1>0, <1>b DEF LoadTables
  <2>1. /\ RunsOn(h)' = RunsOn(h) /\ RunsAdding(h)' = RunsAdding(h)
        /\ LeasesOn(h)' = LeasesOn(h)
    BY <1>b DEF RunsOn, RunsAdding, LeasesOn
  <2>2. CASE h = g
    <3>1. AskersAdding(h)' = AskersAdding(h) \ {k} /\ k \in AskersAdding(h)
      BY <2>2, <1>a, <1>c, <1>d DEF AskersAdding
    <3>2. Cardinality(AskersAdding(h)') = Cardinality(AskersAdding(h)) - 1
      BY <3>1, OneLess, CountsFinite
    <3> QED
      BY <2>0, <2>n, <2>1, <2>2, <3>2, Counts
  <2>3. CASE h # g
    <3>1. AskersAdding(h)' = AskersAdding(h)
      BY <2>3, <1>a, <1>c, <1>d DEF AskersAdding
    <3> QED
      BY <2>0, <2>n, <2>1, <2>3, <3>1
  <2> QED
    BY <2>2, <2>3
<1> QED
  BY <1>1, <1>2, <1>3, <1>4, <1>5 DEF BrkInv

(* What a step about one lease may do: the daemon's lease only ends, the   *)
(* entry only ends, and the load is given back when a live entry ends.     *)
LeaseMove(l, e) ==
  /\ onDaemon' \in [FLease -> LeaseStates] /\ quiet' \in [FLease -> 0..MaxQuiet]
  /\ \A m \in FLease : m # l => onDaemon'[m] = onDaemon[m]
  /\ onDaemon'[l] \in LiveOn => onDaemon[l] \in LiveOn
  /\ e \in EntryRec /\ entry' = [entry EXCEPT ![l] = e]
  /\ entry[l].state = "none" => e.state = "none"
  /\ e.state = "terminal" => onDaemon'[l] \notin LiveOn
  /\ e.state \in LiveOn => entry[l].state \in LiveOn
  /\ onDaemon'[l] \in LiveOn => (entry[l].state \in LiveOn => e.state \in LiveOn)
  /\ \/ unload' = unload
     \/ /\ unload' = [unload EXCEPT ![l[2]] = unload[l[2]] + 1]
        /\ entry[l].state \in LiveOn /\ e.state \notin LiveOn
  /\ orphans' \subseteq orphans
  /\ orphans \ {l} \subseteq orphans' /\ (onDaemon'[l] \in LiveOn => orphans' = orphans)
  /\ UNCHANGED <<load, acq, left, lostAnswer, frun, counted>>

LEMMA LeaseMoveKeeps ==
  ASSUME BrkInv, NEW l \in FLease, NEW e, LeaseMove(l, e)
  PROVE  BrkInv'
<1>0. LeaseTables /\ HandlerTables /\ LoadTables
  BY BrkKinds DEF BrkInv
<1>p. l[1] \in Asker /\ l[2] \in FHost /\ l = <<l[1], l[2]>>
  BY DEF FLease
<1>e. entry'[l] = e /\ \A m \in FLease : m # l => entry'[m] = entry[m]
  BY <1>0 DEF LeaseTables, LeaseMove
<1>1. BrkTypeOK'
  <2>1. LeaseTables'
    BY <1>0 DEF LeaseTables, LeaseMove
  <2>2. HandlerTables'
    BY <1>0 DEF HandlerTables, LeaseMove
  <2>3. unload' \in [FHost -> Nat]
    BY <1>0, <1>p DEF LoadTables, LeaseMove
  <2>4. LoadTables'
    BY <1>0, <2>3 DEF LoadTables, LeaseMove
  <2> QED
    BY <2>1, <2>2, <2>4, BrkKindsNext
<1>2. HandlerOK' /\ RunsOK'
  BY DEF HandlerOK, RunsOK, BrkInv, LeaseMove
<1>3. NoneEscapes'
  <2> SUFFICES ASSUME NEW j \in Asker, NEW h \in FHost, onDaemon'[<<j, h>>] \in LiveOn
               PROVE  h \in KnownIn(acq[j]) \/ <<j, h>> \in orphans' \cup lostAnswer
    BY DEF NoneEscapes, LeaseMove
  <2>1. <<j, h>> \in FLease
    BY DEF FLease
  <2>2. onDaemon[<<j, h>>] \in LiveOn
    BY <2>1 DEF LeaseMove
  <2>3. h \in KnownIn(acq[j]) \/ <<j, h>> \in orphans \cup lostAnswer
    BY <2>2 DEF BrkInv, NoneEscapes
  <2> QED
    BY <2>1, <2>3 DEF LeaseMove
<1>4. EntriesOK'
  <2> SUFFICES ASSUME NEW j \in Asker, NEW h \in FHost
               PROVE  EntryOK(j, h)'
    BY DEF EntriesOK
  <2>1. EntryOK(j, h) /\ <<j, h>> \in FLease /\ acq' = acq
    BY DEF BrkInv, EntriesOK, FLease, LeaseMove
  <2>2. CASE <<j, h>> = l
    BY <2>1, <2>2, <1>e DEF EntryOK, LeaseMove
  <2>3. CASE <<j, h>> # l
    BY <2>1, <2>3, <1>e DEF EntryOK, LeaseMove
  <2> QED
    BY <2>2, <2>3
<1>5. Balanced'
  <2> SUFFICES ASSUME NEW h \in FHost
               PROVE  (Cardinality(LeasesOn(h)) + Cardinality(RunsOn(h)) + unload[h]
                        <= load[h] + Cardinality(AskersAdding(h)) + Cardinality(RunsAdding(h)))'
    BY DEF Balanced
  <2>0. Cardinality(LeasesOn(h)) + Cardinality(RunsOn(h)) + unload[h]
           <= load[h] + Cardinality(AskersAdding(h)) + Cardinality(RunsAdding(h))
    BY DEF BrkInv, Balanced
  <2>n. load[h] \in Nat /\ unload[h] \in Nat /\ load' = load
        /\ unload'[h] = IF unload' # unload /\ h = l[2] THEN unload[h] + 1 ELSE unload[h]
    BY <1>0, <1>p DEF LoadTables, LeaseMove
  <2>1. RunsOn(h)' = RunsOn(h) /\ RunsAdding(h)' = RunsAdding(h) /\ AskersAdding(h)' = AskersAdding(h)
    BY DEF RunsOn, RunsAdding, AskersAdding, LeaseMove
  <2>2. CASE h = l[2] /\ entry[l].state \in LiveOn /\ e.state \notin LiveOn
    <3>1. LeasesOn(h)' = LeasesOn(h) \ {l} /\ l \in LeasesOn(h)
      BY <2>2, <1>e DEF LeasesOn
    <3>2. Cardinality(LeasesOn(h)') = Cardinality(LeasesOn(h)) - 1
      BY <3>1, OneLess, CountsFinite
    <3> QED
      BY <2>0, <2>n, <2>1, <3>2, Counts
  <2>3. CASE ~ (h = l[2] /\ entry[l].state \in LiveOn /\ e.state \notin LiveOn)
    <3>1. LeasesOn(h)' = LeasesOn(h)
      BY <2>3, <1>e DEF LeasesOn, LeaseMove
    <3>2. unload'[h] = unload[h]
      BY <2>3, <2>n DEF LeaseMove
    <3> QED
      BY <2>0, <2>n, <2>1, <3>1, <3>2
  <2> QED
    BY <2>2, <2>3
<1> QED
  BY <1>1, <1>2, <1>3, <1>4, <1>5 DEF BrkInv

(* What the broker makes of a daemon's answer is such a step. *)
LEMMA Noted ==
  ASSUME LeaseTables, NEW l \in FLease, NEW state \in LeaseStates, Note(l, state),
         entry[l].state # "none"
  PROVE  \E e \in EntryRec :
           /\ entry' = [entry EXCEPT ![l] = e]
           /\ e.state \in LiveOn <=> state \in LiveOn
           /\ e.state = "terminal" => state = "over"
           /\ \/ unload' = unload
              \/ /\ unload' = [unload EXCEPT ![l[2]] = unload[l[2]] + 1]
                 /\ entry[l].state \in LiveOn /\ e.state \notin LiveOn
<1>1. CASE state = "over"
  <2> DEFINE e == [state |-> "terminal", quiet |-> 0]
  <2>1. e \in EntryRec /\ e.state = "terminal"
    BY BrkAssumption DEF EntryRec
  <2> QED
    BY <1>1, <2>1 DEF Note, MarkTerminal, GivesBack, LiveOn
<1>2. CASE state = "gone"
  <2>1. NoEntryYet \in EntryRec /\ NoEntryYet.state = "none"
    BY BrkAssumption DEF EntryRec, NoEntryYet
  <2> QED
    BY <1>2, <2>1 DEF Note, ForgetLease, GivesBack, LiveOn
<1>3. CASE state \notin {"over", "gone"}
  <2> DEFINE e == [state |-> state, quiet |-> 0]
  <2>1. e \in EntryRec /\ e.state = state
    BY <1>3, BrkAssumption DEF EntryRec, LeaseStates
  <2> QED
    BY <1>3, <2>1 DEF Note, LeaseStates
<1> QED
  BY <1>1, <1>2, <1>3

(* Polls, releases, probes, retention and the daemons' own steps. *)
LEMMA LeaseSteps ==
  ASSUME BrkInv, NEW l \in FLease,
         \/ ProxyGet(l) \/ ProxyRelease(l) \/ ReconcileLease(l) \/ ReleaseOrphan(l)
         \/ PruneTombstone(l) \/ DaemonStep(l) \/ DaemonExpires(l)
  PROVE  \E e : LeaseMove(l, e)
<1>0. LeaseTables /\ LoadTables
  BY BrkKinds DEF BrkInv
<1>p. l[1] \in Asker /\ l[2] \in FHost /\ l = <<l[1], l[2]>>
  BY DEF FLease
<1>e. /\ entry[l] \in EntryRec /\ onDaemon[l] \in LeaseStates
      /\ entry[l].state \in {"none", "queued", "active", "terminal"}
      /\ entry[l].state = "terminal" => onDaemon[l] \notin LiveOn
  <2>1. EntryOK(l[1], l[2])
    BY <1>p DEF BrkInv, EntriesOK
  <2>2. entry[l] \in EntryRec /\ onDaemon[l] \in LeaseStates
    BY <1>0 DEF LeaseTables
  <2> QED
    BY <2>1, <2>2, <1>p DEF EntryOK, EntryRec
<1>q. [quiet EXCEPT ![l] = 0] \in [FLease -> 0..MaxQuiet]
  BY <1>0, BrkAssumption DEF LeaseTables
<1>same. entry = [entry EXCEPT ![l] = entry[l]]
  BY <1>0 DEF LeaseTables
<1>to. ASSUME NEW v \in LeaseStates, onDaemon' = [onDaemon EXCEPT ![l] = v]
       PROVE  /\ onDaemon' \in [FLease -> LeaseStates] /\ onDaemon'[l] = v
              /\ \A m \in FLease : m # l => onDaemon'[m] = onDaemon[m]
  BY <1>to, <1>0 DEF LeaseTables
<1>end. ASSUME onDaemon' = Ended(l)
        PROVE  /\ onDaemon' \in [FLease -> LeaseStates] /\ onDaemon'[l] \notin LiveOn
               /\ \A m \in FLease : m # l => onDaemon'[m] = onDaemon[m]
  <2> DEFINE v == IF onDaemon[l] \in LiveOn THEN "over" ELSE onDaemon[l]
  <2>1. v \in LeaseStates /\ v \notin LiveOn
    BY <1>e DEF LeaseStates, LiveOn
  <2>2. onDaemon' = [onDaemon EXCEPT ![l] = v]
    BY <1>end DEF Ended
  <2> HIDE DEF v
  <2> QED
    BY <2>1, <2>2, <1>to
(* A note of what the daemon has, or no answer. *)
<1>note. ASSUME entry[l].state # "none", onDaemon' \in [FLease -> LeaseStates],
                \A m \in FLease : m # l => onDaemon'[m] = onDaemon[m],
                onDaemon'[l] \in LiveOn => onDaemon[l] \in LiveOn,
                Note(l, onDaemon'[l]), quiet' \in [FLease -> 0..MaxQuiet],
                UNCHANGED <<orphans, load, acq, left, lostAnswer, frun, counted>>
         PROVE  \E e : LeaseMove(l, e)
  <2>1. onDaemon'[l] \in LeaseStates
    BY <1>note
  <2>2. PICK e \in EntryRec :
           /\ entry' = [entry EXCEPT ![l] = e]
           /\ e.state \in LiveOn <=> onDaemon'[l] \in LiveOn
           /\ e.state = "terminal" => onDaemon'[l] = "over"
           /\ \/ unload' = unload
              \/ /\ unload' = [unload EXCEPT ![l[2]] = unload[l[2]] + 1]
                 /\ entry[l].state \in LiveOn /\ e.state \notin LiveOn
    BY <1>0, <1>note, <2>1, Noted
  <2>3. e.state \in LiveOn => entry[l].state \in LiveOn
    BY <2>2, <1>note, <1>e DEF LiveOn
  <2>4. e.state = "terminal" => onDaemon'[l] \notin LiveOn
    BY <2>2 DEF LiveOn
  <2>5. LeaseMove(l, e)
    BY <1>note, <2>2, <2>3, <2>4 DEF LeaseMove
  <2> QED
    BY <2>5
<1>none. ASSUME onDaemon' \in [FLease -> LeaseStates],
                \A m \in FLease : m # l => onDaemon'[m] = onDaemon[m],
                onDaemon'[l] \in LiveOn => onDaemon[l] \in LiveOn,
                quiet' \in [FLease -> 0..MaxQuiet], orphans' \subseteq orphans,
                orphans \ {l} \subseteq orphans', onDaemon'[l] \in LiveOn => orphans' = orphans,
                UNCHANGED <<entry, unload, load, acq, left, lostAnswer, frun, counted>>
         PROVE  LeaseMove(l, entry[l])
  BY <1>none, <1>same, <1>e DEF LeaseMove
<1>t. onDaemon \in [FLease -> LeaseStates] /\ quiet \in [FLease -> 0..MaxQuiet]
  BY <1>0 DEF LeaseTables
<1>1. CASE ProxyGet(l)
  <2>1. CASE Note(l, onDaemon[l])
    BY <1>1, <2>1, <1>note, <1>t, <1>q DEF ProxyGet
  <2>2. CASE UNCHANGED <<entry, unload>>
    BY <1>1, <2>2, <1>none, <1>t, <1>q DEF ProxyGet
  <2> QED
    BY <1>1, <2>1, <2>2 DEF ProxyGet
<1>2. CASE ProxyRelease(l)
  <2>1. CASE Note(l, onDaemon'[l])
    BY <1>2, <2>1, <1>note, <1>end, <1>t DEF ProxyRelease
  <2>2. CASE UNCHANGED <<entry, unload>>
    BY <1>2, <2>2, <1>none, <1>end, <1>t DEF ProxyRelease
  <2> QED
    BY <1>2, <2>1, <2>2 DEF ProxyRelease
<1>3. CASE ReconcileLease(l)
  BY <1>3, <1>note, <1>t, <1>q DEF ReconcileLease, Reconcilable
<1>4. CASE ReleaseOrphan(l)
  BY <1>4, <1>none, <1>end, <1>t DEF ReleaseOrphan
<1>5. CASE PruneTombstone(l)
  <2>1. NoEntryYet \in EntryRec /\ NoEntryYet.state = "none"
    BY BrkAssumption DEF EntryRec, NoEntryYet
  <2>2. LeaseMove(l, NoEntryYet)
    BY <1>5, <2>1, <1>t, <1>e DEF PruneTombstone, LeaseMove, LiveOn
  <2> QED
    BY <2>2
<1>6. CASE DaemonStep(l)
  <2>1. PICK v \in {"active", "gone"} :
          onDaemon' = [onDaemon EXCEPT ![l] = v] /\ (v = "active" => onDaemon[l] = "queued")
    BY <1>6 DEF DaemonStep
  <2>2. v \in LeaseStates /\ (v \in LiveOn => onDaemon[l] \in LiveOn)
    BY <2>1 DEF LeaseStates, LiveOn
  <2> QED
    BY <1>6, <2>1, <2>2, <1>to, <1>none, <1>t DEF DaemonStep
<1>7. CASE DaemonExpires(l)
  <2>1. "over" \in LeaseStates /\ "over" \notin LiveOn
    BY DEF LeaseStates, LiveOn
  <2> QED
    BY <1>7, <2>1, <1>to, <1>none, <1>t DEF DaemonExpires
<1> QED
  BY <1>1, <1>2, <1>3, <1>4, <1>5, <1>6, <1>7

LEMMA WindowKeeps == ASSUME BrkInv, WindowPasses PROVE BrkInv'
<1>0. LeaseTables /\ HandlerTables /\ LoadTables
  BY BrkKinds DEF BrkInv
<1>1. LeaseTables' /\ \A l \in FLease : entry'[l].state = entry[l].state
  <2>1. \A l \in FLease :
          (IF onDaemon[l] = "queued" THEN quiet[l] + 1 ELSE 0) \in 0..MaxQuiet
    BY <1>0, BrkAssumption DEF LeaseTables, WindowPasses
  <2>2. quiet' \in [FLease -> 0..MaxQuiet]
    BY <2>1 DEF WindowPasses
  <2>3. ASSUME NEW l \in FLease
        PROVE  entry'[l] \in EntryRec /\ entry'[l].state = entry[l].state
    <3>1. entry[l] \in EntryRec
      BY <1>0 DEF LeaseTables
    <3>2. entry'[l] = [entry[l] EXCEPT !.quiet =
                 IF entry[l].state = "queued" /\ @ <= MaxQuiet THEN @ + 1 ELSE @]
      BY DEF WindowPasses
    <3> QED
      BY <3>1, <3>2, BrkAssumption DEF EntryRec
  <2>4. entry' \in [FLease -> EntryRec]
    <3>1. entry' = [l \in FLease |-> entry'[l]]
      BY DEF WindowPasses
    <3> QED
      BY <2>3, <3>1
  <2> QED
    BY <1>0, <2>2, <2>3, <2>4 DEF LeaseTables, WindowPasses
<1>2. UNCHANGED <<onDaemon, orphans, load, unload, acq, left, lostAnswer, frun, counted>>
  BY DEF WindowPasses
<1>3. BrkTypeOK'
  BY <1>0, <1>1, <1>2, BrkKindsNext DEF HandlerTables, LoadTables
<1>4. HandlerOK' /\ NoneEscapes' /\ RunsOK'
  BY <1>2 DEF HandlerOK, NoneEscapes, RunsOK, BrkInv
<1>5. EntriesOK'
  BY <1>1, <1>2 DEF EntriesOK, EntryOK, BrkInv, FLease
<1>6. \A h \in FHost : /\ LeasesOn(h)' = LeasesOn(h) /\ RunsOn(h)' = RunsOn(h)
                      /\ RunsAdding(h)' = RunsAdding(h) /\ AskersAdding(h)' = AskersAdding(h)
  BY <1>1, <1>2 DEF LeasesOn, RunsOn, RunsAdding, AskersAdding
<1>7. Balanced'
  BY <1>2, <1>6, SameCounts DEF BrkInv
<1> QED
  BY <1>3, <1>4, <1>5, <1>7 DEF BrkInv

(* A count comes back: never twice, for it was still to come. *)
LEMMA SubKeeps == ASSUME BrkInv, NEW g \in FHost, SubLease(g) PROVE BrkInv'
<1>0. LeaseTables /\ HandlerTables /\ LoadTables
  BY BrkKinds DEF BrkInv
<1>1. UNCHANGED <<onDaemon, quiet, entry, orphans, acq, left, lostAnswer, frun, counted>>
  BY DEF SubLease
<1>2. /\ \A h \in FHost : h # g => load'[h] = load[h] /\ unload'[h] = unload[h]
      /\ unload[g] > 0 /\ unload'[g] = unload[g] - 1
      /\ load'[g] = IF load[g] = 0 THEN 0 ELSE load[g] - 1
      /\ load' \in [FHost -> Nat] /\ unload' \in [FHost -> Nat]
  BY <1>0 DEF SubLease, LoadTables
<1>3. BrkTypeOK'
  BY <1>0, <1>1, <1>2, BrkKindsNext DEF LeaseTables, HandlerTables, LoadTables
<1>4. HandlerOK' /\ NoneEscapes' /\ EntriesOK' /\ RunsOK'
  BY <1>1 DEF HandlerOK, NoneEscapes, EntriesOK, EntryOK, RunsOK, BrkInv
<1>5. Balanced'
  <2> SUFFICES ASSUME NEW h \in FHost
               PROVE  (Cardinality(LeasesOn(h)) + Cardinality(RunsOn(h)) + unload[h]
                        <= load[h] + Cardinality(AskersAdding(h)) + Cardinality(RunsAdding(h)))'
    BY DEF Balanced
  <2>0. Cardinality(LeasesOn(h)) + Cardinality(RunsOn(h)) + unload[h]
           <= load[h] + Cardinality(AskersAdding(h)) + Cardinality(RunsAdding(h))
    BY DEF BrkInv, Balanced
  <2>n. load[h] \in Nat /\ unload[h] \in Nat
    BY <1>0 DEF LoadTables
  <2>1. /\ LeasesOn(h)' = LeasesOn(h) /\ RunsOn(h)' = RunsOn(h)
        /\ RunsAdding(h)' = RunsAdding(h) /\ AskersAdding(h)' = AskersAdding(h)
    BY <1>1 DEF LeasesOn, RunsOn, RunsAdding, AskersAdding
  <2> QED
    BY <2>0, <2>n, <2>1, <1>2, Counts
<1> QED
  BY <1>3, <1>4, <1>5 DEF BrkInv

LEMMA LeavesKeeps == ASSUME BrkInv, NEW k \in Asker, Leaves(k) PROVE BrkInv'
<1>1. /\ UNCHANGED <<onDaemon, quiet, entry, orphans, load, unload, acq, lostAnswer, frun, counted>>
      /\ left' = left \cup {k}
  BY DEF Leaves
<1>2. BrkTypeOK'
  BY <1>1, BrkKinds, BrkKindsNext DEF LeaseTables, HandlerTables, LoadTables, BrkInv
<1>3. HandlerOK' /\ NoneEscapes' /\ EntriesOK' /\ RunsOK'
  BY <1>1 DEF HandlerOK, NoneEscapes, EntriesOK, EntryOK, RunsOK, BrkInv
<1>4. Balanced'
  BY <1>1, SameCounts DEF LeasesOn, RunsOn, RunsAdding, AskersAdding, BrkInv
<1> QED
  BY <1>2, <1>3, <1>4 DEF BrkInv

-----------------------------------------------------------------------------
(* Runs.  What is counted on a host for one run, before and after a step.  *)
One(b) == IF b THEN 1 ELSE 0

LEMMA OneChanges ==
  ASSUME NEW S, NEW T, NEW x, IsFiniteSet(S), IsFiniteSet(T), S \ {x} = T \ {x}
  PROVE  /\ Cardinality(S) \in Nat /\ Cardinality(T) \in Nat
         /\ Cardinality(T) - One(x \in T) = Cardinality(S) - One(x \in S)
<1>1. /\ Cardinality(S) \in Nat /\ Cardinality(S \ {x}) = Cardinality(S) - One(x \in S)
      /\ Cardinality(T) \in Nat /\ Cardinality(T \ {x}) = Cardinality(T) - One(x \in T)
  BY OneLess DEF One
<1> QED
  BY <1>1

RunMove(r, f) ==
  /\ frun' = [frun EXCEPT ![r] = f] /\ f \in RunRec
  /\ f.is # "none" /\ f.on \in FHost /\ (frun[r].is # "none" => f.on = frun[r].on)
  /\ load' \in [FHost -> Nat] /\ unload' \in [FHost -> Nat]
  /\ \A h \in FHost : h # f.on => load'[h] = load[h] /\ unload'[h] = unload[h]
  /\ One(f.entry = "loaded") + unload'[f.on] - load'[f.on] - One(f.adding)
       <= One(frun[r].entry = "loaded") + unload[f.on] - load[f.on] - One(frun[r].adding)
  /\ counted' = counted \/ counted' = [counted EXCEPT ![f.on] = counted[f.on] \cup {r}]
  /\ UNCHANGED <<onDaemon, quiet, entry, orphans, acq, left, lostAnswer>>

LEMMA RunMoveKeeps ==
  ASSUME BrkInv, NEW r \in FleetRun, NEW f, RunMove(r, f)
  PROVE  BrkInv'
<1>0. LeaseTables /\ HandlerTables /\ LoadTables
  BY BrkKinds DEF BrkInv
<1>f. frun'[r] = f /\ \A q \in FleetRun : q # r => frun'[q] = frun[q]
  BY <1>0 DEF LoadTables, RunMove
<1>c. /\ counted' \in [FHost -> SUBSET (FLease \cup FleetRun)]
      /\ \A h \in FHost : counted'[h] \subseteq counted[h] \cup (IF h = f.on THEN {r} ELSE {})
  BY <1>0 DEF LoadTables, RunMove
<1>1. BrkTypeOK'
  <2>1. LeaseTables' /\ HandlerTables'
    BY <1>0 DEF LeaseTables, HandlerTables, RunMove
  <2>2. LoadTables'
    BY <1>0, <1>c DEF LoadTables, RunMove
  <2> QED
    BY <2>1, <2>2, BrkKindsNext
<1>2. HandlerOK' /\ NoneEscapes' /\ EntriesOK'
  BY DEF HandlerOK, NoneEscapes, EntriesOK, EntryOK, BrkInv, RunMove
<1>3. RunsOK'
  <2>1. \A q \in FleetRun : /\ (frun[q].is = "none" => frun[q].entry = "none" /\ ~ frun[q].adding)'
                           /\ (frun[q].is # "none" => frun[q].on \in FHost)'
    BY <1>f DEF RunsOK, BrkInv, RunMove
  <2>2. \A h \in FHost : \A q \in FleetRun :
          q \in counted'[h] => frun'[q].on = h /\ frun'[q].is # "none"
    BY <1>f, <1>c DEF RunsOK, BrkInv, RunMove
  <2>3. \A h \in FHost : \A l \in FLease : l \in counted'[h] => l[2] = h
    <3>1. r \notin FLease
      BY BrkAssumption DEF FLease
    <3> QED
      BY <1>c, <3>1 DEF RunsOK, BrkInv
  <2> QED
    BY <2>1, <2>2, <2>3 DEF RunsOK
<1>4. Balanced'
  <2> SUFFICES ASSUME NEW h \in FHost
               PROVE  (Cardinality(LeasesOn(h)) + Cardinality(RunsOn(h)) + unload[h]
                        <= load[h] + Cardinality(AskersAdding(h)) + Cardinality(RunsAdding(h)))'
    BY DEF Balanced
  <2>0. Cardinality(LeasesOn(h)) + Cardinality(RunsOn(h)) + unload[h]
           <= load[h] + Cardinality(AskersAdding(h)) + Cardinality(RunsAdding(h))
    BY DEF BrkInv, Balanced
  <2>n. load[h] \in Nat /\ unload[h] \in Nat /\ load'[h] \in Nat /\ unload'[h] \in Nat
    BY <1>0 DEF LoadTables, RunMove
  <2>1. LeasesOn(h)' = LeasesOn(h) /\ AskersAdding(h)' = AskersAdding(h)
    BY DEF LeasesOn, AskersAdding, RunMove
  <2>2. RunsOn(h) \ {r} = RunsOn(h)' \ {r} /\ RunsAdding(h) \ {r} = RunsAdding(h)' \ {r}
    BY <1>f DEF RunsOn, RunsAdding
  <2>3. /\ r \in RunsOn(h) <=> (h = f.on /\ frun[r].entry = "loaded")
        /\ r \in RunsAdding(h) <=> (h = f.on /\ frun[r].adding)
        /\ r \in RunsOn(h)' <=> (h = f.on /\ f.entry = "loaded")
        /\ r \in RunsAdding(h)' <=> (h = f.on /\ f.adding)
    BY <1>f DEF RunsOn, RunsAdding, BrkInv, RunsOK, RunMove
  <2>4. /\ Cardinality(RunsOn(h)') - One(r \in RunsOn(h)')
             = Cardinality(RunsOn(h)) - One(r \in RunsOn(h))
        /\ Cardinality(RunsAdding(h)') - One(r \in RunsAdding(h)')
             = Cardinality(RunsAdding(h)) - One(r \in RunsAdding(h))
    BY <2>2, OneChanges, CountsFinite
  <2>5. CASE h = f.on
    <3>1. One(r \in RunsOn(h)') + unload'[h] - load'[h] - One(r \in RunsAdding(h)')
           <= One(r \in RunsOn(h)) + unload[h] - load[h] - One(r \in RunsAdding(h))
      BY <2>3, <2>5 DEF RunMove, One
    <3>2. \A b : One(b) \in 0..1
      BY DEF One
    <3> QED
      BY <2>0, <2>n, <2>1, <2>4, <3>1, <3>2, Counts
  <2>6. CASE h # f.on
    <3>1. load'[h] = load[h] /\ unload'[h] = unload[h]
      BY <2>6 DEF RunMove
    <3>2. /\ Cardinality(RunsOn(h)') = Cardinality(RunsOn(h))
          /\ Cardinality(RunsAdding(h)') = Cardinality(RunsAdding(h))
      BY <2>3, <2>4, <2>6, Counts DEF One
    <3> QED
      BY <2>0, <2>1, <3>1, <3>2
  <2> QED
    BY <2>5, <2>6
<1> QED
  BY <1>1, <1>2, <1>3, <1>4 DEF BrkInv

LEMMA RunSteps ==
  ASSUME BrkInv, NEW r \in FleetRun,
         \/ AddRun(r) \/ RunEnds(r) \/ SettleRun(r) \/ PruneRun(r) \/ RunFound(r)
         \/ \E h \in FHost : PlaceRun(r, h)
  PROVE  \E f : RunMove(r, f)
<1>0. LoadTables
  BY BrkKinds DEF BrkInv
<1>r. /\ frun \in [FleetRun -> RunRec] /\ frun[r] \in RunRec
      /\ load \in [FHost -> Nat] /\ unload \in [FHost -> Nat]
      /\ frun[r].is = "none" => frun[r].entry = "none" /\ ~ frun[r].adding
      /\ frun[r].is # "none" => frun[r].on \in FHost
  BY <1>0 DEF LoadTables, BrkInv, RunsOK
<1>1. CASE AddRun(r)
  <2> DEFINE f == [frun[r] EXCEPT !.adding = FALSE]
             h == frun[r].on
  <2>1. /\ frun[r].is # "none" /\ h \in FHost /\ frun[r].adding
        /\ frun' = [frun EXCEPT ![r] = f]
    BY <1>1, <1>r DEF AddRun
  <2>2. /\ f \in RunRec /\ f.is = frun[r].is /\ f.on = h /\ f.entry = frun[r].entry
        /\ f.adding = FALSE
    BY <1>r DEF RunRec
  <2> HIDE DEF f
  <2>3. /\ load' \in [FHost -> Nat] /\ load'[h] = load[h] + 1 /\ unload' = unload
        /\ \A g \in FHost : g # h => load'[g] = load[g]
    BY <1>1, <2>1, <1>r DEF AddRun
  <2>4. One(f.entry = "loaded") + unload'[h] - load'[h] - One(f.adding)
          <= One(frun[r].entry = "loaded") + unload[h] - load[h] - One(frun[r].adding)
    BY <2>1, <2>2, <2>3, <1>r DEF One
  <2>5. RunMove(r, f)
    BY <1>1, <2>1, <2>2, <2>3, <2>4, <1>r DEF AddRun, RunMove
  <2> QED
    BY <2>5
(* A step that ends no count and adds none. *)
<1>still. ASSUME NEW f \in RunRec, frun' = [frun EXCEPT ![r] = f], frun[r].is # "none",
                 f.is # "none", f.on = frun[r].on, f.adding = frun[r].adding,
                 (f.entry = "loaded") = (frun[r].entry = "loaded"),
                 UNCHANGED <<onDaemon, quiet, entry, orphans, load, unload, acq, left,
                             lostAnswer, counted>>
          PROVE  RunMove(r, f)
  <2>1. f.on \in FHost /\ load[f.on] \in Nat /\ unload[f.on] \in Nat
    BY <1>still, <1>r
  <2>2. One(f.entry = "loaded") + unload'[f.on] - load'[f.on] - One(f.adding)
          <= One(frun[r].entry = "loaded") + unload[f.on] - load[f.on] - One(frun[r].adding)
    BY <2>1, <1>still DEF One
  <2> QED
    BY <1>still, <1>r, <2>1, <2>2 DEF RunMove
(* One that stops believing in a counted run gives the count back. *)
<1>back. ASSUME NEW f \in RunRec, frun' = [frun EXCEPT ![r] = f], frun[r].entry = "loaded",
                f.entry # "loaded", f.is = frun[r].is, f.on = frun[r].on,
                f.adding = frun[r].adding,
                unload' = [unload EXCEPT ![frun[r].on] = unload[frun[r].on] + 1],
                UNCHANGED <<onDaemon, quiet, entry, orphans, load, acq, left, lostAnswer, counted>>
         PROVE  RunMove(r, f)
  <2>1. /\ frun[r].is # "none" /\ f.on \in FHost /\ load[f.on] \in Nat /\ unload[f.on] \in Nat
        /\ unload' \in [FHost -> Nat] /\ unload'[f.on] = unload[f.on] + 1
        /\ \A g \in FHost : g # f.on => unload'[g] = unload[g]
    BY <1>back, <1>r
  <2>2. One(f.entry = "loaded") + unload'[f.on] - load'[f.on] - One(f.adding)
          <= One(frun[r].entry = "loaded") + unload[f.on] - load[f.on] - One(frun[r].adding)
    BY <2>1, <1>back DEF One
  <2> QED
    BY <1>back, <1>r, <2>1, <2>2 DEF RunMove
<1>2. CASE RunEnds(r)
  <2>1. PICK s \in {"finished", "gone"} : frun' = [frun EXCEPT ![r].is = s]
    BY <1>2 DEF RunEnds
  <2> DEFINE f == [frun[r] EXCEPT !.is = s]
  <2>2. f \in RunRec /\ f.is = s /\ f.on = frun[r].on /\ f.entry = frun[r].entry
        /\ f.adding = frun[r].adding /\ frun' = [frun EXCEPT ![r] = f]
    BY <2>1, <1>r DEF RunRec
  <2> HIDE DEF f
  <2> QED
    BY <1>2, <2>2, <1>still DEF RunEnds
<1>3. CASE SettleRun(r)
  <2> DEFINE f == [frun[r] EXCEPT !.entry = "settled"]
  <2>2. f \in RunRec /\ f.is = frun[r].is /\ f.on = frun[r].on /\ f.entry = "settled"
        /\ f.adding = frun[r].adding /\ frun' = [frun EXCEPT ![r] = f]
    BY <1>3, <1>r DEF RunRec, SettleRun
  <2> HIDE DEF f
  <2> QED
    BY <1>3, <2>2, <1>back DEF SettleRun
<1>4. CASE PruneRun(r)
  <2> DEFINE f == [frun[r] EXCEPT !.entry = "none"]
  <2>2. f \in RunRec /\ f.is = frun[r].is /\ f.on = frun[r].on /\ f.entry = "none"
        /\ f.adding = frun[r].adding /\ frun' = [frun EXCEPT ![r] = f]
    BY <1>4, <1>r DEF RunRec, PruneRun
  <2> HIDE DEF f
  <2>3. CASE frun[r].entry = "loaded"
    BY <1>4, <2>2, <2>3, <1>back DEF PruneRun
  <2>4. CASE frun[r].entry # "loaded"
    <3>1. frun[r].is # "none"
      BY <1>4, <1>r DEF PruneRun
    <3> QED
      BY <1>4, <2>2, <2>4, <3>1, <1>still DEF PruneRun
  <2> QED
    BY <2>3, <2>4
<1>5. CASE RunFound(r)
  <2> DEFINE f == [frun[r] EXCEPT !.entry = "settled"]
  <2>2. f \in RunRec /\ f.is = frun[r].is /\ f.on = frun[r].on /\ f.entry = "settled"
        /\ f.adding = frun[r].adding /\ frun' = [frun EXCEPT ![r] = f]
    BY <1>5, <1>r DEF RunRec, RunFound
  <2> HIDE DEF f
  <2> QED
    BY <1>5, <2>2, <1>still DEF RunFound
<1>6. ASSUME NEW h \in FHost, PlaceRun(r, h)
      PROVE  \E f : RunMove(r, f)
  <2> DEFINE f == [on |-> h, is |-> "running", entry |-> "loaded", adding |-> TRUE]
  <2>1. f \in RunRec /\ f.is = "running" /\ f.on = h /\ f.entry = "loaded" /\ f.adding = TRUE
        /\ frun' = [frun EXCEPT ![r] = f]
    BY <1>6 DEF PlaceRun, RunRec, MaybeHost
  <2> HIDE DEF f
  <2>2. frun[r].entry = "none" /\ ~ frun[r].adding /\ frun[r].is = "none"
        /\ load[h] \in Nat /\ unload[h] \in Nat
    BY <1>6, <1>r DEF PlaceRun
  <2>3. One(f.entry = "loaded") + unload[h] - load[h] - One(f.adding)
          <= One(frun[r].entry = "loaded") + unload[h] - load[h] - One(frun[r].adding)
    BY <2>1, <2>2 DEF One
  <2>4. RunMove(r, f)
    BY <1>6, <2>1, <2>2, <2>3, <1>r DEF PlaceRun, RunMove
  <2> QED
    BY <2>4
<1> QED
  BY <1>1, <1>2, <1>3, <1>4, <1>5, <1>6

LEMMA BrkStep == ASSUME BrkInv, [BrkNext]_brkVars PROVE BrkInv'
<1>1. ASSUME NEW k \in Asker,
             \/ AskStart(k) \/ AskedAll(k) \/ Compare(k) \/ DropAdopts(k) \/ DropFrees(k)
             \/ Granted(k) \/ FreeConfirmed(k) \/ FreeUnconfirmed(k) \/ Undeliverable(k)
             \/ \E ans \in LiveOn : AskAnswered(k, ans)
             \/ \E ans \in LiveOn \cup {"none"} : AskFailed(k, ans)
      PROVE  BrkInv'
  BY <1>1, HandlerSteps, HandlerMoveKeeps
<1>2. ASSUME NEW k \in Asker, RememberLease(k) \/ AddLease(k) \/ Leaves(k)
      PROVE  BrkInv'
  BY <1>2, Remembered, LeaseAdded, LeavesKeeps
<1>3. ASSUME NEW l \in FLease,
             \/ ProxyGet(l) \/ ProxyRelease(l) \/ ReconcileLease(l) \/ ReleaseOrphan(l)
             \/ PruneTombstone(l) \/ DaemonStep(l) \/ DaemonExpires(l)
      PROVE  BrkInv'
  BY <1>3, LeaseSteps, LeaseMoveKeeps
<1>4. ASSUME NEW h \in FHost, SubLease(h)
      PROVE  BrkInv'
  BY <1>4, SubKeeps
<1>5. CASE WindowPasses
  BY <1>5, WindowKeeps
<1>6. ASSUME NEW r \in FleetRun,
             \/ AddRun(r) \/ RunEnds(r) \/ SettleRun(r) \/ PruneRun(r) \/ RunFound(r)
             \/ \E h \in FHost : PlaceRun(r, h)
      PROVE  BrkInv'
  BY <1>6, RunSteps, RunMoveKeeps
<1>7. CASE UNCHANGED brkVars
  <2> USE <1>7 DEF brkVars
  <2>1. BrkTypeOK' /\ HandlerOK' /\ NoneEscapes' /\ RunsOK'
    BY DEF BrkTypeOK, HandlerOK, NoneEscapes, RunsOK, BrkInv
  <2>2. EntriesOK'
    BY DEF EntriesOK, EntryOK, BrkInv
  <2>3. Balanced'
    BY SameCounts DEF LeasesOn, RunsOn, RunsAdding, AskersAdding, BrkInv
  <2> QED
    BY <2>1, <2>2, <2>3 DEF BrkInv
<1> QED
  BY <1>1, <1>2, <1>3, <1>4, <1>5, <1>6, <1>7 DEF BrkNext

(* What is counted and still believed in is among the live leases and the  *)
(* loaded runs.                                                            *)
LEMMA BrkHolds == BrkInv => BrkSafe
<1> SUFFICES ASSUME BrkInv PROVE BrkSafe
  OBVIOUS
<1>1. BrkNoLeak
  <2> SUFFICES ASSUME NEW l \in FLease, onDaemon[l] \in LiveOn,
                      acq[l[1]].at \in {"adding", "answered", "failed"}
               PROVE  \/ entry[l].state \in LiveOn /\ l[2] = acq[l[1]].cur
                      \/ l \in orphans \/ l \in lostAnswer
    BY DEF BrkNoLeak
  <2>1. l[1] \in Asker /\ l[2] \in FHost /\ l = <<l[1], l[2]>>
    BY DEF FLease
  <2>2. l[2] \in KnownIn(acq[l[1]]) \/ l \in orphans \cup lostAnswer
    BY <2>1 DEF BrkInv, NoneEscapes
  <2>3. l[2] \in KnownIn(acq[l[1]]) => acq[l[1]].at \in Delivered /\ l[2] = acq[l[1]].cur
    BY DEF KnownIn, Delivered
  <2>4. EntryOK(l[1], l[2])
    BY <2>1 DEF BrkInv, EntriesOK
  <2> QED
    BY <2>1, <2>2, <2>3, <2>4 DEF EntryOK
<1>2. BrkLoadCovers
  <2> SUFFICES ASSUME NEW h \in FHost
               PROVE  Cardinality({x \in counted[h] :
                        IF x \in FLease THEN entry[x].state \in LiveOn
                        ELSE frun[x].entry = "loaded"}) <= load[h] + Adding(h)
    BY DEF BrkLoadCovers
  <2> DEFINE B == {x \in counted[h] : IF x \in FLease THEN entry[x].state \in LiveOn
                                      ELSE frun[x].entry = "loaded"}
  <2>1. B \subseteq LeasesOn(h) \cup RunsOn(h)
    <3>1. counted[h] \subseteq FLease \cup FleetRun
      BY BrkKinds DEF BrkInv, LoadTables
    <3> QED
      BY <3>1 DEF LeasesOn, RunsOn, BrkInv, RunsOK
  <2>2. /\ IsFiniteSet(LeasesOn(h) \cup RunsOn(h))
        /\ Cardinality(LeasesOn(h) \cup RunsOn(h))
             = Cardinality(LeasesOn(h)) + Cardinality(RunsOn(h))
               - Cardinality(LeasesOn(h) \cap RunsOn(h))
    BY FS_Union, CountsFinite
  <2>3. Cardinality(B) <= Cardinality(LeasesOn(h) \cup RunsOn(h)) /\ IsFiniteSet(B)
    BY <2>1, <2>2, FS_Subset
  <2>4. Cardinality(LeasesOn(h) \cap RunsOn(h)) \in Nat /\ Cardinality(B) \in Nat
    <3>1. IsFiniteSet(LeasesOn(h) \cap RunsOn(h))
      BY CountsFinite, FS_Intersection
    <3> QED
      BY <3>1, <2>3, FS_CardinalityType
  <2>5. Adding(h) = Cardinality(AskersAdding(h)) + Cardinality(RunsAdding(h))
    BY DEF Adding, AskersAdding, RunsAdding
  <2>6. Cardinality(LeasesOn(h)) + Cardinality(RunsOn(h)) + unload[h]
          <= load[h] + Cardinality(AskersAdding(h)) + Cardinality(RunsAdding(h))
    BY DEF BrkInv, Balanced
  <2>7. load[h] \in Nat /\ unload[h] \in Nat
    BY BrkKinds DEF BrkInv, LoadTables
  <2> HIDE DEF B
  <2>8. Cardinality(B) <= load[h] + Adding(h)
    BY <2>2, <2>3, <2>4, <2>5, <2>6, <2>7, Counts
  <2> QED
    BY <2>8 DEF B
<1> QED
  BY <1>1, <1>2 DEF BrkSafe

-----------------------------------------------------------------------------
(* An order, as a set of pairs, and the place of an element in it. *)
IsOrder(S, R) ==
  /\ \A x, y \in S : <<x, y>> \in R \/ <<y, x>> \in R
  /\ \A x, y \in S : <<x, y>> \in R /\ <<y, x>> \in R => x = y
  /\ \A x, y, z \in S : <<x, y>> \in R /\ <<y, z>> \in R => <<x, z>> \in R

PlaceIn(S, R, x) == Cardinality({y \in S : <<y, x>> \in R})

(* In a finite set every place is taken, once, and in order. *)
LEMMA Positions ==
  ASSUME NEW S, IsFiniteSet(S), NEW R, IsOrder(S, R)
  PROVE  /\ Cardinality(S) \in Nat
         /\ \A x \in S : PlaceIn(S, R, x) \in 1..Cardinality(S)
         /\ \A x, y \in S : x # y /\ <<x, y>> \in R => PlaceIn(S, R, x) < PlaceIn(S, R, y)
         /\ \A i \in 1..Cardinality(S) : \E x \in S : PlaceIn(S, R, x) = i
<1> DEFINE D(x) == {y \in S : <<y, x>> \in R}
           n == Cardinality(S)
           f == [x \in S |-> PlaceIn(S, R, x)]
<1>0. n \in Nat
  BY FS_CardinalityType
<1>1. ASSUME NEW x \in S
      PROVE  IsFiniteSet(D(x)) /\ PlaceIn(S, R, x) \in 1..n
  <2>1. D(x) \subseteq S /\ x \in D(x)
    BY Zenon DEF IsOrder
  <2>2. IsFiniteSet(D(x)) /\ Cardinality(D(x)) <= n /\ Cardinality(D(x)) \in Nat
    BY <2>1, FS_Subset, FS_CardinalityType
  <2>3. Cardinality(D(x)) # 0
    BY <2>1, <2>2, FS_EmptySet
  <2> QED
    BY <2>2, <2>3, <1>0 DEF PlaceIn
<1>a. \A x \in S : PlaceIn(S, R, x) \in 1..n
  BY <1>1
<1>b. \A x \in S : PlaceIn(S, R, x) \in Nat
  <2> HIDE DEF n
  <2> QED BY <1>a, <1>0
<1>2. ASSUME NEW x \in S, NEW y \in S, x # y, <<x, y>> \in R
      PROVE  PlaceIn(S, R, x) < PlaceIn(S, R, y)
  <2>1. D(x) \subseteq D(y) /\ y \in D(y) /\ y \notin D(x)
    BY <1>2, Zenon DEF IsOrder
  <2>2. Cardinality(D(x)) <= Cardinality(D(y)) /\ Cardinality(D(x)) # Cardinality(D(y))
    <3> DEFINE A == D(x)  B == D(y)
    <3>1. IsFiniteSet(B) /\ A \subseteq B /\ A # B
      BY <2>1, <1>1
    <3> HIDE DEF A, B
    <3>2. Cardinality(A) <= Cardinality(B) /\ Cardinality(A) # Cardinality(B)
      BY <3>1, FS_Subset
    <3> QED
      BY <3>2 DEF A, B
  <2>3. PlaceIn(S, R, x) = Cardinality(D(x)) /\ PlaceIn(S, R, y) = Cardinality(D(y))
    BY DEF PlaceIn
  <2>4. PlaceIn(S, R, x) \in Nat /\ PlaceIn(S, R, y) \in Nat
    BY <1>b
  <2> QED
    BY <2>2, <2>3, <2>4
<1>3. f \in Injection(S, 1..n)
  <2>1. f \in [S -> 1..n]
    BY <1>1
  <2>2. \A x, y \in S : f[x] = f[y] => x = y
    <3> SUFFICES ASSUME NEW x \in S, NEW y \in S, x # y PROVE f[x] # f[y]
      OBVIOUS
    <3>1. <<x, y>> \in R \/ <<y, x>> \in R
      BY Zenon DEF IsOrder
    <3>2. PlaceIn(S, R, x) \in Int /\ PlaceIn(S, R, y) \in Int
      BY <1>b
    <3>3. PlaceIn(S, R, x) < PlaceIn(S, R, y) \/ PlaceIn(S, R, y) < PlaceIn(S, R, x)
      BY <3>1, <1>2
    <3> QED
      BY <3>2, <3>3
  <2> QED
    BY <2>1, <2>2 DEF Injection, IsInjective
<1>4. IsFiniteSet(1..n) /\ Cardinality(1..n) = n
  BY <1>0, FS_Interval
<1>5. f \in Surjection(S, 1..n)
  BY <1>3, <1>4, FS_Injection
<1>6. \A i \in 1..n : \E x \in S : f[x] = i
  BY <1>5 DEF Surjection
<1> QED
  BY <1>0, <1>1, <1>2, <1>6

LEMMA MinMax ==
  ASSUME NEW S, IsFiniteSet(S), S # {}, S \subseteq Int
  PROVE  /\ \E lo \in S : \A x \in S : lo <= x
         /\ \E hi \in S : \A x \in S : x <= hi
<1> DEFINE R == {p \in S \X S : p[1] <= p[2]}
           n == Cardinality(S)
<1>1. \A x, y \in S : <<x, y>> \in R <=> x <= y
  OBVIOUS
<1>2. n \in Nat /\ n # 0
  BY FS_CardinalityType, FS_EmptySet
<1> HIDE DEF R, n
<1>3. /\ \A x \in S : PlaceIn(S, R, x) \in 1..n
      /\ \A x, y \in S : x # y /\ <<x, y>> \in R => PlaceIn(S, R, x) < PlaceIn(S, R, y)
      /\ \A i \in 1..n : \E x \in S : PlaceIn(S, R, x) = i
  <2>1. \A x, y \in S : <<x, y>> \in R \/ <<y, x>> \in R
    <3> SUFFICES ASSUME NEW x \in S, NEW y \in S PROVE <<x, y>> \in R \/ <<y, x>> \in R
      OBVIOUS
    <3>1. x <= y \/ y <= x
      OBVIOUS
    <3> QED
      BY <1>1, <3>1
  <2>2. \A x, y \in S : <<x, y>> \in R /\ <<y, x>> \in R => x = y
    BY <1>1
  <2>3. \A x, y, z \in S : <<x, y>> \in R /\ <<y, z>> \in R => <<x, z>> \in R
    <3> SUFFICES ASSUME NEW x \in S, NEW y \in S, NEW z \in S, <<x, y>> \in R, <<y, z>> \in R
                 PROVE <<x, z>> \in R
      OBVIOUS
    <3>1. x <= y /\ y <= z
      BY <1>1
    <3>2. x <= z
      BY <3>1
    <3> QED
      BY <1>1, <3>2
  <2>4. IsOrder(S, R)
    BY <2>1, <2>2, <2>3 DEF IsOrder
  <2> QED
    BY <2>4, Positions DEF n
<1>4. \A x, y \in S : PlaceIn(S, R, x) <= PlaceIn(S, R, y) => x <= y
  <2> SUFFICES ASSUME NEW x \in S, NEW y \in S, ~ (x <= y) PROVE ~ (PlaceIn(S, R, x) <= PlaceIn(S, R, y))
    OBVIOUS
  <2>1. y <= x /\ x # y
    OBVIOUS
  <2>2. PlaceIn(S, R, y) < PlaceIn(S, R, x)
    BY <2>1, <1>1, <1>3
  <2> QED
    BY <2>2, <1>2, <1>3
<1>5. PICK lo \in S : PlaceIn(S, R, lo) = 1
  BY <1>2, <1>3
<1>6. PICK hi \in S : PlaceIn(S, R, hi) = n
  BY <1>2, <1>3
<1>7. \A x \in S : lo <= x /\ x <= hi
  BY <1>2, <1>3, <1>4, <1>5, <1>6
<1> QED
  BY <1>7

(* Arithmetic modulo c. *)
LEMMA DivMod == ASSUME NEW c \in Nat \ {0}, NEW x \in Int PROVE x = c * (x \div c) + (x % c) /\ x \div c \in Int /\ (x % c) \in 0..(c-1)
  OBVIOUS
LEMMA AtLeastOnce == ASSUME NEW c \in Nat \ {0}, NEW m \in Int, m >= 1 PROVE c * m >= c
<1>1. c * m = c * (m - 1) + c
  OBVIOUS
<1>2. c * (m - 1) >= 0
  <2>1. m - 1 \in Nat OBVIOUS
  <2> DEFINE n == m - 1
  <2> HIDE DEF n
  <2>2. n \in Nat => c * n >= 0 OBVIOUS
  <2> QED BY <2>1, <2>2 DEF n
<1>3. c * (m - 1) \in Int
  OBVIOUS
<1> QED BY <1>1, <1>2, <1>3
LEMMA ModOf == ASSUME NEW c \in Nat \ {0}, NEW x \in Int, NEW q \in Int, NEW r \in 0..(c-1), x = c * q + r
  PROVE x % c = r
<1> DEFINE p == x \div c s == x % c
<1>1. x = c * p + s /\ p \in Int /\ s \in 0..(c-1)
  BY DivMod
<1> HIDE DEF p, s
<1>2. c * (q - p) = s - r /\ c * (p - q) = r - s
  BY <1>1
<1>3. CASE q = p
  BY <1>1, <1>3 DEF s
<1>4. CASE q - p >= 1
  BY <1>4, <1>1, <1>2, AtLeastOnce
<1>5. CASE p - q >= 1
  BY <1>5, <1>1, <1>2, AtLeastOnce
<1> QED BY <1>1, <1>3, <1>4, <1>5
LEMMA ModShifts == ASSUME NEW c \in Nat \ {0}, NEW x \in Int, NEW k \in 0..(c-1) PROVE (x+k) % c = IF (x % c) + k < c THEN (x % c) + k ELSE (x % c) + k - c
<1> DEFINE q == x \div c  r == x % c
<1>1. x = c * q + r /\ q \in Int /\ r \in 0..(c-1)
  BY DivMod
<1> HIDE DEF q, r
<1> SUFFICES (x + k) % c = IF r + k < c THEN r + k ELSE r + k - c
  BY DEF r
<1> DEFINE z == x + k
<1>2. z \in Int
  BY DEF z
<1>3. CASE r + k < c
   <2>1. z = c * q + (r + k) /\ r + k \in 0..(c-1)
     BY <1>1, <1>3
   <2>2. z % c = r + k
     <3> HIDE DEF z
     <3> QED BY <2>1, ModOf, <1>1, <1>2
   <2> QED BY <2>2, <1>3
<1>4. CASE ~ (r + k < c)
   <2>1. z = c * (q + 1) + (r + k - c) /\ r + k - c \in 0..(c-1) /\ q + 1 \in Int
     BY <1>1, <1>4
   <2>2. z % c = r + k - c
     <3> HIDE DEF z
     <3> QED BY <2>1, ModOf, <1>1, <1>2
   <2> QED BY <2>2, <1>4
<1> QED BY <1>3, <1>4
LEMMA ModReaches == ASSUME NEW c \in Nat \ {0}, NEW x \in Int, NEW j \in 0..(c-1) PROVE \E k \in 0..(c-1) : (x + k) % c = j
<1> DEFINE r == x % c
<1>0. r \in 0..(c-1) BY DivMod
<1>m. \A k \in 0..(c-1) : (x+k) % c = IF r + k < c THEN r + k ELSE r + k - c
  BY ModShifts
<1> HIDE DEF r
<1> DEFINE k1 == IF j >= r THEN j - r ELSE j - r + c
<1>1. k1 \in 0..(c-1) /\ j = IF r + k1 < c THEN r + k1 ELSE r + k1 - c
    BY <1>0
<1> HIDE DEF k1
<1>2. (x + k1) % c = j
  BY <1>1, <1>m
<1> QED BY <1>1, <1>2

-----------------------------------------------------------------------------
(* Placement: the ranking. *)
Candidate == [h: Int, rank: Int \X Int \X Int]
Candidates(C) == C \subseteq Candidate /\ IsFiniteSet(C) /\ \A c, d \in C : c.h = d.h => c = d
NotAfter(d, c) == Better(d.rank, c.rank) \/ (d.rank = c.rank /\ d.h <= c.h)

LEMMA RanksCompare ==
  ASSUME NEW a \in Int \X Int \X Int, NEW b \in Int \X Int \X Int, NEW c \in Int \X Int \X Int
  PROVE  /\ Better(a, b) \/ Better(b, a) \/ a = b
         /\ ~ Better(a, a)
         /\ ~ (Better(a, b) /\ Better(b, a))
         /\ Better(a, b) /\ Better(b, c) => Better(a, c)
<1> USE DEF Better
<1>0. /\ a[1] \in Int /\ a[2] \in Int /\ a[3] \in Int /\ b[1] \in Int /\ b[2] \in Int /\ b[3] \in Int
      /\ c[1] \in Int /\ c[2] \in Int /\ c[3] \in Int
      /\ a = <<a[1], a[2], a[3]>> /\ b = <<b[1], b[2], b[3]>>
  OBVIOUS
<1>1. a[1] = b[1] /\ a[2] = b[2] /\ a[3] = b[3] => a = b
  BY <1>0
<1>2. Better(a, b) \/ Better(b, a) \/ (a[1] = b[1] /\ a[2] = b[2] /\ a[3] = b[3])
  BY <1>0
<1>3. ~ Better(a, a) /\ ~ (Better(a, b) /\ Better(b, a))
  BY <1>0
<1>4. Better(a, b) /\ Better(b, c) => Better(a, c)
  BY <1>0
<1> QED
  BY <1>1, <1>2, <1>3, <1>4

(* The stable sort. *)
LEMMA SortedSorts ==
  ASSUME NEW C, Candidates(C)
  PROVE  LET s == Sorted(C)
             n == Cardinality(C)
         IN  /\ n \in Nat /\ s \in [1..n -> C]
             /\ \A c \in C : \E i \in 1..n : s[i] = c
             /\ \A i, j \in 1..n : s[i] = s[j] => i = j
             /\ \A i, j \in 1..n : i < j => ~ Better(s[j].rank, s[i].rank)
<1> DEFINE R == {p \in C \X C : NotAfter(p[1], p[2])}
           n == Cardinality(C)
           s == Sorted(C)
<1>1. \A c, d \in C : <<c, d>> \in R <=> NotAfter(c, d)
  OBVIOUS
<1>t. \A c \in C : c.h \in Int /\ c.rank \in Int \X Int \X Int
  BY DEF Candidates, Candidate
<1>2. IsOrder(C, R)
  <2>1. ASSUME NEW c \in C, NEW d \in C
        PROVE  NotAfter(c, d) \/ NotAfter(d, c)
    <3>1. Better(c.rank, d.rank) \/ Better(d.rank, c.rank) \/ c.rank = d.rank
      BY <1>t, RanksCompare
    <3>2. c.h <= d.h \/ d.h <= c.h
      BY <1>t
    <3> QED
      BY <3>1, <3>2 DEF NotAfter
  <2>2. ASSUME NEW c \in C, NEW d \in C, NotAfter(c, d), NotAfter(d, c)
        PROVE  c = d
    <3>1. c.rank = d.rank /\ c.h <= d.h /\ d.h <= c.h
      BY <1>t, <2>2, RanksCompare DEF NotAfter
    <3>2. c.h = d.h
      BY <3>1, <1>t
    <3> QED
      BY <3>2 DEF Candidates
  <2>3. ASSUME NEW c \in C, NEW d \in C, NEW e \in C, NotAfter(c, d), NotAfter(d, e)
        PROVE  NotAfter(c, e)
    <3>0. c.h \in Int /\ d.h \in Int /\ e.h \in Int
      BY <1>t
    <3>1. Better(c.rank, d.rank) /\ Better(d.rank, e.rank) => Better(c.rank, e.rank)
      BY <1>t, RanksCompare
    <3>2. c.h <= d.h /\ d.h <= e.h => c.h <= e.h
      BY <3>0
    <3> QED
      BY <2>3, <3>1, <3>2 DEF NotAfter
  <2> HIDE DEF R
  <2> QED
    BY <1>1, <2>1, <2>2, <2>3 DEF IsOrder
<1> HIDE DEF R
<1>3. /\ n \in Nat
      /\ \A x \in C : PlaceIn(C, R, x) \in 1..n
      /\ \A x, y \in C : x # y /\ <<x, y>> \in R => PlaceIn(C, R, x) < PlaceIn(C, R, y)
      /\ \A i \in 1..n : \E x \in C : PlaceIn(C, R, x) = i
  BY <1>2, Positions DEF Candidates
<1> DEFINE Pos(c) == Cardinality({d \in C : Better(d.rank, c.rank)
                                              \/ (d.rank = c.rank /\ d.h <= c.h)})
<1>4. \A c \in C : PlaceIn(C, R, c) = Pos(c)
  <2> SUFFICES ASSUME NEW c \in C
               PROVE  {d \in C : <<d, c>> \in R}
                        = {d \in C : Better(d.rank, c.rank)
                                       \/ (d.rank = c.rank /\ d.h <= c.h)}
    BY DEF PlaceIn
  <2>1. \A d \in C : <<d, c>> \in R <=> (Better(d.rank, c.rank)
                                          \/ (d.rank = c.rank /\ d.h <= c.h))
    BY <1>1 DEF NotAfter
  <2> QED
    BY <2>1, Zenon
<1>5. s = [i \in 1..n |-> CHOOSE c \in C : Pos(c) = i]
  BY DEF Sorted
<1> HIDE DEF s, n, Pos
<1>6. \A i \in 1..n : s[i] \in C /\ PlaceIn(C, R, s[i]) = i
  <2> SUFFICES ASSUME NEW i \in 1..n PROVE s[i] \in C /\ PlaceIn(C, R, s[i]) = i
    OBVIOUS
  <2>1. \E c \in C : Pos(c) = i
    BY <1>3, <1>4
  <2>2. s[i] = CHOOSE c \in C : Pos(c) = i
    BY <1>5
  <2>3. s[i] \in C /\ Pos(s[i]) = i
    BY <2>1, <2>2, Zenon
  <2> QED
    BY <2>3, <1>4
<1>7. s \in [1..n -> C]
  BY <1>5, <1>6
<1>8. \A c \in C : \A d \in C : PlaceIn(C, R, c) = PlaceIn(C, R, d) => c = d
  <2> SUFFICES ASSUME NEW c \in C, NEW d \in C, c # d PROVE PlaceIn(C, R, c) # PlaceIn(C, R, d)
    OBVIOUS
  <2>1. <<c, d>> \in R \/ <<d, c>> \in R
    BY <1>2, Zenon DEF IsOrder
  <2>2. PlaceIn(C, R, c) \in Nat /\ PlaceIn(C, R, d) \in Nat
    BY <1>3
  <2>3. PlaceIn(C, R, c) < PlaceIn(C, R, d) \/ PlaceIn(C, R, d) < PlaceIn(C, R, c)
    BY <2>1, <1>3
  <2> QED
    BY <2>2, <2>3
<1>9. \A c \in C : PlaceIn(C, R, c) \in 1..n /\ s[PlaceIn(C, R, c)] = c
  BY <1>3, <1>6, <1>8
<1>10. \A i, j \in 1..n : i < j => ~ Better(s[j].rank, s[i].rank)
  <2> SUFFICES ASSUME NEW i \in 1..n, NEW j \in 1..n, i < j, Better(s[j].rank, s[i].rank)
               PROVE  FALSE
    OBVIOUS
  <2>1. s[i] \in C /\ s[j] \in C /\ PlaceIn(C, R, s[i]) = i /\ PlaceIn(C, R, s[j]) = j
    BY <1>6
  <2>2. <<s[j], s[i]>> \in R
    BY <2>1, <1>1 DEF NotAfter
  <2>3. s[j] # s[i]
    BY <2>1, <1>3
  <2>4. j < i
    BY <2>1, <2>2, <2>3, <1>3
  <2> QED
    BY <2>4, <1>3
<1>11. /\ \A c \in C : \E i \in 1..n : s[i] = c
       /\ \A i, j \in 1..n : s[i] = s[j] => i = j
  BY <1>6, <1>9
<1> QED
  BY <1>3, <1>7, <1>10, <1>11 DEF s, n
(* What Sorted gives, for a sequence s of the n candidates C. *)
IsSorted(s, n, C) ==
  /\ C \subseteq Candidate /\ n \in Nat /\ s \in [1..n -> C]
  /\ \A c \in C : \E i \in 1..n : s[i] = c
  /\ \A i, j \in 1..n : s[i] = s[j] => i = j
  /\ \A i, j \in 1..n : i < j => ~ Better(s[j].rank, s[i].rank)

Run(s, i) == {j \in DOMAIN s : Tied(s[i], s[j])}

(* Equals stand side by side. *)
LEMMA RunIsInterval ==
  ASSUME NEW C, NEW n, NEW s, IsSorted(s, n, C), NEW i \in 1..n
  PROVE  \E lo, hi \in 1..n : lo <= i /\ i <= hi /\ Run(s, i) = lo..hi
<1>0. n \in Nat /\ DOMAIN s = 1..n /\ \A j \in 1..n : s[j].rank \in Int \X Int \X Int
  BY DEF IsSorted, Candidate
<1>1. Run(s, i) \subseteq 1..n /\ i \in Run(s, i)
  BY <1>0 DEF Run, Tied
<1>2. IsFiniteSet(Run(s, i))
  <2>1. IsFiniteSet(1..n)
    BY <1>0, FS_Interval
  <2> QED
    BY <2>1, <1>1, FS_Subset
<1>m. Run(s, i) \subseteq Int /\ Run(s, i) # {}
  BY <1>0, <1>1
<1>3. PICK lo \in Run(s, i) : \A x \in Run(s, i) : lo <= x
  BY <1>m, <1>2, MinMax
<1>4. PICK hi \in Run(s, i) : \A x \in Run(s, i) : x <= hi
  BY <1>m, <1>2, MinMax
<1>5. lo \in 1..n /\ hi \in 1..n /\ lo <= i /\ i <= hi
  BY <1>1, <1>3, <1>4
<1>6. ASSUME NEW j \in lo..hi
      PROVE  j \in Run(s, i)
  <2>1. j \in 1..n /\ lo <= j /\ j <= hi
    BY <1>0, <1>5
  <2>2. s[lo].rank = s[i].rank /\ s[hi].rank = s[i].rank
    BY <1>3, <1>4 DEF Run, Tied
  <2>3. CASE j = lo \/ j = hi
    BY <2>3
  <2>4. CASE j # lo /\ j # hi
    <3>1. lo < j /\ j < hi
      BY <2>1, <2>4, <1>5, <1>0
    <3>2. ~ Better(s[j].rank, s[lo].rank) /\ ~ Better(s[hi].rank, s[j].rank)
      BY <3>1, <2>1, <1>5 DEF IsSorted
    <3>3. s[j].rank \in Int \X Int \X Int /\ s[i].rank \in Int \X Int \X Int
      BY <1>0, <2>1
    <3>4. s[j].rank = s[i].rank
      BY <3>2, <3>3, <2>2, RanksCompare
    <3> QED
      BY <3>4, <2>1, <1>0 DEF Run, Tied
  <2> QED
    BY <2>3, <2>4
<1>7. Run(s, i) = lo..hi
  <2>1. \A x \in Run(s, i) : x \in lo..hi
    BY <1>0, <1>1, <1>3, <1>4, <1>5
  <2> QED
    BY <2>1, <1>6
<1> QED
  BY <1>5, <1>7

(* The place a run of equals is rotated from. *)
RunFrom(s, i, lo, hi) == lo <= hi /\ Run(s, i) = lo..hi
TurnedTo(s, k, i, lo, hi) ==
  /\ Rotated(s, k)[i] = s[lo + ((i - lo + k) % (hi - lo + 1))]
  /\ lo + ((i - lo + k) % (hi - lo + 1)) \in lo..hi
LEMMA RotatedWithin ==
  ASSUME NEW C, NEW n, NEW s, IsSorted(s, n, C), NEW i \in 1..n, NEW k \in Int,
         NEW lo \in 1..n, NEW hi \in 1..n, RunFrom(s, i, lo, hi)
  PROVE  TurnedTo(s, k, i, lo, hi)
<1> USE DEF RunFrom, TurnedTo
<1>0. DOMAIN s = 1..n /\ n \in Nat
  BY DEF IsSorted
<1> DEFINE low == CHOOSE j \in Run(s, i) : \A m \in Run(s, i) : j <= m
<1>1. low = lo
  <2>1. lo \in Run(s, i) /\ \A m \in Run(s, i) : lo <= m
    OBVIOUS
  <2>2. low \in Run(s, i) /\ \A m \in Run(s, i) : low <= m
    BY <2>1, Zenon
  <2>3. low <= lo /\ lo <= low /\ low \in Int
    BY <2>1, <2>2
  <2> QED
    BY <2>3
<1>2. Cardinality(Run(s, i)) = hi - lo + 1
  BY FS_Interval
<1>3. Rotated(s, k)[i] = s[low + ((i - low + k) % Cardinality(Run(s, i)))]
  BY <1>0 DEF Rotated, Run
<1>4. (i - lo + k) % (hi - lo + 1) \in 0..(hi - lo)
  <2>1. hi - lo + 1 \in Nat \ {0} /\ i - lo + k \in Int
    OBVIOUS
  <2> DEFINE m == hi - lo + 1  x == i - lo + k
  <2>2. x % m \in 0..(m - 1)
    <3> HIDE DEF m, x
    <3> QED
      BY <2>1, DivMod DEF m, x
  <2> QED
    BY <2>2
<1>5. lo + ((i - lo + k) % (hi - lo + 1)) \in lo..hi
  BY <1>4
<1> QED
  BY <1>1, <1>2, <1>3, <1>5

(* Rotating the runs keeps the candidates and their order. *)
LEMMA RotatedSorts ==
  ASSUME NEW C, NEW n, NEW s, IsSorted(s, n, C), NEW k \in Int
  PROVE  LET t == Rotated(s, k) IN
         /\ DOMAIN t = 1..n /\ {t[i] : i \in 1..n} = C
         /\ \A i, j \in 1..n : i < j => ~ Better(t[j].rank, t[i].rank)
<1> DEFINE t == Rotated(s, k)
<1>0. n \in Nat /\ DOMAIN s = 1..n /\ \A j \in 1..n : s[j] \in C
  BY DEF IsSorted
<1>1. DOMAIN t = 1..n
  BY <1>0 DEF Rotated
<1> HIDE DEF t
<1>2. ASSUME NEW i \in 1..n
      PROVE  t[i] \in C /\ t[i].rank = s[i].rank
  <2>1. PICK lo, hi \in 1..n : lo <= i /\ i <= hi /\ Run(s, i) = lo..hi
    BY RunIsInterval
  <2> DEFINE j == lo + ((i - lo + k) % (hi - lo + 1))
  <2>2. t[i] = s[j] /\ j \in lo..hi
    <3>1. RunFrom(s, i, lo, hi)
      BY <2>1 DEF RunFrom
    <3>2. TurnedTo(s, k, i, lo, hi)
      BY <3>1, RotatedWithin
    <3> QED
      BY <3>2 DEF TurnedTo, t
  <2> HIDE DEF j
  <2>3. j \in 1..n /\ j \in Run(s, i)
    BY <1>0, <2>1, <2>2
  <2> QED
    BY <2>2, <2>3, <1>0 DEF Run, Tied
<1>3. ASSUME NEW c \in C
      PROVE  \E i \in 1..n : t[i] = c
  <2>1. PICK j \in 1..n : s[j] = c
    BY DEF IsSorted
  <2>2. PICK lo, hi \in 1..n : lo <= j /\ j <= hi /\ Run(s, j) = lo..hi
    BY RunIsInterval
  <2> DEFINE m == hi - lo + 1
  <2>3. m \in Nat \ {0} /\ j - lo \in 0..(m - 1)
    BY <2>2
  <2>4. PICK q \in 0..(m - 1) : (k + q) % m = j - lo
    <3> HIDE DEF m
    <3> QED
      BY <2>3, ModReaches
  <2> DEFINE i == lo + q
  <2>5. i \in lo..hi /\ i \in 1..n /\ i - lo + k = k + q
    <3>1. q \in 0..(hi - lo)
      OBVIOUS
    <3> QED
      BY <3>1, <1>0, <2>2
  <2>6. Run(s, i) = Run(s, j)
    <3>1. i \in Run(s, j)
      BY <2>2, <2>5
    <3> QED
      BY <3>1 DEF Run, Tied
  <2> HIDE DEF i
  <2>7. t[i] = s[lo + ((i - lo + k) % m)]
    <3>1. RunFrom(s, i, lo, hi)
      BY <2>2, <2>6 DEF RunFrom
    <3>2. TurnedTo(s, k, i, lo, hi)
      BY <2>5, <3>1, RotatedWithin
    <3> QED
      BY <3>2 DEF TurnedTo, t
  <2>8. t[i] = s[j]
    BY <2>4, <2>5, <2>7
  <2> QED
    BY <2>1, <2>5, <2>8
<1>4. {t[i] : i \in 1..n} = C
  BY <1>2, <1>3
<1>5. \A i, j \in 1..n : i < j => ~ Better(t[j].rank, t[i].rank)
  BY <1>2 DEF IsSorted
<1> QED
  BY <1>1, <1>4, <1>5 DEF t

(* As many rotations as there are best candidates put each of them first.  *)
FirstRate(C) == {c \in C : \A d \in C : ~ Better(d.rank, c.rank)}
FirstPlaced(s, r, m) == {Rotated(s, r + k)[1] : k \in 0..(m - 1)}
LEMMA EqualsTakeTurns ==
  ASSUME NEW C, NEW n, NEW s, IsSorted(s, n, C), n = Cardinality(C), IsFiniteSet(C),
         NEW r \in Int
  PROVE  FirstPlaced(s, r, Cardinality(FirstRate(C))) = FirstRate(C)
<1> DEFINE best == {c \in C : \A d \in C : ~ Better(d.rank, c.rank)}
           firsts == {Rotated(s, r + k)[1] : k \in 0..(Cardinality(best) - 1)}
<1>0. /\ n \in Nat /\ DOMAIN s = 1..n /\ (\A j \in 1..n : s[j] \in C)
      /\ \A c \in C : c.rank \in Int \X Int \X Int
  BY DEF IsSorted, Candidate
<1>1. ASSUME C = {} PROVE firsts = best
  <2>1. best = {} /\ Cardinality(best) = 0
    BY <1>1, FS_EmptySet
  <2> QED
    BY <2>1
<1>2. ASSUME C # {} PROVE firsts = best
  <2>1. 1 \in 1..n
    BY <1>0, <1>2 DEF IsSorted
  <2>2. PICK lo, hi \in 1..n : lo <= 1 /\ 1 <= hi /\ Run(s, 1) = lo..hi
    BY <2>1, RunIsInterval
  <2>3. lo = 1 /\ Run(s, 1) = 1..hi
    BY <2>2
  <2>4. \A d \in C : ~ Better(d.rank, s[1].rank)
    <3> SUFFICES ASSUME NEW d \in C PROVE ~ Better(d.rank, s[1].rank)
      OBVIOUS
    <3>1. PICK j \in 1..n : s[j] = d
      BY DEF IsSorted
    <3>2. CASE j = 1
      BY <3>1, <3>2, <1>0, <2>1, RanksCompare
    <3>3. CASE j # 1
      BY <3>1, <3>3, <2>1 DEF IsSorted
    <3> QED
      BY <3>2, <3>3
  <2>5. \A c \in C : c \in best <=> c.rank = s[1].rank
    <3> SUFFICES ASSUME NEW c \in C PROVE c \in best <=> c.rank = s[1].rank
      OBVIOUS
    <3>1. ASSUME c \in best PROVE c.rank = s[1].rank
      <4>1. ~ Better(s[1].rank, c.rank) /\ ~ Better(c.rank, s[1].rank)
        BY <3>1, <2>1, <2>4, <1>0
      <4> QED
        BY <4>1, <1>0, <2>1, RanksCompare
    <3>2. ASSUME c.rank = s[1].rank PROVE c \in best
      BY <3>2, <2>4
    <3> QED
      BY <3>1, <3>2
  <2>6. best = {s[j] : j \in 1..hi}
    <3>1. \A j \in 1..n : j \in 1..hi <=> s[j].rank = s[1].rank
      BY <2>3, <1>0, <2>1 DEF Run, Tied
    <3>2. ASSUME NEW c \in best PROVE \E j \in 1..hi : c = s[j]
      <4>1. PICK j \in 1..n : s[j] = c
        BY DEF IsSorted
      <4> QED
        BY <4>1, <3>1, <2>5
    <3>3. ASSUME NEW j \in 1..hi PROVE s[j] \in best
      <4>1. j \in 1..n
        BY <1>0
      <4> QED
        BY <4>1, <3>1, <2>5, <1>0
    <3> HIDE DEF best
    <3> QED
      BY <3>2, <3>3
  <2> HIDE DEF best
  <2>7. Cardinality(best) = hi
    <3> DEFINE f == [j \in 1..hi |-> s[j]]
    <3>1. \A j \in 1..hi : j \in 1..n
      BY <1>0
    <3>2. f \in [1..hi -> best] /\ (\A j, q \in 1..hi : f[j] = f[q] => j = q)
      BY <2>6, <3>1 DEF IsSorted
    <3>3. \A c \in best : \E j \in 1..hi : f[j] = c
      BY <2>6
    <3>4. f \in Bijection(1..hi, best)
      BY <3>2, <3>3 DEF Bijection, Injection, Surjection, IsInjective
    <3>5. IsFiniteSet(1..hi) /\ Cardinality(1..hi) = hi
      BY FS_Interval
    <3>6. ExistsBijection(1..hi, best)
      BY <3>4 DEF ExistsBijection
    <3> QED
      BY <3>5, <3>6, FS_Bijection
  <2>8. ASSUME NEW k \in 0..(hi - 1)
        PROVE  Rotated(s, r + k)[1] = s[1 + ((r + k) % hi)] /\ 1 + ((r + k) % hi) \in 1..hi
    <3>2. /\ Rotated(s, r + k)[1] = s[lo + ((1 - lo + (r + k)) % (hi - lo + 1))]
          /\ lo + ((1 - lo + (r + k)) % (hi - lo + 1)) \in lo..hi
      <4> DEFINE q == r + k  a == 1
      <4>1. q \in Int /\ a \in 1..n /\ RunFrom(s, a, lo, hi)
        BY <2>1, <2>2 DEF RunFrom
      <4> HIDE DEF q, a
      <4>2. TurnedTo(s, q, a, lo, hi)
        BY <4>1, RotatedWithin
      <4> QED
        BY <4>2 DEF TurnedTo, q, a
    <3>3. 1 - lo + (r + k) = r + k /\ hi - lo + 1 = hi /\ lo = 1
      BY <2>3
    <3> QED
      BY <3>2, <3>3
  <2>9. firsts \subseteq best
    BY <2>6, <2>7, <2>8
  <2>10. ASSUME NEW c \in best PROVE c \in firsts
    <3>1. PICK j \in 1..hi : c = s[j]
      BY <2>6
    <3>2. j - 1 \in 0..(hi - 1) /\ hi \in Nat \ {0}
      OBVIOUS
    <3>3. PICK k \in 0..(hi - 1) : (r + k) % hi = j - 1
      BY <3>2, ModReaches
    <3>4. Rotated(s, r + k)[1] = s[j]
      BY <2>8, <3>3
    <3> QED
      BY <3>1, <3>4, <2>7
  <2> QED
    BY <2>9, <2>10 DEF best
<1>3. firsts = best
  BY <1>1, <1>2
<1>4. firsts = FirstPlaced(s, r, Cardinality(best))
  <2> HIDE DEF best
  <2> QED
    BY DEF FirstPlaced
<1>5. FirstRate(C) = best
  BY DEF FirstRate
<1> HIDE DEF best, firsts
<1> QED
  BY <1>3, <1>4, <1>5

-----------------------------------------------------------------------------
(* The decisions are numbered by the round-robin counter, and the ring's   *)
(* slots, counted back from the next one, hold the latest of them.         *)
Slot(next, i) == IF i <= next THEN next - i ELSE next - i + decisionRingCap
HeldOf(r) == IF r.full THEN decisionRingCap ELSE r.next
DecisionsNumbered ==
  Len(made) \in Nat /\ made \in Seq({made[i] : i \in 1..Len(made)}) /\ rr = Len(made)
RingOf(r, n, m) ==
  /\ r.buf = [j \in 0..(decisionRingCap - 1) |-> r.buf[j]]
  /\ r.next \in 0..(decisionRingCap - 1) /\ r.full \in BOOLEAN
  /\ r.full => n >= decisionRingCap
  /\ ~ r.full => r.next = n
  /\ \A i \in 1..HeldOf(r) : r.buf[Slot(r.next, i)] = {m[n + 1 - i]}
RingKept == RingOf(ring, Len(made), made)

PlaceInv == PlaceTypeOK /\ DecisionsNumbered /\ RingKept

LEMMA PlaceStarts == PlaceInit => PlaceInv
<1> SUFFICES ASSUME PlaceInit PROVE PlaceInv
  OBVIOUS
<1>1. rr = 0 /\ made = <<>> /\ outside = 0 /\ ring = RingInit /\ Len(made) = 0
  BY DEF PlaceInit
<1>2. DecisionsNumbered
  BY <1>1 DEF DecisionsNumbered
<1>3. ring.next = 0 /\ ring.full = FALSE
      /\ ring.buf = [j \in 0..(decisionRingCap - 1) |-> {}]
  BY <1>1 DEF RingInit
<1>0. /\ decisionRingCap \in Nat \ {0} /\ MaxDecisions \in Nat
      /\ 0 \in 0..(decisionRingCap - 1) /\ 0 \in 0..MaxDecisions /\ 0 \in 0..0
  BY PlaceAssumption
<1>4. RingKept
  <2>1. ring.buf = [j \in 0..(decisionRingCap - 1) |-> ring.buf[j]]
    BY <1>3
  <2>2. HeldOf(ring) = 0 /\ 1..0 = {}
    BY <1>3 DEF HeldOf
  <2>3. \A i \in 1..HeldOf(ring) :
           ring.buf[Slot(ring.next, i)] = {made[Len(made) + 1 - i]}
    BY <2>2
  <2> QED
    BY <1>0, <1>1, <1>3, <2>1, <2>3 DEF RingKept, RingOf
<1>5. PlaceTypeOK
  <2>1. DOMAIN view = HostNo /\ (\A h \in HostNo : view[h] \in Views[h])
    BY DEF PlaceInit
  <2>2. Len(made) <= MaxDecisions
    BY <1>0, <1>1
  <2> QED
    BY <1>0, <1>1, <1>3, <2>1, <2>2 DEF PlaceTypeOK
<1> QED
  BY <1>2, <1>4, <1>5 DEF PlaceInv

(* Adding a decision: the slot written is the one nobody counts back to.   *)
LEMMA RingTakes ==
  ASSUME NEW r, NEW n \in Nat, NEW m, NEW m2, NEW d, RingOf(r, n, m),
         m2[n + 1] = d, \A i \in 1..n : m2[i] = m[i]
  PROVE  RingOf(RingAdd(r, d), n + 1, m2)
<1> DEFINE cap == decisionRingCap
           q == RingAdd(r, d)
<1>0. cap \in Nat \ {0} /\ r.next \in 0..(cap - 1) /\ r.full \in BOOLEAN
  BY PlaceAssumption DEF RingOf
<1> HIDE DEF cap
<1>1. (r.next + 1) % cap = IF r.next + 1 = cap THEN 0 ELSE r.next + 1
  <2> DEFINE x == r.next + 1
  <2>1. CASE x = cap
    <3>1. x = cap * 1 + 0 /\ x \in Int /\ 0 \in 0..(cap - 1)
      BY <1>0, <2>1
    <3>2. x % cap = 0
      <4> HIDE DEF x
      <4> QED
        BY <1>0, <3>1, ModOf
    <3> QED
      BY <2>1, <3>2
  <2>2. CASE x # cap
    <3>1. x = cap * 0 + x /\ x \in Int /\ x \in 0..(cap - 1)
      BY <1>0, <2>2
    <3>2. x % cap = x
      <4> HIDE DEF x
      <4> QED
        BY <1>0, <3>1, ModOf
    <3> QED
      BY <2>2, <3>2
  <2> QED
    BY <2>1, <2>2
<1>2. /\ q.buf = [r.buf EXCEPT ![r.next] = {d}]
      /\ q.next = IF r.next + 1 = cap THEN 0 ELSE r.next + 1
      /\ q.full = (r.full \/ r.next + 1 = cap)
  <2>1. /\ q.buf = [r.buf EXCEPT ![r.next] = {d}] /\ q.next = (r.next + 1) % cap
        /\ q.full = (r.full \/ (r.next + 1) % cap = 0)
    BY DEF RingAdd, cap
  <2> QED
    BY <1>0, <1>1, <2>1
<1> HIDE DEF q
<1>3. /\ q.buf = [j \in 0..(cap - 1) |-> q.buf[j]] /\ q.buf[r.next] = {d}
      /\ \A j \in 0..(cap - 1) : j # r.next => q.buf[j] = r.buf[j]
  <2>1. r.buf = [j \in 0..(cap - 1) |-> r.buf[j]]
    BY DEF RingOf, cap
  <2>2. DOMAIN r.buf = 0..(cap - 1)
    BY <2>1
  <2> QED
    BY <1>0, <1>2, <2>2
<1>4. /\ q.next \in 0..(cap - 1) /\ q.full \in BOOLEAN
      /\ q.full => n + 1 >= cap
      /\ ~ q.full => q.next = n + 1
  <2>1. (r.full => n >= cap) /\ (~ r.full => r.next = n)
    BY DEF RingOf, cap
  <2>2. CASE r.next + 1 = cap
    <3>1. q.full = TRUE
      BY <1>2, <2>2, Zenon
    <3>2. q.next = 0
      BY <1>2, <2>2
    <3>3. n + 1 >= cap
      BY <1>0, <2>1, <2>2
    <3>4. q.next \in 0..(cap - 1)
      BY <1>0, <3>2
    <3> QED
      BY <3>1, <3>3, <3>4, Zenon
  <2>3. CASE r.next + 1 # cap
    BY <1>0, <1>2, <2>1, <2>3
  <2> QED
    BY <2>2, <2>3
<1>5. ASSUME NEW i \in 1..HeldOf(q)
      PROVE  q.buf[Slot(q.next, i)] = {m2[n + 1 + 1 - i]}
  <2>0. HeldOf(q) \in Nat /\ HeldOf(q) <= cap
    BY <1>0, <1>4 DEF HeldOf, cap
  <2>1. CASE i = 1
    <3>1. Slot(q.next, i) = r.next
      BY <1>0, <1>2, <2>1 DEF Slot, cap
    <3>2. n + 1 + 1 - i = n + 1
      BY <2>1
    <3> QED
      BY <3>1, <3>2, <1>3
  <2>2. CASE i # 1
    <3>1. i - 1 \in 1..HeldOf(r)
      BY <1>0, <1>2, <2>0, <2>2 DEF HeldOf, RingOf, cap
    <3>2. Slot(q.next, i) = Slot(r.next, i - 1) /\ Slot(r.next, i - 1) \in 0..(cap - 1)
          /\ Slot(r.next, i - 1) # r.next
      BY <1>0, <1>2, <2>0, <2>2 DEF Slot, cap
    <3>3. r.buf[Slot(r.next, i - 1)] = {m[n + 1 - (i - 1)]}
      BY <3>1 DEF RingOf
    <3>4. n + 1 - (i - 1) \in 1..n /\ n + 1 + 1 - i = n + 1 - (i - 1)
      BY <1>0, <2>2, <3>1 DEF HeldOf, RingOf, cap
    <3> QED
      BY <1>3, <3>2, <3>3, <3>4
  <2> QED
    BY <2>1, <2>2
<1> QED
  BY <1>3, <1>4, <1>5 DEF RingOf, cap, q

LEMMA PlaceStep == ASSUME PlaceInv, [PlaceNext]_placeVars PROVE PlaceInv'
<1>1. ASSUME NEW labels \in Requests, Place(labels)
      PROVE  PlaceInv'
  <2>1. PICK d : ring' = RingAdd(ring, d) /\ made' = made \o <<d>>
    BY <1>1 DEF Place, Decide
  <2>2. rr' = rr + 1 /\ Len(made) < MaxDecisions /\ UNCHANGED <<view, outside>>
    BY <1>1 DEF Place
  <2> DEFINE S == {made[i] : i \in 1..Len(made)}
  <2>3. made \in Seq(S) /\ Len(made) \in Nat /\ rr = Len(made)
    BY DEF PlaceInv, DecisionsNumbered
  <2> HIDE DEF S
  <2>4. /\ Len(made') = Len(made) + 1 /\ made'[Len(made) + 1] = d
        /\ (\A i \in 1..Len(made) : made'[i] = made[i]) /\ made' \in Seq(S \cup {d})
    <3>1. made \in Seq(S \cup {d}) /\ <<d>> \in Seq(S \cup {d})
      BY <2>3
    <3> QED
      BY <2>1, <2>3, <3>1
  <2>5. made' \in Seq({made'[i] : i \in 1..Len(made')})
    <3> DEFINE m == made'
    <3>1. m \in Seq(S \cup {d})
      BY <2>4
    <3> HIDE DEF m
    <3>2. m \in Seq({m[i] : i \in 1..Len(m)})
      BY <3>1
    <3> QED
      BY <3>2 DEF m
  <2>6. DecisionsNumbered'
    BY <2>2, <2>3, <2>4, <2>5 DEF DecisionsNumbered
  <2>7. RingKept'
    BY <2>1, <2>3, <2>4, RingTakes DEF PlaceInv, RingKept
  <2>8. PlaceTypeOK'
    BY <2>2, <2>3, <2>4, <2>7, PlaceAssumption DEF PlaceInv, PlaceTypeOK, RingKept, RingOf
  <2> QED
    BY <2>6, <2>7, <2>8 DEF PlaceInv
<1>2. CASE WindowMoves
  BY <1>2 DEF WindowMoves, PlaceInv, PlaceTypeOK, DecisionsNumbered, RingKept
<1>3. CASE UNCHANGED placeVars
  BY <1>3 DEF placeVars, PlaceInv, PlaceTypeOK, DecisionsNumbered, RingKept
<1> QED
  BY <1>1, <1>2, <1>3 DEF PlaceNext

(* What is ranked is comparable. *)
LEMMA CandidatesCompare ==
  ASSUME PlaceTypeOK, NEW labels
  PROVE  Candidates(CandidateSet(labels))
<1> DEFINE H == {g \in HostNo : view[g].up /\ HostMatches(g, labels)}
           C == CandidateSet(labels)
           f == [h \in H |-> [h |-> h, rank |-> Rank(h, labels)]]
<1>1. IsFiniteSet(H)
  <2>1. IsFiniteSet(HostNo)
    BY PlaceAssumption, FS_Interval DEF HostNo
  <2> QED
    BY <2>1, FS_Subset
<1>2. C = {f[h] : h \in H}
  BY DEF CandidateSet
<1>3. IsFiniteSet(C)
  <2>1. f \in Surjection(H, C)
    BY <1>2 DEF Surjection
  <2> QED
    BY <1>1, <2>1, FS_Surjection
<1>4. ASSUME NEW h \in HostNo
      PROVE  Rank(h, labels) \in Int \X Int \X Int
  <2>1. view[h] \in HostView /\ IsFiniteSet(view[h].cache)
    BY PlaceAssumption DEF PlaceTypeOK
  <2>2. HostTier(h, labels) \in Int
    BY DEF HostTier
  <2>3. EffectiveLoad(h) \in Int
    <3>1. view[h].leases \in Int /\ view[h].bump \in Int
          /\ \A st \in view[h].stats : st.active \in Int /\ st.queued \in Int
      BY <2>1 DEF HostView
    <3>2. CASE view[h].stats = {}
      BY <3>1, <3>2 DEF EffectiveLoad
    <3>3. CASE view[h].stats # {}
      <4> DEFINE st == CHOOSE x \in view[h].stats : TRUE
      <4>1. st \in view[h].stats
        BY <3>3
      <4>2. st.active \in Int /\ st.queued \in Int
        BY <4>1, <3>1
      <4>3. EffectiveLoad(h) = IF st.active + st.queued + view[h].bump > 0
                               THEN st.active + st.queued + view[h].bump ELSE 0
        BY <3>3 DEF EffectiveLoad
      <4> HIDE DEF st
      <4> QED
        BY <3>1, <4>2, <4>3
    <3> QED
      BY <3>2, <3>3
  <2>4. WarmIdleCount(h, labels) \in Nat
    <3> DEFINE T == {t \in view[h].cache : t.warm /\ Carries(h, t, labels)}
    <3>1. IsFiniteSet(T)
      BY <2>1, FS_Subset
    <3>2. Cardinality(T) \in Nat
      BY <3>1, FS_CardinalityType
    <3> QED
      BY <3>2 DEF WarmIdleCount
  <2> QED
    BY <2>2, <2>3, <2>4 DEF Rank
<1>5. C \subseteq Candidate
  <2> SUFFICES ASSUME NEW h \in H PROVE f[h] \in Candidate
    BY <1>2
  <2>1. h \in Int /\ h \in HostNo
    BY PlaceAssumption DEF HostNo
  <2>2. Rank(h, labels) \in Int \X Int \X Int
    BY <2>1, <1>4
  <2> QED
    BY <2>1, <2>2 DEF Candidate
<1>6. \A c, d \in C : c.h = d.h => c = d
  <2>1. \A h \in H : f[h].h = h
    OBVIOUS
  <2> HIDE DEF f, H, C
  <2> QED
    BY <1>2, <2>1
<1> QED
  BY <1>3, <1>5, <1>6 DEF Candidates

LEMMA PlaceHolds == PlaceInv => PlaceSafe
<1> SUFFICES ASSUME PlaceInv PROVE PlaceSafe
  OBVIOUS
<1>1. PlaceRanked
  <2> SUFFICES ASSUME NEW labels \in Requests
               PROVE  LET C == CandidateSet(labels)
                          s == Rotated(Sorted(C), rr)
                          best == {c \in C : \A d \in C : ~ Better(d.rank, c.rank)}
                      IN /\ Len(s) = Cardinality(C) /\ {s[i] : i \in DOMAIN s} = C
                         /\ \A i, j \in DOMAIN s : i < j => ~ Better(s[j].rank, s[i].rank)
                         /\ {Rotated(Sorted(C), rr + k)[1] : k \in 0..(Cardinality(best) - 1)}
                              = best
    BY DEF PlaceRanked
  <2> DEFINE C == CandidateSet(labels)
             n == Cardinality(C)
             p == Sorted(C)
             s == Rotated(p, rr)
  <2>1. Candidates(C)
    BY CandidatesCompare DEF PlaceInv
  <2>2. rr \in Int
    BY DEF PlaceInv, DecisionsNumbered
  <2> HIDE DEF C
  <2>3. IsSorted(p, n, C)
    BY <2>1, SortedSorts DEF IsSorted, Candidates
  <2>4. n \in Nat /\ IsFiniteSet(C)
    BY <2>1, <2>3 DEF IsSorted, Candidates
  <2> HIDE DEF p
  <2>5. /\ DOMAIN s = 1..n /\ {s[i] : i \in 1..n} = C
        /\ \A i, j \in 1..n : i < j => ~ Better(s[j].rank, s[i].rank)
    <3> HIDE DEF n
    <3> QED
      BY <2>2, <2>3, RotatedSorts
  <2>6. Len(s) = n
    <3>1. s = [i \in 1..n |-> s[i]]
      BY <2>5 DEF Rotated
    <3> HIDE DEF s, n
    <3>2. s \in Seq(C)
      BY <2>4, <2>5, <3>1
    <3> QED
      BY <2>4, <2>5, <3>2 DEF n
  <2> DEFINE best == {c \in C : \A d \in C : ~ Better(d.rank, c.rank)}
  <2>7. {Rotated(p, rr + k)[1] : k \in 0..(Cardinality(best) - 1)} = best
    <3>1. n = Cardinality(C)
      OBVIOUS
    <3>2. best = FirstRate(C)
      BY DEF FirstRate
    <3> HIDE DEF n, s, best
    <3>3. FirstPlaced(p, rr, Cardinality(FirstRate(C))) = FirstRate(C)
      BY <2>2, <2>3, <2>4, <3>1, EqualsTakeTurns
    <3>4. FirstPlaced(p, rr, Cardinality(best))
            = {Rotated(p, rr + k)[1] : k \in 0..(Cardinality(best) - 1)}
      BY DEF FirstPlaced
    <3> QED
      BY <3>2, <3>3, <3>4
  <2> QED
    BY <2>5, <2>6, <2>7 DEF C, p
<1>2. PlaceRetryable
  <2> SUFFICES ASSUME NEW res \in [1..Cardinality(CandidateSet({0})) -> RunAnswer]
               PROVE  /\ Verdict(res) \in {"4xx", "no_match"} =>
                           \A i \in DOMAIN res : res[i] \notin {"unreachable", "5xx"}
                      /\ RunVerdict(res) \in {"4xx", "no_match"} =>
                           \A i \in DOMAIN res : res[i] \in {"4xx", "pinned"}
    BY DEF PlaceRetryable
  <2>1. \A i \in DOMAIN res : res[i] \in {"unreachable", "5xx", "4xx", "bad_spec", "pinned"}
    BY DEF RunAnswer, Answer
  <2>2. Verdict(res) \in {"4xx", "no_match"} =>
           \A i \in DOMAIN res : res[i] \notin {"unreachable", "5xx"}
    BY DEF Verdict
  <2>3. RunVerdict(res) \in {"4xx", "no_match"} =>
           Verdict(res) \in {"4xx", "no_match"} /\ \A i \in DOMAIN res : res[i] # "bad_spec"
    BY DEF RunVerdict
  <2> QED
    BY <2>1, <2>2, <2>3
<1>3. PlaceRingExact
  <2> DEFINE cap == decisionRingCap
             n == IF Len(made) < cap THEN Len(made) ELSE cap
  <2>1. /\ cap \in Nat \ {0} /\ ring.next \in 0..(cap - 1) /\ Len(made) \in Nat
        /\ HeldOf(ring) = n /\ n \in Nat /\ n <= cap
    BY PlaceAssumption DEF PlaceInv, RingKept, RingOf, HeldOf, DecisionsNumbered
  <2>2. RingRecent(ring, 0)
          = [i \in 1..HeldOf(ring) |-> ring.buf[(ring.next - i + cap) % cap]]
    BY DEF RingRecent, HeldOf
  <2>3. ASSUME NEW i \in 1..n
        PROVE  (ring.next - i + cap) % cap = Slot(ring.next, i)
    <3> DEFINE x == ring.next - i + cap
    <3> HIDE DEF cap, n
    <3>0. i \in Nat /\ 1 <= i /\ i <= cap
      BY <2>1
    <3>1. CASE i <= ring.next
      <4> DEFINE y == ring.next - i  a == 1
      <4>1. /\ x = cap * a + y /\ x \in Int /\ y \in 0..(cap - 1)
            /\ cap \in Nat \ {0} /\ a \in Int
        BY <2>1, <3>0, <3>1
      <4>2. x % cap = y
        <5> HIDE DEF x, y, a
        <5> QED
          BY <4>1, ModOf
      <4> QED
        BY <3>1, <4>2 DEF Slot
    <3>2. CASE ~ (i <= ring.next)
      <4>1. x = cap * 0 + x /\ x \in Int /\ x \in 0..(cap - 1)
        BY <2>1, <3>0, <3>2
      <4>2. x % cap = x
        <5> HIDE DEF x
        <5> QED
          BY <2>1, <4>1, ModOf
      <4> QED
        BY <3>2, <4>2 DEF Slot, cap
    <3> QED
      BY <3>1, <3>2
  <2>4. \A i \in 1..n : ring.buf[Slot(ring.next, i)] = {made[Len(made) + 1 - i]}
    BY <2>1 DEF PlaceInv, RingKept, RingOf
  <2>5. RingRecent(ring, 0) = [i \in 1..n |-> {made[Len(made) + 1 - i]}]
    <3> HIDE DEF n, cap
    <3> QED
      BY <2>1, <2>2, <2>3, <2>4
  <2> QED
    BY <2>5 DEF PlaceRingExact
<1>4. PlaceAdviceFits
  <2> SUFFICES ASSUME NEW h \in HostNo, NEW a \in ComputeHints(h), a.action = "grow"
               PROVE  a.labels # {}
    BY DEF PlaceAdviceFits, AdviceAccepted
  <2> DEFINE W == RingSince(ring, outside)
  <2>1. PICK c \in Grows(h, W) : a = [action |-> "grow", labels |-> c]
    BY DEF ComputeHints
  <2>2. \A w : \A g \in Grows(h, w) : g # {}
    BY DEF Grows, GrowLabels
  <2> QED
    BY <2>1, <2>2
<1> QED
  BY <1>1, <1>2, <1>3, <1>4 DEF PlaceSafe

-----------------------------------------------------------------------------
(* However boots queue, are refused, crash and give up, gated boots bring  *)
(* up no more simulators than the running cap and the boots the class lets *)
(* go side by side, and a boot that was accepted and fails is told to its  *)
(* client (GateBoot, BootAsync): for any number of simulators, requests    *)
(* and slots.                                                              *)
THEOREM BootsWithinLimits == FleetSpec => []BootsSound
<1> DEFINE Inv == Active("boots") => BootInv
<1>1. FleetInit => Inv
  BY BootStarts DEF FleetInit
<1>2. Inv /\ [FleetNext]_fleetVars => Inv'
  BY Moves, BootStep DEF Active
<1>3. Inv => BootsSound
  BY BootHolds DEF BootsSound
<1> QED
  BY <1>1, <1>2, <1>3, PTL DEF FleetSpec

(* Every component keeps its types: with no state in which the broker      *)
(* counts below zero, a boot queue or ring is out of range, or a handler,  *)
(* a caller or the pool's actors stand where their code has no line.       *)
THEOREM FleetTypes == FleetSpec => []FleetTypeOK
<1> DEFINE Inv == /\ Active("boots") => BootInv
                  /\ Active("pool") => PoolCore
                  /\ Active("broker") => BrkInv
                  /\ Active("placement") => PlaceInv
                  /\ Active("advice") => AdviceInv
                  /\ Active("routing") => RouteInv
<1>1. FleetInit => Inv
  BY BootStarts, PoolStarts, BrkStarts, PlaceStarts, AdviceStarts, RouteStarts
  DEF FleetInit, PoolInv
<1>2. Inv /\ [FleetNext]_fleetVars => Inv'
  BY Moves, BootStep, PoolCoreStep, BrkStep, PlaceStep, AdviceStep, RouteStep DEF Active
<1>3. Inv => FleetTypeOK
  BY DEF FleetTypeOK, BootInv, PoolCore, BrkInv, PlaceInv, AdviceInv, RouteInv
<1> QED
  BY <1>1, <1>2, <1>3, PTL DEF FleetSpec

(* However slow the janitor's checks, no target that can be granted        *)
(* carries an earlier holder's data unknown to the lease manager (Recycle, *)
(* rebuild, reclaimIdle, Quarantine).                                     *)
THEOREM GrantsAreClean == FleetSpec => [](Active("pool") => PoolCleanGrants)
<1> DEFINE Inv == Active("pool") => PoolCore
<1>1. FleetInit => Inv
  BY PoolStarts DEF FleetInit, PoolInv
<1>2. Inv /\ [FleetNext]_fleetVars => Inv'
  BY Moves, PoolCoreStep DEF Active
<1>3. Inv => (Active("pool") => PoolCleanGrants)
  BY PoolHolds
<1> QED
  BY <1>1, <1>2, <1>3, PTL DEF FleetSpec

(* When nobody acts between the janitor's idle checks and its hold of the  *)
(* target, no target that can be granted carries an earlier holder's data  *)
(* unknown to the lease manager, and a client's boot is a member or in the *)
(* janitor's ledger, whatever the watchdog, the janitor, the lock reaper   *)
(* and the clients do meanwhile (Add, Recycle, rebuild, reclaimIdle).      *)
THEOREM PoolKeepsTrack ==
  ASSUME ~ SlowChecks
  PROVE  FleetSpec => []PoolSound
<1> DEFINE Inv == Active("pool") => PoolInv
<1>1. FleetInit => Inv
  BY PoolStarts DEF FleetInit
<1>2. Inv /\ [FleetNext]_fleetVars => Inv'
  BY Moves, PoolStep DEF Active
<1>3. Inv => PoolSound
  BY PoolHolds DEF PoolSound
<1> QED
  BY <1>1, <1>2, <1>3, PTL DEF FleetSpec

(* For any number of hosts, acquires and runs, with calls and answers      *)
(* lost, clients hanging up and daemons restarting: an answered acquire    *)
(* leaves no live lease but the client's, an orphan the prober releases or *)
(* one whose answer was lost, and no host looks less loaded than what was  *)
(* counted on it and is still believed in (handleAcquireLease,             *)
(* releaseSpeculative, markLeaseTerminal, forgetLease, settleRun).         *)
THEOREM BrokerLeaksNothing == FleetSpec => []BrokerSound
<1> DEFINE Inv == Active("broker") => BrkInv
<1>1. FleetInit => Inv
  BY BrkStarts DEF FleetInit
<1>2. Inv /\ [FleetNext]_fleetVars => Inv'
  BY Moves, BrkStep DEF Active
<1>3. Inv => BrokerSound
  BY BrkHolds DEF BrokerSound
<1> QED
  BY <1>1, <1>2, <1>3, PTL DEF FleetSpec

(* For any number of hosts, ring size and requests, and whatever the       *)
(* broker knows of its hosts: the candidates are tried in rank order, and  *)
(* over as many requests as there are best ones each comes first once; a   *)
(* refusal is final only if every host plainly refused; the ring holds     *)
(* exactly the latest decisions, and its advice is one a daemon accepts    *)
(* (rankCandidates, handleAcquireLease, decisionLog, computeHints).        *)
THEOREM EqualsShareTheLoad == FleetSpec => []PlacementSound
<1> DEFINE Inv == Active("placement") => PlaceInv
<1>1. FleetInit => Inv
  BY PlaceStarts DEF FleetInit
<1>2. Inv /\ [FleetNext]_fleetVars => Inv'
  BY Moves, PlaceStep DEF Active
<1>3. Inv => PlacementSound
  BY PlaceHolds DEF PlacementSound
<1> QED
  BY <1>1, <1>2, <1>3, PTL DEF FleetSpec

(* For any advice, hosts and order of probes, pushes, restarts and losses: *)
(* a host the broker has nothing more to say to has the current advice; a  *)
(* call that acts runs at most once and goes only to the endpoint asked    *)
(* and to the lease's owner, and a control call reaches a known owner      *)
(* (adviseHosts, probe, leaseDo).                                          *)
THEOREM ClientsAreServed == FleetSpec => []ClientsSound
<1> DEFINE Inv == (Active("advice") => AdviceInv) /\ (Active("routing") => RouteInv)
<1>1. FleetInit => Inv
  BY AdviceStarts, RouteStarts DEF FleetInit
<1>2. Inv /\ [FleetNext]_fleetVars => Inv'
  BY Moves, AdviceStep, RouteStep DEF Active
<1>3. Inv => ClientsSound
  BY AdviceHolds, RouteHolds DEF ClientsSound
<1> QED
  BY <1>1, <1>2, <1>3, PTL DEF FleetSpec

=============================================================================
