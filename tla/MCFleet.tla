------------------------------ MODULE MCFleet -------------------------------
(***************************************************************************)
(* Small instances, for TLC, of what keeps a fleet of simulators usable:   *)
(* boots, pool membership, the broker, its placement and advice, and the   *)
(* routes its clients use.                                                 *)
(* No component below reads another's variables, so they are explored one  *)
(* at a time: `part` names the one that moves, the others have no state.   *)
(***************************************************************************)
EXTENDS Boots, Pool, Broker, Placement, Advice, Routing, TLC

CONSTANT Parts   \* the components this run explores

VARIABLE part    \* the component that moves

FleetSymmetry == Permutations(BootSim) \cup Permutations(FHost)

(* Placement: what the broker may know of a host. *)
OneTarget(ios, warm) == [ios |-> ios, warm |-> warm, booted |-> FALSE]
Stats(cap, running, active, queued, parked) ==
  {[cap |-> cap, running |-> running, booting |-> 0, active |-> active,
    queued |-> queued, parked |-> parked, gatesOK |-> TRUE]}
SeenAs(isUp, seen, stats, bump) ==
  [up |-> isUp, listed |-> seen # {}, cache |-> seen, stats |-> stats, leases |-> 0,
   bump |-> bump, longUp |-> isUp]
NoStats   == SeenAs(TRUE, {OneTarget(TRUE, FALSE)}, {}, 0)
WarmTwice == SeenAs(TRUE, {OneTarget(TRUE, TRUE), OneTarget(FALSE, TRUE)},
                    Stats(2, 1, 1, 0, 2), -1)
Saturated == SeenAs(TRUE, {OneTarget(TRUE, FALSE)}, Stats(1, 2, 0, 0, 0), 0)
HasLease  == [NoStats EXCEPT !.leases = 1]
IsDown    == SeenAs(FALSE, {OneTarget(TRUE, FALSE)}, {}, 0)
SmallViews == <<{WarmTwice, IsDown}, {NoStats, Saturated}, {HasLease}>>

Active(p) == part = p
Off == "off"

(* A component that does not take part has no state. *)
BootOff == simState = Off /\ request = Off /\ bootErr = Off /\
    strained = Off /\ cached = Off /\ promised = Off /\ ungated = Off
PoolOff == up = Off /\ holder = Off /\ took = Off /\ oldData = Off /\
    unclean = Off /\ configured = Off /\ member = Off /\ ours = Off /\
    awake = Off /\ isDown = Off /\ used = Off /\ fleetLock = Off /\
    idleMark = Off /\ staleMark = Off /\ backoff = Off /\ doing = Off /\
    byClient = Off
BrkOff == onDaemon = Off /\ quiet = Off /\ entry = Off /\ orphans = Off /\
    load = Off /\ unload = Off /\ acq = Off /\ left = Off /\
    lostAnswer = Off /\ frun = Off /\ counted = Off
PlaceOff == view = Off /\ rr = Off /\ ring = Off /\ made = Off /\
    outside = Off
AdviceOff == serving = Off /\ knowsAdvise = Off /\ recorded = Off /\
    hints = Off /\ hostUp = Off /\ lastAdviceKey = Off /\
    advicePushed = Off /\ adviceResync = Off /\ adviseUnsupported = Off /\
    round = Off /\ hidden = Off
RouteOff == base = Off /\ brokerUp = Off /\ brokerKnows = Off /\
    hostsUp = Off /\ routes = Off /\ rcall = Off /\ contacted = Off /\
    ran = Off /\ hadRoute = Off /\ faulty = Off

fleetVars == <<bootVars, poolVars, brkVars, placeVars, adviceVars, routeVars,
    part>>

FleetInit ==
  /\ part \in Parts
  /\ IF Active("boots") THEN BootInit ELSE BootOff
  /\ IF Active("pool") THEN PoolInit ELSE PoolOff
  /\ IF Active("broker") THEN BrkInit ELSE BrkOff
  /\ IF Active("placement") THEN PlaceInit ELSE PlaceOff
  /\ IF Active("advice") THEN AdviceInit ELSE AdviceOff
  /\ IF Active("routing") THEN RouteInit ELSE RouteOff

Rests(p, v) == IF Active(p) THEN TRUE ELSE UNCHANGED v
Alone ==
  /\ UNCHANGED part
  /\ Rests("boots", bootVars)
  /\ Rests("pool", poolVars)
  /\ Rests("broker", brkVars)
  /\ Rests("placement", placeVars)
  /\ Rests("advice", adviceVars)
  /\ Rests("routing", routeVars)

FleetNext ==
  \/ Active("boots") /\ Alone /\ BootNext
  \/ Active("pool") /\ Alone /\ PoolNext
  \/ Active("broker") /\ Alone /\ BrkNext
  \/ Active("placement") /\ Alone /\ PlaceNext
  \/ Active("advice") /\ Alone /\ AdviceNext
  \/ Active("routing") /\ Alone /\ RouteNext

FleetSpec == FleetInit /\ [][FleetNext]_fleetVars

-----------------------------------------------------------------------------
(* Every component that takes part keeps its types. *)
FleetTypeOK ==
  /\ Active("boots") => BootTypeOK
  /\ Active("pool") => PoolTypeOK
  /\ Active("broker") => BrkTypeOK
  /\ Active("placement") => PlaceTypeOK
  /\ Active("advice") => AdviceTypeOK
  /\ Active("routing") => RouteTypeOK

(* However boots queue, crash and give up, gated boots bring up no more    *)
(* simulators than the running cap and the boots the class allows side by  *)
(* side, and a boot that was accepted and fails is told to the client that *)
(* polls for it (GateBoot, BootAsync, bootErr).                            *)
BootsSound == Active("boots") => BootSafe

(* A target the lease manager may grant carries no earlier holder's data   *)
(* the manager does not know to erase, and a client's boot that is up or   *)
(* coming up is a member or in the janitor's ledger, whatever the          *)
(* watchdog, the janitor and the lock reaper are doing (Add, Recycle,      *)
(* rebuild, reclaimIdle, markDaemonBooted).                                *)
PoolSound == Active("pool") => PoolSafe

(* The broker leaks no grant: once an acquire is answered, a lease of it   *)
(* alive on some daemon is the client's, an orphan the prober releases, or *)
(* one whose answer was lost; and a host never looks less loaded than what *)
(* was counted on it and is still believed in, with hosts silent and       *)
(* releases, polls and probes seeing the same end (handleAcquireLease,     *)
(* releaseSpeculative, markLeaseTerminal, forgetLease).                    *)
BrokerSound == Active("broker") => BrkSafe

(* The hosts are tried in rank order and equals share the first place; a   *)
(* failure everywhere is final only if every host plainly refused; the     *)
(* decision ring holds exactly the latest decisions; and the advice        *)
(* computed from them is one the daemon accepts (rankCandidates,           *)
(* handleAcquireLease, decisionLog, computeHints).                         *)
PlacementSound == Active("placement") => PlaceSafe

(* What a fleet's clients rely on: a host the broker has nothing more to   *)
(* say to has the current advice; a call that acts runs at most once and   *)
(* goes only to the endpoint asked and to the lease's owner, and a control *)
(* call reaches a known owner (adviseHosts, probe, leaseDo).               *)
ClientsSound ==
  /\ Active("advice") => AdviceSafe
  /\ Active("routing") => RouteSafe

=============================================================================
