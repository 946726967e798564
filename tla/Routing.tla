------------------------------ MODULE Routing ------------------------------
(***************************************************************************)
(* The client library behind the command line and the MCP server           *)
(* (internal/client route.go, leases.go, client.go), pointed at a broker   *)
(* or at a daemon: it learns which daemon owns a lease, sends lease-scoped *)
(* calls there, and falls back when the broker does not serve a route, has *)
(* forgotten the lease or is down.  One lease, one call at a time.         *)
(***************************************************************************)
EXTENDS FiniteSets, Integers

CONSTANTS CHost, COwner, NoCHost

ASSUME RouteAssumption == COwner \in CHost /\ NoCHost \notin CHost

Broker == "broker"
(* "read": a lease-scoped GET; "act": any other lease-scoped call;         *)
(* "control": get, renew or release of the lease.                          *)
RouteKinds == {"read", "act", "control"}

VARIABLES
    base,      \* what the client points at: Broker, or the owning daemon
    brokerUp,
    brokerKnows, \* is the lease in the broker's routing table?
    hostsUp,
    routes,    \* the route cached for the lease
    rcall,     \* the call: its kind, where it goes next, its last answer
    contacted, \* history: who has received the call
    ran,       \* history: how often the owner ran it
    hadRoute,  \* history: was the owner cached when the call began?
    faulty     \* history: was the owner down, or an answer of its lost, during the call?
routeEnvVars == <<base, brokerUp, brokerKnows, hostsUp>>
routeVars == <<routeEnvVars, routes, rcall, contacted, ran, hadRoute, faulty>>

RouteTypeOK ==
    /\ base \in {Broker, COwner} /\ {brokerUp, brokerKnows, hadRoute, faulty} \subseteq BOOLEAN
    /\ hostsUp \subseteq CHost /\ routes \in CHost \cup {NoCHost}
    /\ rcall \in [kind : RouteKinds, at : {"idle", "base", "host", "resolve", "list", "fan", "judge"},
                  to : CHost \cup {NoCHost}, left : SUBSET CHost,
                  answer : {"none", "ok", "conn", "miss", "unknown", "failed"}]
    /\ contacted \subseteq CHost \cup {Broker} /\ ran \in 0..3

NoRouteCall == [kind |-> "read", at |-> "idle", to |-> NoCHost, left |-> {}, answer |-> "none"]

RouteInit ==
    /\ base \in {Broker, COwner} /\ brokerUp = TRUE /\ brokerKnows = TRUE /\ hostsUp = CHost
    /\ routes = NoCHost /\ rcall = NoRouteCall
    /\ contacted = {} /\ ran = 0 /\ hadRoute = FALSE /\ faulty = FALSE

(* The broker goes down, comes back (without its table), or drops a        *)
(* terminal lease; hosts go down and come back.                            *)
FleetMoves ==
    /\ \/ brokerUp' = ~brokerUp /\ brokerKnows' = (brokerKnows /\ ~brokerUp') /\ UNCHANGED hostsUp
       \/ brokerKnows /\ brokerKnows' = FALSE /\ UNCHANGED <<brokerUp, hostsUp>>
       \/ \E h \in CHost : hostsUp' = (hostsUp \ {h}) \cup ({h} \ hostsUp) /\ UNCHANGED <<brokerUp, brokerKnows>>
    /\ faulty' = (faulty \/ COwner \notin hostsUp')
    /\ UNCHANGED <<base, routes, rcall, contacted, ran, hadRoute>>

-----------------------------------------------------------------------------
RouteGoes(at, answer) == rcall' = [rcall EXCEPT !.at = at, !.answer = answer]

(* forLease: the cached daemon, or the base endpoint.  Control calls go to *)
(* the base endpoint first, which keeps the broker's table fresh.          *)
CallBegins ==
    /\ rcall.at = "idle"
    /\ \E k \in RouteKinds :
          rcall' = [NoRouteCall EXCEPT !.kind = k, !.to = routes,
                    !.at = IF k # "control" /\ routes # NoCHost THEN "host" ELSE "base"]
    /\ contacted' = {} /\ ran' = 0 /\ hadRoute' = (routes = COwner) /\ faulty' = (COwner \notin hostsUp)
    /\ UNCHANGED <<routeEnvVars, routes>>

(* The owner's answer, which may get lost on the way back. *)
OwnerAnswers(next) ==
    /\ ran' = ran + 1
    /\ \/ RouteGoes(next, "ok") /\ UNCHANGED faulty
       \/ RouteGoes(next, "conn") /\ faulty' = TRUE

(* do against the base endpoint.  A broker serves lease control, by proxy, *)
(* and nothing else that is about a lease.                                 *)
SendsToBase ==
    /\ rcall.at = "base" /\ contacted' = contacted \cup {base}
    /\ IF base # Broker
       THEN IF COwner \in hostsUp THEN OwnerAnswers("judge") ELSE RouteGoes("judge", "conn") /\ UNCHANGED <<ran, faulty>>
       ELSE CASE ~brokerUp -> RouteGoes("judge", "conn") /\ UNCHANGED <<ran, faulty>>
              [] brokerUp /\ rcall.kind # "control" -> RouteGoes("judge", "miss") /\ UNCHANGED <<ran, faulty>>
              [] brokerUp /\ rcall.kind = "control" /\ ~brokerKnows ->
                     RouteGoes("judge", "unknown") /\ UNCHANGED <<ran, faulty>>
              [] OTHER -> IF COwner \in hostsUp THEN OwnerAnswers("judge")
                          ELSE RouteGoes("judge", "failed") /\ UNCHANGED <<ran, faulty>>
    /\ UNCHANGED <<routeEnvVars, routes, hadRoute>>

(* do against a daemon: only the owner knows the lease. *)
SendsToHost ==
    /\ rcall.at \in {"host", "fan"} /\ rcall.to # NoCHost /\ rcall.answer = "none"
    /\ contacted' = contacted \cup {rcall.to}
    /\ CASE rcall.to \notin hostsUp -> RouteGoes(rcall.at, "conn") /\ UNCHANGED <<ran, faulty>>
         [] rcall.to \in hostsUp /\ rcall.to = COwner -> OwnerAnswers(rcall.at)
         [] OTHER -> RouteGoes(rcall.at, "unknown") /\ UNCHANGED <<ran, faulty>>
    /\ UNCHANGED <<routeEnvVars, routes, hadRoute>>

(* The daemon's answer ends a routed call; noteLease caches its address.   *)
AfterHost_Resolves(answer) == IF answer = "conn" THEN "resolve" ELSE "idle"
AfterHost(answer) == "idle"
HostAnswered ==
    /\ rcall.at = "host" /\ rcall.answer # "none"
    /\ routes' = IF rcall.answer = "ok" THEN rcall.to ELSE routes
    /\ RouteGoes(AfterHost(rcall.answer), rcall.answer)
    /\ UNCHANGED <<routeEnvVars, contacted, ran, hadRoute, faulty>>

(* leaseDo retries a call the base endpoint did not serve, leaseControlDo  *)
(* one that it could not be asked or knew nothing about.                   *)
Judged ==
    /\ rcall.at = "judge"
    /\ CASE rcall.kind # "control" /\ rcall.answer = "miss" -> RouteGoes("resolve", "none") /\ UNCHANGED routes
         [] rcall.kind = "control" /\ rcall.answer \in {"conn", "unknown"} /\ routes # NoCHost ->
                rcall' = [rcall EXCEPT !.at = "host", !.to = routes, !.answer = "none"] /\ UNCHANGED routes
         [] OTHER ->
                /\ RouteGoes("idle", rcall.answer)
                /\ routes' = IF rcall.answer = "ok" /\ rcall.kind = "control" /\ base = Broker THEN COwner ELSE routes
    /\ UNCHANGED <<routeEnvVars, contacted, ran, hadRoute, faulty>>

(* resolveLease asks the broker for the lease; without an answer an        *)
(* idempotent call may ask every host, any other gives up.                 *)
FansOut_Always(kind) == TRUE
FansOut(kind) == kind = "read"
Resolves ==
    /\ rcall.at = "resolve"
    /\ LET told == base = Broker /\ brokerUp /\ brokerKnows /\ COwner \in hostsUp
       IN  CASE told ->
                  /\ routes' = COwner
                  /\ rcall' = [rcall EXCEPT !.at = "host", !.to = COwner, !.answer = "none"]
             [] ~told /\ FansOut(rcall.kind) -> RouteGoes("list", "none") /\ UNCHANGED routes
             [] OTHER -> RouteGoes("idle", "miss") /\ UNCHANGED routes
    /\ UNCHANGED <<routeEnvVars, contacted, ran, hadRoute, faulty>>

(* fanOutDo: the hosts the broker believes up, one after the other; the    *)
(* first success is cached as the route.                                   *)
ListsHosts ==
    /\ rcall.at = "list"
    /\ \/ /\ brokerUp /\ \E up \in SUBSET CHost :
                rcall' = [rcall EXCEPT !.at = "fan", !.left = up, !.to = NoCHost, !.answer = "none"]
       \/ ~brokerUp /\ RouteGoes("idle", "miss")
    /\ UNCHANGED <<routeEnvVars, routes, contacted, ran, hadRoute, faulty>>
FansOn ==
    /\ rcall.at = "fan" /\ (rcall.to = NoCHost \/ rcall.answer # "none")
    /\ \/ rcall.answer = "ok" /\ routes' = rcall.to /\ RouteGoes("idle", "ok")
       \/ /\ rcall.answer # "ok" /\ UNCHANGED routes
          /\ \E h \in rcall.left :
                rcall' = [rcall EXCEPT !.to = h, !.left = @ \ {h}, !.answer = "none"]
       \/ rcall.answer # "ok" /\ rcall.left = {} /\ RouteGoes("idle", "miss") /\ UNCHANGED routes
    /\ UNCHANGED <<routeEnvVars, contacted, ran, hadRoute, faulty>>

-----------------------------------------------------------------------------
RouteNext ==
    \/ FleetMoves \/ CallBegins \/ SendsToBase \/ SendsToHost \/ HostAnswered
    \/ Judged \/ Resolves \/ ListsHosts \/ FansOn
RouteSpec == RouteInit /\ [][RouteNext]_routeVars

-----------------------------------------------------------------------------
(* An action or another lease-scoped mutation is run at most once per      *)
(* call, lost answers included: it is only sent again when the first       *)
(* endpoint said that it does not serve it.                                *)
RouteActOnce == rcall.kind = "act" => ran <= 1

(* The lease ID is a capability token: anything but a read goes to the     *)
(* endpoint the client was pointed at and to the lease's owner, never to   *)
(* another host.                                                           *)
RoutePrivate == rcall.kind # "read" => contacted \subseteq {base, COwner}

(* A lease control call of a client that knows the owner reaches it        *)
(* whatever state the broker is in, unless the owner itself was down or    *)
(* its answer got lost.                                                    *)
RouteRecovers ==
    rcall.at = "idle" /\ rcall.kind = "control" /\ hadRoute /\ ~faulty /\ rcall.answer # "none" => rcall.answer = "ok"

RouteSafe == RouteActOnce /\ RoutePrivate /\ RouteRecovers
=============================================================================
