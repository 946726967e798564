------------------------------ MODULE Devices ------------------------------
(***************************************************************************)
(* The runtime device configuration: devices.Manager converging the daemon *)
(* onto a config posted to /v0/devices, re-read on SIGHUP or written by    *)
(* `device onboard`, the supervisors' host-side children, and the router   *)
(* that decides whether an action goes to the device backend or to the     *)
(* simulator backend (internal/devices, actions/kind_router.go, the wiring *)
(* in cmd/manzanasd/main.go).                                              *)
(***************************************************************************)
EXTENDS Naturals, FiniteSets

CONSTANTS
  Phone,         \* UDIDs of physical devices
  ForwardPort,   \* local ports: of the forwards, and in the WDA URLs
  NoPort,        \* no forward, or no URL
  DevConfigs,    \* the configs an operator may submit
  MaxApplies     \* bound: Apply calls

ASSUME DevicesAssumption ==
  /\ NoPort \notin ForwardPort /\ MaxApplies \in Nat
  /\ \A cfg \in DevConfigs :
       /\ cfg.enabled \in BOOLEAN /\ cfg.mirror \subseteq Phone
       /\ DOMAIN cfg.wda \subseteq Phone
       /\ \A u \in DOMAIN cfg.wda :
            cfg.wda[u] \in [url: ForwardPort \cup {NoPort}, launch: BOOLEAN,
                            forward: ForwardPort \cup {NoPort}]

VARIABLES
  cur,           \* Manager.cur, what GET /v0/devices shows
  applying,      \* the config whose Apply holds Manager.mu, or NoConfig
  sups,          \* Manager.sups: each device's supervision
  dying,         \* supervisions cancelled and not yet gone
  children,      \* host-side children: forwarders and runners
  wired,         \* Manager.wired: the config behind each device's WDA client
  wiredMirror,   \* Manager.wiredMirror
  published,     \* MirrorRegistry.mirrors
  devicesOn,     \* ToggleRegistry.on
  kinds,         \* KindRouter.kinds: UDIDs pinned as devices
  applies,       \* Apply calls so far; numbers the supervisions
  closed,        \* Manager.Close has run
  undead,         \* history: supervisions whose stop was given up
  route,         \* one action on its way through KindRouter
  pinned         \* history: UDIDs of every config applied so far

devVars == <<cur, applying, sups, dying, children, wired, wiredMirror, published,
             devicesOn, kinds, applies, closed, undead, route, pinned>>
supervision == <<sups, dying, children, undead>>
wiring == <<cur, wired, wiredMirror, published, devicesOn, kinds, pinned>>

NoConfig == [enabled |-> FALSE, wda |-> <<>>, mirror |-> {}]
\* A device's supervision: what it was started for, and which start it was.
Supervision == [u: Phone, entry: [url: ForwardPort \cup {NoPort}, launch: BOOLEAN,
                                  forward: ForwardPort \cup {NoPort}], gen: 1..MaxApplies]
NoRoute == [at |-> "none", udid |-> NoPort, known |-> FALSE, to |-> "none"]

DevTypeOK ==
  /\ cur \in DevConfigs \cup {NoConfig} /\ applying \subseteq DevConfigs
  /\ Cardinality(applying) <= 1
  /\ sups \subseteq Supervision /\ dying \subseteq Supervision /\ undead \subseteq Supervision
  /\ \A c \in children : c.kind \in {"forward", "runner"} /\ c.of \in Supervision
  /\ \A u \in DOMAIN wired : u \in Phone
  /\ wiredMirror \subseteq Phone /\ published \subseteq Phone
  /\ {devicesOn, closed} \subseteq BOOLEAN
  /\ kinds \subseteq Phone /\ pinned \subseteq Phone /\ applies \in 0..MaxApplies
  /\ route.at \in {"none", "looked", "enabled", "sent"}

DevInit ==
  /\ cur = NoConfig /\ applying = {} /\ sups = {} /\ dying = {} /\ children = {}
  /\ wired = <<>> /\ wiredMirror = {} /\ published = {}
  /\ devicesOn = FALSE /\ kinds = {} /\ applies = 0 /\ closed = FALSE
  /\ undead = {} /\ route = NoRoute /\ pinned = {}

-----------------------------------------------------------------------------
(* Validate, and the part of a config that is in force while enabled.      *)
Forwards(cfg) == {u \in DOMAIN cfg.wda : cfg.wda[u].forward # NoPort}
Validate(cfg) ==
  /\ \A u \in DOMAIN cfg.wda :
       cfg.wda[u].launch \/ cfg.wda[u].forward # NoPort => cfg.wda[u].url # NoPort
  /\ \A u, v \in DOMAIN cfg.wda :
       cfg.wda[u].url = cfg.wda[v].url => u = v \/ cfg.wda[u].url = NoPort
  /\ \A u, v \in Forwards(cfg) : cfg.wda[u].forward = cfg.wda[v].forward => u = v
  /\ Cardinality(cfg.mirror) <= 1
  /\ cfg.mirror \cap DOMAIN cfg.wda = {}
Effective(cfg) == IF cfg.enabled THEN cfg.wda ELSE <<>>
EffectiveMirror(cfg) == IF cfg.enabled THEN cfg.mirror ELSE {}
UDIDs(cfg) == DOMAIN cfg.wda \cup cfg.mirror

-----------------------------------------------------------------------------
(* Apply, step by step under Manager.mu.                                   *)

\* A config that does not validate leaves everything as it was.
Apply(cfg) ==
  /\ applying = {} /\ applies < MaxApplies /\ Validate(cfg)
  /\ applying' = {cfg} /\ applies' = applies + 1
  /\ UNCHANGED <<supervision, wiring, closed, route>>

\* Supervisions of removed or changed devices are stopped first, one after
\* another; stopWait ends when the supervision is gone, or gives up.
Outdated_Removed(cfg) == {s \in sups : s.u \notin DOMAIN Effective(cfg)}
Outdated(cfg) ==
  {s \in sups : ~ (s.u \in DOMAIN Effective(cfg) /\ Effective(cfg)[s.u] = s.entry)}
StopsSupervision(cfg) ==
  /\ cfg \in applying /\ dying \ undead = {}
  /\ \E s \in Outdated(cfg) : sups' = sups \ {s} /\ dying' = dying \cup {s}
  /\ UNCHANGED <<wiring, children, undead, applying, applies, closed, route>>
StopWaitExpires ==         \* the child cannot be killed: proceed, loudly
  /\ applying # {} \/ closed
  /\ \E s \in dying \ undead : /\ \E c \in children : c.of = s
                              /\ undead' = undead \cup {s}
  /\ UNCHANGED <<wiring, sups, dying, children, applying, applies, closed, route>>

\* Unchanged devices keep client and supervision; the others are started.
Unchanged(cfg, u) ==
  \/ u \in DOMAIN wired /\ wired[u] = Effective(cfg)[u]
  \/ \E s \in sups : s.u = u /\ s.entry = Effective(cfg)[u]
StartSupervisors(cfg) ==
  {[u |-> u, entry |-> Effective(cfg)[u], gen |-> applies] : u \in
     {v \in DOMAIN Effective(cfg) : /\ ~ Unchanged(cfg, v)
                                    /\ \/ Effective(cfg)[v].launch
                                       \/ Effective(cfg)[v].forward # NoPort}}
\* A URL may be empty for a bare entry: SetWDA then removes the client.
Converge(cfg) ==
  /\ cfg \in applying /\ Outdated(cfg) = {} /\ dying \subseteq undead
  /\ sups' = sups \cup StartSupervisors(cfg)
  /\ wired' = Effective(cfg)
  /\ wiredMirror' = EffectiveMirror(cfg) /\ published' = EffectiveMirror(cfg)
  /\ cur' = cfg
  /\ devicesOn' = cfg.enabled
  /\ kinds' = kinds \cup UDIDs(cfg)      \* SeedDeviceKinds, devices only ever added
  /\ pinned' = pinned \cup UDIDs(cfg)
  /\ applying' = {}
  /\ UNCHANGED <<dying, children, undead, applies, closed, route>>

\* Close: the daemon shuts down.
Close ==
  /\ applying = {} /\ ~ closed
  /\ closed' = TRUE /\ sups' = {} /\ dying' = dying \cup sups
  /\ UNCHANGED <<wiring, children, undead, applying, applies, route>>

-----------------------------------------------------------------------------
(* The supervisions' own goroutines.  A cancelled one may launch once more *)
(* (its probe fails on the cancelled context) before it stops its child.   *)
Listening(p) == {c \in children : c.kind = "forward" /\ c.of.entry.forward = p}
OwnForward(s) == {c \in children : c.of = s /\ c.kind = "forward"}
\* The forward is healthy when anything listens on its port; otherwise the
\* old child is stopped and a new one started.
LaunchForward(s) ==
  /\ s \in sups \cup (dying \ undead) /\ s.entry.forward # NoPort
  /\ Listening(s.entry.forward) = {}
  /\ children' = (children \ OwnForward(s)) \cup {[kind |-> "forward", of |-> s]}
  /\ UNCHANGED <<wiring, sups, dying, undead, applying, applies, closed, route>>
LaunchRunner(s) ==
  /\ s \in sups \cup (dying \ undead) /\ s.entry.launch
  /\ [kind |-> "runner", of |-> s] \notin children
  /\ children' = children \cup {[kind |-> "runner", of |-> s]}
  /\ UNCHANGED <<wiring, sups, dying, undead, applying, applies, closed, route>>
ChildDies ==
  /\ \E c \in children : c.of \notin undead /\ children' = children \ {c}
  /\ UNCHANGED <<wiring, sups, dying, undead, applying, applies, closed, route>>
\* Run returns: launcher.Stop has killed the child and waited for it.
SupervisionGone(s) ==
  /\ s \in dying
  /\ dying' = dying \ {s} /\ undead' = undead \ {s}
  /\ children' = {c \in children : c.of # s}
  /\ UNCHANGED <<wiring, sups, applying, applies, closed, route>>

-----------------------------------------------------------------------------
(* KindRouter.Dispatch: the cache, then the toggle, then the registry,     *)
(* each read at its own moment.                                            *)
KindCached(u) ==
  /\ route.at = "none"
  /\ route' = [at |-> IF u \in kinds THEN "sent" ELSE "looked", udid |-> u,
               known |-> u \in pinned, to |-> IF u \in kinds THEN "device" ELSE "none"]
  /\ UNCHANGED <<wiring, supervision, applying, applies, closed>>
ToggleRead ==
  /\ route.at = "looked"
  /\ route' = IF devicesOn THEN [route EXCEPT !.at = "enabled"]
                           ELSE [route EXCEPT !.at = "sent", !.to = "simulator"]
  /\ UNCHANGED <<wiring, supervision, applying, applies, closed>>
\* devicectl may list the phone, not list it, or fail; a mirrored phone is
\* always found.
RegistryAnswers ==
  /\ route.at = "enabled"
  /\ \/ /\ route' = [route EXCEPT !.at = "sent", !.to = "device"]
        /\ kinds' = kinds \cup {route.udid}
     \/ /\ route.udid \notin published /\ UNCHANGED kinds
        /\ \E to \in {"simulator", "error"} :
             route' = [route EXCEPT !.at = "sent", !.to = to]
  /\ UNCHANGED <<cur, wired, wiredMirror, published, devicesOn, pinned, supervision,
                 applying, applies, closed>>
Dispatched ==
  /\ route.at = "sent" /\ route' = NoRoute
  /\ UNCHANGED <<wiring, supervision, applying, applies, closed>>

DevNext ==
  \/ \E cfg \in DevConfigs : Apply(cfg) \/ StopsSupervision(cfg) \/ Converge(cfg)
  \/ StopWaitExpires \/ Close \/ ChildDies
  \/ \E s \in sups \cup dying : LaunchForward(s) \/ LaunchRunner(s) \/ SupervisionGone(s)
  \/ \E u \in Phone : KindCached(u)
  \/ ToggleRead \/ RegistryAnswers \/ Dispatched
DevSpec == DevInit /\ [][DevNext]_devVars

-----------------------------------------------------------------------------
\* A replacement never races its predecessor: except where a stop was given up
\* with an error, no phone has two runner sessions, and the listener on a
\* device's forward port is that device's own child, also when two devices swap
\* their ports in one config (Apply stops before it starts; manager.go).
DevNoRace ==
  \A c, d \in children :
    /\ {c.of, d.of} \cap undead = {} /\ c # d /\ c.kind = d.kind
    => /\ c.of.u # d.of.u
       /\ c.kind = "forward" => c.of.entry.forward # d.of.entry.forward
DevOwnPort ==
  \A s \in sups, c \in children :
    c.kind = "forward" /\ c.of.entry.forward = s.entry.forward /\ c.of \notin undead
      => c.of = s

\* When no Apply runs, what is supervised, wired and published is what the
\* config in force says, after any sequence of configs with any of them in
\* common; shutdown excepted.
DevConverged ==
  applying = {} /\ ~ closed =>
    /\ wired = Effective(cur) /\ published = EffectiveMirror(cur)
    /\ wiredMirror = published /\ devicesOn = cur.enabled
    /\ \A u \in Phone :
         Cardinality({s \in sups : s.u = u}) =
           IF u \in DOMAIN Effective(cur) /\ (Effective(cur)[u].launch
                                              \/ Effective(cur)[u].forward # NoPort)
           THEN 1 ELSE 0
    /\ \A s \in sups : s.entry = Effective(cur)[s.u]

\* An action on a phone any applied config has named is never run by the
\* simulator tooling, also while the devices are switched off
\* (SeedDeviceKinds, InvalidateKinds; kind_router.go).
DevNeverSim == route.known => route.to # "simulator"

DevSafe == DevNoRace /\ DevOwnPort /\ DevConverged /\ DevNeverSim
=============================================================================
