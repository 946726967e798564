------------------------------ MODULE Registry ------------------------------
(***************************************************************************)
(* Target enumeration: simctl's simulators, devicectl's phones and the     *)
(* mirror-backed phone behind one merged registry that the runtime toggle  *)
(* switches (internal/registry: simctl.go, devicectl.go, mirror.go,        *)
(* merge.go, toggle.go).  One simulator and one phone tell the cases       *)
(* apart.  Listings are sets of targets and labels are sets: order and     *)
(* naming are left out.                                                    *)
(***************************************************************************)
EXTENDS Naturals, FiniteSets

CONSTANTS Socket, NoSocket       \* mirrord's sockets an operator may configure

ASSUME RegistryAssumption == NoSocket \notin Socket

VARIABLES
  simctl,        \* does simctl answer, and what it says of the simulator
  devicectl,     \* does devicectl answer, and what it says of the phone
  extrasOn,      \* ToggleRegistry.on
  mirrorSocket,  \* MirrorRegistry.mirrors: the phone's socket
  screen,        \* what the mirroring window shows
  helperUp,      \* the sockets a helper answers on
  knowsLight,    \* does the helper serve the light status?
  cache,         \* MirrorRegistry.cache, or NoStatus
  probing,       \* the probe that holds MirrorRegistry.mu
  probeMem,      \* the default probe's entry of each socket
  reported,      \* history: blocked was reported; the screen and the socket are unchanged
  missed,        \* history: a full probe failed since
  flicker        \* history: ready was reported in that time

regVars == <<simctl, devicectl, extrasOn, mirrorSocket, screen, helperUp, knowsLight,
             cache, probing, probeMem, reported, missed, flicker>>
enumeration == <<simctl, devicectl, extrasOn>>
mirrorWorld == <<screen, helperUp, knowsLight>>
reports == <<reported, missed, flicker>>

Screens == {"ready", "blocked", "no-window"}
Statuses == Screens \cup {"error"}
NoStatus == [socket |-> NoSocket, status |-> "error"]
NoProbe == [socket |-> NoSocket, full |-> FALSE]
(* What a listing tool may say; one that fails says nothing. *)
Says(lists) == [ok: {TRUE}, lists: lists] \cup {[ok |-> FALSE, lists |-> "none"]}
Fresh == [blocked |-> FALSE, recent |-> FALSE, refused |-> FALSE]

RegTypeOK ==
  /\ simctl \in Says({"none", "Booted", "Shutdown"})
  /\ devicectl \in Says({"none", "connected", "tunnel down"})
  /\ {extrasOn, knowsLight, reported, missed, flicker} \subseteq BOOLEAN
  /\ mirrorSocket \in Socket \cup {NoSocket} /\ screen \in Screens
  /\ helperUp \subseteq Socket
  /\ cache \in [socket: Socket \cup {NoSocket}, status: Statuses]
  /\ probing \in [socket: Socket \cup {NoSocket}, full: BOOLEAN]
  /\ probeMem \in [Socket -> [blocked: BOOLEAN, recent: BOOLEAN, refused: BOOLEAN]]

RegInit ==
  /\ simctl = [ok |-> TRUE, lists |-> "Booted"]
  /\ devicectl = [ok |-> TRUE, lists |-> "none"]
  /\ extrasOn = FALSE /\ mirrorSocket = NoSocket
  /\ screen \in Screens /\ helperUp = Socket /\ knowsLight \in BOOLEAN
  /\ cache = NoStatus /\ probing = NoProbe /\ probeMem = [s \in Socket |-> Fresh]
  /\ reported = FALSE /\ missed = FALSE /\ flicker = FALSE

-----------------------------------------------------------------------------
(* The three registries.  Each lists targets or fails; the mirror registry *)
(* never fails and always names its phone.                                 *)
SimctlList ==
  [ok |-> simctl.ok,
   targets |-> IF simctl.ok /\ simctl.lists # "none"
     THEN {[udid |-> "sim", kind |-> "simulator", state |-> simctl.lists,
            labels |-> {"simulator"}]} ELSE {}]
DevicectlList ==
  [ok |-> devicectl.ok,
   targets |-> IF devicectl.ok /\ devicectl.lists # "none"
     THEN {IF devicectl.lists = "connected"
             THEN [udid |-> "phone", kind |-> "device", state |-> "Booted",
                   labels |-> {"device"}]
             ELSE [udid |-> "phone", kind |-> "device", state |-> "Unknown",
                   labels |-> {"device", "disconnected"}]} ELSE {}]
MirrorTarget(status) ==
  [udid |-> "phone", kind |-> "device",
   state |-> IF status \in {"ready", "blocked"} THEN "Booted" ELSE "Unknown",
   labels |-> {"device", "mirror", "no-devicectl"} \cup
     CASE status = "ready" -> {} [] status = "blocked" -> {"mirror-blocked"}
       [] OTHER -> {"disconnected"}]
\* What the mirror registry would answer with this status.
MirrorList(status) ==
  [ok |-> TRUE, targets |-> IF mirrorSocket = NoSocket THEN {} ELSE {MirrorTarget(status)}]

-----------------------------------------------------------------------------
(* MergedRegistry: overlayTarget, dedupTargets, List, owner.               *)
Mirrored(t) == "mirror" \in t.labels
NoTunnel(labels) ==
  IF "disconnected" \in labels THEN (labels \ {"disconnected"}) \cup {"no-tunnel"} ELSE labels
OverlayMirror(base, extra) ==
  [base EXCEPT !.state = extra.state,
               !.labels = NoTunnel(base.labels) \cup (extra.labels \ {"no-devicectl"})]
OverlayTarget(base, extra) ==
  CASE Mirrored(base) /\ ~ Mirrored(extra) -> OverlayMirror(extra, base)
    [] Mirrored(extra) -> OverlayMirror(base, extra)
    [] OTHER -> [base EXCEPT !.labels = @ \cup extra.labels,
                             !.state = IF @ = "Unknown" THEN extra.state ELSE @]
\* The registries asked, in order; the mirror's success does not count.
Asks(status) == IF extrasOn THEN <<SimctlList, DevicectlList, MirrorList(status)>>
                            ELSE <<SimctlList>>
Fallible == IF extrasOn THEN {1, 2} ELSE {1}
ListFails_AnyOf(status) == \E i \in Fallible : ~ Asks(status)[i].ok
ListFails(status) == \A i \in Fallible : ~ Asks(status)[i].ok
Entries(status, u) ==
  UNION {{<<i, t>> : t \in {x \in Asks(status)[i].targets : x.udid = u}} :
           i \in DOMAIN Asks(status)}
\* dedupTargets: the first entry of a UDID, overlaid with a later one.
DedupTargets(status, u) ==
  LET es == Entries(status, u)
      first == CHOOSE e \in es : \A f \in es : e[1] <= f[1]
      later == es \ {first}
  IN IF later = {} THEN first[2]
     ELSE OverlayTarget(first[2], (CHOOSE e \in later : TRUE)[2])
List(status) ==
  IF ListFails(status) THEN {}
  ELSE {DedupTargets(status, u) : u \in {v \in {"sim", "phone"} : Entries(status, v) # {}}}
\* owner: the first registry that knows the UDID, the rest overlaid for a
\* phone; not found only when every registry answered.
Owner_FirstAnswer(status, u) ==
  IF Entries(status, u) = {} THEN [answer |-> "not found"]
  ELSE [answer |-> "found", target |-> DedupTargets(status, u)]
Owner(status, u) ==
  LET es == Entries(status, u)
      first == CHOOSE e \in es : \A f \in es : e[1] <= f[1]
      rest == {e \in es : e[1] > first[1]}
  IN IF es = {}
       THEN [answer |-> IF \A i \in DOMAIN Asks(status) : Asks(status)[i].ok
                        THEN "not found" ELSE "error"]
       ELSE [answer |-> "found",
             target |-> IF first[2].kind = "simulator" \/ rest = {} THEN first[2]
                        ELSE OverlayTarget(first[2], (CHOOSE e \in rest : TRUE)[2])]

-----------------------------------------------------------------------------
(* The world, and the operator's configuration.                            *)
RegHostChanges ==
  /\ \/ /\ simctl' \in Says({"none", "Booted", "Shutdown"})
        /\ UNCHANGED devicectl
     \/ /\ devicectl' \in Says({"none", "connected", "tunnel down"})
        /\ UNCHANGED simctl
  /\ UNCHANGED <<extrasOn, mirrorSocket, mirrorWorld, cache, probing, probeMem, reports>>
SetEnabled ==
  /\ extrasOn' = ~ extrasOn
  /\ UNCHANGED <<simctl, devicectl, mirrorSocket, mirrorWorld, cache, probing, probeMem, reports>>
PhoneScreenChanges ==
  /\ screen' \in Screens \ {screen} /\ reported' = FALSE /\ missed' = FALSE
  /\ flicker' = FALSE
  /\ UNCHANGED <<enumeration, mirrorSocket, helperUp, knowsLight, cache, probing, probeMem>>
HelperChanges ==          \* it crashes, comes back, or is upgraded
  /\ helperUp' \in SUBSET Socket /\ knowsLight' \in {knowsLight, TRUE}
  /\ UNCHANGED <<enumeration, mirrorSocket, screen, cache, probing, probeMem, reports>>
\* Under the registry's lock: entries of removed or moved phones go.
SetMirrors_KeepsCache(s) ==
  /\ probing = NoProbe /\ mirrorSocket' = s
  /\ UNCHANGED <<enumeration, mirrorWorld, cache, probing, probeMem, reports>>
SetMirrors(s) ==
  /\ probing = NoProbe /\ mirrorSocket' = s
  /\ cache' = IF cache.socket = s THEN cache ELSE NoStatus
  /\ IF s = mirrorSocket THEN UNCHANGED reports
     ELSE reported' = FALSE /\ missed' = FALSE /\ flicker' = FALSE
  /\ UNCHANGED <<enumeration, mirrorWorld, probing, probeMem>>

-----------------------------------------------------------------------------
(* statusFor: a fresh cache entry answers; otherwise one probe runs under  *)
(* the lock, light or full as newDefaultMirrorProbe chooses.               *)
EntryExpires ==
  /\ cache # NoStatus /\ cache' = NoStatus
  /\ UNCHANGED <<enumeration, mirrorSocket, mirrorWorld, probing, probeMem, reports>>
IntervalPasses(s) ==      \* mirrorFullStatusInterval
  /\ probeMem' = [probeMem EXCEPT ![s] = [@ EXCEPT !.recent = FALSE, !.refused = FALSE]]
  /\ UNCHANGED <<enumeration, mirrorSocket, mirrorWorld, cache, probing, reports>>
Light_NotBlocked(s) == probeMem[s].recent /\ ~ probeMem[s].refused
Light(s) == ~ probeMem[s].blocked /\ probeMem[s].recent /\ ~ probeMem[s].refused
StatusFor(s) ==
  /\ mirrorSocket = s /\ probing = NoProbe /\ cache.socket # s
  /\ probing' = [socket |-> s, full |-> ~ Light(s)]
  /\ UNCHANGED <<enumeration, mirrorSocket, mirrorWorld, cache, probeMem, reports>>
Report(st) ==
  /\ cache' = [socket |-> probing.socket, status |-> st]
  /\ reported' = (reported \/ st = "blocked")
  /\ flicker' = (flicker \/ (reported /\ st = "ready"))
  /\ probing' = NoProbe
\* The light status cannot see an interstitial.
LightStatus ==
  /\ probing.socket \in Socket /\ ~ probing.full
  /\ \/ /\ probing.socket \in helperUp /\ knowsLight
        /\ Report(IF screen = "blocked" THEN "ready" ELSE screen)
        /\ UNCHANGED <<missed, probeMem>>
     \/ Report("error") /\ UNCHANGED <<missed, probeMem>>
     \/ /\ probing.socket \in helperUp /\ ~ knowsLight
        /\ probing' = [probing EXCEPT !.full = TRUE]
        /\ probeMem' = [probeMem EXCEPT ![probing.socket].refused = TRUE]
        /\ UNCHANGED <<cache, reports>>
  /\ UNCHANGED <<enumeration, mirrorSocket, mirrorWorld>>
FullDone(blocked) ==
  probeMem' = [probeMem EXCEPT ![probing.socket].recent = TRUE,
                               ![probing.socket].blocked = blocked]
FullStatus ==             \* a busy worker makes the probe time out
  /\ probing.socket \in Socket /\ probing.full
  /\ \/ /\ probing.socket \in helperUp
        /\ Report(screen) /\ FullDone(screen = "blocked") /\ UNCHANGED missed
     \/ Report("error") /\ FullDone(FALSE) /\ missed' = TRUE
  /\ UNCHANGED <<enumeration, mirrorSocket, mirrorWorld>>
\* The caller went away in the middle: the cache is not touched.
ProbeAbandoned ==
  /\ probing # NoProbe
  /\ probing' = NoProbe
  /\ IF probing.full THEN FullDone(FALSE) /\ missed' = TRUE
                     ELSE UNCHANGED <<probeMem, missed>>
  /\ UNCHANGED <<enumeration, mirrorSocket, mirrorWorld, cache, reported, flicker>>

RegNext ==
  \/ RegHostChanges \/ SetEnabled \/ PhoneScreenChanges \/ HelperChanges \/ EntryExpires
  \/ \E s \in Socket \cup {NoSocket} : SetMirrors(s)
  \/ \E s \in Socket : IntervalPasses(s) \/ StatusFor(s)
  \/ LightStatus \/ FullStatus \/ ProbeAbandoned
RegSpec == RegInit /\ [][RegNext]_regVars

-----------------------------------------------------------------------------
\* A target reported missing is missing: not found, on which the pool prunes
\* and the router falls back to the simulator tooling, is only ever said when
\* every registry answered and none of them has the UDID (owner; merge.go).
RegMissingIsMissing ==
  \A st \in Statuses, u \in {"sim", "phone"} :
    Owner(st, u).answer = "not found" =>
      /\ simctl.ok /\ (u = "sim" => simctl.lists = "none")
      /\ extrasOn /\ u = "phone" => devicectl.ok /\ devicectl.lists = "none"
                                    /\ mirrorSocket = NoSocket

\* A listing names each target once, agrees with a lookup of each of them, and
\* a failing tool hides only its own targets; a phone on a live mirror is
\* usable whatever its tunnel does, and says no-devicectl exactly when
\* devicectl does not list it (List, dedupTargets, overlayTarget).
RegListAgrees ==
  \A st \in Statuses :
    /\ \A t \in List(st) : Owner(st, t.udid) = [answer |-> "found", target |-> t]
    /\ Cardinality({t.udid : t \in List(st)}) = Cardinality(List(st))
    /\ simctl.ok /\ simctl.lists # "none" => \E t \in List(st) : t.udid = "sim"
    /\ \A t \in List(st) : Mirrored(t) =>
         /\ t.state = "Booted" <=> st \in {"ready", "blocked"}
         /\ "no-devicectl" \in t.labels <=> ~ (devicectl.ok /\ devicectl.lists # "none")
         /\ t.state = "Booted" => "disconnected" \notin t.labels

\* No status outlives the configuration it was probed under, and the label
\* mirror-blocked does not come and go while the interstitial and the socket
\* stay, unless a full probe failed (SetMirrors, statusFor,
\* newDefaultMirrorProbe; mirror.go).
RegStatusCurrent ==
  /\ cache # NoStatus => cache.socket = mirrorSocket
  /\ flicker => missed

RegSafe == RegMissingIsMissing /\ RegListAgrees /\ RegStatusCurrent
=============================================================================
