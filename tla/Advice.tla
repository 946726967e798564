------------------------------- MODULE Advice -------------------------------
(***************************************************************************)
(* The broker's view of one host and the advice it keeps there             *)
(* (internal/broker: health.go's probe and advice state, rebalance.go's    *)
(* adviseHosts; the daemon's handleAdvisePool).  A probe may fail, a       *)
(* daemon may restart or be replaced by a build without the endpoint, and  *)
(* the answer to a push may get lost after the daemon has recorded it.     *)
(***************************************************************************)
EXTENDS Naturals

CONSTANTS
  AdviceList,    \* what computeHints may say of the host
  NoAdvice       \* nothing: the empty list, or none recorded

ASSUME AdviceAssumption == NoAdvice \in AdviceList

VARIABLES
  serving,       \* does the daemon answer?
  knowsAdvise,   \* does its build serve POST /v0/pool/advise?
  recorded,      \* Server.advice
  hints,         \* what computeHints says now
  hostUp,        \* host.up
  lastAdviceKey, advicePushed, adviceResync, adviseUnsupported,
  round,         \* probeAll: probing, or advising
  hidden         \* history: the daemon changed behind the broker's back

adviceVars == <<serving, knowsAdvise, recorded, hints, hostUp, lastAdviceKey,
                advicePushed, adviceResync, adviseUnsupported, round, hidden>>

AdviceTypeOK ==
  /\ {serving, knowsAdvise, hostUp, advicePushed, adviceResync,
      adviseUnsupported} \subseteq BOOLEAN
  /\ {recorded, hints, lastAdviceKey} \subseteq AdviceList
  /\ round \in {"probe", "advise"} /\ hidden \subseteq {"restart", "lost"}

AdviceInit ==
  /\ serving \in BOOLEAN /\ knowsAdvise \in BOOLEAN
  /\ recorded = NoAdvice /\ hints = NoAdvice
  /\ hostUp = FALSE
  /\ lastAdviceKey = NoAdvice /\ advicePushed = FALSE
  /\ adviceResync = FALSE /\ adviseUnsupported = FALSE
  /\ round = "probe" /\ hidden = {}

-----------------------------------------------------------------------------
(* The world: the daemon stops, or restarts with any build; demand shifts. *)
DaemonStops ==
  /\ serving /\ serving' = FALSE
  /\ UNCHANGED <<knowsAdvise, recorded, hints, hostUp, lastAdviceKey, advicePushed,
                 adviceResync, adviseUnsupported, round, hidden>>
DaemonStarts ==          \* also a restart too quick for a probe to notice
  /\ serving' = TRUE /\ knowsAdvise' \in BOOLEAN /\ recorded' = NoAdvice
  /\ hidden' = IF hostUp THEN hidden \cup {"restart"} ELSE hidden
  /\ UNCHANGED <<hints, hostUp, lastAdviceKey, advicePushed, adviceResync,
                 adviseUnsupported, round>>
LinkHeals ==             \* the same daemon answers again
  /\ ~ serving /\ serving' = TRUE
  /\ UNCHANGED <<knowsAdvise, recorded, hints, hostUp, lastAdviceKey, advicePushed,
                 adviceResync, adviseUnsupported, round, hidden>>
DemandShifts ==
  /\ hints' \in AdviceList \ {hints}
  /\ UNCHANGED <<serving, knowsAdvise, recorded, hostUp, lastAdviceKey, advicePushed,
                 adviceResync, adviseUnsupported, round, hidden>>

-----------------------------------------------------------------------------
(* probe: a failure takes the host down; the first success after one       *)
(* forgets what was pushed and asks for a push even of nothing.            *)
ProbeFails ==
  /\ round = "probe" /\ ~ serving
  /\ hostUp' = FALSE /\ round' = "advise"
  /\ UNCHANGED <<serving, knowsAdvise, recorded, hints, lastAdviceKey, advicePushed,
                 adviceResync, adviseUnsupported, hidden>>
ProbeSucceeds_KeepsKey ==
  /\ round = "probe" /\ serving
  /\ hostUp' = TRUE /\ round' = "advise"
  /\ IF hostUp THEN UNCHANGED <<adviceResync, adviseUnsupported, hidden>>
     ELSE adviseUnsupported' = FALSE /\ adviceResync' = TRUE /\ hidden' = {}
  /\ UNCHANGED <<serving, knowsAdvise, recorded, hints, lastAdviceKey, advicePushed>>
ProbeSucceeds ==
  /\ round = "probe" /\ serving
  /\ hostUp' = TRUE /\ round' = "advise"
  /\ IF hostUp
       THEN UNCHANGED <<lastAdviceKey, advicePushed, adviceResync, adviseUnsupported, hidden>>
       ELSE /\ adviseUnsupported' = FALSE /\ lastAdviceKey' = NoAdvice
            /\ advicePushed' = FALSE /\ adviceResync' = TRUE /\ hidden' = {}
  /\ UNCHANGED <<serving, knowsAdvise, recorded, hints>>

(* adviseHosts: push a change, or anything at all after a bounce.          *)
NothingToSay ==
  \/ ~ hostUp \/ adviseUnsupported
  \/ advicePushed /\ lastAdviceKey = hints
  \/ ~ advicePushed /\ ~ adviceResync /\ hints = NoAdvice
AdviseSkips ==
  /\ round = "advise" /\ NothingToSay /\ round' = "probe"
  /\ UNCHANGED <<serving, knowsAdvise, recorded, hints, hostUp, lastAdviceKey,
                 advicePushed, adviceResync, adviseUnsupported, hidden>>
AdvisePushes ==
  /\ round = "advise" /\ ~ NothingToSay /\ serving /\ knowsAdvise
  /\ recorded' = hints                     \* handleAdvisePool
  /\ lastAdviceKey' = hints /\ advicePushed' = TRUE /\ adviceResync' = FALSE
  /\ hidden' = {} /\ round' = "probe"
  /\ UNCHANGED <<serving, knowsAdvise, hints, hostUp, adviseUnsupported>>
AdviseRefused ==
  /\ round = "advise" /\ ~ NothingToSay /\ serving /\ ~ knowsAdvise
  /\ adviseUnsupported' = TRUE /\ round' = "probe"
  /\ UNCHANGED <<serving, knowsAdvise, recorded, hints, hostUp, lastAdviceKey,
                 advicePushed, adviceResync, hidden>>
AdviseLost ==            \* unreachable, or recorded and the answer lost
  /\ round = "advise" /\ ~ NothingToSay /\ round' = "probe"
  /\ \/ UNCHANGED <<recorded, hidden>>
     \/ /\ serving /\ knowsAdvise /\ recorded' = hints
        /\ hidden' = hidden \cup {"lost"}
  /\ UNCHANGED <<serving, knowsAdvise, hints, hostUp, lastAdviceKey, advicePushed,
                 adviceResync, adviseUnsupported>>

AdviceNext ==
  \/ DaemonStops \/ DaemonStarts \/ LinkHeals \/ DemandShifts
  \/ ProbeFails \/ ProbeSucceeds
  \/ AdviseSkips \/ AdvisePushes \/ AdviseRefused \/ AdviseLost
AdviceSpec == AdviceInit /\ [][AdviceNext]_adviceVars

(* When the broker has nothing to say to a host that serves advice, the    *)
(* host's copy is the current advice, unless the daemon was replaced       *)
(* between two probes or recorded a push whose answer got lost             *)
(* (adviseHosts, probe, handleAdvisePool).                                 *)
AdviceInSync ==
  hostUp /\ ~ adviseUnsupported /\ NothingToSay /\ hidden = {} => recorded = hints

(* A daemon that serves advice is not written off for longer than it takes *)
(* to notice a bounce (setAdviseUnsupported, probe).                       *)
AdviceWriteOff ==
  hostUp /\ adviseUnsupported /\ knowsAdvise => "restart" \in hidden

AdviceSafe == AdviceInSync /\ AdviceWriteOff
=============================================================================
