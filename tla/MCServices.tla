----------------------------- MODULE MCServices -----------------------------
(***************************************************************************)
(* Small instances, for TLC, of the services beside the lease manager:     *)
(* recorder, stream hub, warm helpers, journal, snapshots and simulator    *)
(* images.                                                                 *)
(* No component below reads another's variables, so they are explored one  *)
(* at a time: `part` names the one that moves, the others have no state.   *)
(***************************************************************************)
EXTENDS Recorder, Stream, Helpers, Journal, Snapshots, Images, TLC

CONSTANT Parts   \* the components this run explores

VARIABLE part    \* the component that moves

ServicesSymmetry == Permutations(Hub) \cup Permutations(Viewer)

Active(p) == part = p
Off == "off"

(* A component that does not take part has no state. *)
RecOff == rec = Off /\ recByTarget = Off /\ poisoned = Off /\ stuck = Off /\
    stateFile = Off /\ daemon = Off /\ ingests = Off /\ signalled = Off
HubOff == hub = Off /\ opens = Off /\ watch = Off
HelpOff == entries = Off /\ entry = Off /\ cooling = Off /\ poolShut = Off /\
    detached = Off /\ req = Off /\ performed = Off
JnlOff == runs = Off /\ runState = Off /\ reclaimed = Off /\ open = Off /\
    disk = Off /\ leaseIs = Off /\ sync = Off /\ writer = Off /\
    tailer = Off /\ gc = Off /\ issued = Off
SnpOff == careless = Off /\ holder = Off /\ ended = Off /\ call = Off /\
    snpLock = Off /\ power = Off /\ data = Off /\ staging = Off /\
    aside = Off /\ snpIndex = Off /\ clone = Off /\ calls = Off
ImgOff == dev = Off /\ archive = Off /\ listed = Off /\ tmps = Off /\
    slimmed = Off /\ iop = Off /\ erasing = Off /\ told = Off /\
    stranded = Off /\ imgOps = Off /\ imgCrashes = Off

servicesVars == <<recVars, hubVars, helpVars, jnlVars, snpVars, imgVars,
    part>>

ServicesInit ==
  /\ part \in Parts
  /\ IF Active("recorder") THEN RecInit ELSE RecOff
  /\ IF Active("stream") THEN HubInit ELSE HubOff
  /\ IF Active("helpers") THEN HelpInit ELSE HelpOff
  /\ IF Active("journal") THEN JnlInit ELSE JnlOff
  /\ IF Active("snapshots") THEN SnpInit ELSE SnpOff
  /\ IF Active("images") THEN ImgInit ELSE ImgOff

Rests(p, v) == IF Active(p) THEN TRUE ELSE UNCHANGED v
Alone ==
  /\ UNCHANGED part
  /\ Rests("recorder", recVars)
  /\ Rests("stream", hubVars)
  /\ Rests("helpers", helpVars)
  /\ Rests("journal", jnlVars)
  /\ Rests("snapshots", snpVars)
  /\ Rests("images", imgVars)

ServicesNext ==
  \/ Active("recorder") /\ Alone /\ RecNext
  \/ Active("stream") /\ Alone /\ HubNext
  \/ Active("helpers") /\ Alone /\ HelpNext
  \/ Active("journal") /\ Alone /\ JnlNext
  \/ Active("snapshots") /\ Alone /\ SnpNext
  \/ Active("images") /\ Alone /\ ImgNext

ServicesSpec == ServicesInit /\ [][ServicesNext]_servicesVars

-----------------------------------------------------------------------------
(* Every component that takes part keeps its types. *)
ServicesTypeOK ==
  /\ Active("recorder") => RecTypeOK
  /\ Active("stream") => HubTypeOK
  /\ Active("helpers") => HelpTypeOK
  /\ Active("journal") => JnlTypeOK
  /\ Active("snapshots") => SnpTypeOK
  /\ Active("images") => ImgTypeOK

(* The processes the daemon drives for its clients: a valid recording is   *)
(* journalled once or still on disk whoever stops it, and no capture       *)
(* process is left behind or mistaken for another after a crash; a closed  *)
(* hub has no viewers, an attached viewer is served, and a hub has one     *)
(* pump; an operation that is not idempotent reaches a simulator at most   *)
(* once, and no helper escapes the pool's Close.                           *)
ChildrenSound ==
  /\ Active("recorder") => RecSafe
  /\ Active("stream") => HubSafe
  /\ Active("helpers") => HelpSafe

(* No journal ref is handed out twice, a subscriber is registered with the *)
(* state the appends use, and a run is open exactly while its lease is     *)
(* active once every notification has been handled, with collection and    *)
(* crashes at any step (Record, Watch, GC, syncRunOpen).                   *)
JournalSound == Active("journal") => JnlSafe

(* A listed snapshot has its clone, what a call swaps in is what it copied *)
(* and no failure leaves a simulator without its data directory; a         *)
(* simulator of an image that can be leased was provisioned whole, a       *)
(* listed image has its archive, and a build or stamp leaves nothing       *)
(* behind; failures between any two steps and, for images, crashes         *)
(* included (ReplaceDir, DeleteSnapshot, Stamp, Build).                    *)
StoresSound ==
  /\ Active("snapshots") => SnpSafe
  /\ Active("images") => ImgSafe

(* What no step may do: reap a hub whose idle window has been restarted or *)
(* which has viewers, remove a run whose lease is active, free a simulator *)
(* after a reset with a former holder's data in it (the idle timer, GC,    *)
(* ResetSink).                                                             *)
ServicesSteps ==
  [][ /\ Active("stream") => HubFullWindow
      /\ Active("journal") => JnlLiveKept
      /\ Active("snapshots") => SnpNextClean ]_servicesVars

=============================================================================
