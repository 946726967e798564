------------------------------ MODULE Helpers -------------------------------
(***************************************************************************)
(* Warm helpers (internal/actions: warm_pool, warm_helper, warm): a pool   *)
(* of resident simbridge processes, one slot per simulator, in front of    *)
(* the cold backend.  The pool's lock guards the map, each entry's lock    *)
(* its helper; a caller holds the entry's lock while its operation runs,   *)
(* and Drop, Close, the janitor and evictions detach entries meanwhile.    *)
(* An operation is performed on the simulator by the helper or by the      *)
(* cold backend.  Which idle entry is the least recently used one is left  *)
(* open, and timeouts may happen at any time.                              *)
(***************************************************************************)
EXTENDS Naturals, FiniteSets

CONSTANTS
  Caller,       \* requests, each of which dispatches one operation
  WarmUDID,     \* simulators
  Entry,        \* pool entries; a bound on how many are ever made
  NoEntry,
  MaxTargets,
  MaxAttempts   \* how often Call looks for a slot (4)

ASSUME HelpAssumption ==
  /\ NoEntry \notin Entry \cup Caller
  /\ MaxTargets \in Nat \ {0} /\ MaxAttempts \in Nat \ {0}

VARIABLES
  entries,   \* Pool.entries: simulator -> entry
  entry,     \* the entries: the helper and gone, and whose the lock is
  cooling,   \* failUntil lies ahead
  poolShut,  \* Pool.closed
  detached,  \* entries Drop or Close have taken out and still have to close
  req,      \* the requests
  performed  \* history: how often the simulator has performed the operation

helpVars == <<entries, entry, cooling, poolShut, detached, req, performed>>

CallStates == {"new", "slot", "lock", "locked", "ready", "again", "cold", "done"}

HelpTypeOK ==
  /\ entries \in [WarmUDID -> Entry \cup {NoEntry}]
  /\ entry \in [Entry -> [made: BOOLEAN, helper: BOOLEAN, gone: BOOLEAN,
                          lock: Caller \cup {NoEntry}]]
  /\ cooling \subseteq WarmUDID
  /\ poolShut \in BOOLEAN
  /\ detached \subseteq Entry
  /\ req \in [Caller -> [at: CallStates, udid: WarmUDID, idem: BOOLEAN,
                          slot: Entry \cup {NoEntry}, tries: 0..MaxAttempts]]
  /\ performed \in [Caller -> Nat]

HelpInit ==
  /\ entries = [u \in WarmUDID |-> NoEntry]
  /\ entry = [e \in Entry |-> [made |-> FALSE, helper |-> FALSE, gone |-> FALSE,
                               lock |-> NoEntry]]
  /\ cooling = {} /\ poolShut = FALSE /\ detached = {}
  /\ req \in [Caller -> [at: {"new"}, udid: WarmUDID, idem: BOOLEAN,
                          slot: {NoEntry}, tries: {0}]]
  /\ performed = [c \in Caller |-> 0]

(* The entry the next allocation returns. *)
FreshEntry ==
  LET unmade == {e \in Entry : ~entry[e].made} IN
  IF unmade = {} THEN {} ELSE {CHOOSE e \in unmade : TRUE}

Unlocked(e) == entry[e].lock = NoEntry
Pooled == {entries[u] : u \in WarmUDID} \ {NoEntry}
HelpAt(c, s) == req[c].at = s
Step(c, s) == req' = [req EXCEPT ![c].at = s]
OnSim(c, n) == performed' = [performed EXCEPT ![c] = @ + n]

(* A detached, closed entry: helper = nil, gone = true. *)
Gone(e) == [entry[e] EXCEPT !.helper = FALSE, !.gone = TRUE, !.lock = NoEntry]
Removed(u, e) == [entries EXCEPT ![u] = IF @ = e THEN NoEntry ELSE @]

-----------------------------------------------------------------------------
(* Call *)

(* entryLocked: the simulator's entry, or a new one, for which an idle one *)
(* may have to go; otherwise the request goes to the cold backend.         *)
FindSlot(c) ==
  LET u == req[c].udid
      full == Cardinality(Pooled) >= MaxTargets
      idle == {w \in WarmUDID : entries[w] # NoEntry /\ Unlocked(entries[w])}
      ToLock(e) == [req[c] EXCEPT !.at = "lock", !.slot = e, !.tries = @ + 1]
  IN
  /\ req[c].at \in {"new", "slot"}
  /\ \/ /\ \/ poolShut
           \/ req[c].tries = MaxAttempts
           \/ entries[u] = NoEntry /\ (u \in cooling \/ (full /\ idle = {}))
        /\ Step(c, "cold") /\ UNCHANGED <<entries, entry>>
     \/ /\ ~poolShut /\ req[c].tries < MaxAttempts /\ entries[u] # NoEntry
        /\ req' = [req EXCEPT ![c] = ToLock(entries[u])]
        /\ UNCHANGED <<entries, entry>>
     \/ /\ ~poolShut /\ req[c].tries < MaxAttempts
        /\ entries[u] = NoEntry /\ u \notin cooling
        /\ \E victims \in {{}} \cup {{w} : w \in idle}, e \in FreshEntry :
             /\ full <=> victims # {}
             /\ entries' = [w \in WarmUDID |-> IF w = u THEN e
                              ELSE IF w \in victims THEN NoEntry ELSE entries[w]]
             /\ entry' = [f \in Entry |-> IF f = e THEN [entry[e] EXCEPT !.made = TRUE]
                            ELSE IF \E w \in victims : entries[w] = f THEN Gone(f)
                            ELSE entry[f]]
             /\ req' = [req EXCEPT ![c] = ToLock(e)]
  /\ UNCHANGED <<cooling, poolShut, detached, performed>>

LockSlot_Unchecked(c) ==
  /\ HelpAt(c, "lock") /\ Unlocked(req[c].slot)
  /\ entry' = [entry EXCEPT ![req[c].slot].lock = c] /\ Step(c, "locked")
  /\ UNCHANGED <<entries, cooling, poolShut, detached, performed>>

(* e.mu.Lock: an entry that was detached meanwhile is not used. *)
LockSlot(c) ==
  LET e == req[c].slot IN
  /\ HelpAt(c, "lock") /\ Unlocked(e)
  /\ \/ entry[e].gone /\ Step(c, "slot") /\ UNCHANGED entry
     \/ /\ ~entry[e].gone
        /\ entry' = [entry EXCEPT ![e].lock = c] /\ Step(c, "locked")
  /\ UNCHANGED <<entries, cooling, poolShut, detached, performed>>

(* evict, under the entry's lock, which is then released; the spawn        *)
(* cooldown begins unless the caller cancelled.                            *)
Evict(c, cool) ==
  LET e == req[c].slot
      u == req[c].udid IN
  /\ entry' = [entry EXCEPT ![e] = Gone(e)]
  /\ entries' = Removed(u, e)
  /\ cooling' = IF cool THEN cooling \cup {u} ELSE cooling

(* The helper is running, or its factory spawns one, or cannot. *)
HelpSpawn(c) ==
  /\ HelpAt(c, "locked")
  /\ \/ /\ Step(c, "ready")
        /\ entry' = [entry EXCEPT ![req[c].slot].helper = TRUE]
        /\ UNCHANGED <<entries, cooling>>
     \/ /\ ~entry[req[c].slot].helper
        /\ Evict(c, TRUE) /\ Step(c, "cold")
  /\ UNCHANGED <<poolShut, detached, performed>>

(* The operation ends: it was performed, or the healthy helper refused it. *)
Answer(c) ==
  /\ req[c].at \in {"ready", "again"}
  /\ \E n \in {0, 1} : OnSim(c, n)
  /\ entry' = [entry EXCEPT ![req[c].slot].lock = NoEntry]
  /\ Step(c, "done")
  /\ UNCHANGED <<entries, cooling, poolShut, detached>>

(* The request never reached the helper.  On its first call, and with time *)
(* left, it is replayed on a fresh helper; after that the helper is given  *)
(* up and the cold backend takes over.                                     *)
Undelivered(c) ==
  /\ req[c].at \in {"ready", "again"}
  /\ \/ /\ HelpAt(c, "ready") /\ Step(c, "again")
        /\ UNCHANGED <<entries, entry, cooling>>
     \/ \E cool \in BOOLEAN : Evict(c, cool) /\ Step(c, "cold")
  /\ UNCHANGED <<poolShut, detached, performed>>

Replay_Always(c) == TRUE

(* What dispatchRest may run again on the cold backend after a request had *)
(* been written.                                                           *)
Replay(c) == req[c].idem

(* The helper died or timed out with the request written: the simulator    *)
(* may have performed it.                                                  *)
Delivered(c) ==
  /\ req[c].at \in {"ready", "again"}
  /\ \E n \in {0, 1} : OnSim(c, n)
  /\ \E cool \in BOOLEAN : Evict(c, cool)
  /\ Step(c, IF Replay(c) THEN "cold" ELSE "done")
  /\ UNCHANGED <<poolShut, detached>>

(* cold.Dispatch *)
ColdDispatch(c) ==
  /\ HelpAt(c, "cold") /\ Step(c, "done")
  /\ \E n \in {0, 1} : OnSim(c, n)
  /\ UNCHANGED <<entries, entry, cooling, poolShut, detached>>

-----------------------------------------------------------------------------
(* Detaching *)

(* Drop takes the entry out of the map and forgets the cooldown ... *)
Drop(u) ==
  /\ entries[u] # NoEntry \/ u \in cooling
  /\ detached' = detached \cup ({entries[u]} \ {NoEntry})
  /\ entries' = [entries EXCEPT ![u] = NoEntry]
  /\ cooling' = cooling \ {u}
  /\ UNCHANGED <<entry, poolShut, req, performed>>

ShutPool ==
  /\ ~poolShut /\ poolShut' = TRUE
  /\ detached' = detached \cup Pooled
  /\ entries' = [u \in WarmUDID |-> NoEntry]
  /\ UNCHANGED <<entry, cooling, req, performed>>

(* ... and, like Close, waits for its lock to close the helper. *)
CloseDetached(e) ==
  /\ e \in detached /\ Unlocked(e)
  /\ detached' = detached \ {e}
  /\ entry' = [entry EXCEPT ![e] = Gone(e)]
  /\ UNCHANGED <<entries, cooling, poolShut, req, performed>>

(* reapIdle, for an entry nobody uses. *)
ReapIdle(u) ==
  LET e == entries[u] IN
  /\ e # NoEntry /\ Unlocked(e) /\ entry[e].helper
  /\ entries' = Removed(u, e)
  /\ entry' = [entry EXCEPT ![e] = Gone(e)]
  /\ UNCHANGED <<cooling, poolShut, detached, req, performed>>

CooldownEnds(u) ==
  /\ u \in cooling /\ cooling' = cooling \ {u}
  /\ UNCHANGED <<entries, entry, poolShut, detached, req, performed>>

HelpNext ==
  \/ \E c \in Caller : \/ FindSlot(c) \/ LockSlot(c) \/ HelpSpawn(c) \/ Answer(c)
                       \/ Undelivered(c) \/ Delivered(c) \/ ColdDispatch(c)
  \/ \E u \in WarmUDID : Drop(u) \/ ReapIdle(u) \/ CooldownEnds(u)
  \/ \E e \in Entry : CloseDetached(e)
  \/ ShutPool

HelpSpec == HelpInit /\ [][HelpNext]_helpVars

-----------------------------------------------------------------------------
(* A tap or a key press reaches the simulator at most once, whichever of   *)
(* helper, fresh helper and cold backend gets to run it; only what is      *)
(* idempotent may be repeated.                                             *)
HelpAtMostOnce == \A c \in Caller : ~req[c].idem => performed[c] <= 1

(* No simbridge process leaks: a running helper is in the pool, in use, or *)
(* about to be closed by the Drop or Close that detached it, so that once  *)
(* the pool is shut and the calls are over none is left.                   *)
HelpNoLeak ==
  \A e \in Entry : entry[e].helper => e \in Pooled \/ e \in detached \/ ~Unlocked(e)

HelpSafe == HelpAtMostOnce /\ HelpNoLeak
=============================================================================
