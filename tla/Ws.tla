--------------------------------- MODULE Ws ---------------------------------
(***************************************************************************)
(* One WebSocket connection of the daemon (internal/server/ws.go handleWS, *)
(* events.go): the read loop, the worker that runs pipelined actions in    *)
(* order, the goroutines of the long-running requests, and the writer that *)
(* serialises answers and broadcast events onto the socket.                *)
(* A request is its number: 1 is the first one the client sent.            *)
(***************************************************************************)
EXTENDS Integers, Sequences, FiniteSets

CONSTANTS
    MaxWsRequests,       \* bound: requests a client sends
    maxAsyncWSRequests,  \* the action queue's room, and the slots of long requests
    OutRoom,             \* room of the out channel
    EventRoom            \* room of a subscriber's event channel

ASSUME WsAssumption ==
    /\ MaxWsRequests \in Nat /\ maxAsyncWSRequests \in Nat \ {0}
    /\ OutRoom \in Nat \ {0} /\ EventRoom \in Nat \ {0}

VARIABLES
    asked,      \* the kinds of the requests sent, in order
    inbox,      \* sent, not yet read
    peer,       \* is the client there?
    reader,     \* the read loop: where it is, and the request whose answer it holds
    actionQ,    \* requests waiting for the worker
    aworker,    \* the worker: where it is, and its request
    long,       \* goroutines of long requests
    out,        \* answers on their way to the writer
    outClosed,  \* has the handler closed that channel?
    writer,     \* "runs", "ended" after draining, or "broke"
    events,     \* broadcast events on their way
    answered,   \* history: answers written
    executed    \* history: actions started
wsVars == <<asked, inbox, peer, reader, actionQ, aworker, long, out, outClosed, writer, events,
            answered, executed>>

WsKinds == {"action", "image", "plain"}
Requests == 1..MaxWsRequests
Seqs(n) == UNION {[1..k -> Requests] : k \in 0..n}
writeDone == writer # "runs"

WsTypeOK ==
    /\ Len(asked) <= MaxWsRequests /\ \A i \in DOMAIN asked : asked[i] \in WsKinds
    /\ inbox \in Seqs(MaxWsRequests)
    /\ peer \in BOOLEAN /\ outClosed \in BOOLEAN
    /\ reader \in [at : {"reading", "putting", "closing", "waiting", "draining", "returned"},
                   req : 0..MaxWsRequests]
    /\ Len(actionQ) <= maxAsyncWSRequests
    /\ aworker \in [at : {"idle", "running", "putting", "exited"}, req : 0..MaxWsRequests]
    /\ long \subseteq [at : {"spawned", "running", "putting"}, req : Requests]
    /\ Cardinality(long) <= maxAsyncWSRequests
    /\ Len(out) <= OutRoom
    /\ writer \in {"runs", "ended", "broke"} /\ events \in 0..EventRoom

WsInit ==
    /\ asked = <<>> /\ inbox = <<>> /\ peer = TRUE
    /\ reader = [at |-> "reading", req |-> 0]
    /\ actionQ = <<>> /\ aworker = [at |-> "idle", req |-> 0] /\ long = {}
    /\ out = <<>> /\ outClosed = FALSE /\ writer = "runs" /\ events = 0
    /\ answered = <<>> /\ executed = <<>>

(* The client sends a request, or goes away. *)
ClientSends ==
    /\ peer /\ Len(asked) < MaxWsRequests
    /\ \E k \in WsKinds : asked' = Append(asked, k)
    /\ inbox' = Append(inbox, Len(asked) + 1)
    /\ UNCHANGED <<peer, reader, actionQ, aworker, long, out, outClosed, writer, events, answered, executed>>
WsClientLeaves ==
    /\ peer /\ peer' = FALSE
    /\ UNCHANGED <<asked, inbox, reader, actionQ, aworker, long, out, outClosed, writer, events,
                   answered, executed>>

-----------------------------------------------------------------------------
(* The read loop.  An action goes to the worker's queue, an image request  *)
(* to a goroutine of its own, both refused as overloaded when full; any    *)
(* other request is served before the next one is read.                    *)
Lane_Own(kind) == IF kind = "plain" THEN "here" ELSE "goroutine"
Lane(kind) ==
    CASE kind = "action" -> "worker"
      [] kind = "image" -> "goroutine"
      [] OTHER -> "here"

ReadsNext ==
    /\ reader.at = "reading" /\ inbox # <<>> /\ ~writeDone
    /\ inbox' = Tail(inbox)
    /\ LET r == Head(inbox)
           lane == Lane(asked[r])
       IN  IF lane = "worker" /\ Len(actionQ) < maxAsyncWSRequests
           THEN actionQ' = Append(actionQ, r) /\ UNCHANGED <<reader, long>>
           ELSE IF lane = "goroutine" /\ Cardinality(long) < maxAsyncWSRequests
           THEN long' = long \cup {[at |-> "spawned", req |-> r]} /\ UNCHANGED <<reader, actionQ>>
           ELSE reader' = [at |-> "putting", req |-> r] /\ UNCHANGED <<actionQ, long>>
    /\ UNCHANGED <<asked, peer, aworker, out, outClosed, writer, events, answered, executed>>

(* The client's departure and the writer's end (which cancels the context) *)
(* both fail the read.                                                     *)
ReadFails ==
    /\ reader.at = "reading" /\ (~peer \/ writeDone)
    /\ reader' = [reader EXCEPT !.at = "closing"]
    /\ UNCHANGED <<asked, inbox, peer, actionQ, aworker, long, out, outClosed, writer, events,
                   answered, executed>>

ReaderPuts ==
    /\ reader.at = "putting"
    /\ \/ Len(out) < OutRoom /\ out' = Append(out, reader.req) /\ reader' = [at |-> "reading", req |-> 0]
       \/ writeDone /\ reader' = [at |-> "closing", req |-> 0] /\ UNCHANGED out
    /\ UNCHANGED <<asked, inbox, peer, actionQ, aworker, long, outClosed, writer, events, answered, executed>>

(* close(actionQ); pending.Wait(); close(out); <-writeDone. *)
AllDone_Worker == aworker.at = "exited"
AllDone == aworker.at = "exited" /\ long = {}
HandlerEnds ==
    /\ \/ reader.at = "closing" /\ reader' = [reader EXCEPT !.at = "waiting"] /\ UNCHANGED outClosed
       \/ /\ reader.at = "waiting" /\ AllDone
          /\ reader' = [reader EXCEPT !.at = "draining"] /\ outClosed' = TRUE
       \/ /\ reader.at = "draining" /\ writeDone
          /\ reader' = [reader EXCEPT !.at = "returned"] /\ UNCHANGED outClosed
    /\ UNCHANGED <<asked, inbox, peer, actionQ, aworker, long, out, writer, events, answered, executed>>

-----------------------------------------------------------------------------
(* The action worker: one action at a time, until the queue is closed. *)
WorkerRuns ==
    /\ \/ /\ aworker.at = "idle" /\ actionQ # <<>>
          /\ aworker' = [at |-> "running", req |-> Head(actionQ)]
          /\ actionQ' = Tail(actionQ) /\ executed' = Append(executed, Head(actionQ))
       \/ /\ aworker.at = "idle" /\ actionQ = <<>> /\ reader.at \in {"waiting", "draining", "returned"}
          /\ aworker' = [aworker EXCEPT !.at = "exited"] /\ UNCHANGED <<actionQ, executed>>
       \/ /\ aworker.at = "running"
          /\ aworker' = [aworker EXCEPT !.at = "putting"] /\ UNCHANGED <<actionQ, executed>>
    /\ UNCHANGED <<asked, inbox, peer, reader, long, out, outClosed, writer, events, answered>>

(* An answer is put on the channel, or dropped once the writer has ended.  *)
MayDrop_Never == FALSE
MayDrop == writeDone
WorkerPuts ==
    /\ aworker.at = "putting"
    /\ \/ Len(out) < OutRoom /\ out' = Append(out, aworker.req)
       \/ MayDrop /\ UNCHANGED out
    /\ aworker' = [at |-> "idle", req |-> 0]
    /\ UNCHANGED <<asked, inbox, peer, reader, actionQ, long, outClosed, writer, events, answered, executed>>

(* A long request: its slot is free again once its answer is on its way.   *)
LongRuns(g) ==
    /\ g.at \in {"spawned", "running"}
    /\ long' = (long \ {g}) \cup {[g EXCEPT !.at = IF g.at = "spawned" THEN "running" ELSE "putting"]}
    /\ executed' = IF g.at = "spawned" /\ asked[g.req] = "action" THEN Append(executed, g.req) ELSE executed
    /\ UNCHANGED <<asked, inbox, peer, reader, actionQ, aworker, out, outClosed, writer, events, answered>>
LongPuts(g) ==
    /\ g.at = "putting"
    /\ \/ Len(out) < OutRoom /\ out' = Append(out, g.req)
       \/ MayDrop /\ UNCHANGED out
    /\ long' = long \ {g}
    /\ UNCHANGED <<asked, inbox, peer, reader, actionQ, aworker, outClosed, writer, events, answered, executed>>

-----------------------------------------------------------------------------
(* The writer: events and answers, one at a time.  A write that fails or   *)
(* times out against a stalled client breaks it.                           *)
WriterAnswers ==
    /\ writer = "runs" /\ out # <<>>
    /\ out' = Tail(out) /\ answered' = Append(answered, Head(out))
    /\ UNCHANGED <<asked, inbox, peer, reader, actionQ, aworker, long, outClosed, writer, events, executed>>
WriterSendsEvent ==
    /\ writer = "runs" /\ events > 0
    /\ events' = events - 1
    /\ UNCHANGED <<asked, inbox, peer, reader, actionQ, aworker, long, out, outClosed, writer,
                   answered, executed>>
WriterBreaks ==
    /\ writer = "runs" /\ (events > 0 \/ out # <<>>)
    /\ writer' = "broke"
    /\ UNCHANGED <<asked, inbox, peer, reader, actionQ, aworker, long, out, outClosed, events, answered, executed>>
WriterEnds ==
    /\ writer = "runs" /\ outClosed /\ out = <<>>
    /\ writer' = "ended"
    /\ UNCHANGED <<asked, inbox, peer, reader, actionQ, aworker, long, out, outClosed, events, answered, executed>>

(* eventHub.broadcast: dropped rather than block on a slow client. *)
Broadcast ==
    /\ reader.at # "returned" /\ events < EventRoom
    /\ events' = events + 1
    /\ UNCHANGED <<asked, inbox, peer, reader, actionQ, aworker, long, out, outClosed, writer,
                   answered, executed>>

WsServes ==
    \/ ReadsNext \/ ReaderPuts \/ HandlerEnds \/ WorkerRuns \/ WorkerPuts
    \/ \E g \in long : LongRuns(g) \/ LongPuts(g)
    \/ WriterAnswers \/ WriterSendsEvent \/ WriterEnds
WsNext == ClientSends \/ WsClientLeaves \/ ReadFails \/ WsServes \/ WriterBreaks \/ Broadcast
WsSpec == WsInit /\ [][WsNext]_wsVars

(* Every goroutine runs; nothing forces the client or a broadcast.  The    *)
(* writer's select picks at random, so events cannot hold answers back.    *)
WsFairness ==
    /\ WF_wsVars(ReadFails \/ ReaderPuts \/ HandlerEnds)
    /\ WF_wsVars(WorkerRuns \/ WorkerPuts)
    /\ WF_wsVars(\E g \in long : LongRuns(g) \/ LongPuts(g))
    /\ WF_wsVars(WriterAnswers \/ WriterEnds)
WsFairSpec == WsSpec /\ WsFairness

-----------------------------------------------------------------------------
(* Nothing is ever sent on the closed channel (which would panic the       *)
(* daemon): once it is closed nobody holds an answer to put there.         *)
WsNoSendOnClosed ==
    outClosed => reader.at # "putting" /\ aworker.at # "putting" /\ \A g \in long : g.at # "putting"

(* Pipelined actions start in the order they were sent, whatever else the  *)
(* connection is serving (the single per-connection worker).               *)
WsActionsInOrder == \A i, j \in DOMAIN executed : i < j => executed[i] < executed[j]

(* A request is answered at most once, and when the connection ended       *)
(* without a broken write every request that was read has been answered:   *)
(* no answer is lost in the shutdown of the handler's goroutines.          *)
WsAnswered ==
    /\ \A i, j \in DOMAIN answered : i # j => answered[i] # answered[j]
    /\ reader.at = "returned" /\ writer = "ended" =>
         {answered[i] : i \in DOMAIN answered}
             = 1..Len(asked) \ {inbox[i] : i \in DOMAIN inbox}
WsSafe == WsNoSendOnClosed /\ WsActionsInOrder /\ WsAnswered

(* When the client is gone the handler returns: no goroutine of the        *)
(* connection waits for another for ever, whatever is queued or in flight. *)
WsEnds == ~peer ~> reader.at = "returned"
=============================================================================
