------------------------------ MODULE TailFeed ------------------------------
(***************************************************************************)
(* journal.tail (ws.go startJournalTail): a client follows a run's journal *)
(* from a sequence number on.  The tail subscribes to live entries, replays*)
(* the log, and then takes live entries, filling a gap (the watcher's      *)
(* channel drops when full) from the log, and reconciling with the log on  *)
(* a timer.  Appends go on meanwhile.                                      *)
(***************************************************************************)
EXTENDS Integers, Sequences

CONSTANTS
    MaxAppends,   \* bound: entries of the run
    FeedRoom,     \* room of the watcher's channel
    ReadsFail     \* may a read of the log fail while the tail is running?

ASSUME TailAssumption ==
    MaxAppends \in Nat \ {0} /\ FeedRoom \in Nat \ {0} /\ ReadsFail \in BOOLEAN

VARIABLES
    appended,    \* entries of the run, readable from the log or not (an oversized line)
    feed,        \* the watcher's channel: sequence numbers
    tailer,      \* where the tail is
    fromSeq,     \* what the client asked for
    lastSeq,     \* the tail's position
    todo,        \* entries read from the log, still to send
    upTo,        \* LastSeq of this reconciliation; the live entry that showed a gap
    sent         \* history: the sequence numbers sent to the client
tailVars == <<appended, feed, tailer, fromSeq, lastSeq, todo, upTo, sent>>

TailTypeOK ==
    /\ appended \in UNION {[1..n -> BOOLEAN] : n \in 0..MaxAppends}
    /\ Len(feed) <= FeedRoom
    /\ tailer \in {"off", "watching", "replaying", "waiting", "gap", "filling", "checked", "reconciling"}
    /\ fromSeq \in 1..(MaxAppends + 1) /\ lastSeq \in 0..MaxAppends
    /\ upTo \in 0..MaxAppends /\ todo \subseteq 1..MaxAppends

TailInit ==
    /\ appended \in UNION {[1..n -> {TRUE}] : n \in {0, 1}}
    /\ feed = <<>> /\ tailer = "off" /\ fromSeq = 1 /\ lastSeq = 0
    /\ todo = {} /\ upTo = 0 /\ sent = <<>>

(* FileStore.Read: the readable entries from a sequence number on. *)
Log(from) == {i \in from..Len(appended) : appended[i]}

(* FileStore.Append: written, then offered to the watcher. *)
EntryAppended ==
    /\ Len(appended) < MaxAppends
    /\ \E readable \in BOOLEAN : appended' = Append(appended, readable)
    /\ feed' = IF tailer # "off" /\ Len(feed) < FeedRoom THEN Append(feed, Len(appended) + 1) ELSE feed
    /\ UNCHANGED <<tailer, fromSeq, lastSeq, todo, upTo, sent>>

(* Subscribe first, then read the backlog. *)
TailSubscribes ==
    /\ tailer = "off"
    /\ \E f \in 1..(Len(appended) + 1) : fromSeq' = f
    /\ tailer' = "watching"
    /\ UNCHANGED <<appended, feed, lastSeq, todo, upTo, sent>>
TailReplays ==
    /\ tailer = "watching"
    /\ todo' = Log(fromSeq) /\ lastSeq' = fromSeq - 1
    /\ tailer' = "replaying"
    /\ UNCHANGED <<appended, feed, fromSeq, upTo, sent>>

(* Sending what was read, in order, or going on when nothing is left.      *)
(* Reconciling adopts the LastSeq it started from: what the log cannot     *)
(* return is not looked for again.                                         *)
Adopts_Newest == Len(appended)
Adopts == upTo
Sends(n) == sent' = Append(sent, n) /\ lastSeq' = n
TailSends ==
    /\ tailer \in {"replaying", "filling", "reconciling"}
    /\ IF todo # {}
       THEN \E n \in todo :
              /\ \A m \in todo : n <= m
              /\ Sends(n) /\ todo' = todo \ {n} /\ UNCHANGED tailer
       ELSE /\ todo' = todo /\ tailer' = "waiting"
            /\ CASE tailer = "filling" -> Sends(upTo)
                 [] tailer = "reconciling" ->
                      lastSeq' = (IF Adopts > lastSeq THEN Adopts ELSE lastSeq) /\ UNCHANGED sent
                 [] OTHER -> UNCHANGED <<lastSeq, sent>>
    /\ UNCHANGED <<appended, feed, fromSeq, upTo>>

(* A live entry: already sent, next in line, or the sign of a gap. *)
Stale_Never(n) == FALSE
Stale(n) == n <= lastSeq
TailTakesLive ==
    /\ tailer = "waiting" /\ feed # <<>>
    /\ feed' = Tail(feed)
    /\ LET n == Head(feed)
       IN  IF Stale(n) THEN UNCHANGED <<tailer, lastSeq, upTo, sent>>
           ELSE IF n > lastSeq + 1 THEN tailer' = "gap" /\ upTo' = n /\ UNCHANGED <<lastSeq, sent>>
           ELSE Sends(n) /\ UNCHANGED <<tailer, upTo>>
    /\ UNCHANGED <<appended, fromSeq, todo>>

(* Only the missing range is filled in; a failing read leaves the gap. *)
Missing_None(n) == {}
Missing(n) == {i \in Log(lastSeq + 1) : i < n}
TailFillsGap ==
    /\ tailer = "gap"
    /\ todo' \in {Missing(upTo)} \cup (IF ReadsFail THEN {{}} ELSE {})
    /\ tailer' = "filling"
    /\ UNCHANGED <<appended, feed, fromSeq, lastSeq, upTo, sent>>

(* The timer: LastSeq, and only when it is ahead a read of the log. *)
Behind_ByTwo == Len(appended) > lastSeq + 1
Behind == Len(appended) > lastSeq
TailTicks ==
    /\ tailer = "waiting" /\ Behind
    /\ upTo' = Len(appended) /\ tailer' = "checked"
    /\ UNCHANGED <<appended, feed, fromSeq, lastSeq, todo, sent>>
TailReconciles ==
    /\ tailer = "checked"
    /\ \/ todo' = Log(lastSeq + 1) /\ tailer' = "reconciling"
       \/ ReadsFail /\ todo' = {} /\ tailer' = "waiting"
    /\ UNCHANGED <<appended, feed, fromSeq, lastSeq, upTo, sent>>

TailRuns == TailReplays \/ TailSends \/ TailTakesLive \/ TailFillsGap \/ TailTicks \/ TailReconciles
TailNext == EntryAppended \/ TailSubscribes \/ TailRuns
TailSpec == TailInit /\ [][TailNext]_tailVars

(* The tail's goroutine runs, and its timer ticks. *)
TailFairness == WF_tailVars(TailRuns)
TailFairSpec == TailSpec /\ TailFairness

-----------------------------------------------------------------------------
(* The client sees increasing sequence numbers, none twice and none below  *)
(* the one it asked for, although the replay, the live channel and the     *)
(* reconciliation overlap.                                                 *)
TailOrdered ==
    /\ \A i, j \in DOMAIN sent : i < j => sent[i] < sent[j]
    /\ \A i \in DOMAIN sent : sent[i] >= fromSeq

(* The tail stays a complete record: everything readable up to its         *)
(* position was sent, in spite of dropped live entries and of appends      *)
(* between LastSeq and the read that follows.                              *)
TailComplete == \A i \in fromSeq..lastSeq :
    tailer # "off" /\ appended[i] => \E k \in DOMAIN sent : sent[k] = i
TailSafe == TailOrdered /\ TailComplete

(* An entry dropped at the end of a run, with no later entry to reveal the *)
(* gap, still reaches the client (the periodic reconciliation).            *)
TailCatchesUp == \A i \in 1..MaxAppends :
    (tailer # "off" /\ i \in DOMAIN appended /\ appended[i] /\ i >= fromSeq)
        ~> (\E k \in DOMAIN sent : sent[k] = i)
=============================================================================
