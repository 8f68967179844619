----------------------------- MODULE TradeOutbox -----------------------------
(***************************************************************************)
(* The outbox rows of one trade, its fill and its close, and their three   *)
(* consumers: the user's WebSocket (main.ts, realtime-infra/outbox.service *)
(* and the Redis relay between workers), the audit consumer and the        *)
(* notification consumer.  The rows are written by the trade's own         *)
(* transactions; everything after that may fail, crash or be late.         *)
(* The user has one session at a time, on any worker.                      *)
(***************************************************************************)
EXTENDS Integers, FiniteSets, Sequences

CONSTANTS
    Nodes,          \* the workers
    Home,           \* the worker that executes and settles the trade
    MAX_RETRIES,    \* sweeps that try a row
    MaxOutboxFaults \* crashes, disconnections, slow sockets, failed writes

VARIABLES
    there,          \* the rows in the table
    pruned,         \* the rows the cleanup removed
    published, audited, notified,   \* the rows with these flags
    retries,        \* row -> failed attempts of the sweep
    emitting,       \* row -> the worker about to push it, or NoNode
    socket,         \* worker -> the user's connection: "none"|"replaying"|"open"
    backlog,        \* worker -> rows read for replay and not yet sent
    relay,          \* <<worker, row>>: messages to other workers on their way
    marking,        \* rows whose markPublished() is under way
    auditRow,       \* TradeAudit: source row -> "none" | "FILLED" | "CLOSED"
    received,       \* rows the client was sent
    outboxFaults

outboxVars == <<there, pruned, published, audited, notified, retries, emitting,
                socket, backlog, relay, marking, auditRow,
                received, outboxFaults>>
flags == <<audited, notified, auditRow>>
delivery == <<published, retries, emitting, socket, backlog, relay, marking,
              received>>

Trade == <<"fill", "close">>
Events == {Trade[i] : i \in DOMAIN Trade}
NoNode == "nowhere"
OutboxFault == outboxFaults < MaxOutboxFaults /\ outboxFaults' = outboxFaults + 1
InOrder(S) == SelectSeq(Trade, LAMBDA e : e \in S)

OutboxInit ==
    /\ there = {} /\ pruned = {}
    /\ published = {} /\ audited = {} /\ notified = {}
    /\ retries = [e \in Events |-> 0]
    /\ emitting = [e \in Events |-> NoNode]
    /\ socket = [n \in Nodes |-> "none"]
    /\ backlog = [n \in Nodes |-> <<>>]
    /\ relay = {} /\ marking = {}
    /\ auditRow = [e \in Events |-> "none"]
    /\ received = {}
    /\ outboxFaults = 0

\* The fill, then the close: position, wallet, ledger and row in one transaction.
CommitTrade ==
    /\ \E e \in Events \ (there \cup pruned) :
        /\ e = "close" => "fill" \in there \cup pruned
        /\ there' = there \cup {e}
        /\ emitting' = [emitting EXCEPT ![e] = Home]
    /\ UNCHANGED <<flags, pruned, published, retries, socket, backlog, relay, marking,
                   received, outboxFaults>>
---------------------------------------------------------------------------
\* publishUser() with the row's id.  Without the id, after a push that reached
\* the user, it serves the user's other sessions: there are none here.
Relayed(n, e) == relay \cup {<<m, e>> : m \in Nodes \ {n}}

\* pushToUser() at n: no connection, one that replays, or one that is too slow.
Reached(n, e) ==
    /\ socket[n] = "open"
    /\ received' = received \cup {e}
    /\ UNCHANGED outboxFaults
Missed(n) ==
    /\ \/ socket[n] # "open" /\ UNCHANGED outboxFaults
       \/ OutboxFault
    /\ UNCHANGED received

\* enqueueAndPush() for a row that exists.
Emit(e) ==
    LET n == emitting[e] IN
    /\ n # NoNode
    /\ emitting' = [emitting EXCEPT ![e] = NoNode]
    /\ \/ Reached(n, e) /\ marking' = marking \cup {e} /\ UNCHANGED relay
       \/ Missed(n) /\ UNCHANGED marking /\ relay' = Relayed(n, e)
    /\ UNCHANGED <<there, pruned, flags, published, retries, socket, backlog>>

\* onUserEvent() on another worker; the channel may lose the message.
OnUserEvent(m) ==
    /\ m \in relay
    /\ relay' = relay \ {m}
    /\ \/ Reached(m[1], m[2]) /\ marking' = marking \cup {m[2]}
       \/ Missed(m[1]) /\ UNCHANGED marking
    /\ UNCHANGED <<there, pruned, flags, published, retries, emitting, socket, backlog>>

\* markPublished(); a failure is swallowed, the row is sent once more.
MarkPublished(e) ==
    /\ e \in marking
    /\ marking' = marking \ {e}
    /\ \/ published' = published \cup {e} /\ UNCHANGED outboxFaults
       \/ OutboxFault /\ UNCHANGED published
    /\ UNCHANGED <<there, pruned, flags, retries, emitting, socket, backlog, relay,
                   received>>
---------------------------------------------------------------------------
Unpublished == there \ published

\* getPendingForUser() when the user (re)connects: whatever its retries.
PendingCapped == {e \in Unpublished : retries[e] < MAX_RETRIES}
Pending == Unpublished

Connect(n) ==
    /\ \A m \in Nodes : socket[m] = "none"
    /\ socket' = [socket EXCEPT ![n] = "replaying"]
    /\ backlog' = [backlog EXCEPT ![n] = InOrder(Pending)]
    /\ UNCHANGED <<there, pruned, flags, published, retries, emitting, relay, marking,
                   received, outboxFaults>>

Replay(n) ==
    /\ socket[n] = "replaying" /\ backlog[n] # <<>>
    /\ LET e == Head(backlog[n]) IN
        \/ /\ received' = received \cup {e}
           /\ backlog' = [backlog EXCEPT ![n] = Tail(@)]
           /\ \/ published' = published \cup {e} /\ UNCHANGED outboxFaults
              \/ OutboxFault /\ UNCHANGED published
        \/ /\ OutboxFault       \* a slow socket ends the replay
           /\ backlog' = [backlog EXCEPT ![n] = <<>>]
           /\ UNCHANGED <<received, published>>
    /\ UNCHANGED <<there, pruned, flags, retries, emitting, socket, relay, marking>>

ReplayEnds(n) ==
    /\ socket[n] = "replaying" /\ backlog[n] = <<>>
    /\ socket' = [socket EXCEPT ![n] = "open"]
    /\ UNCHANGED <<there, pruned, flags, published, retries, emitting, backlog, relay,
                   marking, received, outboxFaults>>

\* The user goes away, in the middle of a replay or later.
Disconnect(n) ==
    /\ \/ socket[n] = "open" /\ UNCHANGED outboxFaults
       \/ socket[n] = "replaying" /\ OutboxFault
    /\ socket' = [socket EXCEPT ![n] = "none"]
    /\ backlog' = [backlog EXCEPT ![n] = <<>>]
    /\ UNCHANGED <<there, pruned, flags, published, retries, emitting, relay, marking,
                   received>>

\* A row of the sweep that the leader starts every 30 s: pushes, replays and
\* relayed messages of the last period are over.  A row that is served between
\* the sweep's query and its turn is sent twice, which nothing tells apart.
SweepRow(n, e) ==
    /\ relay = {} /\ marking = {}
    /\ \A m \in Nodes : socket[m] # "replaying"
    /\ e \in PendingCapped
    /\ \/ /\ Reached(n, e)
          /\ published' = published \cup {e}
          /\ UNCHANGED <<relay, retries>>
       \/ /\ Missed(n)
          /\ relay' = Relayed(n, e)
          /\ retries' = [retries EXCEPT ![e] = @ + 1]
          /\ UNCHANGED published
    /\ UNCHANGED <<there, pruned, flags, emitting, socket, backlog, marking>>

CrashNode(n) ==
    /\ OutboxFault
    /\ emitting' = [e \in Events |-> IF emitting[e] = n THEN NoNode ELSE emitting[e]]
    /\ socket' = [socket EXCEPT ![n] = "none"]
    /\ backlog' = [backlog EXCEPT ![n] = <<>>]
    /\ relay' = {m \in relay : m[1] # n}
    /\ marking' \in {marking, {}}
    /\ UNCHANGED <<there, pruned, audited, notified, auditRow, published, retries, received>>
---------------------------------------------------------------------------
\* _processFill() upserts the row of its own event; _processClose() closes every
\* row of the position, or writes a CLOSED row of its own when there is none.
AfterFill(rows) ==
    [rows EXCEPT !["fill"] = IF @ = "none" THEN "FILLED" ELSE @]
AfterClose(rows) ==
    IF \A e \in Events : rows[e] = "none"
    THEN [rows EXCEPT !["close"] = "CLOSED"]
    ELSE [e \in Events |-> IF rows[e] = "none" THEN "none" ELSE "CLOSED"]
AfterAudit(batch) ==
    LET filled == IF "fill" \in batch THEN AfterFill(auditRow) ELSE auditRow
    IN  IF "close" \in batch THEN AfterClose(filled) ELSE filled

\* AuditOutboxConsumer.processPending(): oldest first; a row that fails stays
\* for a later pass and does not hold up the rows behind it.
AuditPass ==
    LET batch == there \ audited IN
    /\ batch # {}
    /\ \E failed \in SUBSET batch :
        /\ IF failed = {} THEN UNCHANGED outboxFaults ELSE OutboxFault
        /\ auditRow' = AfterAudit(batch \ failed)
        /\ audited' = audited \cup (batch \ failed)
    /\ UNCHANGED <<there, pruned, delivery, notified>>

\* NotificationOutboxConsumer._deliver(): the notification and the flag in one
\* transaction.
Notify ==
    /\ there \ notified # {}
    /\ notified' = notified \cup {Head(InOrder(there \ notified))}
    /\ UNCHANGED <<there, pruned, delivery, audited, auditRow, outboxFaults>>

\* outbox-cleanup.
PrunableUnaudited == there \cap published \cap notified
Prunable == there \cap published \cap audited \cap notified

Prune ==
    /\ Prunable # {}
    /\ there' = there \ Prunable
    /\ pruned' = pruned \cup Prunable
    /\ UNCHANGED <<flags, delivery, outboxFaults>>

OutboxNext ==
    \/ \E n \in Nodes :
        \/ Connect(n) \/ Replay(n) \/ ReplayEnds(n)
        \/ Disconnect(n) \/ CrashNode(n) \/ \E e \in Events : SweepRow(n, e)
    \/ \E e \in Events : Emit(e) \/ MarkPublished(e)
    \/ \E m \in relay : OnUserEvent(m)
    \/ CommitTrade \/ AuditPass \/ Notify \/ Prune

Connects == \E n \in Nodes : Connect(n)
Disconnects == \E n \in Nodes : Disconnect(n)
Replays == \E n \in Nodes : Replay(n) \/ ReplayEnds(n)
Pushes == (\E e \in Events : Emit(e) \/ MarkPublished(e)) \/ (\E m \in relay : OnUserEvent(m))
Sweeps == \E n \in Nodes, e \in Events : SweepRow(n, e)
---------------------------------------------------------------------------
Recorded(e) ==
    IF e = "fill" THEN \E f \in Events : auditRow[f] # "none"
    ELSE \E f \in Events : auditRow[f] = "CLOSED"
Served(e) == e \in received /\ e \in notified /\ Recorded(e)

\* A row is pruned only when the client was sent it, its notification exists
\* and the trade's audit record says so much.
PrunedWhenServed == \A e \in pruned : Served(e)

\* Every committed fill and close reaches the client, the audit record and the
\* notifications, whatever crashed, was lost or failed on the way, and however
\* long the user was away, provided that the user comes back now and then.
EventuallyServed == \A e \in Events : (e \in there) ~> Served(e)

\* audit.outbox.consumer.ts:210-213: a fill processed after its close never
\* duplicates the trade's record.
OneRecordPerTrade == ~(\A e \in Events : auditRow[e] # "none")
==============================================================================
