----------------------------- MODULE AuditChain -----------------------------
(***************************************************************************)
(* The hash chain of the audit log (security/immutable.audit.ts): every    *)
(* entry names the hash of the entry before it.  Entries are written in    *)
(* transactions of their own or at the end of their caller's, which may be *)
(* serializable: its reads then see what was committed when it began.  An  *)
(* entry's number stands for its hash, 0 for the genesis hash.             *)
(* archiveBatch() reads, and writes an entry of its own as any other.      *)
(***************************************************************************)
EXTENDS Integers, FiniteSets

CONSTANTS
    Writers,
    MaxEntries, MaxTime     \* entries inserted; milliseconds

VARIABLES
    now,            \* the clock of the host
    chain,          \* committed rows: [n, prev, writtenAt, createdAt, serializable]
    inserted,       \* rows inserted so far, committed or not
    chainLock,      \* pg_advisory_xact_lock: its holder, or nobody
    writer,         \* writer -> its transaction
    outdated        \* history: a head was read from a snapshot that lacked a
                    \* committed row, and nothing undid it

auditVars == <<now, chain, inserted, chainLock, writer, outdated>>

Unlocked == "nobody"
ASSUME AuditAssumption == Unlocked \notin Writers

NoWrite == [pc |-> "idle", mode |-> "own", snapshot |-> {}, createdAt |-> 0, row |-> {}]

AuditInit ==
    /\ now = 0 /\ chain = {} /\ inserted = 0 /\ chainLock = Unlocked
    /\ writer = [w \in Writers |-> NoWrite]
    /\ outdated = FALSE

Serializable(w) == writer[w].mode = "serializable"

MillisecondPasses ==
    /\ now < MaxTime /\ now' = now + 1
    /\ UNCHANGED <<chain, inserted, chainLock, writer, outdated>>

\* The caller's transaction begins; createdAt is taken before the lock.
BeginWrite(w, mode) ==
    /\ writer[w] = NoWrite /\ inserted < MaxEntries
    /\ writer' = [writer EXCEPT ![w] =
          [NoWrite EXCEPT !.pc = "begun", !.mode = mode, !.snapshot = chain,
                          !.createdAt = now]]
    /\ UNCHANGED <<now, chain, inserted, chainLock, outdated>>

FreeAsHeld(w) == TRUE
Free(w) == chainLock = Unlocked
Lock(w) ==
    /\ writer[w].pc = "begun" /\ Free(w)
    /\ chainLock' = w
    /\ writer' = [writer EXCEPT ![w].pc = "locked"]
    /\ UNCHANGED <<now, chain, inserted, outdated>>

Latest(rows) == {r \in rows : \A s \in rows : s.writtenAt <= r.writtenAt}
Visible(w) == IF Serializable(w) THEN writer[w].snapshot ELSE chain

\* _getChainHead(), and the insert: of two rows of one millisecond either may
\* come first.
Insert(w) ==
    /\ writer[w].pc = "locked"
    /\ inserted' = inserted + 1
    /\ \E head \in IF Visible(w) = {} THEN {0} ELSE {r.n : r \in Latest(Visible(w))} :
          writer' = [writer EXCEPT ![w].pc = "inserted",
                        ![w].row = {[n |-> inserted + 1, prev |-> head, writtenAt |-> now,
                                     createdAt |-> writer[w].createdAt,
                                     serializable |-> Serializable(w)]}]
    /\ UNCHANGED <<now, chain, chainLock, outdated>>

\* Two serializable transactions that read the log before they wrote to it do
\* not both commit; one of them and any other transaction do.
Missed(w) == chain \ writer[w].snapshot
Conflict(w) == Serializable(w) /\ \E r \in Missed(w) : r.serializable
EndWrite(w) ==
    /\ writer' = [writer EXCEPT ![w] = NoWrite]
    /\ chainLock' = IF chainLock = w THEN Unlocked ELSE chainLock
    /\ UNCHANGED <<now, inserted>>
CommitWrite(w) ==
    /\ writer[w].pc = "inserted" /\ ~Conflict(w)
    /\ chain' = chain \cup writer[w].row
    /\ outdated' = (outdated \/ (Serializable(w) /\ Missed(w) # {}))
    /\ EndWrite(w)
\* The conflict, another failure of the caller, or its death.
AbortWrite(w) ==
    /\ writer[w].pc \in {"locked", "inserted"}
    /\ EndWrite(w) /\ UNCHANGED <<chain, outdated>>

AuditNext ==
    \/ MillisecondPasses
    \/ \E w \in Writers :
          \/ \E mode \in {"own", "serializable"} : BeginWrite(w, mode)
          \/ Lock(w) \/ Insert(w) \/ CommitWrite(w) \/ AbortWrite(w)
---------------------------------------------------------------------------
\* verifyChain() over all rows in the order of writtenAt, when it is an order:
\* each names the one before it.
VerifyChain(rows) ==
    \A r \in rows :
        LET before == {s \in rows : s.writtenAt < r.writtenAt}
        IN  before # {} => \E s \in Latest(before) : r.prev = s.n
Tied(rows) == \E r, s \in rows : r # s /\ r.writtenAt = s.writtenAt

\* Whatever the writers interleave and undo, the check finds no break in a log
\* nobody touched: but when two entries were written within one millisecond, or
\* a serializable transaction began before another one's entry was committed.
ChainUnbroken == Tied(chain) \/ outdated \/ VerifyChain(chain)

\* "since the lock guarantees only one writer's critical section executes at a
\* time, _written_at values across different rows correctly reflect true [...]
\* chain order", but within one millisecond (security/immutable.audit.ts:443-450).
BreaksOnlyByTie == Tied(chain) \/ VerifyChain(chain)
=============================================================================
