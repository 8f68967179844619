---------------------------- MODULE ExecutionQueue ----------------------------
(***************************************************************************)
(* The per-user execution queue in front of market orders                  *)
(* (execution-service/execution.queue.ts), for one user: a depth counter   *)
(* and a lock in Redis, or a promise chain in the memory of a worker that  *)
(* has no Redis.  A task that exceeds its time is answered TIMEOUT and     *)
(* goes on in the background until it looks at its cancel token.  Times    *)
(* are not modelled but for their order: a lock outlives its task's time,  *)
(* and the counter's 60 s outlive every request that holds a place.        *)
(***************************************************************************)
EXTENDS Integers, FiniteSets, Sequences

CONSTANTS
    Calls,          \* the user's order requests
    Hosts,          \* the workers
    HostOf,         \* request -> the worker it reaches
    Outages,        \* the sets of workers that may have started without Redis
    MAX_QUEUE_DEPTH,
    MaxQueueFaults  \* Redis errors, crashes, a stalled worker

Free == "free"

ASSUME QueueAssumption ==
    /\ HostOf \in [Calls -> Hosts]
    /\ Outages \subseteq SUBSET Hosts
    /\ MAX_QUEUE_DEPTH \in Nat \ {0}
    /\ Free \notin Calls

VARIABLES
    noRedis,        \* the workers without Redis
    call,           \* request -> where enqueue() is
    task,           \* request -> where its task is
    cancelled,      \* request -> its cancel token
    answer,         \* request -> what the client was told, or "none"
    depth,          \* Redis: the counter, 0 when the key is absent
    ttl,            \* Redis: the counter expires
    holder,         \* Redis: the request whose value the lock has, or Free
    chain,          \* worker -> requests in its memory chain, oldest first
    overstayed,     \* history: a lock expired under its task
    leaked,         \* history: a place was taken and no expiry was set
    queueFaults

queueVars == <<noRedis, call, task, cancelled, answer, depth, ttl, holder, chain,
               overstayed, leaked, queueFaults>>

QueueFault == queueFaults < MaxQueueFaults /\ queueFaults' = queueFaults + 1
InMemory(c) == HostOf[c] \in noRedis
Local(w) == {c \in Calls : HostOf[c] = w}

QueueInit ==
    /\ noRedis \in Outages
    /\ call = [c \in Calls |-> "new"]
    /\ task = [c \in Calls |-> "none"]
    /\ cancelled = [c \in Calls |-> FALSE]
    /\ answer = [c \in Calls |-> "none"]
    /\ depth = 0
    /\ ttl = FALSE
    /\ holder = Free
    /\ chain = [w \in Hosts |-> <<>>]
    /\ overstayed = FALSE
    /\ leaked = FALSE
    /\ queueFaults = 0

Goto(c, pc) == call' = [call EXCEPT ![c] = pc]
Answer(c, a) == answer' = [answer EXCEPT ![c] = a]

\* The task starts: the order is created, priced and checked.
StartTask(c) ==
    /\ Goto(c, "running")
    /\ task' = [task EXCEPT ![c] = "preparing"]
---------------------------------------------------------------------------
Overfull(d) == d > MAX_QUEUE_DEPTH

Increment(c) ==
    /\ call[c] = "new" /\ ~InMemory(c)
    /\ depth' = depth + 1
    /\ Goto(c, IF Overfull(depth + 1) THEN "full" ELSE "counted")
    /\ UNCHANGED <<noRedis, task, cancelled, answer, ttl, holder, chain, overstayed, leaked, queueFaults>>

\* INCR or EXPIRE fails: no place is held, the answer is EXECUTION_ERROR and
\* the memory queue is not tried.
CountFails(c) ==
    /\ call[c] \in {"new", "counted", "full"} /\ ~InMemory(c)
    /\ QueueFault
    /\ Goto(c, "done")
    /\ Answer(c, "ERROR")
    /\ leaked' = (leaked \/ (call[c] # "new" /\ ~ttl))
    /\ UNCHANGED <<noRedis, task, cancelled, depth, ttl, holder, chain, overstayed>>

SetExpiryNever(c) == ttl
SetExpiry(c) == TRUE

Counted(c) ==
    /\ call[c] = "counted"
    /\ ttl' = SetExpiry(c)
    /\ Goto(c, "waiting")
    /\ UNCHANGED <<noRedis, task, cancelled, answer, depth, holder, chain, overstayed, leaked, queueFaults>>

TurnedAway(c) ==
    /\ call[c] = "full"
    /\ ttl' = SetExpiry(c)
    /\ Answer(c, "FULL")
    /\ Goto(c, "leaving")
    /\ UNCHANGED <<noRedis, task, cancelled, depth, holder, chain, overstayed, leaked, queueFaults>>

\* SET lock NX, tried again and again.
LockIgnored == FALSE
LockTaken == holder # Free

GetLock(c) ==
    /\ call[c] = "waiting"
    /\ ~LockTaken
    /\ holder' = c
    /\ StartTask(c)
    /\ UNCHANGED <<noRedis, cancelled, answer, depth, ttl, chain, overstayed, leaked, queueFaults>>

\* LOCK_MAX_WAIT_MS has passed, or the SET failed: it may have set the lock.
LockTimeout(c) ==
    /\ call[c] = "waiting"
    /\ LockTaken
    /\ Answer(c, "TIMEOUT")
    /\ Goto(c, "leaving")
    /\ UNCHANGED <<noRedis, task, cancelled, depth, ttl, holder, chain, overstayed, leaked, queueFaults>>

LockFails(c) ==
    /\ call[c] = "waiting"
    /\ QueueFault
    /\ holder' \in {holder, IF LockTaken THEN holder ELSE c}
    /\ Answer(c, "ERROR")
    /\ Goto(c, "leaving")
    /\ UNCHANGED <<noRedis, task, cancelled, depth, ttl, chain, overstayed, leaked>>

\* The finally block: the lock, if it is still this request's, then the place.
Unlock(c) ==
    /\ call[c] = "unlocking"
    /\ holder' = IF holder = c THEN Free ELSE holder
    /\ Goto(c, "leaving")
    /\ UNCHANGED <<noRedis, task, cancelled, answer, depth, ttl, chain, overstayed, leaked, queueFaults>>

Leave(c) ==
    /\ call[c] = "leaving"
    /\ \/ depth' = depth - 1 /\ UNCHANGED queueFaults
       \/ QueueFault /\ UNCHANGED depth
    /\ Goto(c, "done")
    /\ UNCHANGED <<noRedis, task, cancelled, answer, ttl, holder, chain, overstayed, leaked>>

\* The counter and the lock expire.  The counter was renewed by every request
\* that has held a place since; a lock outlives the request that set it, unless
\* its worker stalls.
Places == {c \in Calls : call[c] \in {"counted", "full", "waiting", "running",
                                      "unlocking", "leaving"} /\ ~InMemory(c)}

DepthExpires ==
    /\ ttl /\ Places = {}
    /\ depth' = 0 /\ ttl' = FALSE
    /\ UNCHANGED <<noRedis, call, task, cancelled, answer, holder, chain, overstayed, leaked, queueFaults>>

LockExpires ==
    /\ holder # Free
    /\ \/ call[holder] \notin {"running", "unlocking"} /\ UNCHANGED <<overstayed, queueFaults>>
       \/ call[holder] = "running" /\ QueueFault /\ overstayed' = TRUE
    /\ holder' = Free
    /\ UNCHANGED <<noRedis, call, task, cancelled, answer, depth, ttl, chain, leaked>>
---------------------------------------------------------------------------
\* Without Redis: a place in the worker's chain until the task itself ends,
\* and the next in line when it ends or its time is over.
MemoryDepth(w) ==
    Cardinality({c \in Local(w) : call[c] \in {"queued", "running"} \/ task[c] \notin {"none", "ended"}})

JoinChain(c) ==
    LET w == HostOf[c] IN
    /\ call[c] = "new" /\ InMemory(c)
    /\ \/ /\ MemoryDepth(w) >= MAX_QUEUE_DEPTH
          /\ Answer(c, "FULL") /\ Goto(c, "done") /\ UNCHANGED chain
       \/ /\ MemoryDepth(w) < MAX_QUEUE_DEPTH
          /\ chain' = [chain EXCEPT ![w] = Append(@, c)]
          /\ Goto(c, "queued") /\ UNCHANGED answer
    /\ UNCHANGED <<noRedis, task, cancelled, depth, ttl, holder, overstayed, leaked, queueFaults>>

NextInChain(c) == Head(chain[HostOf[c]]) = c

RunInTurn(c) ==
    /\ call[c] = "queued"
    /\ NextInChain(c)
    /\ StartTask(c)
    /\ UNCHANGED <<noRedis, cancelled, answer, depth, ttl, holder, chain, overstayed, leaked, queueFaults>>

\* resolveSlot(): only the request at the head of the chain runs.
Resolved(c) == [chain EXCEPT ![HostOf[c]] = Tail(@)]
---------------------------------------------------------------------------
\* The call has its task's answer, or its time is over.
Returned(c, a) ==
    /\ Answer(c, a)
    /\ Goto(c, IF InMemory(c) THEN "done" ELSE "unlocking")
    /\ chain' = IF InMemory(c) THEN Resolved(c) ELSE chain

\* The last look at the cancel token, inside the order's transaction.
Transact(c) ==
    /\ task[c] = "preparing"
    /\ ~cancelled[c]
    /\ task' = [task EXCEPT ![c] = "transacting"]
    /\ UNCHANGED <<noRedis, call, cancelled, answer, depth, ttl, holder, chain, overstayed, leaked, queueFaults>>

\* The task ends: filled from its transaction, refused or cancelled before.
TaskEnds(c) ==
    /\ task[c] \in {"preparing", "transacting"}
    /\ task' = [task EXCEPT ![c] = "ended"]
    /\ IF call[c] = "running"
       THEN Returned(c, IF task[c] = "transacting" THEN "FILLED" ELSE "REFUSED")
       ELSE UNCHANGED <<answer, call, chain>>
    /\ UNCHANGED <<noRedis, cancelled, depth, ttl, holder, overstayed, leaked, queueFaults>>

TimeOut(c) ==
    /\ call[c] = "running"
    /\ cancelled' = [cancelled EXCEPT ![c] = TRUE]
    /\ Returned(c, "TIMEOUT")
    /\ UNCHANGED <<noRedis, task, depth, ttl, holder, overstayed, leaked, queueFaults>>

\* A worker dies: its requests and tasks end wherever they are.
CrashHost(w) ==
    /\ QueueFault
    /\ call' = [c \in Calls |-> IF c \in Local(w) /\ call[c] # "new" THEN "done" ELSE call[c]]
    /\ task' = [c \in Calls |-> IF c \in Local(w) /\ task[c] # "none" THEN "ended" ELSE task[c]]
    /\ chain' = [chain EXCEPT ![w] = <<>>]
    /\ leaked' = (leaked \/ (~ttl /\ \E c \in Local(w) : call[c] \in {"counted", "full"}))
    /\ UNCHANGED <<noRedis, cancelled, answer, depth, ttl, holder, overstayed>>

QueueNext ==
    \/ \E c \in Calls :
        \/ Increment(c) \/ CountFails(c) \/ Counted(c) \/ TurnedAway(c)
        \/ GetLock(c) \/ LockTimeout(c) \/ LockFails(c) \/ Unlock(c) \/ Leave(c)
        \/ JoinChain(c) \/ RunInTurn(c)
        \/ Transact(c) \/ TaskEnds(c) \/ TimeOut(c)
    \/ DepthExpires \/ LockExpires
    \/ \E w \in Hosts : CrashHost(w)

QueueStep(c) ==
    \/ Increment(c) \/ Counted(c) \/ TurnedAway(c) \/ GetLock(c) \/ LockTimeout(c)
    \/ Unlock(c) \/ Leave(c) \/ JoinChain(c) \/ RunInTurn(c) \/ TaskEnds(c)
---------------------------------------------------------------------------
Working(c) == task[c] \in {"preparing", "transacting"}
SameQueue(c, d) == InMemory(c) = InMemory(d) /\ (InMemory(c) => HostOf[c] = HostOf[d])

\* Two orders of a user are executed at once, by one worker or by two that have
\* Redis, only if one of them was told to stop or a stalled worker lost its
\* lock: otherwise both could pass the margin check before either locks margin.
SerialUnlessTimedOut ==
    \A c, d \in Calls :
        (c # d /\ Working(c) /\ Working(d) /\ SameQueue(c, d))
            => cancelled[c] \/ cancelled[d] \/ overstayed

\* The places of requests that are gone are given back, by DECR or by the
\* counter's expiry, unless a request died between INCR and EXPIRE; every
\* request a living worker took is answered.
PlacesReturn ==
    <>[]((depth = 0 \/ leaked) /\ holder = Free /\ \A c \in Calls : call[c] = "done")
==============================================================================
