------------------------------ MODULE JobLeases ------------------------------
(***************************************************************************)
(* One periodic job of the cluster: the timer body of main.ts, the         *)
(* JobCoordinator around it and the DistributedJobLock below it.  The      *)
(* timer fires again while an earlier run of the same worker is still      *)
(* going, and both runs share one lock object and one renewal handle.      *)
(* Time is not modelled: a lease nobody renews expires at some moment, one *)
(* that is renewed only if its renewals are missed (a fault).  Renewals    *)
(* come at half the lease's time, so a worker's own Redis command is never *)
(* under way from before its last renewal until the lease expires.         *)
(***************************************************************************)
EXTENDS Integers, FiniteSets

CONSTANTS
    Workers,
    Bodies,         \* runs: subset of Workers \X Nat, several per worker
    Uuids,          \* values of randomUUID(); a lease id is <<worker, uuid>>
    MaxLeaseFaults  \* Redis calls that fail and renewals that are missed

ASSUME LeasesAssumption ==
    /\ Bodies \subseteq Workers \X Nat
    /\ MaxLeaseFaults \in Nat

VARIABLES
    key,            \* Redis: the value of job:leader:<id>
    lock,           \* worker -> DistributedJobLock.leaseId
    renewals,       \* the leases whose renewal intervals still fire
    handle,         \* worker -> the interval in entry.renewalHandle
    body,           \* run -> where it is and the lease id it asked with
    lost,           \* history: a lease was lost under its run, or Redis failed
    leaseFaults

leaseVars == <<key, lock, renewals, handle, body, lost, leaseFaults>>

NoLease == <<>>
Resting == [pc |-> "idle", id |-> NoLease]
Running(b) == body[b].pc = "running"

LeasesInit ==
    /\ key = NoLease
    /\ lock = [w \in Workers |-> NoLease]
    /\ renewals = {}
    /\ handle = [w \in Workers |-> NoLease]
    /\ body = [b \in Bodies |-> Resting]
    /\ lost = FALSE
    /\ leaseFaults = 0

InUse == {key} \cup {lock[w] : w \in Workers} \cup {handle[w] : w \in Workers}
         \cup renewals \cup {body[b].id : b \in Bodies}
FreshIds(w) == ({w} \X Uuids) \ InUse

LeaseFault == leaseFaults < MaxLeaseFaults /\ leaseFaults' = leaseFaults + 1

\* tryAcquire() up to its await: the lock object takes the new lease id.  The
\* timer's previous command was answered long before it fires again.
Tick(b) ==
    /\ body[b].pc = "idle"
    /\ \A c \in Bodies : c[1] = b[1] => body[c].pc # "asking"
    /\ FreshIds(b[1]) # {}
    /\ LET id == CHOOSE i \in FreshIds(b[1]) : TRUE
       IN  /\ lock' = [lock EXCEPT ![b[1]] = id]
           /\ body' = [body EXCEPT ![b] = [pc |-> "asking", id |-> id]]
    /\ UNCHANGED <<key, renewals, handle, lost, leaseFaults>>

\* tryLead() after an acquisition: startRenewal() captures the lease id the
\* lock object has now; without one the interval does nothing.
StartRenewal(w) ==
    /\ handle' = [handle EXCEPT ![w] = lock'[w]]
    /\ renewals' = IF lock'[w] = NoLease THEN renewals
                   ELSE renewals \cup {lock'[w]}

\* SET key id EX ttl NX.
KeyFreeUnchecked == TRUE
KeyFree == key = NoLease

Acquire(b) ==
    /\ body[b].pc = "asking"
    /\ KeyFree
    /\ key' = body[b].id
    /\ body' = [body EXCEPT ![b].pc = "running"]
    /\ UNCHANGED lock
    /\ StartRenewal(b[1])
    /\ UNCHANGED <<lost, leaseFaults>>

Refused(b) ==
    /\ body[b].pc = "asking"
    /\ ~KeyFree
    /\ lock' = [lock EXCEPT ![b[1]] = NoLease]
    /\ body' = [body EXCEPT ![b] = Resting]
    /\ UNCHANGED <<key, renewals, handle, lost, leaseFaults>>

\* The SET fails: the job runs without coordination.
AcquireFails(b) ==
    /\ body[b].pc = "asking"
    /\ LeaseFault
    /\ lock' = [lock EXCEPT ![b[1]] = NoLease]
    /\ body' = [body EXCEPT ![b].pc = "running"]
    /\ StartRenewal(b[1])
    /\ lost' = TRUE
    /\ UNCHANGED key

\* release() up to its await: the renewal stops, the lease id is read.
StoppedNever(w) == renewals
Stopped(w) == renewals \ {handle[w]}

Finish(b) ==
    LET w == b[1] IN
    /\ Running(b)
    /\ renewals' = Stopped(w)
    /\ handle' = [handle EXCEPT ![w] = NoLease]
    /\ body' = [body EXCEPT ![b] = IF lock[w] = NoLease THEN Resting
                                   ELSE [pc |-> "releasing", id |-> lock[w]]]
    /\ UNCHANGED <<key, lock, lost, leaseFaults>>

\* The script deletes the key only if it still holds this lease; the lock
\* object forgets its lease whatever the script did.
Deletes(id) == key = id

Release(b) ==
    /\ body[b].pc = "releasing"
    /\ \/ /\ key' = IF Deletes(body[b].id) THEN NoLease ELSE key
          /\ UNCHANGED leaseFaults
       \/ LeaseFault /\ UNCHANGED key
    /\ lock' = [lock EXCEPT ![b[1]] = NoLease]
    /\ body' = [body EXCEPT ![b] = Resting]
    /\ UNCHANGED <<renewals, handle, lost>>

\* The interval extends the lease only while the key holds its lease id.
Renewed == key \in renewals
CommandSent(w) ==
    \E b \in Bodies : b[1] = w /\ body[b].pc \in {"asking", "releasing"}

Expire ==
    /\ key # NoLease
    /\ ~Renewed
    /\ ~CommandSent(key[1])
    /\ key' = NoLease
    /\ lost' = (lost \/ \E b \in Bodies : Running(b) /\ body[b].id = key)
    /\ UNCHANGED <<lock, renewals, handle, body, leaseFaults>>

MissRenewal ==
    /\ Renewed
    /\ LeaseFault
    /\ key' = NoLease
    /\ lost' = TRUE
    /\ UNCHANGED <<lock, renewals, handle, body>>

\* A worker process dies and starts again.
CrashWorker(w) ==
    /\ LeaseFault
    /\ lock' = [lock EXCEPT ![w] = NoLease]
    /\ handle' = [handle EXCEPT ![w] = NoLease]
    /\ renewals' = {r \in renewals : r[1] # w}
    /\ body' = [b \in Bodies |-> IF b[1] = w THEN Resting ELSE body[b]]
    /\ UNCHANGED <<key, lost>>

LeasesNext ==
    \/ \E b \in Bodies :
        \/ Tick(b)
        \/ Acquire(b)
        \/ Refused(b)
        \/ AcquireFails(b)
        \/ Finish(b)
        \/ Release(b)
    \/ Expire
    \/ MissRenewal
    \/ \E w \in Workers : CrashWorker(w)

BodyStep(b) == Tick(b) \/ Acquire(b) \/ Refused(b) \/ Finish(b) \/ Release(b)

\* Timers fire for ever, runs end, and Redis drops a key nobody extends.
LeasesFairness ==
    /\ \A b \in Bodies : WF_leaseVars(BodyStep(b))
    /\ SF_leaseVars(Expire)

LeasesSpec == LeasesInit /\ [][LeasesNext]_leaseVars /\ LeasesFairness
---------------------------------------------------------------------------
\* Two runs of the job overlap, in one worker or in two, only after Redis
\* failed or a lease was lost under its run.
ExclusiveUnlessLost ==
    (\E b, c \in Bodies : b # c /\ Running(b) /\ Running(c)) => lost

Overrun == \E b, c \in Bodies : b # c /\ b[1] = c[1] /\ Running(b) /\ Running(c)

\* The job runs again and again, whatever crashes, expires or fails, unless two
\* runs of one worker overlapped (the second overwrites the renewal handle of
\* the first, and release() can then no longer stop its interval).
JobRunsAgain == []<>(\E b \in Bodies : Running(b)) \/ <>Overrun

\* What job.coordinator.ts:141-144 promises of release(): the lock is released
\* even on error, so the job runs again and again.
JobNeverBlocked == []<>(\E b \in Bodies : Running(b))
==============================================================================
