------------------------------ MODULE FeedLeader ------------------------------
(***************************************************************************)
(* Which replica holds the connection to the primary price feed            *)
(* (market-data/feed.leader.election.ts over the DistributedJobLock).  A   *)
(* replica polls: a follower tries to take the lease, the leader asks      *)
(* whether the lease is still its own.  The lease's renewal and expiry are *)
(* as in JobLeases; a replica's poll is answered before its next one.      *)
(***************************************************************************)
EXTENDS Integers, FiniteSets

CONSTANTS
    Replicas,
    MaxFeedFaults   \* crashes, shutdowns, failed Redis calls, missed renewals

VARIABLES
    lease,          \* Redis: the replica whose lease id the key holds, or Nobody
    mine,           \* replica -> its lock object's leaseId is the key's id
    renewing,       \* replica -> its renewTimer extends that lease
    leads,          \* replica -> isLeader: its primary feed is connected
    poll,           \* replica -> "none" | "taking" | "asking"
    stopped,
    doubtful,       \* history: a lease was lost or granted without Redis
    feedFaults

feedVars == <<lease, mine, renewing, leads, poll, stopped, doubtful, feedFaults>>

Nobody == "nobody"
ASSUME FeedAssumption == Nobody \notin Replicas
FeedFault == feedFaults < MaxFeedFaults /\ feedFaults' = feedFaults + 1

FeedInit ==
    /\ lease = Nobody
    /\ mine = [r \in Replicas |-> FALSE]
    /\ renewing = [r \in Replicas |-> FALSE]
    /\ leads = [r \in Replicas |-> FALSE]
    /\ poll = [r \in Replicas |-> "none"]
    /\ stopped = [r \in Replicas |-> FALSE]
    /\ doubtful = FALSE
    /\ feedFaults = 0

Leaders == {r \in Replicas : leads[r]}

Poll(r) ==
    /\ poll[r] = "none"
    /\ ~stopped[r]
    /\ poll' = [poll EXCEPT ![r] = IF leads[r] THEN "asking" ELSE "taking"]
    /\ UNCHANGED <<lease, mine, renewing, leads, stopped, doubtful, feedFaults>>

\* _tick() after a tryAcquire() that granted the lease; a replica stopped in
\* the meantime keeps the lease without leading.
Lead(r, leased) ==
    /\ mine' = [mine EXCEPT ![r] = leased]
    /\ leads' = [leads EXCEPT ![r] = ~stopped[r]]
    /\ renewing' = [renewing EXCEPT ![r] = leased /\ ~stopped[r]]
    /\ poll' = [poll EXCEPT ![r] = "none"]
    /\ UNCHANGED stopped

TakeLease(r) ==
    /\ poll[r] = "taking"
    /\ lease = Nobody
    /\ lease' = r
    /\ Lead(r, TRUE)
    /\ UNCHANGED <<doubtful, feedFaults>>

\* The key is held, by another replica or by this one's own earlier lease.
LeaseHeld(r) ==
    /\ poll[r] = "taking"
    /\ lease # Nobody
    /\ mine' = [mine EXCEPT ![r] = FALSE]
    /\ poll' = [poll EXCEPT ![r] = "none"]
    /\ UNCHANGED <<lease, renewing, leads, stopped, doubtful, feedFaults>>

\* The SET fails: the replica leads without a lease until its next poll.
LeadUncoordinated(r) ==
    /\ poll[r] = "taking"
    /\ FeedFault
    /\ Lead(r, FALSE)
    /\ doubtful' = TRUE
    /\ UNCHANGED lease

StepDownLate(r) == renewing' = [renewing EXCEPT ![r] = FALSE] /\ UNCHANGED leads
StepDown(r) ==
    /\ leads' = [leads EXCEPT ![r] = FALSE]
    /\ renewing' = [renewing EXCEPT ![r] = FALSE]

StillLeaderTrusted(r) == TRUE
StillLeader(r) == mine[r] /\ lease = r

\* The answer to isStillLeader(); a failed GET is a no.
ConfirmLead(r) ==
    /\ poll[r] = "asking"
    /\ poll' = [poll EXCEPT ![r] = "none"]
    /\ \/ StillLeader(r) /\ UNCHANGED <<leads, renewing, feedFaults>>
       \/ ~StillLeader(r) /\ StepDown(r) /\ UNCHANGED feedFaults
       \/ StillLeader(r) /\ FeedFault /\ StepDown(r)
    /\ UNCHANGED <<lease, mine, stopped, doubtful>>

\* stop() at shutdown: a leader gives the lease up, a poll in flight goes on.
StopReplica(r) ==
    /\ ~stopped[r]
    /\ FeedFault
    /\ stopped' = [stopped EXCEPT ![r] = TRUE]
    /\ StepDown(r)
    /\ lease' = IF leads[r] /\ StillLeader(r) THEN Nobody ELSE lease
    /\ mine' = [mine EXCEPT ![r] = IF leads[r] THEN FALSE ELSE mine[r]]
    /\ UNCHANGED <<poll, doubtful>>

\* A new process takes the place of one that was stopped or died.
Reboot(r) ==
    /\ mine' = [mine EXCEPT ![r] = FALSE]
    /\ StepDown(r)
    /\ poll' = [poll EXCEPT ![r] = "none"]
    /\ stopped' = [stopped EXCEPT ![r] = FALSE]
    /\ UNCHANGED <<lease, doubtful>>

Restart(r) == stopped[r] /\ Reboot(r) /\ UNCHANGED feedFaults
CrashReplica(r) == FeedFault /\ Reboot(r)

Extended == lease # Nobody /\ mine[lease] /\ renewing[lease]

\* The lease's time runs out: nobody renewed it, or the renewals were missed.
LeaseExpires ==
    /\ lease # Nobody
    /\ lease' = Nobody
    /\ mine' = [mine EXCEPT ![lease] = FALSE]
    /\ \/ ~Extended /\ UNCHANGED <<doubtful, feedFaults>>
       \/ Extended /\ FeedFault /\ doubtful' = TRUE
    /\ UNCHANGED <<renewing, leads, poll, stopped>>

FeedNext ==
    \/ \E r \in Replicas :
        \/ Poll(r)
        \/ TakeLease(r)
        \/ LeaseHeld(r)
        \/ LeadUncoordinated(r)
        \/ ConfirmLead(r)
        \/ StopReplica(r)
        \/ Restart(r)
        \/ CrashReplica(r)
    \/ LeaseExpires

PollStep(r) == Poll(r) \/ TakeLease(r) \/ LeaseHeld(r) \/ ConfirmLead(r) \/ Restart(r)
---------------------------------------------------------------------------
\* Two replicas hold feed connections at once only after a lease was lost
\* under its leader or Redis failed while one asked for it.
SoleLeader == Cardinality(Leaders) > 1 => doubtful

\* Whatever was lost, from some moment on exactly one replica holds the
\* connection, and it stays the same one: doubles step down, a dead leader is
\* replaced.
LeaderSettles ==
    \E r \in Replicas : <>[](Leaders = {r})
==============================================================================
