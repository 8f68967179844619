------------------------------ MODULE MCCluster ------------------------------
(*****************************************************************************)
(* The agreements between the workers of a cluster: the leases of its jobs,  *)
(* the leadership of the price feed, the kill switch, the risk supervisor    *)
(* and the circuit breaker of a symbol.  They share nothing but Redis and    *)
(* the database, in keys and rows of their own: part says which one a        *)
(* behaviour exercises.                                                      *)
(*****************************************************************************)
EXTENDS JobLeases, FeedLeader, KillSwitch, RiskSupervisor

CONSTANTS w1, w2, w3

VARIABLE part

MCBodies == {<<w1, 1>>, <<w1, 2>>, <<w2, 1>>}

vars == <<leaseVars, feedVars, switchVars, supervisorVars, haltVars, part>>

Only(name, action, others) == part = name /\ action /\ UNCHANGED <<others, part>>

BesideLeases == <<feedVars, switchVars, supervisorVars, haltVars>>
BesideFeed == <<leaseVars, switchVars, supervisorVars, haltVars>>
BesideSwitch == <<leaseVars, feedVars, supervisorVars, haltVars>>
BesideSupervisor == <<leaseVars, feedVars, switchVars, haltVars>>
BesideHalt == <<leaseVars, feedVars, switchVars, supervisorVars>>

Init ==
    /\ part \in {"leases", "feed", "switch", "supervisor", "halt"}
    /\ LeasesInit
    /\ FeedInit
    /\ SwitchInit
    /\ SupervisorInit
    /\ HaltInit

Next ==
    \/ part = "leases" /\ LeasesNext /\ UNCHANGED <<BesideLeases, part>>
    \/ part = "feed" /\ FeedNext /\ UNCHANGED <<BesideFeed, part>>
    \/ part = "switch" /\ SwitchNext /\ UNCHANGED <<BesideSwitch, part>>
    \/ part = "supervisor" /\ SupervisorNext /\ UNCHANGED <<BesideSupervisor, part>>
    \/ part = "halt" /\ HaltNext /\ UNCHANGED <<BesideHalt, part>>

Fairness ==
    /\ \A b \in Bodies : WF_vars(Only("leases", BodyStep(b), BesideLeases))
    /\ SF_vars(Only("leases", Expire, BesideLeases))
    /\ \A r \in Replicas : WF_vars(Only("feed", PollStep(r), BesideFeed))
    /\ WF_vars(Only("feed", LeaseExpires /\ ~Extended, BesideFeed))
    /\ \A w \in Evaluators : WF_vars(Only("supervisor", CallStep(w), BesideSupervisor))
    /\ \A w \in Evaluators : SF_vars(Only("supervisor", Evaluate(w), BesideSupervisor))
    /\ \A w \in Brokers : WF_vars(Only("halt", HaltStep(w), BesideHalt))
    /\ \A w \in Brokers : WF_vars(Only("halt", Sweep(w), BesideHalt))

Spec == Init /\ [][Next]_vars /\ Fairness
---------------------------------------------------------------------------
\* The job runs again and again, unless two runs of one worker overlapped
\* (distributed.job.lock.ts, JobRunsAgain of JobLeases).
LeasedJobRunsAgain == (part = "leases") => JobRunsAgain

\* The agreements settle, whatever was lost: from some moment on one replica
\* leads the price feed and stays its leader (feed.leader.election.ts), every
\* worker is in the mode of the real signals or in a forced one, as the others
\* are (global.risk.supervisor.ts, ModesSettle), and a halted symbol can be
\* traded again, with the exceptions of HaltEnds (symbol.circuit.breaker.ts).
AgreementsSettle == ((part = "feed") => LeaderSettles) /\ ModesSettle /\ HaltEnds
==============================================================================
