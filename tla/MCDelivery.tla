------------------------------ MODULE MCDelivery ------------------------------
(*****************************************************************************)
(* The order queue in front of the executions of one user, and the outbox    *)
(* behind them. They meet only in the executions, which OrderExecution       *)
(* models: part says which one a behaviour exercises.                        *)
(*****************************************************************************)
EXTENDS ExecutionQueue, TradeOutbox, TLC

CONSTANTS w1, w2, c1, c2, c3

VARIABLE part

MCHostOf == (c1 :> w1) @@ (c2 :> w1) @@ (c3 :> w2)
MCOutages == {{}, {w1}}

vars == <<queueVars, outboxVars, part>>

Only(name, action, others) == part = name /\ action /\ UNCHANGED <<others, part>>

BesideQueue == <<outboxVars>>
BesideOutbox == <<queueVars>>

Init ==
    /\ part \in {"queue", "outbox"}
    /\ QueueInit
    /\ OutboxInit
    /\ part # "queue" => noRedis = {}

Next ==
    \/ part = "queue" /\ QueueNext /\ UNCHANGED <<BesideQueue, part>>
    \/ part = "outbox" /\ OutboxNext /\ UNCHANGED <<BesideOutbox, part>>

Fairness ==
    /\ \A c \in Calls : WF_vars(Only("queue", QueueStep(c), BesideQueue))
    /\ WF_vars(Only("queue", DepthExpires, BesideQueue))
    /\ WF_vars(Only("queue", LockExpires /\ queueFaults' = queueFaults, BesideQueue))
    /\ WF_vars(Only("outbox", Connects, BesideOutbox))
    /\ WF_vars(Only("outbox", Disconnects, BesideOutbox))
    /\ WF_vars(Only("outbox", Replays, BesideOutbox))
    /\ WF_vars(Only("outbox", Pushes, BesideOutbox))
    /\ WF_vars(Only("outbox", Sweeps, BesideOutbox))
    /\ WF_vars(Only("outbox", AuditPass, BesideOutbox))
    /\ WF_vars(Only("outbox", Notify, BesideOutbox))

Spec == Init /\ [][Next]_vars /\ Fairness
---------------------------------------------------------------------------
\* PlacesReturn, of the queue.
QueuePlacesReturn == (part = "queue") => PlacesReturn
==============================================================================
