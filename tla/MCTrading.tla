------------------------------ MODULE MCTrading ------------------------------
(*****************************************************************************)
(* What watches and drives the positions of one account: the monitor, the    *)
(* stop-out and the watchdog; the slices of an algorithmic order; and the    *)
(* entries of the autopilot. They meet only in the execution and the         *)
(* settlement of a position, which OrderExecution models: part says which    *)
(* one a behaviour exercises.                                                *)
(*****************************************************************************)
EXTENDS AccountWatch, AlgoOrders, AutopilotEntries

CONSTANTS w1, w2

VARIABLE part

MCEntry == <<4, 4>>
MCMargin == <<2, 2>>
MCStop == <<0, 2>>
MCAlgorithms == {[type |-> "TWAP", total |-> 6, slices |-> <<2, 2, 2>>],
                 [type |-> "VWAP", total |-> 6, slices |-> <<3, 1, 2>>],
                 [type |-> "ICEBERG", total |-> 6, slices |-> <<4>>],
                 [type |-> "BRACKET", total |-> 6, slices |-> <<6>>]}

vars == <<watchVars, algoVars, pilotVars, part>>

Only(name, action, others) == part = name /\ action /\ UNCHANGED <<others, part>>

BesideAccount == <<algoVars, pilotVars>>
BesideAlgo == <<watchVars, pilotVars>>
BesidePilot == <<watchVars, algoVars>>

Init ==
    /\ part \in {"account", "algo", "pilot"}
    /\ WatchInit
    /\ AlgoInit
    /\ PilotInit
    /\ part # "algo" => algo.type = "TWAP"

Next ==
    \/ part = "account" /\ WatchNext /\ UNCHANGED <<BesideAccount, part>>
    \/ part = "algo" /\ AlgoNext /\ UNCHANGED <<BesideAlgo, part>>
    \/ part = "pilot" /\ PilotNext /\ UNCHANGED <<BesidePilot, part>>

Fairness ==
    /\ \A g \in Guards : WF_vars(Only("account", CheckStep(g), BesideAccount))
    /\ WF_vars(Only("account", MonitorStep, BesideAccount))
    /\ WF_vars(Only("account", WatchdogStep, BesideAccount))
    /\ WF_vars(Only("account", FeedReturns, BesideAccount))
    /\ SF_vars(Only("account", StartScan, BesideAccount))
    /\ WF_vars(Only("pilot", RestingEnds, BesidePilot))
    /\ \A w \in Pilots : WF_vars(Only("pilot", EvaluationStep(w), BesidePilot))
    /\ \A w \in Pilots : WF_vars(Only("pilot", Lapse(w), BesidePilot))

Spec == Init /\ [][Next]_vars /\ Fairness
---------------------------------------------------------------------------
\* StopsHonoured, of the account.
AccountStopsHonoured == (part = "account") => StopsHonoured

\* StopOutEnds, of the account.
AccountStopOutEnds == (part = "account") => StopOutEnds

\* PauseTakesHold, of the autopilot.
PilotPauseTakesHold == (part = "pilot") => PauseTakesHold
==============================================================================
