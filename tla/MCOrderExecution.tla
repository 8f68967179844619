-------------------------- MODULE MCOrderExecution --------------------------
(* Small accounts for OrderExecution: orders and closers are model values,    *)
(* money is counted in units of one margin step.                              *)
EXTENDS OrderExecution

CONSTANTS
    EstimateUnits,   \* the estimate of every resting order
    Profits, Losses  \* outcomes of a close, both as positive amounts

MCEstimate == [o \in Orders |-> EstimateUnits]
MCClosePnls == Profits \cup {-loss : loss \in Losses}
=============================================================================
