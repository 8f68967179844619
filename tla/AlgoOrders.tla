----------------------------- MODULE AlgoOrders -----------------------------
(***************************************************************************)
(* One parent order sliced into market orders by AlgoOrderService          *)
(* (execution-service/algo.order.service.ts).  The slices go through the   *)
(* execution queue, which may answer REJECTED for a task that still fills; *)
(* everything the service knows is in the memory of its worker.            *)
(***************************************************************************)
EXTENDS Integers, Sequences, SequencesExt, FiniteSetsExt

CONSTANTS
    Algorithms,     \* what may be asked for: [type, total, slices]
    MaxAlgoFaults   \* rejected and timed out children, crashes

\* slices are the planned quantities: equal for TWAP, weighted for VWAP, the
\* visible quantity for ICEBERG, everything for BRACKET.
ASSUME AlgoAssumption ==
    \A a \in Algorithms :
        /\ a.type \in {"TWAP", "VWAP", "ICEBERG", "BRACKET"}
        /\ a.total \in Nat \ {0} /\ a.slices \in Seq(Nat) /\ a.slices # << >>

VARIABLES
    algo,               \* the request
    state,              \* status of the AlgoOrder
    active,             \* it is in the service's map
    cancelRequested,
    fired,              \* slices fired
    child,              \* quantity of the child being placed, or 0
    sending,            \* the loop has slices to send
    filledQuantity,     \* as recorded
    position,           \* as filled in fact
    queued,             \* timed out children that may still fill
    timedOut,           \* history: quantity of all of those
    algoFaults

algoVars == <<algo, state, active, cancelRequested, fired, child, sending,
              filledQuantity, position, queued, timedOut, algoFaults>>

AlgoFault == algoFaults < MaxAlgoFaults /\ algoFaults' = algoFaults + 1

AlgoInit ==
    /\ algo \in Algorithms
    /\ state = "RUNNING" /\ active = TRUE /\ cancelRequested = FALSE
    /\ fired = 0 /\ child = 0 /\ sending = TRUE
    /\ filledQuantity = 0 /\ position = 0
    /\ queued = << >> /\ timedOut = 0
    /\ algoFaults = 0
---------------------------------------------------------------------------
remainingQty == Max({0, algo.total - filledQuantity})

\* The last slice takes what is left, and with it what failed before.
NextQtyAsPlanned ==
    IF algo.type = "ICEBERG" THEN Head(algo.slices) ELSE algo.slices[fired + 1]
NextQty ==
    IF algo.type = "ICEBERG" THEN Min({Head(algo.slices), remainingQty})
    ELSE IF fired + 1 = Len(algo.slices) THEN remainingQty
    ELSE Min({algo.slices[fired + 1], remainingQty})

Exhausted ==
    IF algo.type = "ICEBERG" THEN remainingQty = 0 ELSE fired = Len(algo.slices)

SendChild ==
    /\ sending /\ child = 0 /\ ~cancelRequested /\ ~Exhausted
    /\ child' = NextQty
    /\ fired' = IF algo.type = "ICEBERG" THEN fired ELSE fired + 1
    /\ UNCHANGED <<algo, state, active, cancelRequested, sending, filledQuantity,
                   position, queued, timedOut, algoFaults>>

\* recordChildFill()
ChildFilled ==
    /\ child > 0
    /\ child' = 0
    /\ filledQuantity' = filledQuantity + child
    /\ position' = position + child
    /\ UNCHANGED <<algo, state, active, cancelRequested, fired, sending, queued,
                   timedOut, algoFaults>>

\* _recordChildFailure(): the order was rejected, or its answer came too late.
ChildFailed ==
    /\ child > 0
    /\ AlgoFault
    /\ child' = 0
    /\ \/ UNCHANGED <<queued, timedOut>>
       \/ queued' = Append(queued, child) /\ timedOut' = timedOut + child
    /\ UNCHANGED <<algo, state, active, cancelRequested, fired, sending,
                   filledQuantity, position>>
LateChild ==
    /\ queued # << >>
    /\ queued' = Tail(queued)
    /\ \/ position' = position + Head(queued)
       \/ UNCHANGED position
    /\ UNCHANGED <<algo, state, active, cancelRequested, fired, child, sending,
                   filledQuantity, timedOut, algoFaults>>

\* _finishSlicing() and _maybeComplete(); the loops of TWAP and VWAP return
\* without it once a cancellation was asked for.
FinishSlicing ==
    /\ sending /\ child = 0
    /\ Exhausted \/ cancelRequested
    /\ sending' = FALSE
    /\ IF state = "RUNNING" /\ Exhausted
       THEN /\ state' = IF filledQuantity > 0 THEN "COMPLETED" ELSE "FAILED"
            /\ active' = FALSE
       ELSE UNCHANGED <<state, active>>
    /\ UNCHANGED <<algo, cancelRequested, fired, child, filledQuantity, position,
                   queued, timedOut, algoFaults>>

\* cancel() forgets nothing: the entry stays in the map.
Cancel ==
    /\ active
    /\ cancelRequested' = TRUE /\ state' = "CANCELLED"
    /\ UNCHANGED <<algo, active, fired, child, sending, filledQuantity, position,
                   queued, timedOut, algoFaults>>

\* The worker dies with the map; a child in the queue may still fill.
CrashAlgo ==
    /\ AlgoFault
    /\ active /\ active' = FALSE /\ sending' = FALSE /\ child' = 0
    /\ IF child > 0 THEN queued' = Append(queued, child) ELSE UNCHANGED queued
    /\ UNCHANGED <<algo, state, cancelRequested, fired, filledQuantity, position,
                   timedOut>>

AlgoNext ==
    \/ SendChild \/ ChildFilled \/ ChildFailed \/ LateChild
    \/ FinishSlicing \/ Cancel \/ CrashAlgo
---------------------------------------------------------------------------
\* The position never exceeds the quantity asked for by more than the children
\* that were answered REJECTED on a timeout and then filled: failed slices are
\* made up for once, and a cancellation or a crash leaves no slice sent twice.
AlgoNeverOverfills == position + child + FoldSeq(+, 0, queued) <= algo.total + timedOut
=============================================================================
