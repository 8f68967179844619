------------------------ MODULE OrderExecutionProofs ------------------------
(* Proofs about OrderExecution.  The margins of an account are summed as the  *)
(* size of a set; the first lemmas turn that into arithmetic.                 *)
EXTENDS OrderExecution, FiniteSetTheorems, TLAPS

Margins == [Orders -> 0 .. MaxMargin]
Below(f) == {x \in Orders \X Units : x[2] <= f[x[1]]}

(* Orders and units are finite, and so is every set counted by Total.         *)
LEMMA BelowFinite == ASSUME NEW f PROVE IsFiniteSet(Below(f))
<1>1. IsFiniteSet(Orders) /\ IsFiniteSet(Units)
  BY OrderAssumption, MoneyAssumption, FS_Interval DEF Units
<1>2. IsFiniteSet(Orders \X Units)
  BY <1>1, FS_Product
<1>3. Below(f) \in SUBSET (Orders \X Units)
  BY DEF Below
<1>. QED  BY <1>2, <1>3, FS_Subset

(* A total is a natural number.                                               *)
LEMMA TotalType == ASSUME NEW f PROVE Total(f) \in Nat
  BY BelowFinite, FS_CardinalityType DEF Total, Below

(* The units between two margins.                                             *)
LEMMA IntervalSize ==
  ASSUME NEW a \in Nat, NEW b \in Nat, a <= b
  PROVE  IsFiniteSet((a + 1) .. b) /\ Cardinality((a + 1) .. b) = b - a
<1>1. PICK c \in Int : c = a + 1
  OBVIOUS
<1>2. /\ IsFiniteSet(c .. b)
      /\ Cardinality(c .. b) = IF c > b THEN 0 ELSE b - c + 1
  BY FS_Interval
<1>3. (IF c > b THEN 0 ELSE b - c + 1) = b - a
  BY <1>1
<1>. QED  BY <1>1, <1>2, <1>3

(* Raising one margin adds the difference.                                    *)
LEMMA TotalRaise ==
  ASSUME NEW f \in Margins, NEW g \in Margins, NEW o \in Orders,
         \A x \in Orders : x # o => g[x] = f[x],
         f[o] <= g[o]
  PROVE  Total(g) = Total(f) + g[o] - f[o]
<1> DEFINE Extra == {o} \X ((f[o] + 1) .. g[o])
<1>1. f[o] \in Nat /\ g[o] \in Nat /\ g[o] <= MaxMargin /\ MaxMargin \in Nat
  BY MoneyAssumption DEF Margins
<1>2. Below(g) = Below(f) \cup Extra
  <2>1. ASSUME NEW x \in Below(g) PROVE x \in Below(f) \cup Extra
    <3>1. x \in Orders \X Units /\ x[2] <= g[x[1]] BY <2>1 DEF Below
    <3>2. CASE x[1] = o
      BY <1>1, <3>1, <3>2 DEF Below, Units
    <3>3. CASE x[1] # o
      BY <3>1, <3>3 DEF Below
    <3>. QED BY <3>2, <3>3
  <2>2. ASSUME NEW x \in Below(f) PROVE x \in Below(g)
    <3>1. x \in Orders \X Units /\ x[2] <= f[x[1]] BY <2>2 DEF Below
    <3>2. CASE x[1] = o
      BY <1>1, <3>1, <3>2 DEF Below, Units
    <3>3. CASE x[1] # o
      BY <3>1, <3>3 DEF Below
    <3>. QED BY <3>2, <3>3
  <2>3. ASSUME NEW x \in Extra PROVE x \in Below(g)
    BY <1>1, <2>3 DEF Below, Units
  <2>. QED BY <2>1, <2>2, <2>3
<1>3. Below(f) \cap Extra = {}
  BY <1>1 DEF Below
<1>4. IsFiniteSet(Extra) /\ Cardinality(Extra) = g[o] - f[o]
  <2>1. /\ IsFiniteSet((f[o] + 1) .. g[o])
        /\ Cardinality((f[o] + 1) .. g[o]) = g[o] - f[o]
    BY <1>1, IntervalSize
  <2>2. IsFiniteSet({o}) /\ Cardinality({o}) = 1
    BY FS_Singleton
  <2>3. /\ IsFiniteSet(Extra)
        /\ Cardinality(Extra) = Cardinality({o}) * Cardinality((f[o] + 1) .. g[o])
    BY <2>1, <2>2, FS_Product, Zenon
  <2>4. Cardinality(Extra) = 1 * (g[o] - f[o])
    BY <2>1, <2>2, <2>3, Zenon
  <2>5. 1 * (g[o] - f[o]) = g[o] - f[o]
    BY <1>1
  <2>. QED  BY <2>3, <2>4, <2>5, Zenon
<1>5. Cardinality(Below(g)) = Cardinality(Below(f)) + Cardinality(Extra) - Cardinality({})
  BY <1>2, <1>3, <1>4, BelowFinite, FS_Union
<1>. QED  BY <1>1, <1>4, <1>5, BelowFinite, FS_CardinalityType, FS_EmptySet DEF Total, Below

(* Changing one margin changes the total by the difference.                   *)
LEMMA TotalUpdate ==
  ASSUME NEW f \in Margins, NEW g \in Margins, NEW o \in Orders,
         \A x \in Orders : x # o => g[x] = f[x]
  PROVE  Total(g) = Total(f) + g[o] - f[o]
<1>1. f[o] \in Nat /\ g[o] \in Nat
  BY MoneyAssumption DEF Margins
<1>2. CASE f[o] <= g[o]
  BY <1>2, TotalRaise
<1>3. CASE g[o] < f[o]
  <2>1. Total(f) = Total(g) + f[o] - g[o]
    BY <1>1, <1>3, TotalRaise
  <2>. QED  BY <1>1, <2>1, TotalType
<1>. QED  BY <1>1, <1>2, <1>3

(* One margin is at most the total.                                           *)
LEMMA TotalAtLeast ==
  ASSUME NEW f \in Margins, NEW o \in Orders
  PROVE  f[o] <= Total(f)
<1> DEFINE g == [f EXCEPT ![o] = 0]
<1>1. g \in Margins /\ g[o] = 0 /\ \A x \in Orders : x # o => g[x] = f[x]
  BY MoneyAssumption DEF Margins
<1>2. Total(g) = Total(f) + 0 - f[o]
  <2> HIDE DEF g
  <2>. QED  BY <1>1, TotalUpdate
<1>3. f[o] \in Nat  BY MoneyAssumption DEF Margins
<1>. QED  BY <1>2, <1>3, TotalType

------------------------------------------------------------------------------
(* Type correctness.                                                          *)

(* A release leaves a natural number, at most what was locked.                *)
LEMMA ReleaseType ==
  ASSUME locked \in Nat, NEW amount \in Nat
  PROVE  /\ AfterRelease(amount) \in Nat
         /\ AfterRelease(amount) <= locked
         /\ amount <= locked => AfterRelease(amount) = locked - amount
  BY DEF AfterRelease, Smaller

(* Both sums of margins are natural numbers.                                  *)
LEMMA MarginTypes == OpenMargin \in Nat /\ HeldMargin \in Nat
  BY TotalType DEF OpenMargin, HeldMargin

(* A handler's step keeps the types.                                          *)
LEMMA TypeHandler ==
  ASSUME TypeOK, NEW o \in Orders, HandlerStep(o)
  PROVE  TypeOK'
<1>. USE OrderAssumption, MoneyAssumption, BoundAssumption
<1>. USE DEF TypeOK, HandlerStates, HoldingStates, Statuses, wallet, orders, positions,
             jobs, budget, Goto, SetStatus, Abandon, Fault, RestingOrders, Orders, Units
<1>1. CASE LockEstimate(o)
  BY <1>1 DEF LockEstimate
<1>2. CASE AcceptResting(o)
  BY <1>2 DEF AcceptResting
<1>3. CASE AddToBook(o)
  BY <1>3 DEF AddToBook
<1>4. CASE TriggerRefused(o)
  BY <1>4 DEF TriggerRefused
<1>5. CASE ArmLimit(o)
  BY <1>5 DEF ArmLimit
<1>6. CASE AddArmedLimit(o)
  BY <1>6 DEF AddArmedLimit
<1>7. CASE ArmFailed(o)
  BY <1>7 DEF ArmFailed
<1>8. CASE CancelRelease(o)
  BY <1>8, ReleaseType DEF CancelRelease
<1>9. CASE ExpireRelease(o)
  BY <1>9, ReleaseType DEF ExpireRelease
<1>10. CASE ExpireTransition(o)
  BY <1>10 DEF ExpireTransition
<1>11. CASE RefuseBeforeFill(o)
  BY <1>11 DEF RefuseBeforeFill
<1>12. CASE Accept(o)
  BY <1>12 DEF Accept
<1>13. CASE ReleaseEstimate(o)
  BY <1>13, ReleaseType DEF ReleaseEstimate
<1>14. CASE Reject(o)
  BY <1>14 DEF Reject
<1>15. CASE FillCommit(o)
  BY <1>15, ReleaseType DEF FillCommit, TrueUp
<1>16. CASE FillInsufficient(o)
  BY <1>16, ReleaseType DEF FillInsufficient, TrueUp
<1>17. CASE FillAbort(o)
  BY <1>17 DEF FillAbort
<1>. QED  BY <1>1, <1>2, <1>3, <1>4, <1>5, <1>6, <1>7, <1>8, <1>9, <1>10, <1>11, <1>12, <1>13, <1>14, <1>15, <1>16, <1>17 DEF HandlerStep

(* A failure keeps the types.                                                 *)
LEMMA TypeFailure ==
  ASSUME TypeOK, NEW o \in Orders, Failure(o)
  PROVE  TypeOK'
<1>. USE OrderAssumption, MoneyAssumption, BoundAssumption
<1>. USE DEF TypeOK, HandlerStates, HoldingStates, Statuses, wallet, orders, positions,
             jobs, budget, Goto, SetStatus, Abandon, Fault, RestingOrders, Orders, Units
<1>1. CASE LockFails(o)
  BY <1>1 DEF LockFails
<1>2. CASE AddFails(o)
  BY <1>2 DEF AddFails
<1>3. CASE AddArmedLimitFails(o)
  BY <1>3 DEF AddArmedLimitFails
<1>4. CASE ReleaseFails(o)
  BY <1>4 DEF ReleaseFails
<1>5. CASE StatusWriteFails(o)
  BY <1>5 DEF StatusWriteFails
<1>6. CASE SweepFails(o)
  BY <1>6 DEF SweepFails, SweepTo
<1>7. CASE Crash(o)
  BY <1>7 DEF Crash, Running
<1>. QED  BY <1>1, <1>2, <1>3, <1>4, <1>5, <1>6, <1>7 DEF Failure

(* A request keeps the types.                                                 *)
LEMMA TypeRequest ==
  ASSUME TypeOK, NEW o \in Orders, Request(o)
  PROVE  TypeOK'
<1>. USE OrderAssumption, MoneyAssumption, BoundAssumption
<1>. USE DEF TypeOK, HandlerStates, HoldingStates, Statuses, wallet, orders, positions,
             jobs, budget, Goto, SetStatus, Abandon, Fault, RestingOrders, Orders, Units
<1>1. CASE Submit(o)
  BY <1>1 DEF Submit
<1>2. CASE Place(o)
  BY <1>2 DEF Place
<1>3. CASE Trigger(o)
  BY <1>3 DEF Trigger
<1>4. CASE CancelResting(o)
  BY <1>4 DEF CancelResting
<1>5. CASE Expire(o)
  BY <1>5 DEF Expire
<1>6. CASE CancelDbRead(o)
  BY <1>6 DEF CancelDbRead
<1>7. CASE CancelDbWrite(o)
  BY <1>7 DEF CancelDbWrite
<1>. QED  BY <1>1, <1>2, <1>3, <1>4, <1>5, <1>6, <1>7 DEF Request

(* A step of a close keeps the types.                                         *)
LEMMA TypeClose ==
  ASSUME TypeOK, NEW c \in Closers, NEW o \in Orders, Close(c, o)
  PROVE  TypeOK'
<1>. USE OrderAssumption, MoneyAssumption, BoundAssumption
<1>. USE DEF TypeOK, HandlerStates, HoldingStates, Statuses, wallet, orders, positions,
             jobs, budget, Goto, SetStatus, Abandon, Fault, RestingOrders, Orders, Units
<1>1. CASE BeginClose(c, o)
  BY <1>1 DEF BeginClose
<1>2. CASE SettleCommit(c, o)
  BY <1>2, ReleaseType DEF SettleCommit, SettledLocked, NetCredit, CappedPnl, LedgerDelta, Larger
<1>3. CASE SettleRefused(c, o)
  BY <1>3 DEF SettleRefused
<1>4. CASE SettleAlreadyClosed(c, o)
  BY <1>4 DEF SettleAlreadyClosed
<1>. QED  BY <1>1, <1>2, <1>3, <1>4 DEF Close

(* A step of the sweep keeps the types.                                       *)
LEMMA TypeSweep ==
  ASSUME TypeOK, NEW o \in Orders, SweepStep(o)
  PROVE  TypeOK'
<1>. USE OrderAssumption, MoneyAssumption, BoundAssumption
<1>. USE DEF TypeOK, HandlerStates, HoldingStates, Statuses, wallet, orders, positions,
             jobs, budget, Goto, SetStatus, Abandon, Fault, RestingOrders, Orders, Units
<1>1. CASE SweepSelect(o)
  BY <1>1 DEF SweepSelect, SweepTo
<1>2. CASE SweepCheck(o)
  BY <1>2 DEF SweepCheck, SweepTo
<1>3. CASE SweepRead(o)
  BY <1>3 DEF SweepRead, SweepTo, Smaller
<1>4. CASE SweepRelease(o)
  BY <1>4 DEF SweepRelease, SweepTo
<1>5. CASE SweepReject(o)
  BY <1>5 DEF SweepReject, SweepTo
<1>. QED  BY <1>1, <1>2, <1>3, <1>4, <1>5 DEF SweepStep

(* A step of a wallet job keeps the types.                                    *)
LEMMA TypeJobs ==
  ASSUME TypeOK, Repair \/ Recovery
  PROVE  TypeOK'
<1>. USE OrderAssumption, MoneyAssumption, BoundAssumption
<1>. USE DEF TypeOK, HandlerStates, HoldingStates, Statuses, wallet, orders, positions,
             jobs, budget, Goto, SetStatus, Abandon, Fault, RestingOrders, Orders, Units
<1>1. CASE Repair
  BY <1>1, MarginTypes DEF Repair
<1>2. CASE RecoveryReadWallet
  BY <1>2 DEF RecoveryReadWallet, RecoverTo
<1>3. CASE RecoveryCompute
  BY <1>3, MarginTypes DEF RecoveryCompute, RecoverTo
<1>4. CASE RecoveryRelease
  BY <1>4 DEF RecoveryRelease, RecoverTo
<1>. QED  BY <1>1, <1>2, <1>3, <1>4 DEF Recovery

(* Every reachable state is well typed; in particular neither balance nor     *)
(* locked goes below zero, whichever jobs run.                                *)
THEOREM TypeCorrect == Spec => []TypeOK
<1>1. Init => TypeOK
  BY OrderAssumption, MoneyAssumption, BoundAssumption
     DEF Init, TypeOK, HandlerStates, HoldingStates, Statuses
<1>2. TypeOK /\ [Next]_vars => TypeOK'
  <2>. SUFFICES ASSUME TypeOK, [Next]_vars PROVE TypeOK'
    OBVIOUS
  <2>1. CASE Next
    BY <2>1, TypeHandler, TypeFailure, TypeRequest, TypeClose, TypeSweep, TypeJobs DEF Next
  <2>2. CASE UNCHANGED vars
    BY <2>2 DEF TypeOK, vars, wallet, orders, positions, jobs, budget
  <2>. QED  BY <2>1, <2>2
<1>. QED  BY <1>1, <1>2, PTL DEF Spec

------------------------------------------------------------------------------
(* Phases of an order, and the settlement of its position.                    *)

(* A position exists only when the handler is through; a market order visits  *)
(* no state of a resting one.                                                 *)
PhaseOK ==
    \A o \in Orders :
        /\ position[o] # "NONE" => pc[o] = "done"
        /\ o \in MarketOrders => pc[o] \in {"idle", "check", "fill", "reject", "done"}

(* A job that is not run is never under way.                                  *)
QuietJobs ==
    Jobs = {} => recovery.step = "idle" /\ \A o \in Orders : sweep[o].step = "idle"

(* The phases are an invariant.                                               *)
LEMMA Phases == Spec => [](TypeOK /\ PhaseOK /\ QuietJobs)
<1>. USE OrderAssumption
<1>. USE DEF TypeOK, PhaseOK, QuietJobs, wallet, orders, positions, jobs, budget,
             Goto, SetStatus, Abandon, Fault, RestingOrders, Orders
<1>1. Init => PhaseOK /\ QuietJobs
  BY DEF Init
<1>2. TypeOK /\ PhaseOK /\ QuietJobs /\ [Next]_vars => PhaseOK' /\ QuietJobs'
  <2>. SUFFICES ASSUME TypeOK, PhaseOK, QuietJobs, [Next]_vars
                PROVE  PhaseOK' /\ QuietJobs'
    OBVIOUS
  <2>1. ASSUME NEW o \in Orders, HandlerStep(o) PROVE PhaseOK' /\ QuietJobs'
    <3>1. CASE FillCommit(o)
      BY <3>1 DEF FillCommit
    <3>2. CASE LockEstimate(o)
      BY <3>2 DEF LockEstimate
    <3>3. CASE FillInsufficient(o) \/ FillAbort(o)
      BY <3>3 DEF FillInsufficient, FillAbort
    <3>6. CASE Reject(o)
      BY <3>6 DEF Reject, Held
    <3>7. CASE Accept(o) \/ RefuseBeforeFill(o) \/ ReleaseEstimate(o)
      BY <3>7 DEF Accept, RefuseBeforeFill, ReleaseEstimate
    <3>4. CASE AcceptResting(o) \/ AddToBook(o) \/ TriggerRefused(o) \/ ArmLimit(o)
               \/ AddArmedLimit(o) \/ ArmFailed(o)
      BY <3>4 DEF AcceptResting, AddToBook, TriggerRefused, ArmLimit, AddArmedLimit,
                  ArmFailed
    <3>5. CASE CancelRelease(o) \/ ExpireRelease(o) \/ ExpireTransition(o)
      BY <3>5 DEF CancelRelease, ExpireRelease, ExpireTransition
    <3>. QED  BY <2>1, <3>1, <3>2, <3>3, <3>4, <3>5, <3>6, <3>7 DEF HandlerStep
  <2>2. ASSUME NEW o \in Orders, Failure(o) PROVE PhaseOK' /\ QuietJobs'
    <3>1. CASE Crash(o)
      BY <3>1 DEF Crash, Running, Held
    <3>2. CASE ReleaseFails(o)
      BY <3>2 DEF ReleaseFails
    <3>3. CASE StatusWriteFails(o)
      BY <3>3 DEF StatusWriteFails, Held
    <3>4. CASE SweepFails(o)
      BY <3>4 DEF SweepFails, SweepTo
    <3>5. CASE LockFails(o) \/ AddFails(o) \/ AddArmedLimitFails(o)
      BY <3>5 DEF LockFails, AddFails, AddArmedLimitFails
    <3>. QED  BY <2>2, <3>1, <3>2, <3>3, <3>4, <3>5 DEF Failure
  <2>3. ASSUME NEW o \in Orders, Request(o) PROVE PhaseOK' /\ QuietJobs'
    BY <2>3 DEF Request, Submit, Place, Trigger, CancelResting, Expire, CancelDbRead,
                CancelDbWrite
  <2>4. ASSUME NEW c \in Closers, NEW o \in Orders, Close(c, o)
        PROVE  PhaseOK' /\ QuietJobs'
    <3>1. CASE SettleCommit(c, o)
      BY <3>1 DEF SettleCommit, StillOpen
    <3>. QED  BY <2>4, <3>1 DEF Close, BeginClose, SettleRefused, SettleAlreadyClosed
  <2>5. ASSUME NEW o \in Orders, SweepStep(o) PROVE PhaseOK' /\ QuietJobs'
    BY <2>5 DEF SweepStep, SweepSelect, SweepCheck, SweepRead, SweepRelease, SweepReject,
                SweepTo
  <2>6. CASE Repair \/ Recovery
    BY <2>6 DEF Repair, Recovery, RecoveryReadWallet, RecoveryCompute, RecoveryRelease,
                RecoverTo
  <2>7. CASE UNCHANGED vars
    BY <2>7 DEF vars
  <2>. QED  BY <2>1, <2>2, <2>3, <2>4, <2>5, <2>6, <2>7 DEF Next
<1>. QED  BY <1>1, <1>2, TypeCorrect, PTL DEF Spec

(* Only a fill opens a position and only a settlement closes one; every other *)
(* step leaves positions and the ledger alone.                                *)
LEMMA OtherSteps ==
  ASSUME [Next]_vars
  PROVE  \/ UNCHANGED <<position, margin, settled, balance, ledger>>
         \/ \E o \in Orders : FillCommit(o)
         \/ \E c \in Closers, o \in Orders : SettleCommit(c, o)
<1>. USE DEF wallet, orders, positions, jobs, budget
<1>1. ASSUME NEW o \in Orders, HandlerStep(o), ~FillCommit(o)
      PROVE  UNCHANGED <<position, margin, settled, balance, ledger>>
  BY <1>1 DEF HandlerStep, LockEstimate, AcceptResting, AddToBook, TriggerRefused,
              ArmLimit, AddArmedLimit, ArmFailed, CancelRelease, ExpireRelease,
              ExpireTransition, RefuseBeforeFill, Accept, ReleaseEstimate, Reject,
              FillInsufficient, FillAbort
<1>2. ASSUME NEW o \in Orders, Failure(o) \/ Request(o) \/ SweepStep(o)
      PROVE  UNCHANGED <<position, margin, settled, balance, ledger>>
  BY <1>2 DEF Failure, LockFails, AddFails, AddArmedLimitFails, ReleaseFails,
              StatusWriteFails, SweepFails, Crash, Request, Submit, Place, Trigger,
              CancelResting, Expire, CancelDbRead, CancelDbWrite, SweepStep,
              SweepSelect, SweepCheck, SweepRead, SweepRelease, SweepReject
<1>3. ASSUME NEW c \in Closers, NEW o \in Orders, Close(c, o), ~SettleCommit(c, o)
      PROVE  UNCHANGED <<position, margin, settled, balance, ledger>>
  BY <1>3 DEF Close, BeginClose, SettleRefused, SettleAlreadyClosed
<1>4. CASE Repair \/ Recovery
  BY <1>4 DEF Repair, Recovery, RecoveryReadWallet, RecoveryCompute, RecoveryRelease
<1>5. CASE UNCHANGED vars
  BY <1>5 DEF vars
<1>. QED  BY <1>1, <1>2, <1>3, <1>4, <1>5 DEF Next

(* A position is settled exactly once, for any number of racing closers.      *)
THEOREM SettledExactlyOnce == Spec => []SettledOnce
<1>. USE DEF TypeOK, PhaseOK, SettledOnce
<1>1. Init => SettledOnce
  BY DEF Init
<1>2. TypeOK /\ PhaseOK /\ SettledOnce /\ [Next]_vars => SettledOnce'
  <2>. SUFFICES ASSUME TypeOK, PhaseOK, SettledOnce, [Next]_vars PROVE SettledOnce'
    OBVIOUS
  <2>1. CASE UNCHANGED <<position, settled>>
    BY <2>1
  <2>2. ASSUME NEW o \in Orders, FillCommit(o) PROVE SettledOnce'
    BY <2>2 DEF FillCommit
  <2>3. ASSUME NEW c \in Closers, NEW o \in Orders, SettleCommit(c, o)
        PROVE  SettledOnce'
    BY <2>3 DEF SettleCommit, StillOpen
  <2>. QED  BY <2>1, <2>2, <2>3, OtherSteps
<1>. QED  BY <1>1, <1>2, Phases, PTL DEF Spec

(* The ledger never promises more than the balance: a fee and a commission    *)
(* are entered as they are charged, and the cap on a close only ever spares   *)
(* the balance.                                                               *)
THEOREM LedgerSafe == Spec => []LedgerNeverOverstates
<1>. USE MoneyAssumption DEF TypeOK, LedgerNeverOverstates
<1>1. Init => LedgerNeverOverstates
  BY DEF Init
<1>2. TypeOK /\ LedgerNeverOverstates /\ [Next]_vars => LedgerNeverOverstates'
  <2>. SUFFICES ASSUME TypeOK, LedgerNeverOverstates, [Next]_vars
                PROVE  LedgerNeverOverstates'
    OBVIOUS
  <2>1. CASE UNCHANGED <<balance, ledger>>
    BY <2>1
  <2>2. ASSUME NEW o \in Orders, FillCommit(o) PROVE LedgerNeverOverstates'
    BY <2>2 DEF FillCommit
  <2>3. ASSUME NEW c \in Closers, NEW o \in Orders, SettleCommit(c, o)
        PROVE  LedgerNeverOverstates'
    BY <2>3 DEF SettleCommit, NetCredit, CappedPnl, LedgerDelta, Larger
  <2>. QED  BY <2>1, <2>2, <2>3, OtherSteps
<1>. QED  BY <1>1, <1>2, TypeCorrect, PTL DEF Spec

------------------------------------------------------------------------------
(* Margin.                                                                    *)

HeldOf(o) == IF Held(o) THEN Estimate[o] ELSE 0
OpenOf(o) == IF position[o] = "OPEN" THEN margin[o] ELSE 0

(* The margins of both sums are in range.                                     *)
LEMMA MarginRanges ==
  ASSUME TypeOK, NEW o \in Orders
  PROVE  HeldOf(o) \in 0 .. MaxMargin /\ OpenOf(o) \in 0 .. MaxMargin
  BY MoneyAssumption DEF TypeOK, HeldOf, OpenOf, Units

(* A step of one handler changes the held margin by that order's share.       *)
LEMMA HeldChange ==
  ASSUME TypeOK, TypeOK', NEW o \in Orders,
         \A x \in Orders : x # o => pc'[x] = pc[x]
  PROVE  HeldMargin' = HeldMargin + HeldOf(o)' - HeldOf(o)
<1> DEFINE f == [x \in Orders |-> HeldOf(x)]
           g == [x \in Orders |-> HeldOf(x)']
<1>1. HeldMargin = Total(f) /\ HeldMargin' = Total(g)
  BY DEF HeldMargin, HeldOf, Total
<1>2. f \in Margins
  BY MarginRanges DEF Margins
<1>3. g \in Margins
  BY MoneyAssumption DEF Margins, TypeOK, HeldOf, Units
<1>4. \A x \in Orders : x # o => g[x] = f[x]
  BY DEF HeldOf, Held
<1>5. f[o] = HeldOf(o) /\ g[o] = HeldOf(o)'
  OBVIOUS
<1>. HIDE DEF f, g
<1>. QED  BY <1>1, <1>2, <1>3, <1>4, <1>5, TotalUpdate

(* A step on one position changes the open margin by that position's share.   *)
LEMMA OpenChange ==
  ASSUME TypeOK, TypeOK', NEW o \in Orders,
         \A x \in Orders : x # o => position'[x] = position[x] /\ margin'[x] = margin[x]
  PROVE  OpenMargin' = OpenMargin + OpenOf(o)' - OpenOf(o)
<1> DEFINE f == [x \in Orders |-> OpenOf(x)]
           g == [x \in Orders |-> OpenOf(x)']
<1>1. OpenMargin = Total(f) /\ OpenMargin' = Total(g)
  BY DEF OpenMargin, OpenOf, Total
<1>2. f \in Margins
  BY MarginRanges DEF Margins
<1>3. g \in Margins
  BY MoneyAssumption DEF Margins, TypeOK, OpenOf, Units
<1>4. \A x \in Orders : x # o => g[x] = f[x]
  BY DEF OpenOf
<1>5. f[o] = OpenOf(o) /\ g[o] = OpenOf(o)'
  OBVIOUS
<1>. HIDE DEF f, g
<1>. QED  BY <1>1, <1>2, <1>3, <1>4, <1>5, TotalUpdate

(* Each share is at most its sum.                                             *)
LEMMA Shares ==
  ASSUME TypeOK, NEW o \in Orders
  PROVE  HeldOf(o) <= HeldMargin /\ OpenOf(o) <= OpenMargin
<1> DEFINE f == [x \in Orders |-> HeldOf(x)]
           g == [x \in Orders |-> OpenOf(x)]
<1>1. HeldMargin = Total(f) /\ OpenMargin = Total(g)
  BY DEF HeldMargin, HeldOf, OpenMargin, OpenOf
<1>2. f \in Margins /\ g \in Margins
  BY MarginRanges DEF Margins
<1>3. f[o] = HeldOf(o) /\ g[o] = OpenOf(o)
  OBVIOUS
<1>. HIDE DEF f, g
<1>. QED  BY <1>1, <1>2, <1>3, TotalAtLeast

MarginInv == NoPhantomMargin /\ MarginConserved

(* A step that only moves a handler between states of the same share.         *)
LEMMA Unmoved ==
  ASSUME TypeOK, TypeOK', MarginInv, NEW o \in Orders,
         \A x \in Orders : x # o => pc'[x] = pc[x],
         HeldOf(o)' = HeldOf(o),
         UNCHANGED <<locked, position, margin>>
  PROVE  MarginInv'
<1>1. HeldMargin' = HeldMargin
  BY HeldChange, MarginTypes, MarginRanges
<1>2. OpenMargin' = OpenMargin
  BY DEF OpenMargin, Total
<1>. QED  BY <1>1, <1>2 DEF MarginInv, NoPhantomMargin, MarginConserved

(* A release of the estimate by the order entitled to it.                     *)
LEMMA Released ==
  ASSUME TypeOK, TypeOK', MarginInv, NEW o \in Orders,
         \A x \in Orders : x # o => pc'[x] = pc[x],
         Held(o), ~Held(o)',
         locked' = AfterRelease(Estimate[o]),
         UNCHANGED <<position, margin>>
  PROVE  MarginInv'
<1>1. HeldOf(o) = Estimate[o] /\ HeldOf(o)' = 0
  BY DEF HeldOf
<1>2. Estimate[o] \in Nat
  BY MoneyAssumption DEF Units
<1>3. HeldMargin' = HeldMargin - Estimate[o]
  BY <1>1, <1>2, HeldChange, MarginTypes
<1>4. OpenMargin' = OpenMargin
  BY DEF OpenMargin, Total
<1>5. Estimate[o] <= HeldMargin
  BY <1>1, Shares
<1>6. locked \in Nat /\ OpenMargin \in Nat /\ HeldMargin \in Nat
  BY MarginTypes DEF TypeOK
<1>7. locked' = locked - (IF locked < Estimate[o] THEN locked ELSE Estimate[o])
  BY <1>2, <1>6 DEF AfterRelease, Smaller
<1>. QED  BY <1>2, <1>3, <1>4, <1>5, <1>6, <1>7
          DEF MarginInv, NoPhantomMargin, MarginConserved

(* A job that lowers locked, if any job runs.                                 *)
LEMMA Lowered ==
  ASSUME TypeOK, TypeOK', MarginInv, locked' <= locked,
         Jobs = {} => locked' = locked,
         UNCHANGED <<pc, position, margin>>
  PROVE  MarginInv'
<1>1. OpenMargin' = OpenMargin /\ HeldMargin' = HeldMargin
  BY DEF OpenMargin, HeldMargin, Held, Total
<1>2. /\ OpenMargin \in Nat /\ HeldMargin \in Nat
      /\ locked \in Nat /\ locked' \in Nat
  BY MarginTypes DEF TypeOK
<1>. QED  BY <1>1, <1>2 DEF MarginInv, NoPhantomMargin, MarginConserved

(* The fill: the estimate goes, the real margin comes.                        *)
LEMMA Filled ==
  ASSUME TypeOK, TypeOK', PhaseOK, MarginInv, NEW o \in Orders, FillCommit(o)
  PROVE  MarginInv'
<1>1. PICK required \in FillMargins :
        /\ locked' = TrueUp(o) + required
        /\ margin' = [margin EXCEPT ![o] = required]
  BY DEF FillCommit
<1>2. /\ required \in Nat /\ Estimate[o] \in Nat /\ locked \in Nat
      /\ OpenMargin \in Nat /\ HeldMargin \in Nat
  BY MoneyAssumption, MarginTypes DEF TypeOK, Units
<1>3. pc[o] = "fill" /\ pc' = [pc EXCEPT ![o] = "done"]
      /\ position' = [position EXCEPT ![o] = "OPEN"]
  BY DEF FillCommit, Goto
<1>4. OpenOf(o) = 0 /\ OpenOf(o)' = required
  BY <1>1, <1>3 DEF OpenOf, PhaseOK, TypeOK
<1>5. OpenMargin' = OpenMargin + required
  BY <1>1, <1>2, <1>3, <1>4, OpenChange DEF TypeOK
<1>6. HeldOf(o)' = 0
  BY <1>3 DEF HeldOf, Held, HoldingStates, TypeOK
<1>7. HeldMargin' = HeldMargin - HeldOf(o)
  BY <1>2, <1>3, <1>6, HeldChange, MarginRanges DEF TypeOK
<1>8. HeldOf(o) = IF o \in RestingOrders THEN Estimate[o] ELSE 0
  BY <1>3 DEF HeldOf, Held, HoldingStates
<1>9. HeldOf(o) <= HeldMargin
  BY Shares
<1>10. TrueUp(o) = locked - (IF locked < HeldOf(o) THEN locked ELSE HeldOf(o))
  BY <1>2, <1>8 DEF TrueUp, AfterRelease, Smaller
<1>11. HeldOf(o) \in Nat
  BY <1>2, <1>8
<1>. QED  BY <1>1, <1>2, <1>5, <1>7, <1>9, <1>10, <1>11
          DEF MarginInv, NoPhantomMargin, MarginConserved

(* The fill that cannot pay: the estimate goes, nothing comes.                *)
LEMMA Unfilled ==
  ASSUME TypeOK, TypeOK', MarginInv, NEW o \in Orders, FillInsufficient(o)
  PROVE  MarginInv'
<1>1. /\ pc[o] = "fill" /\ pc' = [pc EXCEPT ![o] = "reject"]
      /\ locked' = TrueUp(o) /\ UNCHANGED <<position, margin>>
  BY DEF FillInsufficient, Goto, positions
<1>2. CASE o \in RestingOrders
  <2>1. Held(o) /\ ~Held(o)' /\ locked' = AfterRelease(Estimate[o])
    BY <1>1, <1>2 DEF Held, HoldingStates, TrueUp, TypeOK
  <2>. QED  BY <1>1, <2>1, Released DEF TypeOK
<1>3. CASE o \notin RestingOrders
  <2>1. HeldOf(o) = 0 /\ HeldOf(o)' = 0 /\ locked' = locked
    BY <1>1, <1>3 DEF HeldOf, Held, TrueUp
  <2>. QED  BY <1>1, <2>1, Unmoved DEF TypeOK
<1>. QED  BY <1>2, <1>3

(* The close of a position: its margin goes.                                  *)
LEMMA Settled ==
  ASSUME TypeOK, TypeOK', MarginInv, NEW c \in Closers, NEW o \in Orders,
         SettleCommit(c, o)
  PROVE  MarginInv'
<1>1. /\ position[o] = "OPEN" /\ position' = [position EXCEPT ![o] = "CLOSED"]
      /\ locked' = AfterRelease(margin[o]) /\ UNCHANGED <<margin, pc>>
  BY DEF SettleCommit, StillOpen, SettledLocked, orders
<1>2. OpenOf(o) = margin[o] /\ OpenOf(o)' = 0
  BY <1>1 DEF OpenOf, TypeOK
<1>3. /\ margin[o] \in Nat /\ locked \in Nat
      /\ OpenMargin \in Nat /\ HeldMargin \in Nat
  BY MoneyAssumption, MarginTypes DEF TypeOK
<1>4. OpenMargin' = OpenMargin - margin[o]
  BY <1>1, <1>2, <1>3, OpenChange DEF TypeOK
<1>5. HeldMargin' = HeldMargin
  BY <1>1 DEF HeldMargin, Held, Total
<1>6. margin[o] <= OpenMargin
  BY <1>2, Shares
<1>7. locked' = locked - (IF locked < margin[o] THEN locked ELSE margin[o])
  BY <1>1, <1>3 DEF AfterRelease, Smaller
<1>. QED  BY <1>3, <1>4, <1>5, <1>6, <1>7
          DEF MarginInv, NoPhantomMargin, MarginConserved

(* What Unmoved asks of a step of order o.                                    *)
Keeps(o) ==
    /\ \A x \in Orders : x # o => pc'[x] = pc[x]
    /\ HeldOf(o)' = HeldOf(o)
    /\ UNCHANGED <<locked, position, margin>>

(* A step that Keeps(o) keeps the margin invariant.                           *)
LEMMA KeepsUnmoved ==
  ASSUME TypeOK, TypeOK', MarginInv, NEW o \in Orders, Keeps(o)
  PROVE  MarginInv'
  BY Unmoved DEF Keeps

(* Only resting orders lock an estimate.                                      *)
LEMMA LockedAreResting ==
  ASSUME PhaseOK, NEW o \in Orders, pc[o] = "lock"
  PROVE  o \in RestingOrders
  BY DEF PhaseOK, Orders

(* A step of a handler keeps the margin invariant.                            *)
LEMMA MarginHandler ==
  ASSUME TypeOK, TypeOK', PhaseOK, MarginInv, NEW o \in Orders, HandlerStep(o)
  PROVE  MarginInv'
<1>. USE OrderAssumption
<1>. USE DEF TypeOK, PhaseOK, Keeps, HeldOf, Held, HoldingStates, Goto, SetStatus,
             Abandon, wallet, positions, Orders
<1>1. CASE AcceptResting(o)
  <2>1. Keeps(o)
    BY <1>1 DEF AcceptResting
  <2>. QED  BY <2>1, KeepsUnmoved
<1>2. CASE AddToBook(o)
  <2>1. Keeps(o)
    BY <1>2 DEF AddToBook
  <2>. QED  BY <2>1, KeepsUnmoved
<1>3. CASE TriggerRefused(o)
  <2>1. Keeps(o)
    BY <1>3 DEF TriggerRefused
  <2>. QED  BY <2>1, KeepsUnmoved
<1>4. CASE ArmLimit(o)
  <2>1. Keeps(o)
    BY <1>4 DEF ArmLimit
  <2>. QED  BY <2>1, KeepsUnmoved
<1>5. CASE AddArmedLimit(o)
  <2>1. Keeps(o)
    BY <1>5 DEF AddArmedLimit
  <2>. QED  BY <2>1, KeepsUnmoved
<1>6. CASE ArmFailed(o)
  <2>1. Keeps(o)
    BY <1>6 DEF ArmFailed
  <2>. QED  BY <2>1, KeepsUnmoved
<1>7. CASE ExpireTransition(o)
  <2>1. Keeps(o)
    BY <1>7 DEF ExpireTransition
  <2>. QED  BY <2>1, KeepsUnmoved
<1>8. CASE RefuseBeforeFill(o)
  <2>1. Keeps(o)
    BY <1>8 DEF RefuseBeforeFill
  <2>. QED  BY <2>1, KeepsUnmoved
<1>9. CASE Accept(o)
  <2>1. Keeps(o)
    BY <1>9 DEF Accept
  <2>. QED  BY <2>1, KeepsUnmoved
<1>10. CASE Reject(o)
  <2>1. Keeps(o)
    BY <1>10 DEF Reject
  <2>. QED  BY <2>1, KeepsUnmoved
<1>11. CASE FillAbort(o)
  <2>1. Keeps(o)
    BY <1>11 DEF FillAbort
  <2>. QED  BY <2>1, KeepsUnmoved
<1>12. CASE CancelRelease(o)
  <2>1. /\ Held(o) /\ ~Held(o)' /\ locked' = AfterRelease(Estimate[o])
        /\ UNCHANGED <<position, margin>>
        /\ \A x \in Orders : x # o => pc'[x] = pc[x]
    BY <1>12 DEF CancelRelease
  <2>. HIDE DEF Held, TypeOK, PhaseOK
  <2>. QED  BY <2>1, Released
<1>13. CASE ExpireRelease(o)
  <2>1. /\ Held(o) /\ ~Held(o)' /\ locked' = AfterRelease(Estimate[o])
        /\ UNCHANGED <<position, margin>>
        /\ \A x \in Orders : x # o => pc'[x] = pc[x]
    BY <1>13 DEF ExpireRelease
  <2>. HIDE DEF Held, TypeOK, PhaseOK
  <2>. QED  BY <2>1, Released
<1>14. CASE ReleaseEstimate(o)
  <2>1. /\ Held(o) /\ ~Held(o)' /\ locked' = AfterRelease(Estimate[o])
        /\ UNCHANGED <<position, margin>>
        /\ \A x \in Orders : x # o => pc'[x] = pc[x]
    BY <1>14 DEF ReleaseEstimate
  <2>. HIDE DEF Held, TypeOK, PhaseOK
  <2>. QED  BY <2>1, Released
<1>15. CASE LockEstimate(o)
  <2>1. CASE Goto(o, "reject") /\ UNCHANGED locked
    <3>1. Keeps(o)
      BY <1>15, <2>1 DEF LockEstimate
    <3>. QED  BY <3>1, KeepsUnmoved
  <2>2. CASE Goto(o, "accept") /\ locked' = locked + Estimate[o]
    <3>1. /\ HeldOf(o) = 0 /\ HeldOf(o)' = Estimate[o]
          /\ UNCHANGED <<position, margin>>
          /\ \A x \in Orders : x # o => pc'[x] = pc[x]
      BY <1>15, <2>2, LockedAreResting DEF LockEstimate
    <3>. HIDE DEF HeldOf, TypeOK, Held
    <3>2. HeldMargin' = HeldMargin + Estimate[o] - 0
      BY <3>1, HeldChange
    <3>3. OpenMargin' = OpenMargin
      BY <3>1 DEF OpenMargin, Total
    <3>4. locked \in Nat /\ Estimate[o] \in Nat
      BY MoneyAssumption DEF TypeOK, Units
    <3>. QED  BY <2>2, <3>2, <3>3, <3>4, MarginTypes
              DEF MarginInv, NoPhantomMargin, MarginConserved
  <2>. QED  BY <1>15, <2>1, <2>2 DEF LockEstimate
<1>16. CASE FillCommit(o)
  BY <1>16, Filled
<1>17. CASE FillInsufficient(o)
  BY <1>17, Unfilled
<1>. QED  BY <1>1, <1>2, <1>3, <1>4, <1>5, <1>6, <1>7, <1>8, <1>9, <1>10, <1>11, <1>12, <1>13, <1>14, <1>15, <1>16, <1>17 DEF HandlerStep

(* A failure keeps it: what is lost with a handler stays locked as stranded.  *)
LEMMA MarginFailure ==
  ASSUME TypeOK, TypeOK', PhaseOK, MarginInv, NEW o \in Orders, Failure(o)
  PROVE  MarginInv'
<1>. USE OrderAssumption
<1>. USE DEF TypeOK, PhaseOK, Keeps, HeldOf, Held, HoldingStates, Goto, SetStatus,
             Abandon, Fault, wallet, orders, positions, Orders
<1>1. CASE LockFails(o)
  <2>1. Keeps(o)
    BY <1>1 DEF LockFails
  <2>. QED  BY <2>1, KeepsUnmoved
<1>2. CASE AddFails(o)
  <2>1. Keeps(o)
    BY <1>2 DEF AddFails
  <2>. QED  BY <2>1, KeepsUnmoved
<1>3. CASE AddArmedLimitFails(o)
  <2>1. Keeps(o)
    BY <1>3 DEF AddArmedLimitFails
  <2>. QED  BY <2>1, KeepsUnmoved
<1>4. CASE ReleaseFails(o)
  <2>1. Keeps(o)
    BY <1>4 DEF ReleaseFails
  <2>. QED  BY <2>1, KeepsUnmoved
<1>5. CASE StatusWriteFails(o)
  <2>1. Keeps(o)
    BY <1>5 DEF StatusWriteFails
  <2>. QED  BY <2>1, KeepsUnmoved
<1>6. CASE SweepFails(o)
  <2>1. Keeps(o)
    BY <1>6 DEF SweepFails
  <2>. QED  BY <2>1, KeepsUnmoved
<1>7. CASE Crash(o)
  <2>1. Keeps(o)
    BY <1>7 DEF Crash, Running
  <2>. QED  BY <2>1, KeepsUnmoved
<1>. QED  BY <1>1, <1>2, <1>3, <1>4, <1>5, <1>6, <1>7 DEF Failure

(* A request keeps it.                                                        *)
LEMMA MarginRequest ==
  ASSUME TypeOK, TypeOK', PhaseOK, MarginInv, NEW o \in Orders, Request(o)
  PROVE  MarginInv'
<1>. USE OrderAssumption
<1>. USE DEF TypeOK, PhaseOK, Keeps, HeldOf, Held, HoldingStates, Goto, SetStatus,
             Abandon, Fault, wallet, orders, positions, Orders
<1>1. CASE Submit(o)
  <2>1. Keeps(o)
    BY <1>1 DEF Submit
  <2>. QED  BY <2>1, KeepsUnmoved
<1>2. CASE Place(o)
  <2>1. Keeps(o)
    BY <1>2 DEF Place
  <2>. QED  BY <2>1, KeepsUnmoved
<1>3. CASE Trigger(o)
  <2>1. Keeps(o)
    BY <1>3 DEF Trigger
  <2>. QED  BY <2>1, KeepsUnmoved
<1>4. CASE CancelResting(o)
  <2>1. Keeps(o)
    BY <1>4 DEF CancelResting
  <2>. QED  BY <2>1, KeepsUnmoved
<1>5. CASE Expire(o)
  <2>1. Keeps(o)
    BY <1>5 DEF Expire
  <2>. QED  BY <2>1, KeepsUnmoved
<1>6. CASE CancelDbRead(o)
  <2>1. Keeps(o)
    BY <1>6 DEF CancelDbRead
  <2>. QED  BY <2>1, KeepsUnmoved
<1>7. CASE CancelDbWrite(o)
  <2>1. Keeps(o)
    BY <1>7 DEF CancelDbWrite
  <2>. QED  BY <2>1, KeepsUnmoved
<1>. QED  BY <1>1, <1>2, <1>3, <1>4, <1>5, <1>6, <1>7 DEF Request

(* A step of a close keeps it.                                                *)
LEMMA MarginClose ==
  ASSUME TypeOK, TypeOK', MarginInv, NEW c \in Closers, NEW o \in Orders, Close(c, o)
  PROVE  MarginInv'
<1>1. CASE SettleCommit(c, o)
  BY <1>1, Settled
<1>2. CASE ~SettleCommit(c, o)
  <2>1. UNCHANGED <<locked, pc, position, margin>>
    BY <1>2 DEF Close, BeginClose, SettleRefused, SettleAlreadyClosed, wallet, orders,
                positions
  <2>. QED  BY <2>1, Lowered DEF TypeOK
<1>. QED  BY <1>1, <1>2

(* The jobs keep it: they lower locked, and only when they run.               *)
LEMMA MarginJobs ==
  ASSUME TypeOK, TypeOK', QuietJobs, MarginInv,
         Repair \/ Recovery \/ \E o \in Orders : SweepStep(o)
  PROVE  MarginInv'
<1>1. UNCHANGED <<pc, position, margin>> /\ locked' <= locked
  <2>. USE DEF TypeOK, wallet, orders, positions
  <2>1. CASE Repair
    BY <2>1, MarginTypes DEF Repair
  <2>2. CASE Recovery
    BY <2>2 DEF Recovery, RecoveryReadWallet, RecoveryCompute, RecoveryRelease
  <2>3. ASSUME NEW o \in Orders, SweepStep(o)
        PROVE  UNCHANGED <<pc, position, margin>> /\ locked' <= locked
    <3>1. CASE SweepRelease(o)
      BY <3>1 DEF SweepRelease
    <3>. QED  BY <2>3, <3>1 DEF SweepStep, SweepSelect, SweepCheck, SweepRead,
                                SweepReject, SetStatus
  <2>. QED  BY <2>1, <2>2, <2>3
<1>2. Jobs = {} => locked' = locked
  BY DEF QuietJobs, Repair, Recovery, RecoveryReadWallet, RecoveryCompute,
         RecoveryRelease, SweepStep, SweepSelect, SweepCheck, SweepRead, SweepRelease,
         SweepReject, wallet
<1>. QED  BY <1>1, <1>2, Lowered

(* For every account, every set of orders and closers and every interleaving  *)
(* of their steps, crashes and failures: locked margin is exactly what open   *)
(* positions and entitled orders account for when no job interferes, and is   *)
(* never more than that when jobs do.                                         *)
THEOREM MarginSafe == Spec => [](NoPhantomMargin /\ MarginConserved)
<1>1. Init => MarginInv
  <2>. SUFFICES ASSUME Init PROVE MarginInv
    OBVIOUS
  <2>1. locked = 0 /\ OpenMargin \in Nat /\ HeldMargin \in Nat
    BY MarginTypes DEF Init
  <2>2. Below([o \in Orders |-> 0]) = {}
    BY DEF Below, Units
  <2>3. [o \in Orders |-> IF Held(o) THEN Estimate[o] ELSE 0] = [o \in Orders |-> 0]
    BY DEF Init, Held, HoldingStates
  <2>4. [o \in Orders |-> IF position[o] = "OPEN" THEN margin[o] ELSE 0]
          = [o \in Orders |-> 0]
    BY DEF Init
  <2>5. OpenMargin = 0 /\ HeldMargin = 0
    BY <2>2, <2>3, <2>4, FS_EmptySet DEF OpenMargin, HeldMargin, Total, Below
  <2>. QED  BY <2>1, <2>5 DEF MarginInv, NoPhantomMargin, MarginConserved
<1>2. /\ TypeOK /\ TypeOK' /\ PhaseOK /\ QuietJobs /\ MarginInv /\ [Next]_vars
      => MarginInv'
  <2>. SUFFICES ASSUME TypeOK, TypeOK', PhaseOK, QuietJobs, MarginInv, [Next]_vars
                PROVE  MarginInv'
    OBVIOUS
  <2>1. CASE Next
    BY <2>1, MarginHandler, MarginFailure, MarginRequest, MarginClose, MarginJobs DEF Next
  <2>2. CASE UNCHANGED vars
    BY <2>2, Lowered DEF vars, wallet, orders, positions, TypeOK
  <2>. QED  BY <2>1, <2>2
<1>3. MarginInv => NoPhantomMargin /\ MarginConserved
  BY DEF MarginInv
<1>. QED  BY <1>1, <1>2, <1>3, Phases, PTL DEF Spec

\* No margin is locked that neither an open position nor a resting order accounts
\* for, beside the repair, the sweep and the startup recovery as well: the half of
\* MarginSafe that the jobs of settlement/ are there for.
COROLLARY NoPhantomMarginSafe == Spec => []NoPhantomMargin
  BY MarginSafe, PTL
=============================================================================
