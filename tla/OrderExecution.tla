--------------------------- MODULE OrderExecution ---------------------------
(* Margin and order lifecycle of one client account.                          *)
(*                                                                            *)
(* The account is a WalletAccount row (balance, locked) shared by every       *)
(* handler that works for the client: market orders, resting orders and their *)
(* trigger, cancellation and expiry, position closes, and the maintenance     *)
(* jobs that repair the wallet behind their back.  A handler is a sequence of *)
(* database transactions; each transaction is one action, and between two of  *)
(* them any other handler may run, fail or lose its process.                  *)
EXTENDS Integers, FiniteSets

CONSTANTS
    MarketOrders,     \* orders executed at once (MARKET, IOC, FOK)
    LimitOrders,      \* resting orders that fill when triggered (LIMIT, STOP)
    StopLimitOrders,  \* resting orders that arm a LIMIT leg when triggered
    Closers,          \* concurrent callers of settle(): client, monitor, stop-out
    None, Refused,    \* what a closer holds besides an order
    Estimate,         \* margin required at placement, per order
    MaxMargin,        \* largest margin of one order
    FillMargins,      \* margins an order may need at its real fill price
    OpeningBalance,   \* funded balance
    Fee,              \* execution fee, charged to the balance at the fill
    Commission,       \* commission charged at the close
    ClosePnls,        \* realised profits and losses of a close, before the cap
    FloatingPnls,     \* unrealised P&L of the open positions at a lock attempt
    Jobs,             \* maintenance jobs that run, of {"repair","sweep","startup"}
    MaxCrashes,       \* bound on handlers lost to a process crash
    MaxFaults         \* bound on single database calls that fail

RestingOrders == LimitOrders \cup StopLimitOrders
Orders == MarketOrders \cup RestingOrders
Units == 1 .. MaxMargin

ASSUME OrderAssumption ==
    /\ IsFiniteSet(Orders)
    /\ MarketOrders \cap RestingOrders = {}
    /\ LimitOrders \cap StopLimitOrders = {}
    /\ None \notin Orders /\ Refused \notin Orders /\ None # Refused
ASSUME MoneyAssumption ==
    /\ MaxMargin \in Nat
    /\ Estimate \in [Orders -> Units]
    /\ FillMargins \subseteq Units
    /\ OpeningBalance \in Nat /\ Fee \in Nat /\ Commission \in Nat
    /\ ClosePnls \subseteq Int /\ FloatingPnls \subseteq Int
ASSUME BoundAssumption ==
    /\ Jobs \subseteq {"repair", "sweep", "startup"}
    /\ MaxCrashes \in Nat /\ MaxFaults \in Nat

VARIABLES
    balance, locked,  \* WalletAccount.balance and .locked
    ledger,           \* sum of the settled, balance-affecting ledger entries
    status,           \* Order.status
    pc,               \* the next transaction of the handler that owns the order
    armed,            \* stop-limit orders whose LIMIT leg is in the book
    position, margin, \* status and marginUsed of the position the order opened
    settled,          \* PNL_SETTLEMENT ledger entries written for that position
    closer,           \* position a caller of settle() is about to close
    cancelling,       \* cancelOrderDb() calls between their read and their write
    sweep,            \* stuck-order sweep, per order
    recovery,         \* startup orphan-margin release
    crashes, faults

wallet == <<balance, locked, ledger>>
orders == <<status, pc, armed>>
positions == <<position, margin, settled>>
jobs == <<sweep, recovery>>
budget == <<crashes, faults>>
vars == <<wallet, orders, positions, closer, cancelling, jobs, budget>>

(* Margin is counted in units, so that the total of a family of margins is    *)
(* the size of a set.                                                         *)
Total(f) == Cardinality({x \in Orders \X Units : x[2] <= f[x[1]]})

(* Handler states in which the estimate locked at placement is still locked.  *)
HoldingStates ==
    {"accept", "add", "resting", "arm", "armAdd", "armFailed", "check", "fill",
     "release", "rejectHeld", "cancelRelease", "expireRelease", "expireHeld",
     "stranded"}
Held(o) == o \in RestingOrders /\ pc[o] \in HoldingStates
HeldMargin == Total([o \in Orders |-> IF Held(o) THEN Estimate[o] ELSE 0])
OpenMargin ==
    Total([o \in Orders |-> IF position[o] = "OPEN" THEN margin[o] ELSE 0])

Running(o) == pc[o] \notin {"idle", "resting", "done", "stranded"}

Larger(a, b) == IF a > b THEN a ELSE b
Smaller(a, b) == IF a < b THEN a ELSE b

Init ==
    /\ balance = OpeningBalance /\ locked = 0 /\ ledger = OpeningBalance
    /\ status = [o \in Orders |-> "NONE"]
    /\ pc = [o \in Orders |-> "idle"]
    /\ armed = {}
    /\ position = [o \in Orders |-> "NONE"]
    /\ margin = [o \in Orders |-> 0]
    /\ settled = [o \in Orders |-> 0]
    /\ closer = [c \in Closers |-> None]
    /\ cancelling = {}
    /\ sweep = [o \in Orders |-> [step |-> "idle", amount |-> 0]]
    /\ recovery = [step |-> "idle", amount |-> 0]
    /\ crashes = 0 /\ faults = 0

------------------------------------------------------------------------------
(* Steps shared by the handlers.                                              *)

Goto(o, state) == pc' = [pc EXCEPT ![o] = state]
SetStatus(o, s) == status' = [status EXCEPT ![o] = s]

(* Where a handler that stops for good leaves its order.                      *)
Abandon(o) == Goto(o, IF Held(o) THEN "stranded" ELSE "done")

(* A database call of a handler fails.                                        *)
Fault == faults < MaxFaults /\ faults' = faults + 1 /\ UNCHANGED crashes

(* releaseMargin(): never below zero, whatever is asked for.                  *)
AfterReleaseUnclamped(amount) == locked - amount
AfterRelease(amount) == locked - Smaller(locked, amount)

(* Unrealised P&L as checkAndLockMargin() computed it, one statement before   *)
(* its UPDATE: the position it was read from may have been closed since.      *)
Floating == IF \E o \in Orders : position[o] # "NONE" THEN FloatingPnls ELSE {0}

(* The guard of checkAndLockMargin()'s conditional UPDATE.                    *)
CanLock(floating, lockedNow, required) ==
    /\ balance + floating > 0
    /\ balance + floating - lockedNow >= required

------------------------------------------------------------------------------
(* Market orders: _executeMarket() creates the order and runs execute().      *)

Submit(o) ==
    /\ o \in MarketOrders /\ pc[o] = "idle"
    /\ SetStatus(o, "RECEIVED") /\ Goto(o, "check")
    /\ UNCHANGED <<wallet, armed, positions, closer, cancelling, jobs, budget>>

(* Resting orders: _parkPendingOrder() creates the order, locks the estimate, *)
(* accepts the order and puts it into the pending book.                       *)

Place(o) ==
    /\ o \in RestingOrders /\ pc[o] = "idle"
    /\ SetStatus(o, "RECEIVED") /\ Goto(o, "lock")
    /\ UNCHANGED <<wallet, armed, positions, closer, cancelling, jobs, budget>>

LockEstimate(o) ==
    /\ pc[o] = "lock"
    /\ \E floating \in Floating :
        \/ /\ CanLock(floating, locked, Estimate[o])
           /\ locked' = locked + Estimate[o]
           /\ Goto(o, "accept")
        \/ /\ ~CanLock(floating, locked, Estimate[o])
           /\ UNCHANGED locked
           /\ Goto(o, "reject")
    /\ UNCHANGED <<balance, ledger, status, armed, positions, closer, cancelling,
                   jobs, budget>>

(* checkAndLockMargin() turns a database error into a refusal.                *)
LockFails(o) ==
    /\ pc[o] = "lock"
    /\ Fault
    /\ Goto(o, "reject")
    /\ UNCHANGED <<wallet, status, armed, positions, closer, cancelling, jobs>>

AcceptResting(o) ==
    /\ pc[o] = "accept"
    /\ SetStatus(o, "ACCEPTED") /\ Goto(o, "add")
    /\ UNCHANGED <<wallet, armed, positions, closer, cancelling, jobs, budget>>

AddToBook(o) ==
    /\ pc[o] = "add"
    /\ Goto(o, "resting")
    /\ UNCHANGED <<wallet, status, armed, positions, closer, cancelling, jobs, budget>>

(* add() gave up after its retries: release the margin, then reject.          *)
AddFails(o) ==
    /\ pc[o] = "add"
    /\ Fault
    /\ Goto(o, "release")
    /\ UNCHANGED <<wallet, status, armed, positions, closer, cancelling, jobs>>

------------------------------------------------------------------------------
(* A resting order leaves the book by one atomic claim of its row: a trigger, *)
(* a cancellation or an expiry.                                               *)

Trigger(o) ==
    /\ pc[o] = "resting"
    /\ Goto(o, IF o \in StopLimitOrders /\ o \notin armed THEN "arm" ELSE "check")
    /\ UNCHANGED <<wallet, status, armed, positions, closer, cancelling, jobs, budget>>

(* executePendingOrder() throws before execute(): no quote, a stale quote, a  *)
(* disabled instrument or a zero spread.  The watcher only logs it.           *)
TriggerRefused(o) ==
    /\ o \in RestingOrders /\ pc[o] = "check"
    /\ Goto(o, "stranded")
    /\ UNCHANGED <<wallet, status, armed, positions, closer, cancelling, jobs, budget>>

ArmLimit(o) ==
    /\ pc[o] = "arm"
    /\ SetStatus(o, "LIMIT_ARMED") /\ Goto(o, "armAdd")
    /\ UNCHANGED <<wallet, armed, positions, closer, cancelling, jobs, budget>>

AddArmedLimit(o) ==
    /\ pc[o] = "armAdd"
    /\ armed' = armed \cup {o} /\ Goto(o, "resting")
    /\ UNCHANGED <<wallet, status, positions, closer, cancelling, jobs, budget>>

AddArmedLimitFails(o) ==
    /\ pc[o] \in {"arm", "armAdd"}
    /\ Fault
    /\ Goto(o, "armFailed")
    /\ UNCHANGED <<wallet, status, armed, positions, closer, cancelling, jobs>>

(* The order is marked expired; nothing releases its margin.                  *)
ArmFailed(o) ==
    /\ pc[o] = "armFailed"
    /\ SetStatus(o, "LIMIT_EXPIRED") /\ Goto(o, "stranded")
    /\ UNCHANGED <<wallet, armed, positions, closer, cancelling, jobs, budget>>

(* cancel(): the book's row goes and the margin comes back; the Order row     *)
(* keeps its status.                                                          *)
CancelResting(o) ==
    /\ pc[o] = "resting"
    /\ Goto(o, "cancelRelease")
    /\ UNCHANGED <<wallet, status, armed, positions, closer, cancelling, jobs, budget>>

CancelRelease(o) ==
    /\ pc[o] = "cancelRelease"
    /\ locked' = AfterRelease(Estimate[o]) /\ Goto(o, "done")
    /\ UNCHANGED <<balance, ledger, status, armed, positions, closer, cancelling,
                   jobs, budget>>

(* _expireOrder(): claim, release, then the terminal transition.              *)
Expire(o) ==
    /\ pc[o] = "resting"
    /\ Goto(o, "expireRelease")
    /\ UNCHANGED <<wallet, status, armed, positions, closer, cancelling, jobs, budget>>

ExpireRelease(o) ==
    /\ pc[o] = "expireRelease"
    /\ locked' = AfterRelease(Estimate[o]) /\ Goto(o, "expire")
    /\ UNCHANGED <<balance, ledger, status, armed, positions, closer, cancelling,
                   jobs, budget>>

ExpireTransition(o) ==
    /\ pc[o] \in {"expire", "expireHeld"}
    /\ SetStatus(o, IF o \in armed THEN "LIMIT_EXPIRED" ELSE "CANCELLED")
    /\ Abandon(o)
    /\ UNCHANGED <<wallet, armed, positions, closer, cancelling, jobs, budget>>

------------------------------------------------------------------------------
(* execute()                                                                  *)

(* A refusal before the fill transaction: kill switch or KYC ("check"); a     *)
(* stale feed, a requote, no liquidity or a timeout ("fill").                 *)
RefuseBeforeFill(o) ==
    /\ pc[o] \in {"check", "fill"}
    /\ Goto(o, IF o \in RestingOrders THEN "release" ELSE "reject")
    /\ UNCHANGED <<wallet, status, armed, positions, closer, cancelling, jobs, budget>>

Accept(o) ==
    /\ pc[o] = "check"
    /\ SetStatus(o, "ACCEPTED") /\ Goto(o, "fill")
    /\ UNCHANGED <<wallet, armed, positions, closer, cancelling, jobs, budget>>

ReleaseEstimate(o) ==
    /\ pc[o] = "release"
    /\ locked' = AfterRelease(Estimate[o]) /\ Goto(o, "reject")
    /\ UNCHANGED <<balance, ledger, status, armed, positions, closer, cancelling,
                   jobs, budget>>

(* releaseMargin() failed for good; the callers go on without it.             *)
ReleaseFails(o) ==
    /\ Fault
    /\ \/ pc[o] = "release" /\ Goto(o, "rejectHeld")
       \/ pc[o] = "cancelRelease" /\ Goto(o, "stranded")
       \/ pc[o] = "expireRelease" /\ Goto(o, "expireHeld")
    /\ UNCHANGED <<wallet, status, armed, positions, closer, cancelling, jobs>>

Reject(o) ==
    /\ pc[o] \in {"reject", "rejectHeld"}
    /\ SetStatus(o, "REJECTED") /\ Abandon(o)
    /\ UNCHANGED <<wallet, armed, positions, closer, cancelling, jobs, budget>>

(* A status write fails: the handler ends and the order keeps its status.     *)
StatusWriteFails(o) ==
    /\ pc[o] \in {"accept", "check", "reject", "rejectHeld", "armFailed", "expire",
                 "expireHeld"}
    /\ Fault
    /\ Abandon(o)
    /\ UNCHANGED <<wallet, status, armed, positions, closer, cancelling, jobs>>

(* The fill transaction starts by releasing a resting order's estimate.       *)
NoTrueUp(o) == locked
TrueUp(o) == IF o \in RestingOrders THEN AfterRelease(Estimate[o]) ELSE locked

FillCommit(o) ==
    /\ pc[o] = "fill"
    /\ \E required \in FillMargins, floating \in Floating :
        /\ CanLock(floating, TrueUp(o), required)
        /\ locked' = TrueUp(o) + required
        /\ margin' = [margin EXCEPT ![o] = required]
    /\ balance >= Fee
    /\ balance' = balance - Fee /\ ledger' = ledger - Fee
    /\ position' = [position EXCEPT ![o] = "OPEN"]
    /\ SetStatus(o, "FILLED") /\ Goto(o, "done")
    /\ UNCHANGED <<armed, settled, closer, cancelling, jobs, budget>>

(* Not enough margin at the real price is a value, not an exception: the      *)
(* transaction commits, and with it the release of the estimate.              *)
FillInsufficient(o) ==
    /\ pc[o] = "fill"
    /\ \E required \in FillMargins, floating \in Floating :
        ~CanLock(floating, TrueUp(o), required)
    /\ locked' = TrueUp(o)
    /\ Goto(o, "reject")
    /\ UNCHANGED <<balance, ledger, status, armed, positions, closer, cancelling,
                   jobs, budget>>

(* A timeout, an exposure or concentration limit, an unpayable fee or a lost  *)
(* connection throws: everything rolls back, the estimate stays locked, and   *)
(* the order is rejected without a release.                                   *)
FillAbort(o) ==
    /\ pc[o] = "fill"
    /\ Goto(o, IF o \in RestingOrders THEN "rejectHeld" ELSE "reject")
    /\ UNCHANGED <<wallet, status, armed, positions, closer, cancelling, jobs, budget>>

(* The process running the handler dies.                                      *)
Crash(o) ==
    /\ Running(o) /\ crashes < MaxCrashes
    /\ crashes' = crashes + 1
    /\ Abandon(o)
    /\ UNCHANGED <<wallet, status, armed, positions, closer, cancelling, jobs, faults>>

------------------------------------------------------------------------------
(* Closing a position: the caller reads an OPEN position, prices it, and      *)
(* calls settle(), one transaction under a lock on the position and the       *)
(* wallet rows.                                                               *)

BeginClose(c, o) ==
    /\ closer[c] \notin Orders /\ position[o] = "OPEN"
    /\ closer' = [closer EXCEPT ![c] = o]
    /\ UNCHANGED <<wallet, orders, positions, cancelling, jobs, budget>>

(* A mutant of StillOpen: the status is not read again under the lock.        *)
StillOpenUnchecked(o) == position[o] # "NONE"
StillOpen(o) == position[o] = "OPEN"

(* applyNBP() and netCredit(): a close costs the client at most its margin.   *)
CappedPnl(o, pnl) == Larger(pnl, -margin[o])
NetCredit(o, pnl) == Larger(CappedPnl(o, pnl) - Commission, -margin[o])

(* The entries written: PNL_SETTLEMENT and COMMISSION.                        *)
LedgerDeltaWithoutCommission(o, pnl) == CappedPnl(o, pnl)
LedgerDelta(o, pnl) == CappedPnl(o, pnl) - Commission

(* The margin that comes back with the close.                                 *)
SettledLockedKeepsMargin(o) == locked
SettledLocked(o) == AfterRelease(margin[o])

SettleCommit(c, o) ==
    /\ closer[c] = o /\ StillOpen(o)
    /\ \E pnl \in ClosePnls :
        /\ balance + NetCredit(o, pnl) >= 0
        /\ balance' = balance + NetCredit(o, pnl)
        /\ ledger' = ledger + LedgerDelta(o, pnl)
    /\ locked' = SettledLocked(o)
    /\ position' = [position EXCEPT ![o] = "CLOSED"]
    /\ settled' = [settled EXCEPT ![o] = @ + 1]
    /\ closer' = [closer EXCEPT ![c] = None]
    /\ UNCHANGED <<orders, margin, cancelling, jobs, budget>>

(* The balance is incremented before a negative result is written off, so the *)
(* constraint wallet_balance_nonneg ends the transaction.                     *)
SettleRefused(c, o) ==
    /\ closer[c] = o /\ StillOpen(o)
    /\ \E pnl \in ClosePnls : balance + NetCredit(o, pnl) < 0
    /\ closer' = [closer EXCEPT ![c] = Refused]
    /\ UNCHANGED <<wallet, orders, positions, cancelling, jobs, budget>>

(* PositionAlreadyClosedError.                                                *)
SettleAlreadyClosed(c, o) ==
    /\ closer[c] = o /\ ~StillOpen(o)
    /\ closer' = [closer EXCEPT ![c] = None]
    /\ UNCHANGED <<wallet, orders, positions, cancelling, jobs, budget>>

------------------------------------------------------------------------------
(* cancelOrderDb(): reads the status, then writes CANCELLED whatever became   *)
(* of the order meanwhile.  Neither the book nor the margin is touched.       *)

CancelDbRead(o) ==
    /\ o \notin cancelling /\ status[o] \in {"RECEIVED", "ACCEPTED"}
    /\ cancelling' = cancelling \cup {o}
    /\ UNCHANGED <<wallet, orders, positions, closer, jobs, budget>>

CancelDbWrite(o) ==
    /\ o \in cancelling
    /\ cancelling' = cancelling \ {o}
    /\ SetStatus(o, "CANCELLED")
    /\ UNCHANGED <<wallet, pc, armed, positions, closer, jobs, budget>>

------------------------------------------------------------------------------
(* Maintenance jobs.                                                          *)

(* repairOrphanMargin(): every five minutes for a wallet whose locked margin  *)
(* exceeds its open positions, and at once when a release ran out of retries. *)
Repair ==
    /\ "repair" \in Jobs /\ locked > OpenMargin
    /\ locked' = OpenMargin
    /\ UNCHANGED <<balance, ledger, orders, positions, closer, cancelling, jobs, budget>>

(* Orders old enough for the stuck-order sweep: those whose handler is gone,  *)
(* and resting orders however long ago they were placed.                      *)
Aged(o) == \/ pc[o] \in {"resting", "done", "stranded"}
           \/ o \in RestingOrders /\ pc[o] = "fill"

SweepTo(o, step, amount) ==
    sweep' = [sweep EXCEPT ![o] = [step |-> step, amount |-> amount]]

(* A mutant of Swept: only orders that may hold margin.                       *)
SweptAcceptedOnly(o) == status[o] = "ACCEPTED"
Swept(o) == status[o] \in {"RECEIVED", "ACCEPTED"}

SweepSelect(o) ==
    /\ "sweep" \in Jobs /\ sweep[o].step = "idle"
    /\ Swept(o) /\ Aged(o)
    /\ SweepTo(o, IF status[o] = "ACCEPTED" THEN "check" ELSE "reject", 0)
    /\ UNCHANGED <<wallet, orders, positions, closer, cancelling, recovery, budget>>

SweepCheck(o) ==
    /\ sweep[o].step = "check"
    /\ SweepTo(o, IF position[o] = "NONE" THEN "read" ELSE "reject", 0)
    /\ UNCHANGED <<wallet, orders, positions, closer, cancelling, recovery, budget>>

(* The clamp is computed from a plain read of locked ...                      *)
SweepRead(o) ==
    /\ sweep[o].step = "read"
    /\ IF locked = 0 THEN SweepTo(o, "reject", 0)
       ELSE SweepTo(o, "release", Smaller(locked, Estimate[o]))
    /\ UNCHANGED <<wallet, orders, positions, closer, cancelling, recovery, budget>>

(* ... and applied to whatever locked is by then: the constraint              *)
(* wallet_locked_nonneg ends the transaction if it is too much.               *)
SweepRelease(o) ==
    /\ sweep[o].step = "release"
    /\ locked' = IF locked >= sweep[o].amount THEN locked - sweep[o].amount ELSE locked
    /\ SweepTo(o, "reject", 0)
    /\ UNCHANGED <<balance, ledger, orders, positions, closer, cancelling, recovery,
                   budget>>

SweepReject(o) ==
    /\ sweep[o].step = "reject"
    /\ SetStatus(o, "REJECTED")
    /\ SweepTo(o, "idle", 0)
    /\ UNCHANGED <<wallet, pc, armed, positions, closer, cancelling, recovery, budget>>

(* A failed release is logged and the order rejected all the same; any other  *)
(* failure ends the sweep, and the next one starts over with the order.       *)
SweepFails(o) ==
    /\ sweep[o].step # "idle"
    /\ Fault
    /\ SweepTo(o, IF sweep[o].step \in {"read", "release"} THEN "reject" ELSE "idle", 0)
    /\ UNCHANGED <<wallet, orders, positions, closer, cancelling, recovery>>

(* run() at startup: reads every wallet, later sums its open positions, later *)
(* still takes the difference off locked, while other replicas trade.         *)
RecoverTo(step, amount) == recovery' = [step |-> step, amount |-> amount]

RecoveryReadWallet ==
    /\ "startup" \in Jobs /\ recovery.step = "idle"
    /\ RecoverTo("read", locked)
    /\ UNCHANGED <<wallet, orders, positions, closer, cancelling, sweep, budget>>

RecoveryCompute ==
    /\ recovery.step = "read"
    /\ IF recovery.amount > OpenMargin
       THEN RecoverTo("release", recovery.amount - OpenMargin)
       ELSE RecoverTo("idle", 0)
    /\ UNCHANGED <<wallet, orders, positions, closer, cancelling, sweep, budget>>

RecoveryRelease ==
    /\ recovery.step = "release"
    /\ locked' = IF locked >= recovery.amount THEN locked - recovery.amount ELSE locked
    /\ RecoverTo("idle", 0)
    /\ UNCHANGED <<balance, ledger, orders, positions, closer, cancelling, sweep, budget>>

------------------------------------------------------------------------------
HandlerStep(o) ==
    \/ LockEstimate(o) \/ AcceptResting(o) \/ AddToBook(o)
    \/ TriggerRefused(o) \/ ArmLimit(o) \/ AddArmedLimit(o) \/ ArmFailed(o)
    \/ CancelRelease(o) \/ ExpireRelease(o) \/ ExpireTransition(o)
    \/ RefuseBeforeFill(o) \/ Accept(o) \/ ReleaseEstimate(o) \/ Reject(o)
    \/ FillCommit(o) \/ FillInsufficient(o) \/ FillAbort(o)

Failure(o) ==
    \/ LockFails(o) \/ AddFails(o) \/ AddArmedLimitFails(o) \/ ReleaseFails(o)
    \/ StatusWriteFails(o) \/ SweepFails(o) \/ Crash(o)

Request(o) ==
    \/ Submit(o) \/ Place(o) \/ Trigger(o) \/ CancelResting(o) \/ Expire(o)
    \/ CancelDbRead(o) \/ CancelDbWrite(o)

Close(c, o) ==
    \/ BeginClose(c, o) \/ SettleCommit(c, o) \/ SettleRefused(c, o)
    \/ SettleAlreadyClosed(c, o)

SweepStep(o) ==
    \/ SweepSelect(o) \/ SweepCheck(o) \/ SweepRead(o) \/ SweepRelease(o)
    \/ SweepReject(o)

Recovery == RecoveryReadWallet \/ RecoveryCompute \/ RecoveryRelease

Next ==
    \/ \E o \in Orders : HandlerStep(o) \/ Failure(o) \/ Request(o) \/ SweepStep(o)
    \/ \E c \in Closers, o \in Orders : Close(c, o)
    \/ Repair \/ Recovery

Spec == Init /\ [][Next]_vars

(* A handler that was not lost goes on, and the sweep runs every two minutes. *)
(* Nothing makes a client close, cancel, or a resting order trigger.          *)
Fairness ==
    /\ \A o \in Orders : WF_vars(HandlerStep(o)) /\ WF_vars(SweepStep(o))
FairSpec == Spec /\ Fairness

------------------------------------------------------------------------------
(* What holds.                                                                *)

HandlerStates ==
    HoldingStates \cup {"idle", "lock", "reject", "expire", "done"}
Statuses ==
    {"NONE", "RECEIVED", "ACCEPTED", "FILLED", "REJECTED", "CANCELLED", "LIMIT_ARMED",
     "LIMIT_EXPIRED"}

(* Every variable keeps its shape; balance and locked stay above zero, as the *)
(* constraints of WalletAccount demand.                                       *)
TypeOK ==
    /\ balance \in Nat /\ locked \in Nat /\ ledger \in Int
    /\ status \in [Orders -> Statuses]
    /\ pc \in [Orders -> HandlerStates]
    /\ armed \subseteq Orders
    /\ position \in [Orders -> {"NONE", "OPEN", "CLOSED"}]
    /\ margin \in [Orders -> 0 .. MaxMargin]
    /\ settled \in [Orders -> Nat]
    /\ closer \in [Closers -> Orders \cup {None, Refused}]
    /\ cancelling \subseteq Orders
    /\ sweep \in [Orders -> [step : {"idle", "check", "read", "release", "reject"},
                             amount : Nat]]
    /\ recovery \in [step : {"idle", "read", "release"}, amount : Nat]
    /\ crashes \in 0 .. MaxCrashes /\ faults \in 0 .. MaxFaults

(* Without the maintenance jobs the locked margin is, at every moment, that   *)
(* of the open positions plus that of the orders still entitled to their      *)
(* estimate: no interleaving of placements, fills, cancellations, expiries,   *)
(* closes, crashes and failed calls locks twice or releases twice.            *)
MarginConserved == Jobs = {} => locked = OpenMargin + HeldMargin

(* With the jobs running, margin may come back too early but is never locked  *)
(* for nothing: an account without orders and positions has all of it back.   *)
NoPhantomMargin == locked <= OpenMargin + HeldMargin

(* A position is settled exactly once, however many callers of settle() race  *)
(* for it, and never before it is closed.                                     *)
SettledOnce ==
    \A o \in Orders : settled[o] = IF position[o] = "CLOSED" THEN 1 ELSE 0

(* The ledger entries never promise the client more than the balance pays.    *)
LedgerNeverOverstates == ledger <= balance

(* An order whose handler is gone does not stay RECEIVED or ACCEPTED.         *)
StuckOrdersResolved ==
    \A o \in Orders :
        status[o] \in {"RECEIVED", "ACCEPTED"} ~> status[o] \notin {"RECEIVED", "ACCEPTED"}

------------------------------------------------------------------------------
(* What the code's comments and checks claim, and the code does not keep.     *)

(* settlement.engine.ts:10-15: a loss beyond the balance is absorbed by the   *)
(* broker, so the close of an open position goes through.                     *)
NoCloseRefused == \A c \in Closers : closer[c] # Refused

(* reconciliation.engine.ts:175: the balance equals the sum of the ledger.    *)
LedgerMatchesBalance == balance = ledger

(* execution.engine.ts:340-342: when the real margin is not available, the    *)
(* estimate of the resting order stays locked exactly as it was.              *)
InsufficientMarginKeepsEstimate ==
    [][\A o \in RestingOrders : FillInsufficient(o) => locked' = locked]_vars

(* execution.engine.ts:150: FILLED -> REJECTED never happens.                 *)
FilledNeverRejected ==
    [][\A o \in Orders : status[o] = "FILLED" => status'[o] # "REJECTED"]_vars

(* order.controller.ts:559: a resting order has its margin genuinely locked.  *)
RestingBacked ==
    \A o \in RestingOrders : pc[o] = "resting" => locked >= OpenMargin + Estimate[o]
=============================================================================
