--------------------------- MODULE WalletLedger ---------------------------
(***************************************************************************)
(* The wallet of one client and its ledger: the operations of              *)
(* WalletRepository, the free margin of BalanceCalculator and the account  *)
(* statement of LedgerService.  Every operation is one SERIALIZABLE        *)
(* transaction, hence one step; withSerializableRetry repeats an aborted   *)
(* one, which leaves no trace.  PspDeposits and LedgerRequests post to     *)
(* this ledger from inside transactions of their own.                      *)
(***************************************************************************)
EXTENDS Integers, Sequences, FiniteSets

VARIABLES
    balance,        \* WalletAccount.balance
    locked,         \* WalletAccount.locked
    ledger          \* the COMPLETED LedgerEntry rows, in order of creation

walletVars == <<balance, locked, ledger>>

\* runningBalance is null on the entries that move margin only.
NoRunning == -1

Types == {"DEPOSIT_CREDIT", "ADMIN_CAPITAL_ALLOCATION", "WITHDRAW_REQUEST",
          "ADJUSTMENT", "COMMISSION", "PNL_SETTLEMENT",
          "MARGIN_RESERVED", "MARGIN_RELEASED"}

WalletInit == balance = 0 /\ locked = 0 /\ ledger = <<>>

Row(type, ref, amount, running) ==
    [type |-> type, ref |-> ref, amount |-> amount, running |-> running]

\* credit(): the balance and its entry, which carries the new balance.
Credit(type, ref, amount) ==
    /\ amount > 0
    /\ balance' = balance + amount
    /\ ledger' = Append(ledger, Row(type, ref, amount, balance + amount))
    /\ UNCHANGED locked

\* debit(): refused when the balance does not cover it.
Debit(type, ref, amount) ==
    /\ amount > 0
    /\ balance >= amount
    /\ balance' = balance - amount
    /\ ledger' = Append(ledger, Row(type, ref, -amount, balance - amount))
    /\ UNCHANGED locked

\* lockMargin(): moves nothing but "locked"; its entry has no running balance.
LockMargin(ref, amount) ==
    /\ balance - locked >= amount
    /\ locked' = locked + amount
    /\ ledger' = Append(ledger, Row("MARGIN_RESERVED", ref, -amount, NoRunning))
    /\ UNCHANGED balance

\* releaseMargin(): never below zero, and no entry when nothing is left.
ReleaseMargin(ref, amount) ==
    LET safe == IF locked < amount THEN locked ELSE amount
    IN  /\ safe > 0
        /\ locked' = locked - safe
        /\ ledger' = Append(ledger, Row("MARGIN_RELEASED", ref, safe, NoRunning))
        /\ UNCHANGED balance

\* BalanceCalculator.compute(): pnl is the profit of the open positions that
\* have a quote.
FreeMargin(pnl) ==
    IF balance + pnl > locked THEN balance + pnl - locked ELSE 0

\* The places in the ledger of a reference's entries, and a sum of amounts.
Posted(ref) == {i \in 1 .. Len(ledger) : ledger[i].ref = ref}

Total(v) ==
    LET upTo[n \in 0 .. Len(v)] == IF n = 0 THEN 0 ELSE upTo[n - 1] + v[n]
    IN  upTo[Len(v)]

---------------------------------------------------------------------------
(* getStatement(): the period that begins after the first k entries and    *)
(* lasts until now.                                                        *)

PnlTypes == {"PNL_SETTLEMENT"}
DepositTypesWithoutPsp == {"ADMIN_CAPITAL_ALLOCATION"}
DepositTypes == {"ADMIN_CAPITAL_ALLOCATION", "DEPOSIT_CREDIT"}

AbsAmount(n) == IF n < 0 THEN -n ELSE n

\* What an entry adds to the net change of its period.
NetEffect(e) ==
    CASE e.type \in PnlTypes -> e.amount
      [] e.type = "COMMISSION" -> -AbsAmount(e.amount)
      [] e.type \in DepositTypes -> IF e.amount > 0 THEN e.amount ELSE 0
      [] e.type = "WITHDRAW_REQUEST" -> IF e.amount < 0 THEN e.amount ELSE 0
      [] e.type = "ADJUSTMENT" -> e.amount
      [] OTHER -> 0

Opening(k) ==
    IF k = 0 \/ ledger[k].running = NoRunning THEN 0 ELSE ledger[k].running

Statement(k) ==
    LET period == SubSeq(ledger, k + 1, Len(ledger))
    IN  [opening |-> Opening(k),
         closing |-> balance,
         netChange |-> Total([i \in 1 .. Len(period) |-> NetEffect(period[i])])]

\* A statement adds up: opening balance plus net change is the closing
\* balance, whatever was posted in the period and wherever it begins, as long
\* as the last entry before it carries a running balance (a margin entry does
\* not, and the opening balance is then reported as 0: ledger.service.ts:305).
StatementReconciles ==
    \A k \in 0 .. Len(ledger) :
        (k = 0 \/ ledger[k].running # NoRunning) =>
            LET s == Statement(k) IN s.opening + s.netChange = s.closing
===========================================================================
