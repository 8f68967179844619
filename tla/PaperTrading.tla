---------------------------- MODULE PaperTrading ----------------------------
(***************************************************************************)
(* The simulated account of a client (paper-trading/paper.trading.service  *)
(* .ts) with a database: one wallet row, one row per position, and         *)
(* requests that read the wallet, compute, and write it back whole with    *)
(* nothing between them.  Without prices of its own, a request brings the  *)
(* price it trades at.                                                     *)
(***************************************************************************)
EXTENDS Integers, FiniteSetsExt

CONSTANTS
    PaperCalls,             \* requests at once
    PaperPrices, HalfSpreadOfPaper,
    PAPER_START_BALANCE, PaperLeverage,
    MaxPaperCalls

ASSUME PaperAssumption ==
    /\ PaperPrices \subseteq Nat /\ HalfSpreadOfPaper \in Nat
    /\ PAPER_START_BALANCE \in Nat /\ PaperLeverage \in Nat \ {0}

VARIABLES
    paper,          \* the wallet's row: [balance, margin, total]
    holdings,       \* rows of positions: [id, direction, entry, margin]
    paperCall,      \* request -> [pc, kind, price, direction, wallet, rows, alone]
    paperIds,       \* positions opened
    realized,       \* history: profit of the positions closed since the last reset
    muddled,        \* history: requests met, or one broke off, since the last reset alone
    paperCalls
paperVars == <<paper, holdings, paperCall, paperIds, realized, muddled, paperCalls>>

FreshWallet == [balance |-> PAPER_START_BALANCE, margin |-> 0, total |-> 0]
NoCall == [pc |-> "idle", kind |-> "none", price |-> 0, direction |-> 1, wallet |-> FreshWallet,
           rows |-> {}, alone |-> FALSE]
PaperInit ==
    /\ paper = FreshWallet /\ holdings = {}
    /\ paperCall = [c \in PaperCalls |-> NoCall]
    /\ paperIds = 0 /\ realized = 0 /\ muddled = FALSE /\ paperCalls = 0
---------------------------------------------------------------------------
AtWork == {c \in PaperCalls : paperCall[c].pc # "idle"}
Ended(c) == paperCall' = [paperCall EXCEPT ![c] = NoCall]
Goes(c, pc) == paperCall' = [paperCall EXCEPT ![c].pc = pc]

\* A request arrives at its route.  closePosition() is asked for a position the
\* client has been shown.
Arrive(c, kind, price, direction, rows) ==
    /\ paperCall[c].pc = "idle" /\ paperCalls < MaxPaperCalls
    /\ paperCalls' = paperCalls + 1
    /\ paperCall' = [d \in PaperCalls |->
          IF d = c THEN [NoCall EXCEPT !.pc = "reading", !.kind = kind, !.price = price,
                             !.direction = direction, !.rows = rows, !.alone = AtWork = {}]
          ELSE [paperCall[d] EXCEPT !.alone = FALSE]]
    /\ muddled' = (muddled \/ AtWork # {})
    /\ UNCHANGED <<paper, holdings, paperIds, realized>>

\* getWallet(): the row as it is, its free margin computed again.
ReadWallet(c) ==
    /\ paperCall[c].pc = "reading"
    /\ paperCall' = [paperCall EXCEPT ![c].wallet = paper, ![c].pc = paperCall[c].kind]
    /\ UNCHANGED <<paper, holdings, paperIds, realized, muddled, paperCalls>>
SpareMargin(w) == IF w.balance > w.margin THEN w.balance - w.margin ELSE 0

\* placeOrder(): the margin is asked of the wallet that was read, and the wallet
\* is saved before the position.
MarginOf(c) == paperCall[c].price \div PaperLeverage
EntryOf(c) == paperCall[c].price + paperCall[c].direction * HalfSpreadOfPaper
PlacePaper(c) ==
    /\ paperCall[c].pc = "open"
    /\ IF MarginOf(c) > SpareMargin(paperCall[c].wallet)
       THEN Ended(c) /\ UNCHANGED paper
       ELSE /\ paper' = [paperCall[c].wallet EXCEPT !.margin = @ + MarginOf(c)]
            /\ Goes(c, "saving")
    /\ UNCHANGED <<holdings, paperIds, realized, muddled, paperCalls>>
SavePosition(c) ==
    /\ paperCall[c].pc = "saving"
    /\ paperIds' = paperIds + 1
    /\ holdings' = holdings \cup {[id |-> paperIds, direction |-> paperCall[c].direction,
                                   entry |-> EntryOf(c), margin |-> MarginOf(c)]}
    /\ Ended(c)
    /\ UNCHANGED <<paper, realized, muddled, paperCalls>>

\* closePosition(): the position is looked up, the wallet settled and saved, and
\* only then the position goes.
LookUpPosition(c) ==
    /\ paperCall[c].pc = "close"
    /\ IF paperCall[c].rows \subseteq holdings THEN Goes(c, "settling") ELSE Ended(c)
    /\ UNCHANGED <<paper, holdings, paperIds, realized, muddled, paperCalls>>
CalculatePnl(p, price) == p.direction * (price - p.direction * HalfSpreadOfPaper - p.entry)
Settled(w, p, pnl) ==
    [balance |-> w.balance + p.margin + pnl, total |-> w.total + pnl,
     margin |-> IF w.margin > p.margin THEN w.margin - p.margin ELSE 0]
SettlePaper(c) ==
    /\ paperCall[c].pc = "settling"
    /\ \E p \in paperCall[c].rows :
          LET pnl == CalculatePnl(p, paperCall[c].price)
          IN  /\ paper' = Settled(paperCall[c].wallet, p, pnl)
              /\ realized' = realized + pnl
    /\ Goes(c, "removing")
    /\ UNCHANGED <<holdings, paperIds, muddled, paperCalls>>
RemoveClosed(c) ==
    /\ paperCall[c].pc = "removing" /\ paperCall[c].kind = "close"
    /\ holdings' = holdings \ paperCall[c].rows
    /\ Ended(c)
    /\ UNCHANGED <<paper, paperIds, realized, muddled, paperCalls>>

\* resetWallet(): the positions of a moment go one by one, and the wallet is
\* saved new.
ListPositions(c) ==
    /\ paperCall[c].pc = "reset"
    /\ paperCall' = [paperCall EXCEPT ![c].rows = holdings, ![c].pc = "removing"]
    /\ UNCHANGED <<paper, holdings, paperIds, realized, muddled, paperCalls>>
RemoveNext(c) ==
    /\ paperCall[c].pc = "removing" /\ paperCall[c].kind = "reset"
    /\ \E p \in paperCall[c].rows :
          /\ holdings' = holdings \ {p}
          /\ paperCall' = [paperCall EXCEPT ![c].rows = @ \ {p}]
    /\ UNCHANGED <<paper, paperIds, realized, muddled, paperCalls>>
SaveReset(c) ==
    /\ paperCall[c].pc = "removing" /\ paperCall[c].kind = "reset" /\ paperCall[c].rows = {}
    /\ paper' = FreshWallet /\ realized' = 0
    /\ muddled' = (muddled /\ ~paperCall[c].alone)
    /\ Ended(c)
    /\ UNCHANGED <<holdings, paperIds, paperCalls>>

\* A write fails, or the process ends, between two of the writes.
BreaksOff(c) ==
    /\ paperCall[c].pc # "idle" /\ muddled' = TRUE
    /\ Ended(c)
    /\ UNCHANGED <<paper, holdings, paperIds, realized, paperCalls>>

PaperNext ==
    \E c \in PaperCalls :
       \/ \E price \in PaperPrices :
             \/ \E direction \in {-1, 1} : Arrive(c, "open", price, direction, {})
             \/ \E p \in holdings : Arrive(c, "close", price, 1, {p})
       \/ Arrive(c, "reset", 0, 1, {})
       \/ ReadWallet(c) \/ PlacePaper(c) \/ SavePosition(c)
       \/ LookUpPosition(c) \/ SettlePaper(c) \/ RemoveClosed(c)
       \/ ListPositions(c) \/ RemoveNext(c) \/ SaveReset(c) \/ BreaksOff(c)
---------------------------------------------------------------------------
\* While requests come one at a time, the margin that is held is that of the
\* positions that are open and the profit that of those that closed; and a reset
\* that meets no other request puts right whatever met before it
\* (paper.trading.service.ts:161-281).
PaperAddsUp ==
    AtWork = {} /\ ~muddled =>
        /\ paper.margin = MapThenSumSet(LAMBDA p : p.margin, holdings)
        /\ paper.total = realized

\* What an account is: its balance is what it began with and what it earned.
\* The code gives back a margin that the balance was never charged.
BalanceIsEarned ==
    AtWork = {} /\ ~muddled => paper.balance = PAPER_START_BALANCE + paper.total
=============================================================================
