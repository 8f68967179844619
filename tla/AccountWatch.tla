----------------------------- MODULE AccountWatch -----------------------------
(***************************************************************************)
(* The three guards over the open positions of one account: the monitor    *)
(* that reacts to every quote (trading-service/position.price.monitor.ts), *)
(* the margin check that liquidates (stopout.engine.ts) and the periodic   *)
(* watchdog for missed stops (risk-service/liquidation.engine.ts).  Each   *)
(* works on figures it read earlier; they meet, and meet the user's own    *)
(* closings, in the settlement of a position, one transaction.             *)
(***************************************************************************)
EXTENDS Integers, FiniteSets, FiniteSetsExt, Functions

CONSTANTS
    Entry,          \* position, numbered by age -> its entry price
    Margin,         \* position -> marginUsed
    Stop,           \* position -> its stop loss, or 0 for none
    Later,          \* positions that are opened later
    Deposit,        \* the account's balance at the start
    Quotes,         \* the prices a quote may carry
    MaxQuotes,
    MaxWatchFaults, \* failed settlements, symbols halted, quotes gone stale
    Unknown         \* a figure that is not there

\* Every position is a long one of size 1 on a symbol of its own.
Held == DOMAIN Entry

ASSUME WatchAssumption ==
    /\ Held \subseteq Nat \ {0} /\ IsFiniteSet(Held)
    /\ Margin \in [Held -> Nat \ {0}] /\ Stop \in [Held -> Nat]
    /\ 0 \notin Quotes /\ Quotes \subseteq Nat /\ Deposit \in Nat
    /\ Entry \in [Held -> Nat \ {0}] /\ Later \subseteq Held /\ Unknown \notin Int

Guards == {"tick", "scan"}

VARIABLES
    unborn,         \* positions not yet opened
    open, balance,  \* the database
    price,          \* position -> the cached quote of its symbol
    live,           \* positions whose symbol has a fresh quote
    enabled,        \* positions whose symbol may be traded
    tracked,        \* the monitor's cache: position -> its P&L, or Unknown
    settling,       \* position -> the exit price of its triggered stop, or 0
    wallet,         \* the monitor's copy of [balance, locked]
    check,          \* margin check under way, of a quote or of the scan
    needless,       \* history: liquidated with the account at 50 % or above
    quoted, watchFaults

watchVars == <<unborn, open, balance, price, live, enabled, tracked, settling,
               wallet, check, needless, quoted, watchFaults>>
monitor == <<tracked, settling, wallet>>
market == <<price, live, enabled, quoted>>

WatchFault == watchFaults < MaxWatchFaults /\ watchFaults' = watchFaults + 1
Total(f, S) == FoldFunctionOnSet(LAMBDA a, b : a + b, 0, f, S)

NoCheck == [pc |-> "none", balance |-> Unknown, pnl |-> << >>, rest |-> {},
            unrealized |-> 0, margin |-> 0, alone |-> TRUE]

WatchInit ==
    /\ unborn = Later /\ open = Held \ Later /\ balance = Deposit
    /\ price = Entry /\ live = Held /\ enabled = Held
    /\ tracked = [p \in Held |-> IF p \in Later THEN Unknown ELSE 0]
    /\ settling = [p \in Held |-> 0]
    /\ wallet = [balance |-> Deposit, locked |-> Total(Margin, Held \ Later)]
    /\ check = [g \in Guards |-> NoCheck]
    /\ needless = {}
    /\ quoted = 0 /\ watchFaults = 0
---------------------------------------------------------------------------
Cached == {p \in Held : tracked[p] # Unknown}

\* A fill: wallet.event MARGIN_LOCK reaches the monitor, and position.opened has
\* it load the position, which may fail.
OpenPosition(p) ==
    /\ p \in unborn
    /\ Total(Margin, open \cup {p}) <= balance
    /\ unborn' = unborn \ {p} /\ open' = open \cup {p}
    /\ wallet' = [wallet EXCEPT !.locked = @ + Margin[p]]
    /\ \/ tracked' = [tracked EXCEPT ![p] = price[p] - Entry[p]] /\ UNCHANGED watchFaults
       \/ WatchFault /\ UNCHANGED tracked
    /\ UNCHANGED <<balance, market, settling, check, needless>>

\* reconcile(): an open position that is not cached.
Reconcile(p) ==
    /\ p \in open \ Cached
    /\ tracked' = [tracked EXCEPT ![p] = price[p] - Entry[p]]
    /\ UNCHANGED <<unborn, open, balance, market, settling, wallet, check, needless,
                   watchFaults>>

\* _refreshWallet(), some time after a closing or a check.
Actual == [balance |-> balance, locked |-> Total(Margin, open)]
RefreshWallet ==
    /\ wallet # Actual
    /\ wallet' = Actual
    /\ UNCHANGED <<unborn, open, balance, market, tracked, settling, check, needless,
                   watchFaults>>

\* SettlementEngine.settle() at an exit price: the loss stops at the balance.
\* position.closed empties the cache and has the wallet read again.
Settle(p, exit) ==
    /\ open' = open \ {p}
    /\ balance' = Max({0, balance + exit - Entry[p]})
    /\ tracked' = [tracked EXCEPT ![p] = Unknown]
    /\ wallet' = [wallet EXCEPT !.locked = Max({0, @ - Margin[p]})]
Disturbed(c) == [g \in Guards |-> [c[g] EXCEPT !.alone = @ /\ c[g].pc = "none"]]

CloseByUser(p) ==
    /\ p \in open \cap enabled \cap live
    /\ Settle(p, price[p])
    /\ check' = Disturbed(check)
    /\ UNCHANGED <<unborn, market, settling, needless, watchFaults>>
---------------------------------------------------------------------------
BelowZero(equity, margin) == margin > 0 /\ equity < 0
\* Stop-out: below 50 % of the margin in use.
Below50(equity, margin) == margin > 0 /\ 2 * equity < margin

\* _onQuote(): a stop that is hit is settled next, any other position takes its
\* new P&L, and a check starts when the cached figures fall to the threshold.
StopHit(p, bid) == Stop[p] > 0 /\ bid <= Stop[p]

CrossesThreshold(equity) == wallet.locked > 0 /\ 2 * equity <= wallet.locked

Quote(p, bid) ==
    /\ quoted < MaxQuotes
    /\ quoted' = quoted + 1
    /\ price' = [price EXCEPT ![p] = bid]
    /\ live' = live \cup {p}
    /\ LET triggers == /\ p \in Cached /\ StopHit(p, bid)
                       /\ settling[p] = 0 /\ p \in enabled
           pnl == IF p \in Cached /\ ~triggers
                  THEN [tracked EXCEPT ![p] = bid - Entry[p]] ELSE tracked
           equity == wallet.balance + Total(pnl, Cached)
       IN  /\ tracked' = pnl
           /\ settling' = IF triggers THEN [settling EXCEPT ![p] = bid] ELSE settling
           /\ check' = IF /\ p \in Cached /\ ~triggers
                          /\ check["tick"].pc = "none"
                          /\ CrossesThreshold(equity)
                       THEN [check EXCEPT !["tick"] = [NoCheck EXCEPT !.pc = "reading"]]
                       ELSE check
    /\ UNCHANGED <<unborn, open, balance, enabled, wallet, needless, watchFaults>>

\* The feed of a symbol stops, or the symbol is halted; both come back.
Unavailable(p) ==
    /\ WatchFault
    /\ \/ live' = live \ {p} /\ UNCHANGED enabled
       \/ enabled' = enabled \ {p} /\ UNCHANGED live
    /\ UNCHANGED <<unborn, open, balance, price, quoted, monitor, check, needless>>
Available(p) ==
    /\ p \notin live \cap enabled
    /\ live' = live \cup {p} /\ enabled' = enabled \cup {p}
    /\ UNCHANGED <<unborn, open, balance, price, quoted, monitor, check, needless,
                   watchFaults>>

\* _triggerSettlement(): closed by now or by somebody else, the position leaves
\* the cache; on any other error a later quote tries again.
TriggerSettlement(p) ==
    /\ settling[p] > 0
    /\ settling' = [settling EXCEPT ![p] = 0]
    /\ \/ /\ p \in open
          /\ Settle(p, settling[p])
          /\ check' = Disturbed(check)
          /\ UNCHANGED watchFaults
       \/ /\ p \notin open
          /\ tracked' = [tracked EXCEPT ![p] = Unknown]
          /\ UNCHANGED <<open, balance, wallet, check, watchFaults>>
       \/ /\ WatchFault
          /\ UNCHANGED <<open, balance, tracked, wallet, check>>
    /\ UNCHANGED <<unborn, market, needless>>
---------------------------------------------------------------------------
\* scanAll(), every 30 s under its job lease.
StartScan ==
    /\ check["scan"].pc = "none"
    /\ open # {}
    /\ check' = [check EXCEPT !["scan"] = [NoCheck EXCEPT !.pc = "reading"]]
    /\ UNCHANGED <<unborn, open, balance, market, monitor, needless, watchFaults>>

\* checkUser() reads the wallet and the positions in two queries at once; a
\* symbol without a fresh quote counts for nothing.
ReadWallet(g) ==
    /\ check[g].pc = "reading" /\ check[g].balance = Unknown
    /\ check' = [check EXCEPT ![g].balance = balance]
    /\ UNCHANGED <<unborn, open, balance, market, monitor, needless, watchFaults>>

Assess(g) ==
    LET c == check[g]
        pnl == [p \in open |-> IF p \in live THEN price[p] - Entry[p] ELSE Unknown]
        unrealized == Total(pnl, open \cap live)
        margin == Total(Margin, open)
    IN  /\ c.pc = "reading" /\ c.balance # Unknown
        /\ check' = [check EXCEPT ![g] =
                        [c EXCEPT !.pc = IF Below50(c.balance + unrealized, margin)
                                         THEN "closing" ELSE "done",
                                  !.pnl = pnl, !.rest = open,
                                  !.unrealized = unrealized, !.margin = margin]]
        /\ UNCHANGED <<unborn, open, balance, market, monitor, needless, watchFaults>>

\* The largest loss first, the oldest of equals.
Worst(c) ==
    CHOOSE p \in c.rest : \A q \in c.rest :
        LET gain(x) == IF c.pnl[x] = Unknown THEN 0 ELSE c.pnl[x]
        IN  gain(p) < gain(q) \/ (gain(p) = gain(q) /\ p <= q)

\* The account as the check's prices have it, at the moment of a closing.
TrueEquity(c) == balance + Total([p \in open |-> IF p \in DOMAIN c.pnl /\ c.pnl[p] # Unknown
                                                 THEN c.pnl[p] ELSE 0], open)

MarginLeftStale(c, p) == c.margin
MarginLeft(c, p) == c.margin - Margin[p]

Liquidate(g) ==
    LET c == check[g]
        p == Worst(c)
        next == [c EXCEPT !.rest = @ \ {p}]
        closed == [next EXCEPT !.unrealized = @ - c.pnl[p], !.margin = MarginLeft(c, p)]
    IN  /\ c.pc = "closing" /\ c.rest # {} /\ Below50(c.balance + c.unrealized, c.margin)
        /\ \/ /\ c.pnl[p] = Unknown \/ p \notin enabled
              /\ check' = [check EXCEPT ![g] = next]
              /\ UNCHANGED <<open, balance, tracked, wallet, needless, watchFaults>>
           \/ /\ c.pnl[p] # Unknown /\ p \in enabled /\ p \in open
              /\ Settle(p, Entry[p] + c.pnl[p])
              /\ check' = [Disturbed(check) EXCEPT ![g] =
                              [closed EXCEPT !.balance = balance']]
              /\ needless' = IF c.alone /\ ~Below50(TrueEquity(c), Total(Margin, open))
                             THEN needless \cup {p} ELSE needless
              /\ UNCHANGED watchFaults
           \/ /\ c.pnl[p] # Unknown /\ p \in enabled /\ p \notin open
              /\ check' = [check EXCEPT ![g] = closed]
              /\ UNCHANGED <<open, balance, tracked, wallet, needless, watchFaults>>
           \/ /\ c.pnl[p] # Unknown /\ p \in enabled
              /\ WatchFault
              /\ check' = [check EXCEPT ![g] = next]
              /\ UNCHANGED <<open, balance, tracked, wallet, needless>>
        /\ UNCHANGED <<unborn, market, settling>>

EndCheck(g) ==
    /\ \/ check[g].pc = "done"
       \/ /\ check[g].pc = "closing"
          /\ check[g].rest = {} \/ ~Below50(check[g].balance + check[g].unrealized, check[g].margin)
    /\ check' = [check EXCEPT ![g] = NoCheck]
    /\ UNCHANGED <<unborn, open, balance, market, tracked, settling, wallet,
                   needless, watchFaults>>
---------------------------------------------------------------------------
\* One position of scanForMissedSlTp(), which reads the open positions with a
\* stop every 30 s; a failed settlement puts off the rest of the scan.
WithStopUntracked == {p \in open \ Cached : Stop[p] > 0}
WithStop == {p \in open : Stop[p] > 0}

Watchdog(p) ==
    /\ p \in WithStop \cap live \cap enabled
    /\ StopHit(p, price[p])
    /\ \/ Settle(p, price[p]) /\ check' = Disturbed(check) /\ UNCHANGED watchFaults
       \/ WatchFault /\ UNCHANGED <<open, balance, tracked, wallet, check>>
    /\ UNCHANGED <<unborn, market, settling, needless>>

WatchNext ==
    \/ \E p \in Held :
        \/ OpenPosition(p) \/ Reconcile(p) \/ CloseByUser(p)
        \/ \E bid \in Quotes : Quote(p, bid)
        \/ Unavailable(p) \/ Available(p)
        \/ TriggerSettlement(p) \/ Watchdog(p)
    \/ \E g \in Guards : ReadWallet(g) \/ Assess(g) \/ Liquidate(g) \/ EndCheck(g)
    \/ RefreshWallet \/ StartScan

CheckStep(g) == ReadWallet(g) \/ Assess(g) \/ Liquidate(g) \/ EndCheck(g)
MonitorStep == RefreshWallet \/ \E p \in Held : TriggerSettlement(p)
WatchdogStep == \E p \in Held : Watchdog(p)
FeedReturns == \E p \in Held : Available(p)
---------------------------------------------------------------------------
\* stopout.engine.ts closes no more positions than it takes: as long as nobody
\* else closes one meanwhile, each liquidation finds the account below 50 % by
\* the wallet and positions as they are then.
MinimalStopOut == needless = {}

\* Once quotes stop coming, no position stays open beyond its stop, whatever
\* settlement failed and whatever the monitor did not know of.
StopsHonoured == <>[](\A p \in open : ~StopHit(p, price[p]))

\* Once quotes stop coming, an account does not stay below 50 %.
Equity == balance + Total([p \in open |-> price[p] - Entry[p]], open)
StopOutEnds == <>[](2 * Equity >= Total(Margin, open))
==============================================================================
