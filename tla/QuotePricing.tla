----------------------------- MODULE QuotePricing -----------------------------
(***************************************************************************)
(* What a client pays: how one worker makes its bid and ask of a symbol    *)
(* out of what the feeds report (liquidity-engine/internal.liquidity.core  *)
(* .ts), how the spread widens with volatility and announced events        *)
(* (dynamic.spread.engine.ts), and at what price an order that was quoted  *)
(* earlier is filled (execution-service/requote.policy.ts, fill.engine.ts, *)
(* liquidity.provider.ts).  Which ticks are believed is MarketFeeds' part. *)
(***************************************************************************)
EXTENDS Integers

CONSTANTS
    Step,                   \* the smallest step of a price, in twentieths of which all
                            \* prices count; multipliers count in tenths
    MarketPrices, RealSpread, HalfSpread,
    Daily,                  \* the vendor's [close, prevClose]
    Bases,                  \* spreads an administrator may set
    volatilityThreshold, volatilityFactor, maxSpreadMultiplier, eventMultiplier,
    Terms,                  \* of an order: [side, limit or 0, large, leverage]
    ESMA_LEVERAGE_CAP,      \* of the symbol's asset class
    SlippageOfLarge, Tolerance,
    DepthLevels, TickStep,  \* of the depth the terminals draw
    MaxPriceTicks, MaxBaseChanges

\* The broker's and the feeds' spreads, widened as far as they may be, are less than
\* any price; a spread rounded to steps may be one wider than it was given.
ASSUME PricingAssumption ==
    /\ Step \in Nat \ {0} /\ Step % 20 = 0
    /\ RealSpread \in Nat /\ RealSpread % Step = 0 /\ HalfSpread \in Nat
    /\ Bases \subseteq Nat /\ \A b \in Bases : b % Step = 0
    /\ volatilityThreshold \in Nat \ {0} /\ volatilityFactor \in Nat
    /\ maxSpreadMultiplier \in Nat /\ maxSpreadMultiplier >= 10
    /\ eventMultiplier \in Nat /\ eventMultiplier >= 10
    /\ MarketPrices \subseteq Nat /\ Daily.close \in Nat /\ Daily.prevClose \in Nat
    /\ \A p \in MarketPrices \cup {Daily.close},
          s \in Bases \cup {RealSpread + Step, 2 * HalfSpread + Step} :
             (s * maxSpreadMultiplier) \div 10 <= p
    /\ Terms # {}
    /\ \A t \in Terms : /\ t.side \in {"BUY", "SELL"} /\ t.limit \in Nat
                        /\ t.large \in BOOLEAN /\ t.leverage \in Nat \ {0}
    /\ SlippageOfLarge \in Nat /\ SlippageOfLarge % Step = 0 /\ Tolerance \in Nat
    /\ DepthLevels \in Nat \ {0} /\ TickStep \in Nat /\ ESMA_LEVERAGE_CAP \in Nat \ {0}

VARIABLES
    instrument,     \* [priced, mid, bid, ask, dayOpen, prevClose, dated], and the quote
    smoothed,       \* the feed's last price, blended
    lastReal,       \* spreadStore: the last spread of a feed
    baseSpread,     \* brokerSpreadConfig
    dynamic,        \* dynamicSpreadEngine: [multiplier, effective]
    event, date,
    lastTick,       \* history: the tick behind the quote: [spread, agitated, base]
    bargain,        \* an order: [pc, terms, top, leverage, calm, price, fresh]
    priceTicks, baseChanges
prices == <<instrument, smoothed, lastReal, dynamic, lastTick, priceTicks>>
settings == <<event, date, baseSpread, baseChanges>>
pricingVars == <<prices, settings, bargain>>

NoBidAsk == [bid |-> 0, ask |-> 0]
Quoted == instrument.priced

PricingInit ==
    /\ instrument = [priced |-> FALSE, mid |-> 0, bid |-> 0, ask |-> 0, dayOpen |-> 0,
                     prevClose |-> 0, dated |-> 0]
    /\ smoothed = 0 /\ lastReal = 0 /\ baseSpread \in Bases
    /\ dynamic = [multiplier |-> 10, effective |-> 0]
    /\ event = "none" /\ date = 0
    /\ lastTick = [spread |-> 0, agitated |-> FALSE, base |-> 0]
    /\ bargain = [pc |-> "idle", terms |-> CHOOSE t \in Terms : TRUE, top |-> 0,
                  leverage |-> 0, calm |-> FALSE, price |-> 0, fresh |-> 0]
    /\ priceTicks = 0 /\ baseChanges = 0
---------------------------------------------------------------------------
Least(a, b) == IF a < b THEN a ELSE b
Distance(a, b) == IF a < b THEN b - a ELSE a - b
RoundPrice(x) == ((x + Step \div 2) \div Step) * Step
Around(mid, spread) ==
    [bid |-> RoundPrice(mid - spread \div 2), ask |-> RoundPrice(mid + spread \div 2)]
Width(q) == q.ask - q.bid

\* applySpread(): volatility and the announced event multiply, up to the cap.
\* Without a spread of the broker's own nothing is computed, and what was
\* computed before stays.
Volatility(move) ==
    IF move <= volatilityThreshold THEN 10
    ELSE 10 + ((volatilityFactor * (Least(move, 3 * volatilityThreshold) - volatilityThreshold))
               \div (2 * volatilityThreshold))
Multiplier(move) ==
    Least((Volatility(move) * (IF event = "on" THEN eventMultiplier ELSE 10)) \div 10,
          maxSpreadMultiplier)
ApplySpread(move) ==
    IF baseSpread = 0 THEN dynamic
    ELSE [multiplier |-> Multiplier(move), effective |-> (baseSpread * Multiplier(move)) \div 10]
EffectiveSpread(d) == IF d.effective > 0 THEN d.effective ELSE baseSpread

\* The spread of a price that came without one.
Fallback == IF lastReal > 0 THEN lastReal ELSE baseSpread
Narrow(mid, offered) ==
    IF offered = NoBidAsk THEN Around(mid, Fallback)
    ELSE [bid |-> RoundPrice(offered.bid), ask |-> RoundPrice(offered.ask)]

\* A feed's own bid and ask are stretched around the mid it gave, the broker's
\* are replaced by wider ones.
Stretched(q, d) == (Width(q) * d.multiplier) \div 10
Widened(q, mid, offered, d) ==
    IF offered = NoBidAsk
    THEN IF EffectiveSpread(d) > Width(q) THEN Around(mid, EffectiveSpread(d)) ELSE q
    ELSE IF d.multiplier > 10 THEN Around(mid, Stretched(q, d)) ELSE q

\* A new day: what it calls the close is the price that opened the day before.
Dated(mid) ==
    IF ~Quoted THEN [dayOpen |-> mid, prevClose |-> mid]
    ELSE IF date # instrument.dated THEN [dayOpen |-> mid, prevClose |-> instrument.dayOpen]
    ELSE [dayOpen |-> instrument.dayOpen, prevClose |-> instrument.prevClose]
Priced(mid, q, dates) ==
    instrument' = [priced |-> TRUE, mid |-> mid, bid |-> q.bid, ask |-> q.ask,
                   dayOpen |-> dates.dayOpen, prevClose |-> dates.prevClose, dated |-> date]

Reprice(mid, offered) ==
    LET move == IF Quoted THEN Distance(mid, instrument.prevClose) ELSE 0
        narrow == Narrow(mid, offered)
    IN  /\ dynamic' = ApplySpread(move)
        /\ Priced(mid, Widened(narrow, mid, offered, dynamic'), Dated(mid))
        /\ lastReal' = (IF offered # NoBidAsk /\ Width(narrow) > 0 THEN Width(narrow) ELSE lastReal)
        /\ lastTick' = [spread |-> Width(narrow), base |-> baseSpread,
                        agitated |-> event = "on" \/ move > volatilityThreshold]

\* handleTick() of a feed: the price is blended with the last one.  A paid feed
\* gives the market's own bid and ask, Binance's are made around the blend, and
\* the others give none.
Blend(p) == IF smoothed = 0 THEN p ELSE (9 * p + smoothed) \div 10
FeedTicks(p, kind) ==
    /\ priceTicks < MaxPriceTicks /\ priceTicks' = priceTicks + 1
    /\ smoothed' = Blend(p)
    /\ Reprice(Blend(p),
           CASE kind = "paid" -> [bid |-> p - RealSpread \div 2, ask |-> p + RealSpread \div 2]
             [] kind = "made" -> Around(Blend(p), 2 * HalfSpread)
             [] kind = "free" -> NoBidAsk)
    /\ UNCHANGED <<settings, bargain>>
RestTick(p) ==
    /\ priceTicks < MaxPriceTicks /\ priceTicks' = priceTicks + 1
    /\ Reprice(p, NoBidAsk)
    /\ UNCHANGED <<smoothed, settings, bargain>>

\* seedDailyData(): the daily close of the vendor, before any tick or after.
SeedDailyData ==
    /\ priceTicks < MaxPriceTicks /\ priceTicks' = priceTicks + 1
    /\ Priced(Daily.close, Around(Daily.close, Fallback),
              [dayOpen |-> Daily.close, prevClose |->
                  IF date = instrument.dated THEN Daily.prevClose ELSE Daily.close])
    /\ lastTick' = [lastTick EXCEPT !.spread = Fallback]
    /\ UNCHANGED <<smoothed, lastReal, dynamic, settings, bargain>>

SetSpread(b) ==
    /\ baseChanges < MaxBaseChanges /\ baseChanges' = baseChanges + 1
    /\ baseSpread' = b
    /\ UNCHANGED <<prices, event, date, bargain>>

\* addEvent(), and the minutes around the moment it announces.
AddEvent ==
    /\ event = "none" /\ event' = "scheduled"
    /\ UNCHANGED <<prices, bargain, date, baseSpread, baseChanges>>
WindowMoves ==
    /\ event' = (CASE event = "scheduled" -> "on" [] event = "on" -> "over" [] OTHER -> event)
    /\ event' # event
    /\ UNCHANGED <<prices, bargain, date, baseSpread, baseChanges>>
DayChanges ==
    /\ date = 0 /\ date' = 1
    /\ UNCHANGED <<prices, bargain, event, baseSpread, baseChanges>>
\* _tickAll() looks every second, and turns the day as a tick does.
TickAll ==
    /\ Quoted /\ date # instrument.dated
    /\ Priced(instrument.mid, instrument, Dated(instrument.mid))
    /\ UNCHANGED <<smoothed, lastReal, dynamic, lastTick, priceTicks, settings, bargain>>
---------------------------------------------------------------------------
\* An order keeps the price it was quoted, through its checks and its queue.
TopPrice(t) == IF t.side = "BUY" THEN instrument.ask ELSE instrument.bid
TakeQuote(t) ==
    /\ bargain.pc = "idle"
    /\ bargain' = [bargain EXCEPT !.pc = "quoted", !.terms = t, !.top = TopPrice(t)]
    /\ UNCHANGED <<prices, settings>>
Tradable == Quoted /\ Width(instrument) # 0

\* placeOrder() of a market order, and when the account has been read the
\* leverage it is granted: within the regulator's cap, and in a volatile market a
\* part of it.
PlaceMarket(t) == t.limit = 0 /\ Tradable /\ TakeQuote(t)
CappedLeverage(t) == Least(t.leverage, ESMA_LEVERAGE_CAP)
FactorFor ==
    CASE dynamic.multiplier >= 30 -> 1 [] dynamic.multiplier \in 20 .. 29 -> 2
      [] dynamic.multiplier \in 15 .. 19 -> 3 [] OTHER -> 4
DeratedLeverage(leverage) ==
    IF FactorFor = 4 THEN leverage
    ELSE IF leverage * FactorFor < 4 THEN 1 ELSE (leverage * FactorFor) \div 4
GrantLeverage ==
    /\ bargain.pc = "quoted" /\ bargain.terms.limit = 0
    /\ bargain' = [bargain EXCEPT !.pc = "granted",
                                  !.leverage = DeratedLeverage(CappedLeverage(bargain.terms)),
                                  !.calm = lastTick.base > 0 /\ ~lastTick.agitated]
    /\ UNCHANGED <<prices, settings>>

\* _isTriggered(): a resting limit order is reached, and takes the price of the
\* tick that reached it.
Reached(t) == IF t.side = "BUY" THEN instrument.ask <= t.limit ELSE instrument.bid >= t.limit
TriggerLimit(t) == t.limit # 0 /\ Quoted /\ Reached(t) /\ TakeQuote(t)

\* checkRequote() compares the price taken with the present one; executeMarketOrder()
\* fills at the price taken and its slippage, whatever made the order a market one.
Requoted(t) == Distance(TopPrice(t), bargain.top) > Tolerance
Slippage(t) == IF t.large THEN SlippageOfLarge ELSE 0
AveragePrice(t) ==
    RoundPrice(IF t.side = "BUY" THEN bargain.top + Slippage(t)
               ELSE IF bargain.top > Slippage(t) THEN bargain.top - Slippage(t) ELSE 0)
ExecuteBargain ==
    /\ bargain.pc = (IF bargain.terms.limit = 0 THEN "granted" ELSE "quoted")
    /\ LET t == bargain.terms
           refused == Requoted(t) \/ (t.limit # 0 /\ ~Tradable)
       IN  bargain' = [bargain EXCEPT !.pc = IF refused THEN "refused" ELSE "filled",
                                      !.price = IF refused THEN 0 ELSE AveragePrice(t),
                                      !.fresh = TopPrice(t)]
    /\ UNCHANGED <<prices, settings>>

PricingNext ==
    \/ \E p \in MarketPrices :
          \/ \E kind \in {"paid", "made", "free"} : FeedTicks(p, kind)
          \/ RestTick(p)
    \/ SeedDailyData
    \/ \E b \in Bases \ {baseSpread} : SetSpread(b)
    \/ AddEvent \/ WindowMoves \/ DayChanges \/ TickAll
    \/ \E t \in Terms : PlaceMarket(t) \/ TriggerLimit(t)
    \/ GrantLeverage \/ ExecuteBargain
---------------------------------------------------------------------------
\* build(): the depth that is broadcast every ten seconds and served on request, made
\* up of the quote alone.
Ladder(best, away) == [i \in 1 .. DepthLevels |-> RoundPrice(best + away * (i - 1) * TickStep)]
DomBook == [bids |-> Ladder(instrument.bid, -1), asks |-> Ladder(instrument.ask, 1)]
---------------------------------------------------------------------------
\* No quote is narrower than the market it was made of, however often the spread
\* was widened, unwound and re-based (internal.liquidity.core.ts:414-502).
NeverNarrower == Quoted => Width(instrument) >= 0 /\ Width(instrument) >= lastTick.spread - Step

\* The widening ends with its cause: the first calm tick has the plain spread
\* again, unless the broker's spread has been set to nothing meanwhile.
WidthHasCause ==
    Quoted /\ lastTick.base > 0 /\ ~lastTick.agitated =>
        LET plain == IF lastTick.spread < lastTick.base THEN lastTick.base ELSE lastTick.spread
        IN  Width(instrument) <= plain + Step

\* Whatever the market does while an order waits, it fills at no better a price
\* than it was quoted, and worse by no more than its slippage; and the quote had
\* not left it by more than the tolerance.  A limit order too small to slip fills
\* within its limit.
FillsAsQuoted ==
    bargain.pc = "filled" =>
        LET t == bargain.terms
            Worse(than) == IF t.side = "BUY" THEN bargain.price - than ELSE than - bargain.price
        IN  /\ Worse(bargain.top) \in 0 .. SlippageOfLarge
            /\ Distance(bargain.fresh, bargain.top) <= Tolerance
            /\ t.limit # 0 => Worse(t.limit) <= Slippage(t)

\* An order checked after a calm tick gets all the leverage the regulator leaves
\* it, whatever widened the market between its quote and its check.
LeverageHasCause ==
    bargain.leverage > 0 =>
        /\ bargain.leverage <= CappedLeverage(bargain.terms)
        /\ bargain.calm => bargain.leverage = CappedLeverage(bargain.terms)

\* The depth shows nobody a better price than the quote: it begins there, leaves
\* it on both sides and never meets.
DepthAgrees ==
    Quoted =>
        /\ DomBook.bids[1] = instrument.bid /\ DomBook.asks[1] = instrument.ask
        /\ \A i, j \in 1 .. DepthLevels :
              i < j => DomBook.bids[j] <= DomBook.bids[i] /\ DomBook.asks[i] <= DomBook.asks[j]
PricesSound ==
    NeverNarrower /\ WidthHasCause /\ FillsAsQuoted /\ LeverageHasCause /\ DepthAgrees

\* i.liquidity.provider.ts:10 and fill.engine.ts:72 promise a limit order its
\* limit or better; nothing calls fillLimit(), and a large order slips past it.
LimitKept ==
    bargain.pc = "filled" /\ bargain.terms.limit # 0 =>
        IF bargain.terms.side = "BUY" THEN bargain.price <= bargain.terms.limit
                                      ELSE bargain.price >= bargain.terms.limit
=============================================================================
