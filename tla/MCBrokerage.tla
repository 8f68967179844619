----------------------------- MODULE MCBrokerage -----------------------------
(*****************************************************************************)
(* What the brokerage does beside the execution of orders: its end of day,   *)
(* its limits, its prices, its own state, and the signals and managed stops. *)
(* The parts meet in no state that these properties tell apart; part says    *)
(* which one a behaviour exercises.                                          *)
(*****************************************************************************)
EXTENDS EodAccounting, AutopilotStops, SignalLearning, MarketFeeds,
        BrokerState, ExposureLimits, QuotePricing, PaperTrading

CONSTANTS Parts                 \* the parts a run exercises

VARIABLE part

Order(user, symbol, side) == [user |-> user, symbol |-> symbol, side |-> side]
MCAsked == [o1 |-> Order("u1", "X", "BUY"), o2 |-> Order("u1", "Y", "BUY"),
            o3 |-> Order("u2", "X", "BUY")]
MCCompounding == {{"X", "Y"}}
Asking(side, limit, large) ==
    [side |-> side, limit |-> limit, large |-> large, leverage |-> 100]
MCTerms == {Asking("BUY", 0, TRUE), Asking("SELL", 2040, FALSE), Asking("BUY", 2080, TRUE)}
MCDaily == [close |-> 2000, prevClose |-> 2100]
MCClass == [p1 |-> "FX_MAJOR", p2 |-> "CRYPTO"]
MCMoves == {-2, 4, 6}
MCStops == {-1, -3, 1}

vars == <<eodVars, stopVars, signalVars, feedVars, socketVars, stateVars,
          exposureVars, sandboxVars, pricingVars, paperVars, part>>

BesideEod == <<stopVars, signalVars, feedVars, socketVars, stateVars, exposureVars,
               sandboxVars, pricingVars, paperVars>>
BesideStops == <<eodVars, signalVars, feedVars, socketVars, stateVars, exposureVars,
                 sandboxVars, pricingVars, paperVars>>
BesideSignal == <<eodVars, stopVars, feedVars, socketVars, stateVars, exposureVars,
                  sandboxVars, pricingVars, paperVars>>
BesideFeeds == <<eodVars, stopVars, signalVars, socketVars, stateVars, exposureVars,
                 sandboxVars, pricingVars, paperVars>>
BesideDial == <<eodVars, stopVars, signalVars, feedVars, stateVars, exposureVars,
                sandboxVars, pricingVars, paperVars>>
BesideState == <<eodVars, stopVars, signalVars, feedVars, socketVars, exposureVars,
                 sandboxVars, pricingVars, paperVars>>
BesideExposure == <<eodVars, stopVars, signalVars, feedVars, socketVars, stateVars,
                    sandboxVars, pricingVars, paperVars>>
BesideSandbox == <<eodVars, stopVars, signalVars, feedVars, socketVars, stateVars,
                   exposureVars, pricingVars, paperVars>>
BesideQuotes == <<eodVars, stopVars, signalVars, feedVars, socketVars, stateVars,
                  exposureVars, sandboxVars, paperVars>>
BesidePaper == <<eodVars, stopVars, signalVars, feedVars, socketVars, stateVars,
                 exposureVars, sandboxVars, pricingVars>>

Init ==
    /\ part \in Parts
    /\ EodInit
    /\ StopsInit
    /\ SignalInit
    /\ FeedsInit
    /\ SocketsInit
    /\ StateInit
    /\ ExposureInit
    /\ SandboxInit
    /\ PricingInit
    /\ PaperInit
    /\ market = 1
    /\ part # "sandbox" => mid = 5
    /\ part # "exposure" => cap = 1
    /\ baseSpread = 80

Next ==
    \/ part = "eod" /\ EodNext /\ UNCHANGED <<BesideEod, part>>
    \/ part = "stops" /\ StopsNext /\ UNCHANGED <<BesideStops, part>>
    \/ part = "signal" /\ SignalNext /\ UNCHANGED <<BesideSignal, part>>
    \/ part = "feeds" /\ FeedsNext /\ UNCHANGED <<BesideFeeds, part>>
    \/ part = "dial" /\ SocketsNext /\ UNCHANGED <<BesideDial, part>>
    \/ part = "state" /\ StateNext /\ UNCHANGED <<BesideState, part>>
    \/ part = "exposure" /\ ExposureNext /\ UNCHANGED <<BesideExposure, part>>
    \/ part = "sandbox" /\ SandboxNext /\ UNCHANGED <<BesideSandbox, part>>
    \/ part = "quotes" /\ PricingNext /\ UNCHANGED <<BesideQuotes, part>>
    \/ part = "paper" /\ PaperNext /\ UNCHANGED <<BesidePaper, part>>

Spec == Init /\ [][Next]_vars
---------------------------------------------------------------------------
\* Where prices come from: what is served is near the market and fresh or said
\* not to be, one process only dials the venue, and what a client is quoted and
\* filled at follows from it.
MarketDataSound == FeedsSound /\ OneDialler /\ PricesSound

\* What shared/state.ts holds: the settings and rows a process writes back, and
\* the account it keeps by itself without a database; and the simulated account.
BrokerStateSound == SettingsSound /\ TradesWithinMeans /\ PaperAddsUp
==============================================================================
