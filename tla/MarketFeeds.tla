---------------------------- MODULE MarketFeeds ----------------------------
(***************************************************************************)
(* The price of one symbol on the replicas of the platform: the feeds of   *)
(* market-data/feed.manager.ts, the core that accepts or refuses a tick    *)
(* (liquidity-engine/internal.liquidity.core.ts), the relay of accepted    *)
(* ticks to the other replicas over Redis, and the circuit that blocks new *)
(* orders when every feed of a replica is silent (shared/feed.circuit.ts). *)
(* The second part of this module are the connections themselves.          *)
(***************************************************************************)
EXTENDS Integers, FiniteSets

CONSTANTS
    Replicas,
    Levels, Garbage,    \* prices of the market; a print no market made
    SanityBound,        \* the largest move of one tick that is believed
    FeedDead, CircuitBreak, StaleAfter, \* in periods
    MaxRelayed,             \* prices on their way to one replica at once
    MaxMarketMoves, MaxGarbage, MaxFeedFaults

\* A print of no market is further from every price than the bound; one of nothing or
\* less is refused before.  The feeds are looked at more often than one is given up.
ASSUME FeedsAssumption ==
    /\ Levels \subseteq Nat /\ SanityBound \in Nat
    /\ Garbage \in Nat \ ({0} \cup Levels)
    /\ \A p \in Levels : p + SanityBound < Garbage \/ Garbage + SanityBound < p
    /\ FeedDead \in Nat \ {0, 1} /\ CircuitBreak \in Nat \ {0} /\ StaleAfter \in Nat \ {0}

VARIABLES
    market, before,     \* the level of the market, and the one before
    primary, former,    \* the replica that holds the TwelveData connections; the
                        \* last one, while its polls and closing socket still answer
    core,               \* replica -> its instrument: [mid, real, rank, covered, age]
    silence,            \* replica -> periods since any feed of its own gave a quote
    manager,            \* replica -> [open, since] of its FeedManager
    feedCircuit,        \* replica -> the circuit the order controller asks
    relayed,            \* replica -> ticks on their way to it
    tainted,            \* history: the first tick since its start was garbage
    marketMoves, garbage, feedFaults

feedVars == <<market, before, primary, former, core, silence, manager, feedCircuit, relayed,
              tainted, marketMoves, garbage, feedFaults>>
outside == <<market, before, primary, former, marketMoves, garbage, feedFaults>>

NoReplica == "none"
Ages == FeedDead + CircuitBreak
SOURCE_PRIORITY == [ws |-> 1, binance |-> 1, rest |-> 2, relay |-> 3]
Unpriced == [mid |-> 0, real |-> FALSE, rank |-> 0, covered |-> FALSE, age |-> StaleAfter]
Closed == [open |-> FALSE, since |-> -1]

FeedsInit ==
    /\ market \in Levels /\ before = market
    /\ primary = NoReplica /\ former = NoReplica
    /\ core = [r \in Replicas |-> Unpriced]
    /\ silence = [r \in Replicas |-> Ages]
    /\ manager = [r \in Replicas |-> Closed]
    /\ feedCircuit = [r \in Replicas |-> FALSE]
    /\ relayed = [r \in Replicas |-> {}]
    /\ tainted = [r \in Replicas |-> FALSE]
    /\ marketMoves = 0 /\ garbage = 0 /\ feedFaults = 0

MarketTicks ==
    /\ marketMoves < MaxMarketMoves /\ marketMoves' = marketMoves + 1
    /\ market' \in Levels \ {market} /\ before' = market
    /\ UNCHANGED <<primary, former, core, silence, manager, feedCircuit, relayed, tainted, garbage,
                   feedFaults>>

\* startPrimary() and stopPrimary(), by the election of FeedLeader.
PrimaryMoves ==
    /\ former' = primary
    /\ primary' \in (Replicas \cup {NoReplica}) \ {primary}
    /\ feedFaults < MaxFeedFaults /\ feedFaults' = feedFaults + 1
    /\ UNCHANGED <<market, before, core, silence, manager, feedCircuit, relayed, tainted,
                   marketMoves, garbage>>
---------------------------------------------------------------------------
\* ingestExternalPrice(): a source of lower rank gives way for ten seconds to
\* one that was heard, and a jump is taken for a corrupted print, unless there
\* was no price before.
GivesWay(r, source) == core[r].covered /\ SOURCE_PRIORITY[source] > core[r].rank
Outlying(p, q) == p - q > SanityBound \/ q - p > SanityBound
OutlierUnlessStale(r, p) ==
    core[r].real /\ core[r].age < StaleAfter /\ Outlying(p, core[r].mid)
Outlier(r, p) == core[r].real /\ Outlying(p, core[r].mid)
Accepts(r, source, p) == ~GivesWay(r, source) /\ ~Outlier(r, p)

Ingest(r, source, p) ==
    /\ core' = [core EXCEPT ![r] =
          [mid |-> p, real |-> TRUE, rank |-> SOURCE_PRIORITY[source], covered |-> TRUE,
           age |-> 0]]
    /\ tainted' = [tainted EXCEPT ![r] = IF core[r].real THEN @ ELSE p = Garbage]

\* Quotes of a feed of the replica's own: it is alive, whatever the core makes
\* of the price; an accepted price is published to the others.
Source(r) == {"binance"} \cup IF r \in {primary, former} THEN {"ws", "rest"} ELSE {}
CloseCircuit(r) ==
    /\ silence' = [silence EXCEPT ![r] = 0]
    /\ IF manager[r].open
       THEN /\ manager' = [manager EXCEPT ![r] = Closed]
            /\ feedCircuit' = [feedCircuit EXCEPT ![r] = FALSE]
       ELSE UNCHANGED <<manager, feedCircuit>>
FeedGives(r, source, p) ==
    /\ CloseCircuit(r)
    /\ IF Accepts(r, source, p)
       THEN /\ Ingest(r, source, p)
            /\ relayed' = [s \in Replicas |->
                    IF s = r THEN relayed[s] ELSE relayed[s] \cup {p}]
            /\ \A s \in Replicas : Cardinality(relayed'[s]) <= MaxRelayed
       ELSE UNCHANGED <<core, tainted, relayed>>
OnQuote(r, source) ==
    /\ source \in Source(r)
    /\ FeedGives(r, source, market)
    /\ UNCHANGED outside
\* The REST poll may carry the price of a while ago.
PollRestBatch(r) ==
    /\ "rest" \in Source(r)
    /\ FeedGives(r, "rest", before)
    /\ UNCHANGED outside
OnGarbage(r, source) ==
    /\ source \in Source(r) /\ garbage < MaxGarbage /\ garbage' = garbage + 1
    /\ FeedGives(r, source, Garbage)
    /\ UNCHANGED <<market, before, primary, former, marketMoves, feedFaults>>
\* A quote of another symbol.
OnOtherQuote(r) ==
    /\ CloseCircuit(r)
    /\ UNCHANGED <<outside, core, relayed, tainted>>

\* applyRelayedTick(): the lowest rank, and never published again.
OnTickEvent(r, p) ==
    /\ p \in relayed[r]
    /\ relayed' = [relayed EXCEPT ![r] = @ \ {p}]
    /\ IF Accepts(r, "relay", p) THEN Ingest(r, "relay", p) ELSE UNCHANGED <<core, tainted>>
    /\ UNCHANGED <<outside, silence, manager, feedCircuit>>
TickLost(r, p) ==
    /\ p \in relayed[r]
    /\ feedFaults < MaxFeedFaults /\ feedFaults' = feedFaults + 1
    /\ relayed' = [relayed EXCEPT ![r] = @ \ {p}]
    /\ UNCHANGED <<market, before, primary, former, core, silence, manager, feedCircuit, tainted,
                   marketMoves, garbage>>
---------------------------------------------------------------------------
\* SOURCE_PROTECTION_MS go by.
ProtectionEnds(r) ==
    /\ core[r].covered
    /\ core' = [core EXCEPT ![r].covered = FALSE]
    /\ UNCHANGED <<outside, silence, manager, feedCircuit, relayed, tainted>>

\* A period goes by; _checkHealth() runs many times in it.
Capped(n, cap) == IF n >= cap THEN cap ELSE n + 1
SinceKept(r) == manager[r].since
SinceCleared(r) == -1
AllDead(r) == silence'[r] >= FeedDead
Opens(r) == ~manager[r].open /\ AllDead(r) /\ manager'[r].since >= CircuitBreak
CheckHealth ==
    /\ manager' = [r \in Replicas |->
          IF AllDead(r)
          THEN LET since == Capped(manager[r].since, CircuitBreak)
               IN  [open |-> manager[r].open \/ since >= CircuitBreak, since |-> since]
          ELSE [open |-> FALSE, since |-> SinceCleared(r)]]
    /\ feedCircuit' = [r \in Replicas |-> feedCircuit[r] \/ Opens(r)]
PeriodPasses ==
    /\ silence' = [r \in Replicas |-> Capped(silence[r], Ages)]
    /\ core' = [r \in Replicas |->
          [core[r] EXCEPT !.age = Capped(@, StaleAfter), !.covered = FALSE]]
    /\ CheckHealth
    /\ former' = NoReplica
    /\ UNCHANGED <<market, before, primary, marketMoves, garbage, feedFaults, relayed,
                   tainted>>

\* POST /admin/feed/circuit/reset: the manager is not told.
ResetCircuit(r) ==
    /\ feedCircuit[r] /\ feedCircuit' = [feedCircuit EXCEPT ![r] = FALSE]
    /\ UNCHANGED <<outside, core, silence, manager, relayed, tainted>>

\* A replica starts anew, with the last daily close if there is one:
\* seedDailyData() asks for no proof.
RestartReplica(r) ==
    /\ feedFaults < MaxFeedFaults /\ feedFaults' = feedFaults + 1
    /\ \/ core' = [core EXCEPT ![r] = Unpriced]
       \/ core' = [core EXCEPT ![r] = [Unpriced EXCEPT !.mid = before, !.real = TRUE, !.age = 0]]
    /\ silence' = [silence EXCEPT ![r] = Ages]
    /\ manager' = [manager EXCEPT ![r] = Closed]
    /\ feedCircuit' = [feedCircuit EXCEPT ![r] = FALSE]
    /\ relayed' = [relayed EXCEPT ![r] = {}]
    /\ tainted' = [tainted EXCEPT ![r] = FALSE]
    /\ UNCHANGED <<market, before, primary, former, marketMoves, garbage>>

FeedsNext ==
    \/ MarketTicks \/ PrimaryMoves \/ PeriodPasses
    \/ \E r \in Replicas :
          \/ \E source \in {"ws", "binance", "rest"} :
                OnQuote(r, source) \/ OnGarbage(r, source)
          \/ PollRestBatch(r) \/ OnOtherQuote(r)
          \/ \E p \in Levels \cup {Garbage} : OnTickEvent(r, p) \/ TickLost(r, p)
          \/ ProtectionEnds(r) \/ ResetCircuit(r) \/ RestartReplica(r)
---------------------------------------------------------------------------
\* A corrupted print reaches the price of no replica, by its feeds or by the
\* relay, through outages and changes of the leader: but as its first tick.
GarbageOnlyFirst == \A r \in Replicas : core[r].mid = Garbage => tainted[r]

\* Orders are blocked only while every feed of the replica has been silent for
\* as long as it takes.
BlockedOnlyWhenSilent ==
    \A r \in Replicas : feedCircuit[r] => silence[r] >= FeedDead + CircuitBreak

FeedsSound == GarbageOnlyFirst /\ BlockedOnlyWhenSilent
---------------------------------------------------------------------------
(***************************************************************************)
(* The connections of one replica to a price vendor.  FeedManager makes a  *)
(* feed object when the replica becomes the leader and drops it when it no *)
(* longer is; the object (market-data/feeds/*.feed.ts) keeps one WebSocket *)
(* alive and dials again when it closes, while a timer polls the vendor's  *)
(* REST interface in batches.  The events of a dropped object still come.  *)
(***************************************************************************)

CONSTANTS MaxFeeds, Batches, MaxPolls, MaxDrops

ASSUME SocketsAssumption == MaxFeeds \in Nat \ {0} /\ Batches \in Nat \ {0}

VARIABLES
    wsFeed,             \* the feed object the manager holds, 0 for none
    primaryRunning,
    feeds,              \* the objects made: [stopped, socket, reconnectTimer, pings]
    restTimer, restBatchIdx,
    polls,              \* the batches asked for and not yet answered
    drops

socketVars == <<wsFeed, primaryRunning, feeds, restTimer, restBatchIdx, polls, drops>>
rest == <<restTimer, restBatchIdx, polls>>

Made == DOMAIN feeds
Fresh == [stopped |-> FALSE, socket |-> "connecting", reconnectTimer |-> FALSE,
          pings |-> FALSE]

SocketsInit ==
    /\ wsFeed = 0 /\ primaryRunning = FALSE
    /\ feeds = [f \in {} |-> Fresh]
    /\ restTimer = FALSE /\ restBatchIdx = 0
    /\ polls = {} /\ drops = 0
---------------------------------------------------------------------------
\* startPrimary(): a new object connects, and the first batch is asked for.
StartPrimary ==
    /\ ~primaryRunning /\ primaryRunning' = TRUE
    /\ Cardinality(Made) < MaxFeeds
    /\ wsFeed' = Cardinality(Made) + 1
    /\ feeds' = [f \in Made \cup {wsFeed'} |-> IF f = wsFeed' THEN Fresh ELSE feeds[f]]
    /\ restTimer' = TRUE
    /\ polls' = polls \cup {restBatchIdx}
    /\ restBatchIdx' = (restBatchIdx + 1) % Batches
    /\ UNCHANGED drops

\* stopPrimary() and the stop() of the feed: a socket closes when the vendor
\* answers, one that was still connecting is given up.
StopFeed(f) ==
    [feeds[f] EXCEPT !.stopped = TRUE, !.reconnectTimer = FALSE, !.pings = FALSE,
                     !.socket = IF @ = "none" THEN @ ELSE "closing"]
StopPrimary ==
    /\ primaryRunning /\ primaryRunning' = FALSE
    /\ feeds' = [feeds EXCEPT ![wsFeed] = StopFeed(wsFeed)]
    /\ wsFeed' = 0 /\ restTimer' = FALSE
    /\ UNCHANGED <<restBatchIdx, polls, drops>>

\* The handlers of the socket.
OnOpen(f) ==
    /\ feeds[f].socket = "connecting"
    /\ feeds' = [feeds EXCEPT ![f].socket = "open", ![f].pings = TRUE]
    /\ UNCHANGED <<wsFeed, primaryRunning, rest, drops>>

\* "close" follows every "error": one place dials again.
ReconnectIfOpened(f) == ~feeds[f].stopped /\ feeds[f].socket = "open"
Reconnect(f) == ~feeds[f].stopped
OnClose(f) ==
    /\ feeds[f].socket # "none"
    /\ feeds[f].socket # "closing" => drops < MaxDrops
    /\ drops' = IF feeds[f].socket = "closing" THEN drops ELSE drops + 1
    /\ feeds' = [feeds EXCEPT ![f].socket = "none", ![f].pings = FALSE,
                              ![f].reconnectTimer = @ \/ Reconnect(f)]
    /\ UNCHANGED <<wsFeed, primaryRunning, rest>>

\* The timer of scheduleReconnect() fires: connect().
Dial(f) ==
    /\ feeds[f].reconnectTimer
    /\ feeds' = [feeds EXCEPT ![f].reconnectTimer = FALSE,
                              ![f].socket = IF feeds[f].stopped THEN @ ELSE "connecting"]
    /\ UNCHANGED <<wsFeed, primaryRunning, rest, drops>>
---------------------------------------------------------------------------
\* _pollRestBatch(): the next batch is chosen before the await.
PollRest ==
    /\ restTimer /\ Cardinality(polls) < MaxPolls
    /\ polls' = polls \cup {restBatchIdx}
    /\ restBatchIdx' = (restBatchIdx + 1) % Batches
    /\ UNCHANGED <<wsFeed, primaryRunning, feeds, restTimer, drops>>

\* Its answer, or its failure: the batch waits for its next turn.
PollAnswered(b) ==
    /\ b \in polls /\ polls' = polls \ {b}
    /\ UNCHANGED <<wsFeed, primaryRunning, feeds, restTimer, restBatchIdx, drops>>

SocketsNext ==
    \/ StartPrimary \/ StopPrimary \/ PollRest
    \/ \E f \in Made : OnOpen(f) \/ OnClose(f) \/ Dial(f)
    \/ \E b \in 0..(Batches - 1) : PollAnswered(b)
---------------------------------------------------------------------------
\* Through drops, failed dials and changes of the leader, the object in use
\* always has a socket or is about to dial, never both; a dropped one never
\* dials again, and the timer of its polls is gone.  The vendor admits one connection for the key of the platform.
OneDialler ==
    /\ restTimer => primaryRunning
    /\ \A f \in Made :
        IF f = wsFeed
        THEN (feeds[f].socket # "none") # feeds[f].reconnectTimer
        ELSE /\ ~feeds[f].reconnectTimer
             /\ feeds[f].socket \in {"none", "closing"}
             /\ ~feeds[f].pings

=============================================================================
