--------------------------- MODULE ExposureLimits ---------------------------
(***************************************************************************)
(* The limits on what is open, checked before an order and again in the    *)
(* transaction that fills it: per instrument over all clients              *)
(* (exposure.limits.ts), per client (client.exposure.limits.ts), the       *)
(* concentration of a client (concentration.guard.ts), and the status of   *)
(* the client, which every worker caches (risk.engine.ts).  Many workers   *)
(* fill and settle at once under READ COMMITTED: a statement reads what    *)
(* was committed when it began, also when it has waited for a lock since.  *)
(***************************************************************************)
EXTENDS Integers, FiniteSets, FiniteSetsExt, Functions

CONSTANTS
    Orders, Asked,              \* order -> [user, symbol, side]
    Servants,                   \* the workers
    Prices,                     \* of one unit: an order is for one unit
    GrossLimit, NetLimit,       \* of an instrument
    Tiers,                      \* the caps on open positions the tiers of clients have
    MinPositions, MaxHhi,       \* concentration: enforced from; the HHI in per cent
    Compounding,                \* pairs of symbols that move together
    Client, UserTtl,            \* the client whose status changes; its cache's life
    MaxUserRevocations, MaxRestarts

VARIABLES
    cap,            \* of the clients' tier
    positions,      \* open positions: [order, notional]
    deal,           \* order -> [pc, on, snap, notional]
    rows,           \* client -> the transaction that holds its wallet row
    advisory,       \* symbol or client -> the transaction that holds its lock
    exposure,       \* worker -> symbol -> side -> notional, in its memory
    approved,       \* the client's KYC status in the database
    cached,         \* worker -> [ok, ttl] of the client
    lookup,         \* worker -> its reads of the status: [ok, age] (one at most)
    revokedFor,     \* ticks since the status was revoked
    userRevocations, restarts,
    lateReaders,           \* history: read the instrument before another's commit, and waited
    lopsided        \* history: a fill left its client over-concentrated

exposureVars == <<cap, positions, deal, rows, advisory, exposure, approved, cached, lookup,
                  revokedFor, userRevocations, restarts, lateReaders, lopsided>>
userVars == <<approved, cached, lookup, revokedFor, userRevocations>>

Symbols == {Asked[o].symbol : o \in Orders}
Clients == {Asked[o].user : o \in Orders}
NoDeal == "nobody"
NewOrder == [pc |-> "new", on |-> NoDeal, snap |-> {}, notional |-> 0]
Sides == {"BUY", "SELL"}
InTransaction == {"margin", "symbolAsked", "symbol", "clientAsked", "client"}

ASSUME ExposureAssumption ==
    /\ NoDeal \notin Orders /\ \A o \in Orders : Asked[o].side \in Sides
    /\ Prices \subseteq Nat /\ Tiers \subseteq Nat /\ GrossLimit \in Nat /\ UserTtl \in Nat

Sum(ps) == FoldSet(LAMBDA p, sum : p.notional + sum, 0, ps)
OfSymbol(ps, s, side) == {p \in ps : Asked[p.order].symbol = s /\ Asked[p.order].side = side}
OfClient(ps, u) == {p \in ps : Asked[p.order].user = u}
Far(x) == IF x < 0 THEN -x ELSE x

\* checkCanOpen(), on what is open by some account of it.
CanOpen(side, notional, long, short) ==
    LET newLong  == long + (IF side = "BUY" THEN notional ELSE 0)
        newShort == short + (IF side = "SELL" THEN notional ELSE 0)
    IN  newLong + newShort <= GrossLimit /\ Far(newLong - newShort) <= NetLimit

\* The client's cap, and its concentration once it has enough positions.
WithinCap(ps) == Cardinality(ps) + 1 <= cap
Concentrated(ps) ==
    LET of(s) == Sum(OfSymbol(ps, s, "BUY")) + Sum(OfSymbol(ps, s, "SELL"))
        squares == FoldSet(LAMBDA s, sum : of(s) * of(s) + sum, 0, Symbols)
    IN  /\ Cardinality(ps) >= MinPositions
        /\ 100 * squares > MaxHhi * Sum(ps) * Sum(ps)
ClientMayOpen(o, ps, notional) ==
    LET mine == OfClient(ps, Asked[o].user)
    IN  WithinCap(mine) /\ ~Concentrated(mine \cup {[order |-> o, notional |-> notional]})

ExposureInit ==
    /\ cap \in Tiers /\ positions = {} /\ deal = [o \in Orders |-> NewOrder]
    /\ rows = [u \in Clients |-> NoDeal]
    /\ advisory = [k \in Symbols \cup Clients |-> NoDeal]
    /\ exposure = [w \in Servants |-> [s \in Symbols |-> [side \in Sides |-> 0]]]
    /\ approved = TRUE /\ cached = [w \in Servants |-> [ok |-> FALSE, ttl |-> 0]]
    /\ lookup = [w \in Servants |-> {}] /\ revokedFor = 0
    /\ userRevocations = 0 /\ restarts = 0 /\ lateReaders = {} /\ lopsided = FALSE

(***************************************************************************)
(* getCachedUser().  The life of an entry counts from before its query.    *)
(***************************************************************************)
LookUp(w) ==
    /\ cached[w].ttl = 0 /\ lookup[w] = {}
    /\ lookup' = [lookup EXCEPT ![w] = {[ok |-> approved, age |-> 0]}]
    /\ UNCHANGED <<positions, deal, rows, advisory, exposure, approved, cached, revokedFor,
                   userRevocations, restarts, lateReaders, lopsided>>

LifeFromAnswer(age) == UserTtl
LifeLeft(age) == IF age < UserTtl THEN UserTtl - age ELSE 0
LookUpAnswered(w) ==
    /\ \E l \in lookup[w] : cached' = [cached EXCEPT ![w] = [ok |-> l.ok, ttl |-> LifeLeft(l.age)]]
    /\ lookup' = [lookup EXCEPT ![w] = {}]
    /\ UNCHANGED <<positions, deal, rows, advisory, exposure, approved, revokedFor,
                   userRevocations, restarts, lateReaders, lopsided>>

\* Compliance revokes the approval; minutes pass.
RevokeApproval ==
    /\ approved /\ userRevocations < MaxUserRevocations
    /\ approved' = FALSE /\ userRevocations' = userRevocations + 1
    /\ UNCHANGED <<positions, deal, rows, advisory, exposure, cached, lookup, revokedFor,
                   restarts, lateReaders, lopsided>>

MinutePasses ==
    /\ ~approved /\ revokedFor <= UserTtl /\ revokedFor' = revokedFor + 1
    /\ cached' = [w \in Servants |-> [cached[w] EXCEPT !.ttl = IF @ > 0 THEN @ - 1 ELSE 0]]
    /\ lookup' = [w \in Servants |-> {[l EXCEPT !.age = @ + 1] : l \in lookup[w]}]
    /\ UNCHANGED <<positions, deal, rows, advisory, exposure, approved, userRevocations, restarts,
                   lateReaders, lopsided>>

Known(w, o) == Asked[o].user = Client => cached[w].ttl > 0
Eligible(w, o) == Asked[o].user = Client => cached[w].ok

(***************************************************************************)
(* An order.                                                               *)
(***************************************************************************)
Refused(o) == deal' = [deal EXCEPT ![o] = [NewOrder EXCEPT !.pc = "rejected"]]

\* correlationWithOpenPositions(): none of those that too few closed trades, an
\* answer of a minute ago or an error leave unknown; correlationGuard.check().
Correlated(o, known) ==
    {p \in OfClient(positions, Asked[o].user) :
        known /\ {Asked[p.order].symbol, Asked[o].symbol} \in Compounding}
Compounds(o, known) == \E p \in Correlated(o, known) : Asked[p.order].side = Asked[o].side

\* preTradeCheck(): the advisory checks, and the worker's own registry.
PreTradeCheck(o, w, price, known) ==
    /\ deal[o].pc = "new" /\ Known(w, o)
    /\ IF /\ Eligible(w, o)
          /\ ClientMayOpen(o, positions, price)
          /\ ~Compounds(o, known)
          /\ LET entry == exposure[w][Asked[o].symbol]
             IN  CanOpen(Asked[o].side, price, entry["BUY"], entry["SELL"])
       THEN deal' = [deal EXCEPT ![o] = [NewOrder EXCEPT !.pc = "queued", !.on = w,
                                                       !.notional = price]]
       ELSE Refused(o)
    /\ UNCHANGED <<positions, rows, advisory, exposure, userVars, restarts, lateReaders, lopsided>>

\* execute(): the status once more, and the price of the fill.
Execute(o, price) ==
    /\ deal[o].pc = "queued" /\ Known(deal[o].on, o)
    /\ IF Eligible(deal[o].on, o)
       THEN deal' = [deal EXCEPT ![o].pc = "begun", ![o].notional = price]
       ELSE Refused(o)
    /\ UNCHANGED <<positions, rows, advisory, exposure, userVars, restarts, lateReaders, lopsided>>

\* checkAndLockMargin() updates the wallet's row, which stays locked till the end.
RowIgnored(u) == TRUE
RowFree(u) == rows[u] = NoDeal
LockMargin(o) ==
    /\ deal[o].pc = "begun" /\ RowFree(Asked[o].user)
    /\ rows' = [rows EXCEPT ![Asked[o].user] = o]
    /\ deal' = [deal EXCEPT ![o].pc = "margin"]
    /\ UNCHANGED <<positions, advisory, exposure, userVars, restarts, lateReaders, lopsided>>

\* The end of a transaction gives back what it holds.
Unlock(o) ==
    /\ rows' = [u \in Clients |-> IF rows[u] = o THEN NoDeal ELSE rows[u]]
    /\ advisory' = [k \in Symbols \cup Clients |-> IF advisory[k] = o THEN NoDeal ELSE advisory[k]]

\* The statement begins: it will see what is committed now.
Ask(o, from, to) ==
    /\ deal[o].pc = from
    /\ deal' = [deal EXCEPT ![o].pc = to, ![o].snap = positions]
    /\ UNCHANGED <<positions, rows, advisory, exposure, userVars, restarts, lateReaders, lopsided>>

\* It has its lock, and counts what it saw: the transaction goes on or rolls back.
Counts(o, from, to, key, passes) ==
    /\ deal[o].pc = from /\ advisory[key] = NoDeal
    /\ IF passes
       THEN /\ advisory' = [advisory EXCEPT ![key] = o]
            /\ deal' = [deal EXCEPT ![o].pc = to, ![o].snap = {}]
            /\ UNCHANGED rows
       ELSE Refused(o) /\ Unlock(o)
    /\ UNCHANGED <<positions, exposure, userVars, restarts, lopsided>>

\* exposureRegistry.checkCanOpenAtomic().
AskSymbol(o) == Ask(o, "margin", "symbolAsked")
CountSymbol(o) ==
    LET s == Asked[o].symbol
        seen(side) == OfSymbol(deal[o].snap, s, side)
        others == {side \in Sides : seen(side) # OfSymbol(positions, s, side)}
    IN  /\ Counts(o, "symbolAsked", "symbol", s,
                  CanOpen(Asked[o].side, deal[o].notional, Sum(seen("BUY")), Sum(seen("SELL"))))
        /\ lateReaders' = (IF others # {} THEN lateReaders \cup {o} ELSE lateReaders)

\* clientExposureLimits.checkAtomic() and concentrationGuard.checkAtomic(): two
\* statements, and under the client's locks both see the same of its positions.
AskClient(o) == Ask(o, "symbol", "clientAsked")
CountClient(o) ==
    /\ Counts(o, "clientAsked", "client", Asked[o].user,
              ClientMayOpen(o, deal[o].snap, deal[o].notional))
    /\ UNCHANGED lateReaders

Entered(w, s, side, by) ==
    [exposure EXCEPT ![w][s][side] = IF @ + by > 0 THEN @ + by ELSE 0]

\* The transaction commits, and the worker tells its own registry.
FillOrder(o) ==
    LET p == [order |-> o, notional |-> deal[o].notional]
        u == Asked[o].user
    IN  /\ deal[o].pc = "client"
        /\ positions' = positions \cup {p}
        /\ deal' = [deal EXCEPT ![o] = [NewOrder EXCEPT !.pc = "filled"]]
        /\ Unlock(o)
        /\ exposure' = Entered(deal[o].on, Asked[o].symbol, Asked[o].side, p.notional)
        /\ lopsided' = (lopsided \/ Concentrated(OfClient(positions', u)))
        /\ UNCHANGED <<userVars, restarts, lateReaders>>

\* Too little margin, a timeout, an error: all of the transaction is undone.
RollBack(o) ==
    /\ deal[o].pc \in InTransaction \cup {"begun"}
    /\ Refused(o) /\ Unlock(o)
    /\ UNCHANGED <<positions, exposure, userVars, restarts, lateReaders, lopsided>>

\* A position is settled by whichever worker is asked, at the price of its exit.
Settle(o, w, price) ==
    /\ \E p \in positions : p.order = o /\ positions' = positions \ {p}
    /\ RowFree(Asked[o].user)
    /\ exposure' = Entered(w, Asked[o].symbol, Asked[o].side, -price)
    /\ UNCHANGED <<deal, rows, advisory, userVars, restarts, lateReaders, lopsided>>

\* A worker restarts: its transactions are undone, load() fills its registry.
WorkerRestarts(w, loaded) ==
    /\ restarts < MaxRestarts /\ restarts' = restarts + 1
    /\ LET gone == {o \in Orders : deal[o].on = w}
       IN  /\ deal' = [o \in Orders |-> IF o \in gone THEN [NewOrder EXCEPT !.pc = "rejected"]
                                        ELSE deal[o]]
           /\ rows' = [u \in Clients |-> IF rows[u] \in gone THEN NoDeal ELSE rows[u]]
           /\ advisory' = [k \in Symbols \cup Clients |->
                               IF advisory[k] \in gone THEN NoDeal ELSE advisory[k]]
    /\ exposure' = [exposure EXCEPT ![w] = [s \in Symbols |-> [side \in Sides |->
                        IF loaded THEN Sum(OfSymbol(positions, s, side)) ELSE 0]]]
    /\ cached' = [cached EXCEPT ![w] = [ok |-> FALSE, ttl |-> 0]]
    /\ lookup' = [lookup EXCEPT ![w] = {}]
    /\ UNCHANGED <<positions, approved, revokedFor, userRevocations, lateReaders, lopsided>>

OrderStep(o) ==
    \/ \E price \in Prices :
           \/ \E w \in Servants : \/ \E known \in BOOLEAN : PreTradeCheck(o, w, price, known)
                                  \/ Settle(o, w, price)
           \/ Execute(o, price)
    \/ LockMargin(o) \/ AskSymbol(o) \/ CountSymbol(o) \/ AskClient(o) \/ CountClient(o)
    \/ FillOrder(o) \/ RollBack(o)

ExposureNext ==
    /\ \/ \E w \in Servants : \/ LookUp(w) \/ LookUpAnswered(w)
                              \/ \E loaded \in BOOLEAN : WorkerRestarts(w, loaded)
       \/ RevokeApproval \/ MinutePasses
       \/ \E o \in Orders : OrderStep(o)
    /\ UNCHANGED cap

ExposureSpec == ExposureInit /\ [][ExposureNext]_exposureVars
---------------------------------------------------------------------------
Gross(s) == Sum(OfSymbol(positions, s, "BUY")) + Sum(OfSymbol(positions, s, "SELL"))

\* However its orders race, a client has no more positions than its cap, and no
\* fill leaves it over-concentrated (client.exposure.limits.ts checkAtomic).
ClientsWithinCaps ==
    /\ \A u \in Clients : Cardinality(OfClient(positions, u)) <= cap
    /\ ~lopsided

\* An instrument is over its limit by no more than what those transactions filled
\* that had begun to read before another's commit (exposure.limits.ts).
OverrunByLateReaders ==
    \A s \in Symbols :
        Gross(s) <= GrossLimit + Sum({p \in positions : /\ p.order \in lateReaders
                                                        /\ Asked[p.order].symbol = s})

\* No worker takes a client for approved when the approval was revoked longer ago
\* than an entry of the cache lives (risk.engine.ts USER_CACHE_TTL_MS).
RevocationTakesHold ==
    ~approved /\ revokedFor >= UserTtl => \A w \in Servants : ~(cached[w].ok /\ cached[w].ttl > 0)

ExposureSound == ClientsWithinCaps /\ OverrunByLateReaders /\ RevocationTakesHold

\* False of the code.  The comment of checkCanOpenAtomic says two workers can no
\* longer both read an exposure under the limit and both go on to breach it.
InstrumentWithinLimit == \A s \in Symbols : Gross(s) <= GrossLimit

\* False of the code: what a worker has in its registry is what is open or less
\* (execution.engine.ts: the registry never overstates exposure).
RegistryNeverOverstates ==
    \A w \in Servants, s \in Symbols, side \in Sides :
        exposure[w][s][side] <= Sum(OfSymbol(positions, s, side))
==============================================================================
