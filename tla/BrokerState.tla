---------------------------- MODULE BrokerState ----------------------------
(***************************************************************************)
(* The settings and records every process keeps a copy of (shared/state.ts):*)
(* read from the database when it starts, changed in its own memory by the *)
(* administrators' requests it happens to serve, and written back whole,   *)
(* without waiting.  No process hears of the changes of another one.  A    *)
(* value is the number of the change that made it, 0 the one of the seed.  *)
(* The same file is the trading engine of a process without a database:    *)
(* the second part of this module.                                         *)
(***************************************************************************)
EXTENDS Integers, FiniteSets, FiniteSetsExt

CONSTANTS
    Processes,
    MaxChanges, MaxProcessRestarts, MaxWriteFaults

\* What is kept, and its fields: the settings of the broker, the user's row and
\* the disposition of an AML alert.
FieldsOf ==
    [riskPolicy        |-> {"killSwitchEnabled", "maxDrawdownPct"},
     olosGovernance    |-> {"autopilotEnabled"},
     liquidityControls |-> {"mode"},
     featureFlags      |-> {"flags"},
     user              |-> {"kycStatus", "tier"},
     amlAlert          |-> {"status"}]
Records == DOMAIN FieldsOf

VARIABLES
    copy,           \* process -> record -> field -> value
    stored,         \* record -> field -> value, in the database
    writes,         \* writes under way: [n, record, value]
    changes,        \* changes so far
    newest,         \* history: the last change of each field
    unsettled,      \* history: records changed on an old copy, or while a write of
                    \* them was under way, or whose write failed
    hydrated,       \* history: processes that started with no write under way, and
                    \* nothing was changed since
    processRestarts, writeFaults

stateVars == <<copy, stored, writes, changes, newest, unsettled, hydrated,
               processRestarts, writeFaults>>

Seed == [r \in Records |-> [f \in FieldsOf[r] |-> 0]]
NotLoaded == -1

\* initializePersistence() and hydrateFromDatabase().  Of the settings,
\* applyBrokerSetting() knows three keys; the flags start from the seed again.
\* Alerts are read when they are first listed.
HydratedWithoutPolicy(rows) ==
    [rows EXCEPT !.featureFlags = Seed.featureFlags, !.riskPolicy = Seed.riskPolicy,
                 !.amlAlert.status = NotLoaded]
Hydrated(rows) ==
    [rows EXCEPT !.featureFlags = Seed.featureFlags, !.amlAlert.status = NotLoaded]

StateInit ==
    /\ stored = Seed /\ newest = Seed
    /\ copy = [p \in Processes |-> Hydrated(Seed)]
    /\ writes = {} /\ changes = 0 /\ unsettled = {} /\ hydrated = Processes
    /\ processRestarts = 0 /\ writeFaults = 0

WritesOf(r) == {m \in writes : m.record = r}

\* The change takes hold in this process at once; the write carries its whole
\* copy of the record.
Change(p, r, f) ==
    LET n == changes + 1
        changed == [copy[p][r] EXCEPT ![f] = n]
    IN  /\ changes < MaxChanges /\ changes' = n
        /\ copy' = [copy EXCEPT ![p][r] = changed]
        /\ writes' = writes \cup {[n |-> n, record |-> r, value |-> changed]}
        /\ newest' = [newest EXCEPT ![r][f] = n]
        /\ unsettled' = IF copy[p][r] # newest[r] \/ WritesOf(r) # {}
                        THEN unsettled \cup {r} ELSE unsettled
        /\ hydrated' = {}
        /\ UNCHANGED <<stored, processRestarts, writeFaults>>

AdminUpdateRiskPolicy(p) == Change(p, "riskPolicy", "maxDrawdownPct")
\* Beside KillSwitch: the flag of the policy follows in this process alone.
AdminKillSwitch(p) == Change(p, "riskPolicy", "killSwitchEnabled")
AdminUpdateOlosGovernance(p) == Change(p, "olosGovernance", "autopilotEnabled")
AdminUpdateLiquidity(p) == Change(p, "liquidityControls", "mode")
UpdateFeatureFlags(p) == Change(p, "featureFlags", "flags")
AdminUpdateTier(p) == Change(p, "user", "tier")
AdminSetKycStatus(p) == Change(p, "user", "kycStatus")
\* The status follows from the documents this process holds, if it changes.
AdminReviewDocument(p) == Change(p, "user", "kycStatus")

\* The identity checks (KycCases) write to the row of the user alone.
DecideKyc ==
    /\ changes < MaxChanges /\ changes' = changes + 1
    /\ stored' = [stored EXCEPT !.user.kycStatus = changes + 1]
    /\ newest' = [newest EXCEPT !.user.kycStatus = changes + 1]
    /\ unsettled' = IF WritesOf("user") # {} THEN unsettled \cup {"user"} ELSE unsettled
    /\ hydrated' = {}
    /\ UNCHANGED <<copy, writes, processRestarts, writeFaults>>

\* An alert a process has listed before keeps its status there.
GetAmlAlerts(p) ==
    /\ copy[p].amlAlert.status = NotLoaded
    /\ copy' = [copy EXCEPT ![p].amlAlert = stored.amlAlert]
    /\ UNCHANGED <<stored, writes, changes, newest, unsettled, hydrated,
                   processRestarts, writeFaults>>
ReviewAmlAlert(p) ==
    /\ copy[p].amlAlert.status # NotLoaded
    /\ Change(p, "amlAlert", "status")

\* Upserts of one record land in any order; a failed one is logged.
Persist(m) ==
    /\ stored' = [stored EXCEPT ![m.record] = m.value]
    /\ writes' = writes \ {m} /\ hydrated' = {}
    /\ UNCHANGED <<copy, changes, newest, unsettled, processRestarts, writeFaults>>
PersistFails(m) ==
    /\ writeFaults < MaxWriteFaults /\ writeFaults' = writeFaults + 1
    /\ writes' = writes \ {m} /\ unsettled' = unsettled \cup {m.record}
    /\ UNCHANGED <<copy, stored, changes, newest, hydrated, processRestarts>>

Restart(p) ==
    /\ processRestarts < MaxProcessRestarts /\ processRestarts' = processRestarts + 1
    /\ copy' = [copy EXCEPT ![p] = Hydrated(stored)]
    /\ hydrated' = IF writes = {} THEN hydrated \cup {p} ELSE hydrated \ {p}
    /\ UNCHANGED <<stored, writes, changes, newest, unsettled, writeFaults>>

StateNext ==
    \/ \E p \in Processes :
          \/ AdminUpdateRiskPolicy(p) \/ AdminKillSwitch(p)
          \/ AdminUpdateOlosGovernance(p) \/ AdminUpdateLiquidity(p)
          \/ UpdateFeatureFlags(p) \/ AdminUpdateTier(p) \/ AdminSetKycStatus(p)
          \/ AdminReviewDocument(p) \/ GetAmlAlerts(p) \/ ReviewAmlAlert(p)
          \/ Restart(p)
    \/ DecideKyc
    \/ \E m \in writes : Persist(m) \/ PersistFails(m)
---------------------------------------------------------------------------
\* The database holds the last change of every field, once nothing is being
\* written: but of a record that a process changed on an old copy (it then takes
\* back what another one did), or whose writes overlapped or failed.
ChangesKept ==
    \A r \in Records \ unsettled : WritesOf(r) = {} => stored[r] = newest[r]

\* A process that started when nothing was being written works with the last
\* changes, the feature flags excepted, until the next change.
StartsCurrent ==
    \A p \in hydrated, r \in Records \ (unsettled \cup {"featureFlags", "amlAlert"}) :
        copy[p][r] = newest[r]

\* Both: what an administrator set is neither lost on its way to the database
\* nor on its way back.
SettingsSound == ChangesKept /\ StartsCurrent

\* A kill switch taken back is taken back wherever it is looked at.  The code
\* changes it in the process that serves the request (gateway/routes.ts:675), and
\* the autopilot of every other one goes on refusing (autopilot.pipeline.ts:81).
SwitchIsOne ==
    \A p, q \in Processes : copy[p].riskPolicy.killSwitchEnabled
                                = copy[q].riskPolicy.killSwitchEnabled
---------------------------------------------------------------------------
(***************************************************************************)
(* The process without a database: one trader's orders, positions and      *)
(* account live in memory (shared/state.ts), and the requests that go to   *)
(* the order controller, the ledger engine and the settlement engine in    *)
(* production are served there.  Prices are whole numbers, the spread two. *)
(***************************************************************************)

CONSTANTS
    Mids,                       \* mid prices of the instrument
    Quantities, Amounts,        \* sizes of orders; of requests and allocations
    SeedCapital, Leverage,
    MaxTickets                  \* orders, requests and allocations

\* An order has a margin: in the code it is not rounded to a whole number.
ASSUME SandboxAssumption ==
    /\ Mids \subseteq Nat /\ Quantities \subseteq Nat /\ Amounts \subseteq Nat
    /\ SeedCapital \in Nat /\ Leverage \in Nat \ {0}
    /\ \A m \in Mids, q \in Quantities : Leverage <= (m - 1) * q

VARIABLES
    mid,
    trades,         \* positions: [id, side, quantity, entry, margin, sl, tp]
    entries,        \* ledger: [id, amount, status]
    tickets,        \* ids given out
    enabled,        \* neither kill switch, halted symbol nor event block
    drifted         \* history: the price moved, or capital went, under open trades

sandboxVars == <<mid, trades, entries, tickets, enabled, drifted>>

SandboxInit ==
    /\ mid \in Mids /\ trades = {}
    /\ entries = {[id |-> 0, amount |-> SeedCapital, status |-> "APPROVED"]}
    /\ tickets = 0 /\ enabled = TRUE /\ drifted = FALSE

\* recalculateClientAccount() and getWallet().
Allocated == MapThenSumSet(LAMBDA e : e.amount, {e \in entries : e.status = "APPROVED"})
Pnl(t) == (mid - t.entry) * t.quantity * (IF t.side = "BUY" THEN 1 ELSE -1)
UnrealizedPnl == MapThenSumSet(Pnl, trades)
MarginUsed == MapThenSumSet(LAMBDA t : t.margin, trades)
Equity == Allocated + UnrealizedPnl
EquityAsFree == Max({0, Equity})
FreeMargin == Max({0, Equity - MarginUsed})

Ticket == tickets < MaxTickets /\ tickets' = tickets + 1

\* placeOrder(): the whole quantity fills at the top of the book.
Fill(side) == IF side = "BUY" THEN mid + 1 ELSE mid - 1
MarginRequired(side, quantity) == (Fill(side) * quantity) \div Leverage
Acceptable(side, quantity) == enabled /\ MarginRequired(side, quantity) <= FreeMargin
PlaceOrder(side, quantity) ==
    /\ Ticket
    /\ trades' = IF Acceptable(side, quantity)
                 THEN trades \cup {[id |-> tickets + 1, side |-> side, quantity |-> quantity,
                                    entry |-> Fill(side),
                                    margin |-> MarginRequired(side, quantity),
                                    sl |-> 0, tp |-> 0]}
                 ELSE trades
    /\ UNCHANGED <<mid, entries, enabled, drifted>>

\* The profit or loss is reported, and credited to nothing.
ClosePosition(t) ==
    /\ trades' = trades \ {t}
    /\ UNCHANGED <<mid, entries, tickets, enabled, drifted>>

Before(t, level) == IF t.side = "BUY" THEN level < t.entry ELSE level > t.entry
Beyond(t, level) == IF t.side = "BUY" THEN level > t.entry ELSE level < t.entry
ModifySlTp(t, sl, tp) ==
    /\ Before(t, sl) /\ Beyond(t, tp)
    /\ trades' = (trades \ {t}) \cup {[t EXCEPT !.sl = sl, !.tp = tp]}
    /\ UNCHANGED <<mid, entries, tickets, enabled, drifted>>

\* createDepositRequest() and createWithdrawRequest(), which asks for what is free.
RequestCapital(amount) ==
    /\ Ticket
    /\ entries' = entries \cup
          {[id |-> tickets + 1, amount |-> amount,
            status |-> IF amount < 0 /\ -amount > FreeMargin THEN "REJECTED"
                       ELSE "PENDING_ADMIN"]}
    /\ UNCHANGED <<mid, trades, enabled, drifted>>

\* adminReviewLedger(): whatever the status was; an approval adds an allocation of
\* the same amount, and both count.
ReviewLedger(e, status) ==
    /\ Ticket
    /\ e.id # 0
    /\ entries' = (entries \ {e}) \cup {[e EXCEPT !.status = status]}
          \cup (IF status = "APPROVED"
                THEN {[id |-> tickets + 1, amount |-> e.amount, status |-> "APPROVED"]}
                ELSE {})
    /\ drifted' = (drifted \/ trades # {})
    /\ UNCHANGED <<mid, trades, enabled>>

\* adminAllocateCapital() and adminWithdrawCapital(), which asks for nothing.
AllocateCapital(amount) ==
    /\ Ticket
    /\ entries' = entries \cup {[id |-> tickets + 1, amount |-> amount, status |-> "APPROVED"]}
    /\ drifted' = (drifted \/ (amount < 0 /\ trades # {}))
    /\ UNCHANGED <<mid, trades, enabled>>

PriceMoves ==
    /\ mid' \in Mids \ {mid}
    /\ drifted' = (drifted \/ trades # {})
    /\ UNCHANGED <<trades, entries, tickets, enabled>>
SwitchTrading ==
    /\ enabled' = ~enabled
    /\ UNCHANGED <<mid, trades, entries, tickets, drifted>>

SandboxNext ==
    \/ \E side \in {"BUY", "SELL"}, quantity \in Quantities : PlaceOrder(side, quantity)
    \/ \E t \in trades : \/ ClosePosition(t)
                         \/ \E sl, tp \in Mids : ModifySlTp(t, sl, tp)
    \/ \E amount \in Amounts : \/ RequestCapital(amount) \/ RequestCapital(-amount)
                               \/ AllocateCapital(amount) \/ AllocateCapital(-amount)
    \/ \E e \in entries, status \in {"APPROVED", "REJECTED"} : ReviewLedger(e, status)
    \/ PriceMoves \/ SwitchTrading
---------------------------------------------------------------------------
\* The margin of all open trades together never exceeds the capital, in whatever
\* order they were opened and closed, as long as price and capital stay.
TradesWithinMeans == ~drifted /\ trades # {} => MarginUsed <= Allocated
=============================================================================
