-------------------------- MODULE AutopilotEntries --------------------------
(***************************************************************************)
(* The entries the autopilot makes for one user: the user's configuration  *)
(* (autopilot-service/autopilot.service.ts), copied by every worker for a  *)
(* few seconds, the consent and eligibility it takes to enable it, the     *)
(* pipeline that turns a signal into an order (autopilot.pipeline.ts), and *)
(* the two brakes of the position manager: the platform's circuit breaker, *)
(* a switch in the memory of each worker, and the user's daily loss lock.  *)
(***************************************************************************)
EXTENDS Integers, FiniteSets

CONSTANTS
    Pilots,             \* workers; the one that leads the signals evaluates them
    maxOpenTrades, maxDailyTrades,
    MaxSignals,
    MaxConfigChanges,   \* by the user and the administrators
    MaxPilotFaults      \* rejected orders, lost tags, restarts

ASSUME PilotAssumption == maxOpenTrades \in Nat /\ maxDailyTrades \in Nat

VARIABLES
    config,             \* [enabled, pausedByAdmin, locked], the row
    cached,             \* worker -> its copy of the row, or None
    consent, eligible,
    governance,         \* worker -> autopilotEnabled in its memory
    governanceRow,      \* as persisted, read at startup
    evaluation,         \* worker -> step of its evaluation of a signal
    resting,            \* limit orders of the autopilot in the book
    opened,             \* open positions: [tagged, untagged]
    openedToday,        \* tagged positions of the day
    losses,             \* realized loss of the day, tagged positions
    tripped,            \* the circuit breaker has disabled the autopilot
    escaped,            \* history: a signal passed the gates after that
    signals, changes, pilotFaults

pilotVars == <<config, cached, consent, eligible, governance, governanceRow, evaluation,
               resting, opened, openedToday, losses, tripped, escaped, signals,
               changes, pilotFaults>>
settings == <<config, cached, consent, eligible>>
platform == <<governance, governanceRow, tripped>>
trades == <<resting, opened, openedToday, losses>>

PilotFault == pilotFaults < MaxPilotFaults /\ pilotFaults' = pilotFaults + 1
Change == changes < MaxConfigChanges /\ changes' = changes + 1

None == [enabled |-> FALSE, pausedByAdmin |-> FALSE, locked |-> FALSE, copied |-> FALSE]
Copy(c) == [enabled |-> c.enabled, pausedByAdmin |-> c.pausedByAdmin,
            locked |-> c.locked, copied |-> TRUE]

PilotInit ==
    /\ config = [enabled |-> FALSE, pausedByAdmin |-> FALSE, locked |-> FALSE]
    /\ cached = [w \in Pilots |-> None]
    /\ consent = FALSE /\ eligible = TRUE
    /\ governance = [w \in Pilots |-> TRUE] /\ governanceRow = TRUE
    /\ evaluation = [w \in Pilots |-> "none"]
    /\ resting = 0 /\ opened = [tagged |-> 0, untagged |-> 0]
    /\ openedToday = 0 /\ losses = 0
    /\ tripped = FALSE /\ escaped = FALSE
    /\ signals = 0 /\ changes = 0 /\ pilotFaults = 0
---------------------------------------------------------------------------
\* getConfig(): the worker's copy while it is fresh, else the row.
ConfigOf(w) == IF cached[w].copied THEN cached[w] ELSE Copy(config)

\* _configCache.delete(), on the worker that wrote the row alone.
Written(w) == cached' = [cached EXCEPT ![w] = None]

AcceptConsent ==
    /\ ~consent /\ consent' = TRUE
    /\ UNCHANGED <<config, cached, eligible, platform, evaluation, trades, escaped, signals,
                   changes, pilotFaults>>

\* saveConfig()
SaveConfig(w, enable) ==
    /\ Change
    /\ (enable /\ ~ConfigOf(w).enabled) => (eligible /\ consent)
    /\ config' = [config EXCEPT !.enabled = enable]
    /\ Written(w)
    /\ UNCHANGED <<consent, eligible, platform, evaluation, trades, escaped, signals,
                   pilotFaults>>
\* adminSetPause()
AdminSetPause(w, paused) ==
    /\ Change
    /\ paused # config.pausedByAdmin
    /\ config' = [config EXCEPT !.pausedByAdmin = paused]
    /\ Written(w)
    /\ UNCHANGED <<consent, eligible, platform, evaluation, trades, escaped, signals,
                   pilotFaults>>
\* CONFIG_CACHE_TTL_MS
CopyLapsedNever(w) == FALSE
CopyLapsed(w) == cached[w].copied
Lapse(w) ==
    /\ CopyLapsed(w)
    /\ cached' = [cached EXCEPT ![w] = None]
    /\ UNCHANGED <<config, consent, eligible, platform, evaluation, trades, escaped,
                   signals, changes, pilotFaults>>

\* The user's tier, verification or funds change.
EligibilityChanges ==
    /\ Change
    /\ eligible' = ~eligible
    /\ UNCHANGED <<config, cached, consent, platform, evaluation, trades, escaped,
                   signals, pilotFaults>>

\* adminUpdateOlosGovernance(): this worker's memory, and the row.
AdminGovernance(w) ==
    /\ Change
    /\ ~governance[w]
    /\ governance' = [governance EXCEPT ![w] = TRUE] /\ governanceRow' = TRUE
    /\ tripped' = FALSE /\ escaped' = FALSE
    /\ UNCHANGED <<settings, evaluation, trades, signals, pilotFaults>>
---------------------------------------------------------------------------
\* evaluate() of a signal, for users whose row is enabled, as far as its reads.
Gates(w) ==
    LET c == ConfigOf(w)
    IN  c.enabled /\ ~c.pausedByAdmin /\ governance[w] /\ ~c.locked

Evaluate(w) ==
    /\ evaluation[w] = "none" /\ config.enabled
    /\ signals < MaxSignals /\ signals' = signals + 1
    /\ cached' = [cached EXCEPT ![w] = ConfigOf(w)]
    /\ evaluation' = [evaluation EXCEPT ![w] = IF Gates(w) THEN "reading" ELSE "none"]
    /\ escaped' = (escaped \/ (Gates(w) /\ tripped))
    /\ UNCHANGED <<config, consent, eligible, platform, trades, changes, pilotFaults>>

\* What it read at once: eligibility, trades of the day, open positions.
Read(w) ==
    /\ evaluation[w] = "reading"
    /\ evaluation' = [evaluation EXCEPT ![w] =
            IF /\ eligible
               /\ openedToday < maxDailyTrades
               /\ opened.tagged + opened.untagged < maxOpenTrades
            THEN "placing" ELSE "none"]
    /\ UNCHANGED <<settings, platform, trades, escaped, signals, changes, pilotFaults>>

\* placeOrder() fills, or rests as a limit order, or is refused.
Place(w) ==
    /\ evaluation[w] = "placing"
    /\ \/ /\ evaluation' = [evaluation EXCEPT ![w] = "tagging"]
          /\ opened' = [opened EXCEPT !.untagged = @ + 1]
          /\ UNCHANGED <<resting, pilotFaults>>
       \/ /\ evaluation' = [evaluation EXCEPT ![w] = "none"]
          /\ resting' = resting + 1
          /\ UNCHANGED <<opened, pilotFaults>>
       \/ /\ PilotFault
          /\ evaluation' = [evaluation EXCEPT ![w] = "none"]
          /\ UNCHANGED <<resting, opened>>
    /\ UNCHANGED <<settings, platform, openedToday, losses, escaped, signals, changes>>

\* _tagFilledPosition(); a failure leaves the position untagged for good.
Tagged == /\ opened' = [tagged |-> opened.tagged + 1, untagged |-> opened.untagged - 1]
          /\ openedToday' = openedToday + 1
Tag(w) ==
    /\ evaluation[w] = "tagging"
    /\ evaluation' = [evaluation EXCEPT ![w] = "none"]
    /\ \/ opened.untagged > 0 /\ Tagged /\ UNCHANGED pilotFaults
       \/ PilotFault /\ UNCHANGED <<opened, openedToday>>
       \/ opened.untagged = 0 /\ UNCHANGED <<opened, openedToday, pilotFaults>>
    /\ UNCHANGED <<settings, platform, resting, losses, escaped, signals, changes>>

\* handleOrderTriggered() tags a limit order's position; or the order expires.
RestingEnds ==
    /\ resting > 0 /\ resting' = resting - 1
    /\ \/ /\ opened' = [opened EXCEPT !.tagged = @ + 1]
          /\ openedToday' = openedToday + 1
          /\ UNCHANGED pilotFaults
       \/ /\ PilotFault
          /\ opened' = [opened EXCEPT !.untagged = @ + 1]
          /\ UNCHANGED openedToday
       \/ UNCHANGED <<opened, openedToday, pilotFaults>>
    /\ UNCHANGED <<settings, platform, evaluation, losses, escaped, signals, changes>>

\* A position is closed; the loss of a tagged one counts.
ClosePiloted ==
    /\ \/ /\ opened.tagged > 0
          /\ opened' = [opened EXCEPT !.tagged = @ - 1]
          /\ losses' \in {losses, 1}
       \/ /\ opened.untagged > 0
          /\ opened' = [opened EXCEPT !.untagged = @ - 1]
          /\ UNCHANGED losses
    /\ UNCHANGED <<settings, platform, evaluation, resting, openedToday, escaped,
                   signals, changes, pilotFaults>>
---------------------------------------------------------------------------
\* _checkCircuitBreaker(): the platform's loss of the day has reached the limit.
TripBreaker(w) ==
    /\ governance[w] /\ losses > 0
    /\ governance' = [governance EXCEPT ![w] = FALSE] /\ governanceRow' = FALSE
    /\ tripped' = TRUE
    /\ UNCHANGED <<settings, evaluation, trades, escaped, signals, changes, pilotFaults>>

\* _checkPerClientDailyLoss()
LockForTheDay(w) ==
    /\ losses > 0 /\ ~ConfigOf(w).locked
    /\ config' = [config EXCEPT !.locked = TRUE]
    /\ Written(w)
    /\ UNCHANGED <<consent, eligible, platform, evaluation, trades, escaped, signals,
                   changes, pilotFaults>>

NextDay ==
    /\ losses > 0 \/ openedToday > 0 \/ config.locked
    /\ losses' = 0 /\ openedToday' = 0
    /\ config' = [config EXCEPT !.locked = FALSE]
    /\ cached' = [w \in Pilots |-> [cached[w] EXCEPT !.locked = FALSE]]
    /\ UNCHANGED <<consent, eligible, platform, evaluation, resting, opened, escaped,
                   signals, changes, pilotFaults>>

Restart(w) ==
    /\ PilotFault
    /\ governance' = [governance EXCEPT ![w] = governanceRow]
    /\ cached' = [cached EXCEPT ![w] = None]
    /\ evaluation' = [evaluation EXCEPT ![w] = "none"]
    /\ UNCHANGED <<config, consent, eligible, governanceRow, tripped, trades, escaped,
                   signals, changes>>

PilotNext ==
    \/ AcceptConsent \/ EligibilityChanges \/ RestingEnds \/ ClosePiloted \/ NextDay
    \/ \E w \in Pilots :
        \/ \E b \in BOOLEAN : SaveConfig(w, b) \/ AdminSetPause(w, b)
        \/ Lapse(w) \/ AdminGovernance(w)
        \/ Evaluate(w) \/ Read(w) \/ Place(w) \/ Tag(w)
        \/ TripBreaker(w) \/ LockForTheDay(w) \/ Restart(w)

EvaluationStep(w) == Read(w) \/ Place(w) \/ Tag(w)
---------------------------------------------------------------------------
\* Once an administrator has paused the autopilot of a user for good, every
\* worker comes to refuse its signals, whatever copy of the row it held, and no
\* order of the autopilot is left in the book.
PauseTakesHold ==
    (<>[]config.pausedByAdmin) => <>[](resting = 0 /\ \A w \in Pilots : ~Gates(w))

\* "Autopilot has been automatically disabled platform-wide for all users"
\* (autopilot.position.manager.ts:245-247).  The breaker changes the switch of the
\* worker that manages positions; signals are evaluated by another one.
DisabledPlatformWide == ~escaped
=============================================================================
