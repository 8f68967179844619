---------------------------- MODULE RiskSupervisor ----------------------------
(***************************************************************************)
(* The supervisor of the autopilot (risk-service/global.risk.supervisor):  *)
(* every worker in turn evaluates the platform's signals under the job     *)
(* lock, escalates at once and relaxes after RecoveryCycles clear          *)
(* evaluations; an administrator may force a mode or hand control back.    *)
(* Each worker has its own cached state and its own clear streak; the row  *)
(* and the control channel carry the state to the others.  The second part *)
(* is the halt of a single instrument.                                     *)
(***************************************************************************)
EXTENDS Integers, Sequences, FiniteSets, FiniteSetsExt

CONSTANTS
    Evaluators,     \* the workers
    Watched,        \* the signals that vary
    RecoveryCycles, \* RISK_SUP_RECOVERY_CYCLES
    MaxForced,      \* administrators' interventions
    MaxWeather,     \* changes of the platform's signals
    MaxNews         \* announcements on their way to one worker

VARIABLES
    state,          \* worker -> its cached [severity, forced]
    stored,         \* the BrokerSetting row
    writes,         \* worker -> states whose upserts are under way
    streak,         \* worker -> _clearStreak
    judged,         \* worker -> call -> the severity it computed, or NotJudged
    news,           \* worker -> states announced and not yet received
    weather,        \* signal -> its severity now
    interventions,
    weatherTurns

supervisorVars == <<state, stored, writes, streak, judged, news, weather,
                    interventions, weatherTurns>>

\* The severities a signal can raise.
Levels ==
    [database |-> {0, 1, 3}, redis |-> {0, 1}, marketData |-> {0, 1, 2},
     losses |-> 0 .. 3, drawdown |-> 0 .. 3, failures |-> 0 .. 2,
     latency |-> 0 .. 2, drops |-> 0 .. 2, bursts |-> 0 .. 2, spreads |-> 0 .. 2]

Normal == [severity |-> 0, forced |-> FALSE]
NotJudged == -1
Paths == {"evaluate", "clear"}

\* The worst signal decides.
SeverityFromSignals(signals) == Max({signals[s] : s \in Watched})

SupervisorInit ==
    /\ state = [w \in Evaluators |-> Normal]
    /\ stored = Normal
    /\ writes = [w \in Evaluators |-> {}]
    /\ streak = [w \in Evaluators |-> 0]
    /\ judged = [w \in Evaluators |-> [c \in Paths |-> NotJudged]]
    /\ news = [w \in Evaluators |-> <<>>]
    /\ weather = [s \in Watched |-> 0]
    /\ interventions = 0
    /\ weatherTurns = 0

WeatherChanges ==
    /\ weatherTurns < MaxWeather
    /\ \E s \in Watched : \E level \in Levels[s] \ {weather[s]} :
           weather' = [weather EXCEPT ![s] = level]
    /\ weatherTurns' = weatherTurns + 1
    /\ UNCHANGED <<state, stored, writes, streak, judged, news, interventions>>

\* The cache takes the new state and its upsert begins.
SetState(w, new) ==
    /\ state' = [state EXCEPT ![w] = new]
    /\ writes' = [writes EXCEPT ![w] = @ \cup {new}]

\* _persist(): the row gets the value captured when the upsert began, the
\* channel the one the cache has when it ends.
Persist(w) ==
    /\ \E s \in writes[w] :
        /\ stored' = s
        /\ writes' = [writes EXCEPT ![w] = @ \ {s}]
    /\ news' = [v \in Evaluators |-> Append(news[v], state[w])]
    /\ UNCHANGED <<state, streak, judged, weather, interventions, weatherTurns>>

Receive(w) ==
    /\ news[w] # <<>>
    /\ state' = [state EXCEPT ![w] = Head(news[w])]
    /\ news' = [news EXCEPT ![w] = Tail(@)]
    /\ UNCHANGED <<stored, writes, streak, judged, weather, interventions, weatherTurns>>

Judge(w, c) ==
    judged' = [judged EXCEPT ![w][c] = SeverityFromSignals(weather)]

\* The timer, under the job lock: _computeSignals().  A cycle starts long after
\* the last one's announcements arrived.
Evaluate(w) ==
    /\ \A v \in Evaluators :
        judged[v]["evaluate"] = NotJudged /\ writes[v] = {} /\ Len(news[v]) < MaxNews
    /\ Judge(w, "evaluate")
    /\ UNCHANGED <<state, stored, writes, streak, news, weather, interventions, weatherTurns>>

Forced(w) == state[w].forced

\* The rest of evaluate() for severity s: an override stops it; otherwise
\* escalate, or count the streak and relax, or keep the mode.
HeldStreak(w) == 0
ClearerStreak(w) == streak[w] + 1

Applied(w, s) ==
    LET now == state[w].severity
        clearer == s < now
        relaxes == clearer /\ ClearerStreak(w) >= RecoveryCycles
    IN  /\ streak' = [streak EXCEPT ![w] =
                IF clearer /\ ~relaxes THEN ClearerStreak(w) ELSE 0]
        /\ SetState(w, [severity |-> IF s > now \/ relaxes THEN s ELSE now,
                        forced |-> FALSE])

EvaluateApply(w) ==
    /\ judged[w]["evaluate"] # NotJudged
    /\ judged' = [judged EXCEPT ![w]["evaluate"] = NotJudged]
    /\ \/ Forced(w) /\ UNCHANGED <<state, writes, streak>>
       \/ ~Forced(w) /\ Applied(w, judged[w]["evaluate"])
    /\ UNCHANGED <<stored, news, weather, interventions, weatherTurns>>

ForceMode(w, severity) ==
    /\ interventions < MaxForced
    /\ interventions' = interventions + 1
    /\ SetState(w, [severity |-> severity, forced |-> TRUE])
    /\ UNCHANGED <<stored, streak, judged, news, weather, weatherTurns>>

\* clearOverride(): the local override goes first, the signals are computed,
\* and the mode snaps to them whatever the streak.
ClearOverride(w) ==
    /\ interventions < MaxForced
    /\ judged[w]["clear"] = NotJudged
    /\ interventions' = interventions + 1
    /\ state' = [state EXCEPT ![w].forced = FALSE]
    /\ streak' = [streak EXCEPT ![w] = 0]
    /\ Judge(w, "clear")
    /\ UNCHANGED <<stored, writes, news, weather, weatherTurns>>

ClearApply(w) ==
    /\ judged[w]["clear"] # NotJudged
    /\ judged' = [judged EXCEPT ![w]["clear"] = NotJudged]
    /\ SetState(w, [severity |-> judged[w]["clear"], forced |-> FALSE])
    /\ UNCHANGED <<stored, streak, news, weather, interventions, weatherTurns>>

SupervisorNext ==
    \/ WeatherChanges
    \/ \E w \in Evaluators :
        \/ Persist(w)
        \/ Receive(w)
        \/ Evaluate(w)
        \/ EvaluateApply(w)
        \/ \E severity \in 0 .. 3 : ForceMode(w, severity)
        \/ ClearOverride(w)
        \/ ClearApply(w)

CallStep(w) == Persist(w) \/ Receive(w) \/ EvaluateApply(w) \/ ClearApply(w)
---------------------------------------------------------------------------
\* Once the signals and the administrators leave it alone, every worker ends
\* in the mode of the real signals, or every worker in a forced one: no stale
\* announcement, evaluation or streak keeps one worker's autopilot open, or
\* shut, for ever.
ModesSettle ==
    <>[](\/ \A w \in Evaluators : Forced(w)
         \/ \A w \in Evaluators : state[w] = [severity |-> SeverityFromSignals(weather),
                                              forced |-> FALSE])

(***************************************************************************)
(* The trading halt of one instrument: the enabled flag of the broker's    *)
(* spread configuration (liquidity-engine/broker.spread.config.ts), which  *)
(* every worker caches, one row keeps and a control channel carries, and   *)
(* its two writers: administrators, and the circuit breaker of every       *)
(* worker (risk-service/symbol.circuit.breaker.ts), which halts the symbol *)
(* on an abnormal move and enables it again after a cooldown.              *)
(***************************************************************************)

CONSTANTS
    Brokers,        \* the workers
    MaxMoves,       \* abnormal moves of the price, as ticks at one worker
    MaxDisturbances \* administrators' changes, failed writes, restarts

VARIABLES
    enabled,        \* worker -> the cached flag
    flag,           \* the row's flag
    owned,          \* worker -> its haltedByBreaker entry: "no"|"hot"|"cooled"
    updating,       \* worker -> kind of caller -> its update() under way
    entries,        \* worker -> announced flags on their way to it
    intent,         \* history: what the last administrator asked, or "none"
    orphaned,       \* history: a halt lost its owner to a failure
    moves, disturbances

haltVars == <<enabled, flag, owned, updating, entries, intent, orphaned,
              moves, disturbances>>

Callers == {"trip", "sweep", "clear", "admin"}
NoUpdate == [pc |-> "none", to |-> TRUE]
Disturbed == disturbances < MaxDisturbances /\ disturbances' = disturbances + 1

HaltInit ==
    /\ enabled = [w \in Brokers |-> TRUE]
    /\ flag = TRUE
    /\ owned = [w \in Brokers |-> "no"]
    /\ updating = [w \in Brokers |-> [c \in Callers |-> NoUpdate]]
    /\ entries = [w \in Brokers |-> <<>>]
    /\ intent = "none"
    /\ orphaned = FALSE
    /\ moves = 0 /\ disturbances = 0

\* update() and setEnabled() up to the upsert: the cache changes first.
BeginUpdate(w, c, to) ==
    /\ updating[w][c] = NoUpdate
    /\ enabled' = [enabled EXCEPT ![w] = to]
    /\ updating' = [updating EXCEPT ![w][c] = [pc |-> "writing", to |-> to]]

\* recordTick() and recordReopen() beyond the threshold: an own halt lasts
\* longer, a symbol somebody else disabled is left alone.
AbnormalMove(w) ==
    /\ moves < MaxMoves
    /\ moves' = moves + 1
    /\ \/ /\ owned[w] # "no"
          /\ owned' = [owned EXCEPT ![w] = "hot"]
          /\ UNCHANGED <<enabled, updating>>
       \/ /\ owned[w] = "no" /\ enabled[w]
          /\ BeginUpdate(w, "trip", FALSE)
          /\ UNCHANGED owned
    /\ UNCHANGED <<flag, entries, intent, orphaned, disturbances>>

CoolDown(w) ==
    /\ owned[w] = "hot"
    /\ owned' = [owned EXCEPT ![w] = "cooled"]
    /\ UNCHANGED <<enabled, flag, updating, entries, intent, orphaned,
                   moves, disturbances>>

\* runRecoverySweep() on the worker that leads the job.
Forgotten(w) == [owned EXCEPT ![w] = "no"]
Remembered(w) == owned

Sweep(w) ==
    /\ owned[w] = "cooled"
    /\ BeginUpdate(w, "sweep", TRUE)
    /\ owned' = Remembered(w)
    /\ UNCHANGED <<flag, entries, intent, orphaned, moves, disturbances>>

\* POST /admin/broker/spread.
AdminUpdate(w, to) ==
    /\ Disturbed
    /\ BeginUpdate(w, "admin", to)
    /\ intent' = IF to THEN "on" ELSE "off"
    /\ UNCHANGED <<flag, owned, entries, orphaned, moves>>

\* POST /admin/symbol-circuit-breaker/:symbol/reset, only for an own halt.
AdminClear(w) ==
    /\ Disturbed
    /\ owned[w] # "no"
    /\ BeginUpdate(w, "clear", TRUE)
    /\ intent' = "on"
    /\ UNCHANGED <<flag, owned, entries, orphaned, moves>>

\* The upsert succeeds: the entry is published, then audited.
Upserted(w, c) ==
    /\ updating[w][c].pc = "writing"
    /\ flag' = updating[w][c].to
    /\ entries' = [v \in Brokers |-> Append(entries[v], updating[w][c].to)]
    /\ updating' = [updating EXCEPT ![w][c].pc = "auditing"]
    /\ UNCHANGED <<enabled, owned, intent, orphaned, moves, disturbances>>

\* A sweep and an administrator's reset end the same halt at once: the later of
\* the two may forget a halt that began in between.
Overlap(w) == updating[w]["sweep"] # NoUpdate /\ updating[w]["clear"] # NoUpdate

\* The audit succeeds: a trip takes ownership, a sweep and a clear give it up.
Audited(w, c) ==
    /\ updating[w][c].pc = "auditing"
    /\ updating' = [updating EXCEPT ![w][c] = NoUpdate]
    /\ owned' = CASE c = "trip" -> [owned EXCEPT ![w] = "hot"]
                  [] c \in {"sweep", "clear"} -> Forgotten(w)
                  [] c = "admin" -> owned
    /\ orphaned' = (orphaned \/ Overlap(w))
    /\ UNCHANGED <<enabled, flag, entries, intent, moves, disturbances>>

\* The upsert or the audit throws: a trip halts without taking ownership, a
\* sweep keeps its entry for the next one.
UpdateFails(w, c) ==
    /\ updating[w][c] # NoUpdate
    /\ Disturbed
    /\ updating' = [updating EXCEPT ![w][c] = NoUpdate]
    /\ orphaned' = (orphaned \/ c # "sweep")
    /\ UNCHANGED <<enabled, flag, owned, entries, intent, moves>>

SyncEntry(w) ==
    /\ entries[w] # <<>>
    /\ enabled' = [enabled EXCEPT ![w] = Head(entries[w])]
    /\ entries' = [entries EXCEPT ![w] = Tail(@)]
    /\ UNCHANGED <<flag, owned, updating, intent, orphaned, moves, disturbances>>

\* A worker starts again and load() reads the row; its entries are gone.
ReloadBroker(w) ==
    /\ Disturbed
    /\ enabled' = [enabled EXCEPT ![w] = flag]
    /\ owned' = [owned EXCEPT ![w] = "no"]
    /\ updating' = [updating EXCEPT ![w] = [c \in Callers |-> NoUpdate]]
    /\ entries' = [entries EXCEPT ![w] = <<>>]
    /\ orphaned' = (\/ orphaned
                    \/ owned[w] # "no"
                    \/ \E c \in Callers : updating[w][c] # NoUpdate)
    /\ UNCHANGED <<flag, intent, moves>>

HaltNext ==
    \E w \in Brokers :
        \/ AbnormalMove(w)
        \/ CoolDown(w)
        \/ Sweep(w)
        \/ \E to \in BOOLEAN : AdminUpdate(w, to)
        \/ AdminClear(w)
        \/ \E c \in Callers : Upserted(w, c) \/ Audited(w, c) \/ UpdateFails(w, c)
        \/ SyncEntry(w)
        \/ ReloadBroker(w)

HaltStep(w) ==
    \/ CoolDown(w)
    \/ SyncEntry(w)
    \/ \E c \in Callers : Upserted(w, c) \/ Audited(w, c)
---------------------------------------------------------------------------
Settled ==
    \A w \in Brokers : entries[w] = <<>> /\ owned[w] = "no"
                       /\ \A c \in Callers : updating[w][c] = NoUpdate

\* Once the price calms down and unless an administrator disabled it, the
\* symbol can be traded again on every worker, whatever write of a sweep
\* failed, except where a failure, or a sweep and a reset at once, took a halt's
\* owner away.
HaltEnds ==
    <>[](orphaned \/ intent = "off" \/ \A w \in Brokers : enabled[w])

\* symbol.circuit.breaker.ts:26-29: the breaker can never override deliberate
\* admin intent on auto-recovery.
AdminDisableStands ==
    (intent = "off" /\ Settled) => \A w \in Brokers : ~enabled[w]
=============================================================================
