--------------------------- MODULE SignalLearning ---------------------------
(***************************************************************************)
(* The signals of one symbol and what is learned from them: the generator  *)
(* with its cooldown (signals-engine/signal.generator.ts), the telemetry   *)
(* that ties a signal to the positions it led to (signal.telemetry.ts,     *)
(* olos.signal.service.ts), the optimizer that turns outcomes into a new   *)
(* version of the weights (self.optimizer.ts) and the copy of the weights  *)
(* in every worker (adaptive.weights.ts).  Time is counted in spells of    *)
(* COOLDOWN_MS, which is also the life of an ACTIVE signal.                *)
(***************************************************************************)
EXTENDS Integers, Sequences, FiniteSets

CONSTANTS
    Scanners,           \* workers, each with memory of its own
    Tuners,             \* those of them that run the optimizer
    Followers,          \* users whose autopilot may follow a signal
    TelemetrySpells,    \* life of the telemetry of a signal nobody followed
    MinSamples,         \* outcomes without which the optimizer does not run
    MaxSpells, MaxSignals, MaxFollowed, MaxVersions, MaxSignalFaults

ASSUME SignalAssumption ==
    TelemetrySpells \in Nat /\ MinSamples \in Nat /\ Tuners \subseteq Scanners

Nowhere == -1           \* of a time: never; of a load: none under way
Readers == {"scan", "tune"}

VARIABLES
    spell,
    cooldown,           \* worker -> spell of the last signal it remembers
    issued,             \* OlosSignal and SignalTelemetry rows, oldest first
    versions,           \* ConfidenceWeights: is the symbol disabled?
    cache,              \* worker -> version it holds, 0 for none
    loads,              \* worker -> reader -> version read and not yet cached
    scan,               \* worker -> its scan waits for the weights
    tune,               \* worker -> step of its optimizer run
    used,               \* history: worker -> version it used last
    wentBack,           \* history: a worker used an older version again
    amnesia,            \* history: restarts that did not find the cooldowns
    followed, signalFaults

signalVars == <<spell, cooldown, issued, versions, cache, loads, scan, tune, used,
                wentBack, amnesia, followed, signalFaults>>
weights == <<versions, cache, loads, tune, used, wentBack>>
scanning == <<cooldown, scan, amnesia>>

SignalFault == signalFaults < MaxSignalFaults /\ signalFaults' = signalFaults + 1
NoLoads == [r \in Readers |-> Nowhere]
NotTuning == [pc |-> "idle", next |-> 0]

SignalInit ==
    /\ spell = 0
    /\ cooldown = [w \in Scanners |-> Nowhere]
    /\ issued = << >> /\ versions = << >>
    /\ cache = [w \in Scanners |-> 0]
    /\ loads = [w \in Scanners |-> NoLoads]
    /\ scan = [w \in Scanners |-> FALSE]
    /\ tune = [w \in Scanners |-> NotTuning]
    /\ used = [w \in Scanners |-> 0] /\ wentBack = FALSE
    /\ amnesia = 0 /\ followed = 0 /\ signalFaults = 0
---------------------------------------------------------------------------
\* getWeights(): the copy, or else a query, or else (another call of this worker
\* is waiting for its query) the defaults, version 0.
LoadingIgnored(w) == FALSE
Loading(w) == \E r \in Readers : loads[w][r] # Nowhere
MustQuery(w) == cache[w] = 0 /\ ~Loading(w)
Query(w, r) == loads' = [loads EXCEPT ![w][r] = Len(versions)]

Uses(w, v) ==
    /\ used' = [used EXCEPT ![w] = IF v = 0 THEN @ ELSE v]
    /\ wentBack' = (wentBack \/ (v # 0 /\ v < used[w]))

\* The answer of a query, or its failure.
Answer(w, r, v) ==
    /\ loads[w][r] # Nowhere
    /\ loads' = [loads EXCEPT ![w][r] = Nowhere]
    /\ \/ v = loads[w][r] /\ UNCHANGED signalFaults
          /\ cache' = [cache EXCEPT ![w] = IF v = 0 THEN @ ELSE v]
       \/ v = 0 /\ SignalFault /\ UNCHANGED cache
---------------------------------------------------------------------------
\* by is history: the platform does not record which worker found it.
NewSignal(w, outcome) ==
    [by |-> w, born |-> spell, status |-> "ACTIVE", outcome |-> outcome,
     position |-> "none", trade |-> [u \in Followers |-> "none"]]

\* evaluate(), from the weights on: the symbol may be disabled, the confidence
\* too low; a signal that could not be stored gives the cooldown back.  Its
\* telemetry, recorded after it has been announced, may be missing.
Decide(w, v) ==
    \/ UNCHANGED <<issued, cooldown, signalFaults>>
    \/ /\ v \in {0} \cup {n \in DOMAIN versions : ~versions[n]}
       /\ Len(issued) < MaxSignals
       /\ \/ /\ \/ issued' = Append(issued, NewSignal(w, "PENDING")) /\ UNCHANGED signalFaults
                \/ issued' = Append(issued, NewSignal(w, "none")) /\ SignalFault
             /\ cooldown' = [cooldown EXCEPT ![w] = spell]
          \/ /\ SignalFault
             /\ cooldown' = [cooldown EXCEPT ![w] = Nowhere]
             /\ UNCHANGED issued

\* A tick of the signal-generator job, one worker at a time.
Scan(w) ==
    /\ \A u \in Scanners : ~scan[u]
    /\ cooldown[w] # spell
    /\ IF MustQuery(w)
       THEN /\ Query(w, "scan")
            /\ scan' = [scan EXCEPT ![w] = TRUE]
            /\ UNCHANGED <<issued, cooldown, used, wentBack, signalFaults>>
       ELSE /\ Decide(w, cache[w]) /\ Uses(w, cache[w])
            /\ UNCHANGED <<loads, scan>>
    /\ UNCHANGED <<followed, spell, versions, cache, tune, amnesia>>

Scanned(w) ==
    /\ scan[w] /\ scan' = [scan EXCEPT ![w] = FALSE]
    /\ loads' = [loads EXCEPT ![w]["scan"] = Nowhere]
    /\ \E v \in {0, loads[w]["scan"]} :     \* 0: none yet, or the query failed
        /\ cache' = [cache EXCEPT ![w] = IF v = 0 THEN @ ELSE v]
        /\ Decide(w, v) /\ Uses(w, v)
    /\ UNCHANGED <<followed, spell, versions, tune, amnesia>>

\* loadCooldownsFromDB(): the newest ACTIVE signal.
ReloadedCooldownNone == Nowhere
ReloadedCooldown ==
    LET active == {i \in DOMAIN issued : issued[i].status = "ACTIVE"}
    IN  IF active = {} THEN Nowhere
        ELSE issued[CHOOSE i \in active : \A j \in active : j <= i].born

RestartScanner(w) ==
    /\ SignalFault
    /\ \/ cooldown' = [cooldown EXCEPT ![w] = ReloadedCooldown] /\ UNCHANGED amnesia
       \/ cooldown' = [cooldown EXCEPT ![w] = Nowhere] /\ amnesia' = amnesia + 1
    /\ cache' = [cache EXCEPT ![w] = 0] /\ loads' = [loads EXCEPT ![w] = NoLoads]
    /\ scan' = [scan EXCEPT ![w] = FALSE] /\ tune' = [tune EXCEPT ![w] = NotTuning]
    /\ UNCHANGED <<followed, spell, issued, versions, used, wentBack>>
---------------------------------------------------------------------------
\* The autopilot of a follower fills an order on the signal, at once or later.
Follow(i, u) ==
    /\ issued[i].trade[u] = "none" /\ followed < MaxFollowed
    /\ followed' = followed + 1
    /\ issued' = [issued EXCEPT ![i].trade[u] = "open"]
    /\ UNCHANGED <<spell, scanning, weights, signalFaults>>

\* linkPosition(), after the fill: of several followers the last one stays.
LinkPosition(i, u) ==
    /\ issued[i].trade[u] \in {"open", "closed"}
    /\ issued[i].outcome # "none" /\ issued[i].position # u
    /\ issued' = [issued EXCEPT ![i].position = u]
    /\ UNCHANGED <<followed, spell, scanning, weights, signalFaults>>

\* position.closed reaches updateOutcome(), which looks for the position.
CloseTrade(i, u) ==
    /\ issued[i].trade[u] = "open"
    /\ \E result \in {"WIN", "LOSS"} :
        issued' = [issued EXCEPT ![i].trade[u] = "closed",
                      ![i].outcome = IF issued[i].position = u THEN result ELSE @]
    /\ UNCHANGED <<followed, spell, scanning, weights, signalFaults>>

\* runSignalExpiry(): expireStaleSignals() and expireStaleActiveSignals().
Stale(i) == issued[i].born + TelemetrySpells < spell
Unexecuted(i) == issued[i].outcome = "PENDING" /\ issued[i].position = "none"
SignalExpiry ==
    /\ issued' = [i \in DOMAIN issued |->
            [issued[i] EXCEPT
                !.outcome = IF Stale(i) /\ Unexecuted(i) THEN "EXPIRED" ELSE @,
                !.status = IF issued[i].born < spell THEN "EXPIRED" ELSE @]]
    /\ issued' # issued
    /\ UNCHANGED <<followed, spell, scanning, weights, signalFaults>>

SpellPasses ==
    /\ spell < MaxSpells /\ spell' = spell + 1
    /\ UNCHANGED <<followed, scanning, issued, weights, signalFaults>>
---------------------------------------------------------------------------
Decided == {i \in DOMAIN issued : issued[i].outcome \in {"WIN", "LOSS"}}

\* SelfOptimizer.run(), by its job or at the request of an administrator.
Tune(w) ==
    /\ tune[w].pc = "idle" /\ Cardinality(Decided) >= MinSamples
    /\ IF MustQuery(w)
       THEN /\ Query(w, "tune")
            /\ tune' = [tune EXCEPT ![w].pc = "loading"]
            /\ UNCHANGED <<used, wentBack>>
       ELSE /\ tune' = [tune EXCEPT ![w].pc = "reading"]
            /\ Uses(w, cache[w])
            /\ UNCHANGED loads
    /\ UNCHANGED <<followed, spell, scanning, issued, versions, cache, signalFaults>>

TuneLoaded(w) ==
    /\ tune[w].pc = "loading"
    /\ \E v \in 0 .. Len(versions) : Answer(w, "tune", v) /\ Uses(w, v)
    /\ tune' = [tune EXCEPT ![w].pc = "reading"]
    /\ UNCHANGED <<followed, spell, scanning, issued, versions>>

\* saveVersion(): the next number is read, then the row is created; a number
\* that is taken by then is refused.  Each worker forgets its own copy only.
ReadLast(w) ==
    /\ tune[w].pc = "reading" /\ Len(versions) < MaxVersions
    /\ tune' = [tune EXCEPT ![w] = [pc |-> "saving", next |-> Len(versions) + 1]]
    /\ UNCHANGED <<followed, spell, scanning, issued, versions, cache, loads, used, wentBack,
                   signalFaults>>

SaveVersion(w) ==
    /\ tune[w].pc = "saving"
    /\ tune' = [tune EXCEPT ![w] = NotTuning]
    /\ IF tune[w].next = Len(versions) + 1
       THEN /\ \E disabled \in BOOLEAN : versions' = Append(versions, disabled)
            /\ cache' = [cache EXCEPT ![w] = 0]
       ELSE UNCHANGED <<versions, cache>>
    /\ UNCHANGED <<followed, spell, scanning, issued, loads, used, wentBack, signalFaults>>

SignalNext ==
    \/ SignalExpiry \/ SpellPasses
    \/ \E i \in DOMAIN issued :
        \E u \in Followers : Follow(i, u) \/ LinkPosition(i, u) \/ CloseTrade(i, u)
    \/ \E w \in Scanners :
        Scan(w) \/ Scanned(w) \/ RestartScanner(w)
    \/ \E w \in Tuners : Tune(w) \/ TuneLoaded(w) \/ ReadLast(w) \/ SaveVersion(w)
---------------------------------------------------------------------------
\* The cooldown of four hours between two signals of a symbol is kept by every
\* worker for itself, across restarts: in a spell a worker finds one signal, and
\* one more for each restart whose read of the cooldowns failed.
SignalsSpaced ==
    \A t \in 0 .. spell, w \in Scanners :
        Cardinality({i \in DOMAIN issued : issued[i].born = t /\ issued[i].by = w})
            <= 1 + amnesia

\* A worker never takes up weights older than those it used before (but the
\* defaults): an answer that comes late does not replace a newer copy.
WeightsNeverGoBack == ~wentBack

\* Both: neither a restart nor a late answer undoes what a worker knew.
SignalsSound == SignalsSpaced /\ WeightsNeverGoBack
=============================================================================
