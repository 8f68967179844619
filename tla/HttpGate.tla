------------------------------ MODULE HttpGate ------------------------------
(***************************************************************************)
(* What a request passes before its handler runs (shared/http.ts): the     *)
(* reputation of its address, the bot detector, the web firewall, the      *)
(* permissions, the step-up of critical operations, the rate limiter and   *)
(* the role of the route.  Any process serves any request; what the checks *)
(* remember is in Redis, which may fail.  One client, one user, one        *)
(* address; the trackers of suspicious patterns run beside the requests.   *)
(***************************************************************************)
EXTENDS Integers, FiniteSets, FiniteSetsExt

CONSTANTS
    Inbound,                    \* requests under way at once
    Kinds,                      \* what is asked for, and by whom: [route, who]
    Limit, MaxRate, Threshold,  \* of the limiter; of the detector; of the patterns
    Window,                     \* ticks a counter lives
    MaxInbound, MaxTicks, MaxStepUps, MaxRedisFaults

ASSUME GateAssumption ==
    /\ IsFiniteSet(Inbound)
    /\ Limit \in Nat /\ Threshold \in Nat \ {0} /\ Window \in Nat \ {0}

VARIABLES
    inbound,    \* request -> [pc, route, who, over]; over: its own count was too high
    window,     \* limited route -> [count, ttl]: rl:<tier>:<ip>:<endpoint>
    rate,       \* [count, ttl]: bot:rate:<ip>; ttl 0 with a count: it never ends
    ipBlock,    \* ticks the address stays blocked
    lock,       \* ticks the account stays locked
    events,     \* members of the sliding windows: [kind, id, at]
    trackers,   \* trackers under way: [kind, id, at]
    opToken,    \* the token of the operation's class: none, fresh, consumed
    ticks, arrivals, stepUpsIssued, redisFaults,
    ran,        \* history: route -> handlers run since its window began
    critical,   \* history: critical handlers run
    dropped     \* history: a tracker's command failed

gateVars == <<inbound, window, rate, ipBlock, lock, events, trackers, opToken, ticks,
              arrivals, stepUpsIssued, redisFaults, ran, critical, dropped>>

\* Routes: a health probe, the login (public), the account (any user), reports of
\* the operators, a movement of capital, a path that only scanners ask for.
Reports == {"report", "export"}
Limited == Reports \cup {"login", "account", "capital"}
Public == {"health", "login"}
NoRequest == [pc |-> "idle", route |-> "health", who |-> "none", over |-> FALSE]
NoCount == [count |-> 0, ttl |-> 0]

GateInit ==
    /\ inbound = [c \in Inbound |-> NoRequest]
    /\ window = [r \in Limited |-> NoCount] /\ rate = NoCount
    /\ ipBlock = 0 /\ lock = 0 /\ events = {} /\ trackers = {} /\ opToken = "none"
    /\ ticks = 0 /\ arrivals = 0 /\ stepUpsIssued = 0 /\ redisFaults = 0
    /\ ran = [r \in Limited |-> 0] /\ critical = 0 /\ dropped = FALSE

Stands(c, pc) == inbound[c].pc = pc
Passes(c, pc) == inbound' = [inbound EXCEPT ![c].pc = pc]
Replies(c) == inbound' = [inbound EXCEPT ![c] = NoRequest]

\* One command, which Redis may fail to carry out.
Redis(ok) == /\ ok \/ redisFaults < MaxRedisFaults
             /\ redisFaults' = redisFaults + (IF ok THEN 0 ELSE 1)

\* trackEndpoint() and trackAdminForbidden() start with zadd, beside the request ...
Recent(kind) == {e \in events : e.kind = kind /\ e.at > ticks - Window}
Track(kind, id, ok) ==
    LET e == [kind |-> kind, id |-> id, at |-> ticks]
    IN  /\ trackers' = trackers \cup {e}
        /\ events' = (IF ok THEN {o \in events : ~(o.kind = kind /\ o.id = id)} \cup {e} ELSE events)
        /\ dropped' = (dropped \/ ~ok)
NoTrack == UNCHANGED <<trackers, events, dropped>>

\* scoreIp() and detect(): a blocked address goes no further, and a failure of
\* Redis blocks none; the trap blocks the address for a day; any other request is
\* counted, by INCR, and by EXPIRE as a second command when the counter is new.
Arrive(c, kind, ok) ==
    /\ Stands(c, "idle") /\ arrivals < MaxInbound /\ arrivals' = arrivals + 1 /\ Redis(ok)
    /\ IF ok /\ ipBlock > 0 THEN UNCHANGED <<inbound, rate, ipBlock>>
       ELSE IF kind.route = "trap"
       THEN ipBlock' = (IF ok THEN Window + 1 ELSE ipBlock) /\ UNCHANGED <<inbound, rate>>
       ELSE /\ rate' = (IF ok THEN [rate EXCEPT !.count = @ + 1] ELSE rate)
            /\ inbound' = [inbound EXCEPT ![c] =
                   [pc |-> IF ok /\ rate.count = 0 THEN "expire" ELSE "route",
                    route |-> kind.route, who |-> kind.who,
                    over |-> ok /\ rate.count >= MaxRate]]
            /\ UNCHANGED ipBlock
    /\ UNCHANGED <<window, lock, events, trackers, opToken, ticks, stepUpsIssued, ran, critical,
                   dropped>>

DetectExpires(c, ok) ==
    /\ Stands(c, "expire") /\ Passes(c, "route") /\ Redis(ok)
    /\ rate' = (IF ok /\ rate.count > 0 THEN [rate EXCEPT !.ttl = Window] ELSE rate)
    /\ UNCHANGED <<window, ipBlock, lock, events, trackers, opToken, ticks, arrivals, stepUpsIssued,
                   ran, critical, dropped>>

\* The detector blocks a bare client of too many arrivals; the firewall blocks
\* by content, but for a raw body; a rule of the route asks for the operators,
\* every other path that is not public for some user.  A health probe is
\* answered here: the limiter is not asked.
Authorized(c) == inbound[c].route = "capital" => inbound[c].who = "operator"
Permitted(c) == \/ inbound[c].route \in Public
                \/ inbound[c].who # "none" /\ Authorized(c)
Inspected == BOOLEAN    \* inspect(): whether a rule matches the content

RouteOf(c, ok) ==
    /\ Stands(c, "route") /\ Redis(ok)
    /\ \E bare \in BOOLEAN, firewall \in Inspected :
           IF bare /\ inbound[c].over THEN Replies(c) /\ NoTrack
           ELSE /\ Track("scan", <<inbound[c].route, 0, 0>>, ok)
                /\ IF firewall \/ ~Permitted(c) \/ inbound[c].route = "health" THEN Replies(c)
                   ELSE Passes(c, IF inbound[c].route = "capital" THEN "stepup" ELSE "limit")
    /\ UNCHANGED <<window, rate, ipBlock, lock, opToken, ticks, arrivals, stepUpsIssued, ran,
                   critical>>

\* validateFromHeader(): the token is read and consumed by one script.
SpendsTwice == opToken # "none"
Spends == opToken = "fresh"
StepUpCheck(c, ok) ==
    /\ Stands(c, "stepup") /\ Redis(ok)
    /\ IF ok /\ Spends THEN opToken' = "consumed" /\ Passes(c, "limit")
       ELSE Replies(c) /\ UNCHANGED opToken
    /\ UNCHANGED <<window, rate, ipBlock, lock, events, trackers, ticks, arrivals, stepUpsIssued,
                   ran, critical, dropped>>

IssueStepUp ==
    /\ stepUpsIssued < MaxStepUps /\ stepUpsIssued' = stepUpsIssued + 1 /\ opToken' = "fresh"
    /\ UNCHANGED <<inbound, window, rate, ipBlock, lock, events, trackers, ticks, arrivals,
                   redisFaults, ran, critical, dropped>>

\* check(): one script counts and starts the window; without Redis there is no
\* answer but 503.  A user without the role of the route is refused after the
\* request was counted; then the handler runs, and answers or fails.
CountedLate(r) == [count |-> window[r].count + 1, ttl |-> window[r].ttl]
Counted(r) ==
    [count |-> window[r].count + 1, ttl |-> IF window[r].count = 0 THEN Window ELSE window[r].ttl]
LimitCheck(c, ok) ==
    LET r == inbound[c].route
        short == r \in Reports /\ inbound[c].who # "operator"
        runs == ok /\ Counted(r).count <= Limit /\ ~short
    IN  /\ Stands(c, "limit") /\ Replies(c) /\ Redis(ok)
        /\ window' = (IF ok THEN [window EXCEPT ![r] = Counted(r)] ELSE window)
        /\ IF ok /\ Counted(r).count <= Limit /\ short
           THEN Track("refusal", <<r, Counted(r).count, ticks>>, TRUE) ELSE NoTrack
        /\ ran' = (IF runs THEN [ran EXCEPT ![r] = @ + 1] ELSE ran)
        /\ critical' = critical + (IF runs /\ r = "capital" THEN 1 ELSE 0)
        /\ UNCHANGED <<rate, ipBlock, lock, opToken, ticks, arrivals, stepUpsIssued>>

\* ... zcard of what is recent, and the block or the lock.
SeenByOthers(t) == Cardinality({e \in Recent(t.kind) : e.id # t.id})
Seen(t) == Cardinality(Recent(t.kind))
TrackCount(t, ok) ==
    LET over == ok /\ Seen(t) >= Threshold
    IN  /\ t \in trackers /\ Redis(ok) /\ dropped' = (dropped \/ ~ok)
        /\ trackers' = trackers \ {t}
        /\ ipBlock' = (IF over /\ t.kind = "scan" THEN Window + 1 ELSE ipBlock)
        /\ lock' = (IF over /\ t.kind = "refusal" THEN Window + 1 ELSE lock)
        /\ UNCHANGED <<inbound, window, rate, events, opToken, ticks, arrivals, stepUpsIssued,
                       ran, critical>>

\* Redis expires its keys, and members that are too old are as good as removed:
\* every count removes them first.  A step-up outlives a window by four.
Lives(k) == IF k.ttl = 0 THEN k ELSE IF k.ttl = 1 THEN NoCount ELSE [k EXCEPT !.ttl = @ - 1]
Tick ==
    /\ ticks < MaxTicks /\ ticks' = ticks + 1
    /\ window' = [r \in Limited |-> Lives(window[r])] /\ rate' = Lives(rate)
    /\ ran' = [r \in Limited |-> IF window[r].ttl = 1 THEN 0 ELSE ran[r]]
    /\ ipBlock' = Max({0, ipBlock - 1}) /\ lock' = Max({0, lock - 1})
    /\ events' = {e \in events : e.at > ticks + 1 - Window}
    /\ UNCHANGED <<inbound, opToken, trackers, arrivals, stepUpsIssued, redisFaults, critical,
                   dropped>>

GateNext ==
    \/ \E ok \in BOOLEAN :
           \/ \E c \in Inbound :
                  \/ \E kind \in Kinds : Arrive(c, kind, ok)
                  \/ DetectExpires(c, ok) \/ RouteOf(c, ok)
                  \/ StepUpCheck(c, ok) \/ LimitCheck(c, ok)
           \/ \E t \in trackers : TrackCount(t, ok)
    \/ IssueStepUp \/ Tick
---------------------------------------------------------------------------
\* In one window no route runs more handlers than its limit, on all processes
\* together, and a client that was refused is heard again when the window ends:
\* no counter of the limiter lives without an end (rate-limiter.ts).
LimitsHold ==
    \A r \in Limited : /\ ran[r] <= Limit
                       /\ window[r].count > 0 => window[r].ttl > 0

\* One step-up lets one critical request through, however many carry it at once.
OneStepUpOneRun ==
    LET passed == {c \in Inbound : inbound[c].route = "capital" /\ Stands(c, "limit")}
    IN  critical + Cardinality(passed) <= stepUpsIssued

\* Once its trackers are done, a pattern over its threshold has had its answer,
\* whatever their commands interleaved with, unless Redis lost one of them.
PatternsAnswered ==
    trackers = {} /\ ~dropped =>
        /\ Cardinality(Recent("scan")) >= Threshold => ipBlock > 0
        /\ Cardinality(Recent("refusal")) >= Threshold => lock > 0

GateSound == LimitsHold /\ OneStepUpOneRun /\ PatternsAnswered

\* False of the code: the detector's counter is given its end by a second
\* command, and without it every later request of the address counts.
DetectorForgets ==
    rate.count > 0 /\ rate.ttl = 0 => \E c \in Inbound : Stands(c, "expire")
==============================================================================
