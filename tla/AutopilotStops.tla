--------------------------- MODULE AutopilotStops ---------------------------
(***************************************************************************)
(* The management of an open position of the autopilot                     *)
(* (autopilot-service/autopilot.position.manager.ts) beside its owner, who *)
(* may move the stop as well (trading-service/order.modify.ts) or close,   *)
(* and the monitor of the manager's process, which closes at the stop it   *)
(* has in memory.  Those of other processes are told of no change at all.  *)
(* The position is a long one entered at 0; prices and stops are in        *)
(* quarters of its initial risk R.                                         *)
(***************************************************************************)
EXTENDS Integers

CONSTANTS
    Moves,              \* prices the market may show
    OwnStops,           \* stops the owner may set
    breakEvenTrigger, trailingActivation,
    atrTrail,           \* the distance of the trailing stop
    MaxMoves, MaxOwnMoves, MaxStopFaults

ASSUME StopsAssumption ==
    /\ Moves \subseteq Int /\ OwnStops \subseteq Int
    /\ breakEvenTrigger \in Nat /\ trailingActivation \in Nat /\ atrTrail \in Nat

InitialStop == -4
Buffer == 1             \* the tiny buffer past the entry

VARIABLES
    price, pnl,         \* the quote, and the P&L in the row
    alive, stop, breakEvenApplied,
    armed,              \* the stop the price monitor watches
    edit,               \* an edit of the owner under way: [pc, level]
    unheard,            \* history: the monitor was not told of the last change
    aged,               \* open longer than maxHoursOpen
    against,            \* the regime has turned against the position
    pass,               \* the manager's pass: its step and the row it read
    raced,              \* history: the owner moved the stop during the pass
    loosened,           \* history: the manager moved a stop away, unraced
    seen,               \* history: a pass saw break-even due, and nothing failed
    moves, ownMoves, stopFaults

stopVars == <<price, pnl, alive, stop, breakEvenApplied, armed, edit, unheard, aged,
              against, pass, raced, loosened, seen, moves, ownMoves, stopFaults>>
row == <<alive, stop, breakEvenApplied>>
world == <<price, pnl, aged, against, moves>>
watch == <<armed, unheard>>

StopFault == stopFaults < MaxStopFaults /\ stopFaults' = stopFaults + 1
NoPass == [pc |-> "none", pnl |-> 0, live |-> 0, applied |-> FALSE, at |-> 0, next |-> "none",
           got |-> 0]
NoEdit == [pc |-> "none", level |-> 0]

StopsInit ==
    /\ price = 0 /\ pnl = 0
    /\ alive = TRUE /\ stop = InitialStop /\ breakEvenApplied = FALSE
    /\ armed = InitialStop /\ edit = NoEdit /\ unheard = FALSE
    /\ aged = FALSE /\ against = FALSE
    /\ pass = NoPass /\ raced = FALSE /\ loosened = FALSE /\ seen = FALSE
    /\ moves = 0 /\ ownMoves = 0 /\ stopFaults = 0
---------------------------------------------------------------------------
MarketMoves ==
    /\ moves < MaxMoves /\ moves' = moves + 1
    /\ price' \in Moves
    /\ against' \in BOOLEAN
    /\ UNCHANGED <<pnl, row, watch, edit, aged, pass, raced, loosened, seen, ownMoves, stopFaults>>
\* _flushToDb() of the monitor writes the P&L to the row some time later.
FlushPnl ==
    /\ pnl # price /\ pnl' = price
    /\ UNCHANGED <<price, row, watch, edit, aged, against, pass, raced, loosened, seen,
                   moves, ownMoves, stopFaults>>
Age ==
    /\ ~aged /\ aged' = TRUE
    /\ UNCHANGED <<price, pnl, row, watch, edit, against, pass, raced, loosened, seen,
                   moves, ownMoves, stopFaults>>

\* updateSLTP() and modifyOrderSlTp() refuse a closed position and a stop on the
\* wrong side of the entry; both look first, and write later whatever it is then.
Valid(level) == alive /\ level < 0

\* The owner's edit.  It is written to the row and told to nobody.
OwnerChecks(level) ==
    /\ edit = NoEdit /\ Valid(level)
    /\ ownMoves < MaxOwnMoves /\ ownMoves' = ownMoves + 1
    /\ edit' = [pc |-> "checked", level |-> level]
    /\ UNCHANGED <<world, row, watch, pass, raced, loosened, seen, stopFaults>>
OwnerWrites ==
    /\ edit.pc = "checked" /\ edit' = NoEdit
    /\ stop' = edit.level /\ unheard' = TRUE
    /\ raced' = (pass.pc # "none")
    /\ UNCHANGED <<world, alive, breakEvenApplied, armed, pass, loosened, seen, ownMoves,
                   stopFaults>>

\* The price monitor closes at the stop it has (_onQuote); the owner, the
\* stop-out or the watchdog, which reads the row, close at any time.
MonitorFires ==
    /\ alive /\ price <= armed /\ alive' = FALSE
    /\ UNCHANGED <<world, stop, breakEvenApplied, watch, edit, pass, raced, loosened, seen,
                   ownMoves, stopFaults>>
ClosedElsewhere ==
    /\ alive /\ alive' = FALSE
    /\ UNCHANGED <<world, stop, breakEvenApplied, watch, edit, pass, raced, loosened, seen,
                   ownMoves, stopFaults>>
---------------------------------------------------------------------------
\* manageOpenTrades() reads the rows of every position first.
StartPass ==
    /\ pass = NoPass /\ alive
    /\ pass' = [pc |-> "exits", pnl |-> pnl, live |-> stop, applied |-> breakEvenApplied,
                at |-> 0, next |-> "none", got |-> 0]
    /\ raced' = FALSE
    /\ UNCHANGED <<world, row, watch, edit, loosened, seen, ownMoves, stopFaults>>

\* _manageOne(): it looks at the quote when the position's turn comes, and closes
\* what has not worked out, by the P&L it read.
Exits ==
    /\ pass.pc = "exits"
    /\ IF pass.pnl <= 0 /\ (against \/ aged)
       THEN /\ pass' = NoPass
            /\ \/ alive' = FALSE /\ UNCHANGED stopFaults
               \/ StopFault /\ UNCHANGED alive  \* the closing was refused
       ELSE /\ UNCHANGED <<alive, stopFaults>>
            /\ pass' = [pass EXCEPT !.pc = "breakEven", !.at = price]
    /\ UNCHANGED <<world, stop, breakEvenApplied, watch, edit, raced, loosened, seen, ownMoves>>

\* For a long position, a better stop is a higher one.
AnyStop(level, live) == TRUE
Improves(level, live) == level > live

GoOn(next) == IF next = "none" THEN NoPass ELSE [pass EXCEPT !.pc = next]

\* What updateSLTP() does for the manager: it writes the row, and then has the
\* monitor read it (addPosition), before the pass goes on.
UpdateStop(level, next) ==
    /\ stop' = IF Valid(level) THEN level ELSE stop
    /\ loosened' = (loosened \/ (Valid(level) /\ level < stop /\ ~raced))
    /\ unheard' = (unheard \/ Valid(level))
    /\ pass' = IF Valid(level)
               THEN [pass EXCEPT !.pc = "tell", !.next = next, !.live = level]
               ELSE GoOn(next)

\* addPosition(): a failure, of the query or for want of room, is swallowed.
KeepCached(cached, read) == cached
TakeRow(cached, read) == read
MonitorReads ==
    /\ pass.pc = "tell"
    /\ \/ /\ alive
          /\ pass' = [pass EXCEPT !.pc = "loaded", !.got = stop]
          /\ unheard' = FALSE /\ UNCHANGED stopFaults
       \/ /\ ~alive /\ pass' = GoOn(pass.next) /\ UNCHANGED <<unheard, stopFaults>>
       \/ /\ StopFault /\ pass' = GoOn(pass.next) /\ UNCHANGED unheard
    /\ UNCHANGED <<world, row, armed, edit, raced, loosened, seen, ownMoves>>
MonitorTakes ==
    /\ pass.pc = "loaded" /\ pass' = GoOn(pass.next)
    /\ armed' = TakeRow(armed, pass.got)
    /\ UNCHANGED <<world, row, unheard, edit, raced, loosened, seen, ownMoves, stopFaults>>

BreakEven ==
    LET wanted == pass.at >= breakEvenTrigger /\ ~pass.applied /\ Improves(Buffer, pass.live)
    IN  /\ pass.pc = "breakEven"
        /\ IF wanted
           THEN \/ /\ UpdateStop(Buffer, "trailing")
                   /\ breakEvenApplied' = (breakEvenApplied \/ Valid(Buffer))
                   /\ seen' = (seen \/ alive)
                   /\ UNCHANGED stopFaults
                \/ /\ StopFault
                   /\ pass' = NoPass
                   /\ UNCHANGED <<stop, breakEvenApplied, unheard, loosened, seen>>
           ELSE /\ pass' = GoOn("trailing")
                /\ UNCHANGED <<stop, breakEvenApplied, unheard, loosened, seen, stopFaults>>
        /\ UNCHANGED <<world, alive, armed, edit, raced, ownMoves>>

Trailing ==
    LET level == pass.at - atrTrail
    IN  /\ pass.pc = "trailing"
        /\ \/ /\ pass.at >= trailingActivation /\ Improves(level, pass.live)
              /\ UpdateStop(level, "none")
           \* Also when there is no regime snapshot to take the range from.
           \/ pass' = NoPass /\ UNCHANGED <<stop, unheard, loosened>>
        /\ UNCHANGED <<world, alive, breakEvenApplied, armed, edit, raced, seen, ownMoves,
                       stopFaults>>

StopsNext ==
    \/ MarketMoves \/ FlushPnl \/ Age
    \/ \E level \in OwnStops : OwnerChecks(level)
    \/ OwnerWrites \/ MonitorFires \/ ClosedElsewhere
    \/ StartPass \/ Exits \/ BreakEven \/ Trailing \/ MonitorReads \/ MonitorTakes
---------------------------------------------------------------------------
\* The manager never moves a stop away from the price, whoever set it last, but
\* when the owner moves it in the middle of the pass ("only ever tighten, never
\* loosen", tests/autopilot.position.manager.spec.ts:12, whose mocks never move).
OnlyTightensUnlessRaced == ~loosened

\* The monitor watches the stop in the row as soon as it was told of the last
\* change to it ("so SL/TP enforcement picks up the new values",
\* position.service.ts updateSLTP).
MonitorWatchesTheRow == alive /\ ~unheard /\ pass.pc # "loaded" => armed = stop

StopsSound == OnlyTightensUnlessRaced /\ MonitorWatchesTheRow

\* False of the code: order.modify.ts, the only way a client has to move a stop,
\* does not tell the monitor, whose reconcile() skips a position that it has.
\* Until the manager happens to move the stop too, the position is closed at the
\* one the client has lowered.
FiresAtTheStop == [][MonitorFires => price <= stop]_stopVars

\* "applies break-even once R reaches breakEvenTriggerR, persists the flag"
\* (tests/autopilot.position.manager.spec.ts:223, where updateSLTP is a mock that
\* accepts everything).  The real one refuses a stop past the entry.
BreakEvenApplies == seen => breakEvenApplied
=============================================================================
