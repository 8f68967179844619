----------------------------- MODULE FixGateway -----------------------------
(***************************************************************************)
(* The FIX 4.4 acceptor (fix-gateway/fix.acceptor.ts): TCP connections of  *)
(* one address, their logons, heartbeats and logouts, and the orders and   *)
(* cancellations they carry to the order controller and back (main.ts).    *)
(* A logon is verified, and an order executed, while other messages and    *)
(* the end of the connection are handled.                                  *)
(***************************************************************************)
EXTENDS Integers, FiniteSets

CONSTANTS
    Conns, FixOrders,
    MaxPerIp,                               \* connections of one address
    MaxLogons                               \* Logon messages

ASSUME FixAssumption == IsFiniteSet(Conns)

VARIABLES
    fix,            \* connection -> [socket, state, timer]; timer: its newest interval
    fixSessions,    \* the map of sessions
    slots,          \* connectionsByIp of the address
    guarded,        \* connections whose ten seconds to log on are not over
    verifying,      \* logons whose credentials are being verified: [conn, n]
    intervals,      \* heartbeat intervals that run: [conn, n]
    logons,         \* Logon messages so far
    silent,         \* connections not heard for more than two intervals
    reading,        \* the connection whose chunk is being taken apart, or NoConn
    placed,         \* orders the executor has
    asked,          \* cancellations the canceller has: [conn, order]
    engine,         \* order -> its state in the order engine
    reports,        \* order -> what the client was told of it
    owner,          \* order -> its connection
    again           \* history: a session was closed that was closed before

fixVars == <<fix, fixSessions, slots, guarded, verifying, intervals, logons, silent, reading,
             placed, asked, engine, reports, owner, again>>
orderVars == <<placed, asked, engine, reports, owner>>
sessionVars == <<fix, fixSessions, slots, guarded, verifying, intervals, logons, silent, reading,
                 again>>

NoConn == "none"
Unconnected == [socket |-> "none", state |-> "DISCONNECTED", timer |-> 0]

FixInit ==
    /\ fix = [c \in Conns |-> Unconnected] /\ fixSessions = {} /\ slots = 0
    /\ guarded = {} /\ verifying = {} /\ intervals = {} /\ logons = 0
    /\ silent = {} /\ reading = NoConn /\ placed = {} /\ asked = {}
    /\ engine = [o \in FixOrders |-> "none"] /\ reports = [o \in FixOrders |-> {}]
    /\ owner = [o \in FixOrders |-> NoConn] /\ again = FALSE

\* Handlers run to their next await: nothing else happens inside a chunk.
LoopFree == reading = NoConn
Writable(c) == fix[c].socket = "open"

\* onConnection(), releaseIpSlot().
OnConnection(c) ==
    /\ LoopFree /\ fix[c] = Unconnected
    /\ IF slots >= MaxPerIp
       THEN /\ fix' = [fix EXCEPT ![c].socket = "closed"]
            /\ UNCHANGED <<fixSessions, slots, guarded>>
       ELSE /\ fix' = [fix EXCEPT ![c].socket = "open", ![c].state = "CONNECTED"]
            /\ fixSessions' = fixSessions \cup {c} /\ slots' = slots + 1
            /\ guarded' = guarded \cup {c}
    /\ UNCHANGED <<verifying, intervals, logons, silent, reading, again, orderVars>>

\* closeSession(): stops the newest interval only, and gives the slot back.
CloseSession(c) ==
    /\ intervals' = intervals \ {[conn |-> c, n |-> fix[c].timer]}
    /\ fix' = [fix EXCEPT ![c] = [socket |-> IF @.socket = "closed" THEN "closed" ELSE "closing",
                                  state |-> "LOGGING_OUT", timer |-> 0]]
    /\ fixSessions' = fixSessions \ {c}
    /\ slots' = (IF slots > 0 THEN slots - 1 ELSE 0)
    /\ again' = (again \/ c \notin fixSessions)

\* rejectLogon(): a Logout, and the socket ends when the client ends it too.
RejectLogon(c) ==
    /\ fix' = [fix EXCEPT ![c].socket = IF @ = "open" THEN "ending" ELSE @]
    /\ UNCHANGED <<fixSessions, slots, intervals, again>>

\* A chunk of data holds one message or several; it resets the silent time.
Receives(c, more) ==
    /\ IF reading = c THEN TRUE ELSE LoopFree /\ fix[c].socket = "open"
    /\ reading' = (IF more THEN c ELSE NoConn)
    /\ silent' = silent \ {c}

HandleLogon(c, more) ==
    /\ Receives(c, more) /\ logons < MaxLogons
    /\ logons' = logons + 1
    /\ \/ RejectLogon(c) /\ UNCHANGED verifying     \* a field is missing
       \/ /\ verifying' = verifying \cup {[conn |-> c, n |-> logons + 1]}
          /\ UNCHANGED <<fix, fixSessions, slots, intervals, again>>
    /\ UNCHANGED <<guarded, orderVars>>

\* The credentials are verified: whatever became of the connection meanwhile.
LogonVerified(v, valid) ==
    /\ LoopFree /\ v \in verifying /\ verifying' = verifying \ {v}
    /\ IF valid
       THEN /\ fix' = [fix EXCEPT ![v.conn].state = "ACTIVE", ![v.conn].timer = v.n]
            /\ intervals' = intervals \cup {v}
            /\ UNCHANGED <<fixSessions, slots, again>>
       ELSE RejectLogon(v.conn)
    /\ UNCHANGED <<guarded, logons, silent, reading, orderVars>>

HandleLogout(c, more) ==
    /\ Receives(c, more) /\ CloseSession(c)
    /\ UNCHANGED <<guarded, verifying, logons, orderVars>>

\* Heartbeat, TestRequest, or a message nobody handles.
OtherMessage(c, more) ==
    /\ Receives(c, more)
    /\ UNCHANGED <<fix, fixSessions, slots, guarded, verifying, intervals, logons, again,
                   orderVars>>

Report(c, o, status) ==
    reports' = (IF Writable(c) THEN [reports EXCEPT ![o] = @ \cup {status}] ELSE reports)

HandleNewOrder(c, o, more) ==
    /\ Receives(c, more) /\ owner[o] = NoConn
    /\ IF fix[c].state = "ACTIVE"
       THEN /\ owner' = [owner EXCEPT ![o] = c] /\ placed' = placed \cup {o}
            /\ Report(c, o, "NEW")
       ELSE UNCHANGED <<owner, placed, reports>>
    /\ UNCHANGED <<fix, fixSessions, slots, guarded, verifying, intervals, logons, again,
                   asked, engine>>

\* placeOrder() answers FILLED, PENDING or REJECTED, or throws; main.ts reports
\* whatever is not FILLED as NEW.
Told(outcome) == CASE outcome = "FILLED" -> "FILLED"
                   [] outcome = "THROWN" -> "REJECTED"
                   [] OTHER -> "NEW"
OrderAnswered(o, outcome) ==
    /\ LoopFree /\ o \in placed /\ placed' = placed \ {o}
    /\ engine' = [engine EXCEPT ![o] = IF outcome = "THROWN" THEN "REJECTED" ELSE outcome]
    /\ Report(owner[o], o, Told(outcome))
    /\ UNCHANGED <<sessionVars, asked, owner>>

\* A parked order fills later: the acceptor hears nothing of it.
ParkedOrderFills(o) ==
    /\ LoopFree /\ engine[o] = "PENDING" /\ engine' = [engine EXCEPT ![o] = "FILLED"]
    /\ UNCHANGED <<sessionVars, placed, asked, reports, owner>>

HandleCancel(c, o, more) ==
    /\ Receives(c, more) /\ owner[o] = c
    /\ asked' = (IF fix[c].state = "ACTIVE" THEN asked \cup {[conn |-> c, order |-> o]} ELSE asked)
    /\ UNCHANGED <<fix, fixSessions, slots, guarded, verifying, intervals, logons, again,
                   placed, engine, reports, owner>>

\* cancelOrder() says ok or not ok; main.ts looks only whether it throws.
CancelAnswered(a, thrown) ==
    /\ LoopFree /\ a \in asked /\ asked' = asked \ {a}
    /\ engine' = (IF ~thrown /\ engine[a.order] = "PENDING"
                  THEN [engine EXCEPT ![a.order] = "CANCELLED"] ELSE engine)
    /\ Report(a.conn, a.order, IF thrown THEN "CANCEL_REJECTED" ELSE "CANCELLED")
    /\ UNCHANGED <<sessionVars, placed, owner>>

\* Ten seconds after the connection.
LogonOverdueOrIdle(c) == fix[c].state = "CONNECTED" /\ ~\E v \in verifying : v.conn = c
LogonOverdue(c) == fix[c].state = "CONNECTED"
LogonTimeout(c) ==
    /\ LoopFree /\ c \in guarded /\ guarded' = guarded \ {c}
    /\ fix' = (IF LogonOverdue(c) /\ fix[c].socket # "closed"
               THEN [fix EXCEPT ![c].socket = "closing"] ELSE fix)
    /\ UNCHANGED <<fixSessions, slots, verifying, intervals, logons, silent, reading, again,
                   orderVars>>

\* An interval: after two silent periods the session is closed, after one the
\* acceptor sends a heartbeat of its own.
HeartbeatFires(t) ==
    /\ LoopFree /\ t \in intervals /\ t.conn \in silent /\ CloseSession(t.conn)
    /\ UNCHANGED <<guarded, verifying, logons, silent, reading, orderVars>>

Silence(c) ==
    /\ LoopFree /\ (\E t \in intervals : t.conn = c) /\ c \notin silent
    /\ silent' = silent \cup {c}
    /\ UNCHANGED <<fix, fixSessions, slots, guarded, verifying, intervals, logons, reading, again,
                   orderVars>>

\* The socket closes: destroyed, ended on both sides, or by the client.
OnFixClose(c) ==
    /\ LoopFree /\ fix[c].socket \in {"open", "ending", "closing"}
    /\ IF fix[c].state # "LOGGING_OUT"
       THEN /\ intervals' = intervals \ {[conn |-> c, n |-> fix[c].timer]}
            /\ fix' = [fix EXCEPT ![c] =
                           [socket |-> "closed", state |-> "LOGGING_OUT", timer |-> 0]]
            /\ fixSessions' = fixSessions \ {c}
            /\ slots' = (IF slots > 0 THEN slots - 1 ELSE 0)
            /\ again' = (again \/ c \notin fixSessions)
       ELSE /\ fix' = [fix EXCEPT ![c].socket = "closed"]
            /\ UNCHANGED <<fixSessions, slots, intervals, again>>
    /\ UNCHANGED <<guarded, verifying, logons, silent, reading, orderVars>>

FixNext ==
    \/ \E c \in Conns, more \in BOOLEAN :
           \/ HandleLogon(c, more) \/ HandleLogout(c, more) \/ OtherMessage(c, more)
           \/ \E o \in FixOrders : HandleNewOrder(c, o, more) \/ HandleCancel(c, o, more)
    \/ \E c \in Conns : OnConnection(c) \/ LogonTimeout(c) \/ Silence(c) \/ OnFixClose(c)
    \/ \E v \in verifying, valid \in BOOLEAN : LogonVerified(v, valid)
    \/ \E t \in intervals : HeartbeatFires(t)
    \/ \E o \in FixOrders : \/ ParkedOrderFills(o)
                            \/ \E outcome \in {"FILLED", "PENDING", "REJECTED", "THROWN"} :
                                   OrderAnswered(o, outcome)
    \/ \E a \in asked, thrown \in BOOLEAN : CancelAnswered(a, thrown)
---------------------------------------------------------------------------
\* A session in the map has something that will end it when its client falls
\* silent: the ten seconds to log on, a heartbeat interval, or its socket that
\* is being destroyed (fix.acceptor.ts, onConnection, startHeartbeat).
EverySessionWatched ==
    \A c \in fixSessions : \/ c \in guarded /\ fix[c].state = "CONNECTED"
                           \/ \E t \in intervals : t.conn = c
                           \/ fix[c].socket = "closing"

\* The address is charged for its sessions, and never for one that is gone, so
\* that no client is kept out by connections it has closed.  (It may be charged
\* for fewer, after a session was closed twice.)
SlotsCounted ==
    /\ slots <= Cardinality(fixSessions)
    /\ ~again => slots = Cardinality(fixSessions)

FixSound == EverySessionWatched /\ SlotsCounted

\* Statements that are false of the code.  The header says a report is sent on
\* every order action; a cancellation that came too late is reported as done, a
\* refused order as working, and the fill of a parked order not at all.
CancelledMeansCancelled ==
    \A o \in FixOrders : "CANCELLED" \in reports[o] => engine[o] = "CANCELLED"
RejectedIsTold ==
    \A o \in FixOrders : engine[o] = "REJECTED" /\ Writable(owner[o]) => "REJECTED" \in reports[o]
NoOrphanInterval == \A t \in intervals : t.conn \in fixSessions
==============================================================================
