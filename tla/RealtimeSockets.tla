--------------------------- MODULE RealtimeSockets ---------------------------
(***************************************************************************)
(* The WebSocket connections of one user, on any worker, and what reaches  *)
(* them: the event bus bridge of main.ts, the relay between workers        *)
(* (realtime-infra/redis.pubsub.ts), the keepalive that ends connections   *)
(* which are dead, expired or too slow, and the registry of the nodes      *)
(* (realtime-infra/websocket.cluster.ts).  The outbox is TradeOutbox's.    *)
(***************************************************************************)
EXTENDS Integers, FiniteSets

CONSTANTS
    Tabs,           \* the connections the user may have
    Hosts,          \* the workers
    STRIKE_LIMIT,   \* WS_BACKPRESSURE_STRIKE_LIMIT, in keepalives
    NodeTtl,        \* NODE_TTL_SECONDS, in heartbeats
    MaxPushes, MaxConnects, MaxHostFaults

ASSUME TabsAssumption == STRIKE_LIMIT \in Nat \ {0} /\ NodeTtl \in Nat \ {0}

VARIABLES
    tab,            \* tab -> its connection
    relayTo,        \* <<worker, kind>>: messages of another worker
    local, conns, nodeAge, userNode, behind,    \* the registry of the cluster
    leaked,         \* history: a staff alert was sent to a tab that is not staff's
    pushes, connects, hostFaults

tabVars == <<tab, relayTo, local, conns, nodeAge, userNode, behind, leaked, pushes,
             connects, hostFaults>>
registry == <<local, conns, nodeAge, userNode, behind>>

NoHost == "nowhere"
NoTab == [state |-> "none", host |-> NoHost, staff |-> FALSE, exp |-> FALSE, alive |-> TRUE,
          mute |-> FALSE, slow |-> FALSE, strikes |-> 0, replaying |-> FALSE, seq |-> 0,
          sent |-> 0, quiet |-> 0, slowFor |-> 0, expiredFor |-> 0]
On(h) == {t \in Tabs : tab[t].state = "open" /\ tab[t].host = h}
HostFault == hostFaults < MaxHostFaults /\ hostFaults' = hostFaults + 1

TabsInit ==
    /\ tab = [t \in Tabs |-> NoTab] /\ relayTo = {}
    /\ local = [h \in Hosts |-> 0] /\ conns = [h \in Hosts |-> 0]
    /\ nodeAge = [h \in Hosts |-> 0] /\ userNode = NoHost /\ behind = [h \in Hosts |-> FALSE]
    /\ leaked = FALSE /\ pushes = 0 /\ connects = 0 /\ hostFaults = 0
---------------------------------------------------------------------------
\* _publishConns() and setex of the user's node: either may fail.
PublishConns(h) ==
    \/ conns' = [conns EXCEPT ![h] = local'[h]] /\ UNCHANGED <<behind, hostFaults>>
    \/ HostFault /\ behind' = [behind EXCEPT ![h] = TRUE] /\ UNCHANGED conns

\* verifyClient() took the token; the handler registers the tab and replays.
Connect(t, h, staff) ==
    /\ tab[t].state = "none" /\ connects < MaxConnects /\ connects' = connects + 1
    /\ tab' = [tab EXCEPT ![t] = [NoTab EXCEPT !.state = "open", !.host = h,
                                               !.staff = staff, !.replaying = TRUE]]
    /\ local' = [local EXCEPT ![h] = @ + 1]
    /\ PublishConns(h)
    /\ userNode' = h
    /\ UNCHANGED <<relayTo, nodeAge, leaked, pushes>>

\* The handler of "close": the mapping goes although another tab may be left.
Gone(t) ==
    LET h == tab[t].host IN
    /\ tab[t].state # "none"
    /\ tab' = [tab EXCEPT ![t] = NoTab]
    /\ local' = [local EXCEPT ![h] = IF @ = 0 THEN 0 ELSE @ - 1]
    /\ PublishConns(h)
    /\ userNode' = IF userNode = h THEN NoHost ELSE userNode
    /\ UNCHANGED <<relayTo, nodeAge, leaked, pushes, connects>>

\* What happens to a connection outside: its buffer fills, its peer is lost, its
\* token expires.
TabChanges(t) ==
    /\ tab[t].state = "open"
    /\ \/ tab' = [tab EXCEPT ![t].slow = TRUE]
       \/ tab' = [tab EXCEPT ![t].mute = TRUE]
       \/ tab' = [tab EXCEPT ![t].exp = TRUE]
    /\ HostFault
    /\ UNCHANGED <<relayTo, registry, leaked, pushes, connects>>
TabRecovers(t) ==
    /\ tab[t].state = "open"
    /\ \/ tab[t].slow /\ tab' = [tab EXCEPT ![t].slow = FALSE]
       \/ tab[t].replaying /\ tab' = [tab EXCEPT ![t].replaying = FALSE]
    /\ UNCHANGED <<relayTo, registry, leaked, pushes, connects, hostFaults>>

\* The keepalive: dead first, then expired, then persistently slow.  A peer that
\* is not mute answers the ping before the next.
OneMore(n) == IF n > STRIKE_LIMIT THEN n ELSE n + 1
Strikes(t) == IF tab[t].slow THEN tab[t].strikes + 1 ELSE 0
Dead(t) == ~tab[t].alive
TooSlow(t) == Strikes(t) >= STRIKE_LIMIT
Kept(t) ==
    [tab[t] EXCEPT !.strikes = Strikes(t), !.alive = ~tab[t].mute,
                   !.quiet = IF tab[t].mute THEN OneMore(@) ELSE 0,
                   !.slowFor = IF tab[t].slow THEN OneMore(@) ELSE 0,
                   !.expiredFor = IF tab[t].exp THEN OneMore(@) ELSE 0]
Keepalive(h) ==
    /\ On(h) # {}
    /\ tab' = [t \in Tabs |->
          IF t \notin On(h) THEN tab[t]
          ELSE IF Dead(t) \/ tab[t].exp \/ TooSlow(t)
               THEN [tab[t] EXCEPT !.state = "closing"] ELSE Kept(t)]
    /\ UNCHANGED <<relayTo, registry, leaked, pushes, connects, hostFaults>>
---------------------------------------------------------------------------
\* sendToSocket(): a slow connection is passed over before it takes a number.
NextSeqShared(t) ==
    1 + CHOOSE n \in {tab[u].seq : u \in Tabs} : \A u \in Tabs : n >= tab[u].seq
NextSeq(t) == tab[t].seq + 1
SendTo(T) ==
    tab' = [t \in Tabs |->
        IF t \in T /\ ~tab[t].slow
        THEN [tab[t] EXCEPT !.seq = NextSeq(t), !.sent = @ + 1] ELSE tab[t]]

Served(h) == {t \in On(h) : ~tab[t].replaying}
Staffed(h) == {t \in On(h) : tab[t].staff}
Others(h, kind) == relayTo \cup {<<o, kind>> : o \in Hosts \ {h}}

\* An event of the bus: enqueueAndPush() for the user, the role-filtered push for
\* staff, which no other worker hears of, or broadcast(), which takes no number.
Emit(h, kind) ==
    /\ pushes < MaxPushes /\ pushes' = pushes + 1
    /\ \/ kind = "user" /\ SendTo(Served(h)) /\ relayTo' = Others(h, kind) /\ UNCHANGED leaked
       \/ /\ kind = "staff" /\ SendTo(Staffed(h)) /\ UNCHANGED relayTo
          /\ leaked' = (leaked \/ \E t \in Tabs : tab'[t].sent # tab[t].sent /\ ~tab[t].staff)
       \/ kind = "broadcast" /\ relayTo' = Others(h, kind) /\ UNCHANGED <<tab, leaked>>
    /\ UNCHANGED <<registry, connects, hostFaults>>

\* The subscriber of another worker; pub/sub forgets what it cannot deliver.
OnMessage(h, kind) ==
    /\ <<h, kind>> \in relayTo /\ relayTo' = relayTo \ {<<h, kind>>}
    /\ \/ kind = "user" /\ SendTo(Served(h)) /\ UNCHANGED hostFaults
       \/ kind = "broadcast" /\ UNCHANGED <<tab, hostFaults>>
       \/ HostFault /\ UNCHANGED tab
    /\ UNCHANGED <<registry, leaked, pushes, connects>>
---------------------------------------------------------------------------
\* _heartbeat(): both keys are written anew.  Time passes for the keys.
Extended(h) == IF nodeAge[h] >= NodeTtl THEN NodeTtl ELSE 0
Rewritten(h) == 0
Heartbeat(h) ==
    \/ /\ nodeAge' = [nodeAge EXCEPT ![h] = Rewritten(h)]
       /\ conns' = [conns EXCEPT ![h] = local[h]]
       /\ behind' = [behind EXCEPT ![h] = FALSE]
       /\ UNCHANGED <<tab, relayTo, local, userNode, leaked, pushes, connects, hostFaults>>
    \/ /\ HostFault /\ behind' = [behind EXCEPT ![h] = TRUE]
       /\ nodeAge' = [nodeAge EXCEPT ![h] = NodeTtl]
       /\ UNCHANGED <<tab, relayTo, local, conns, userNode, leaked, pushes, connects>>

TabsNext ==
    \/ \E t \in Tabs : TabChanges(t) \/ TabRecovers(t) \/ Gone(t)
    \/ \E t \in Tabs, h \in Hosts, staff \in BOOLEAN : Connect(t, h, staff)
    \/ \E h \in Hosts :
          \/ Keepalive(h) \/ Heartbeat(h)
          \/ \E kind \in {"user", "staff", "broadcast"} : Emit(h, kind) \/ OnMessage(h, kind)
---------------------------------------------------------------------------
\* The numbers a tab sees are 1, 2, 3..., whatever the user's other tabs, a
\* replay, a slow spell or the relay did: a gap means a lost message.
SeqAnchored == \A t \in Tabs : tab[t].seq = tab[t].sent

\* No connection outlives two keepalives without a pong, one after its token
\* expired, or the limit of them in a row while it was too slow.
Reaped ==
    \A t \in Tabs : tab[t].state = "open" =>
        tab[t].quiet <= 1 /\ tab[t].expiredFor = 0 /\ tab[t].slowFor < STRIKE_LIMIT

\* A node whose last write succeeded is in the registry with its own count, also
\* after an outage that outlived its key.
RegistryHeals ==
    \A h \in Hosts : ~behind[h] => nodeAge[h] < NodeTtl /\ conns[h] = local[h]

RealtimeSound == SeqAnchored /\ Reaped /\ RegistryHeals /\ ~leaked
=============================================================================
