--------------------------- MODULE PlatformProofs ---------------------------
(***************************************************************************)
(* Proofs about what surrounds the trading of a client: the audit log, the *)
(* gateway, the FIX acceptor, the sockets and the notices; and about who a *)
(* customer is: the codes, sessions and signing keys, the identity check   *)
(* and the stored documents.  Each component is proved by itself, and      *)
(* PartStep carries the result to the behaviours of MCPlatform, whose step *)
(* is a step of one part.                                                  *)
(***************************************************************************)
EXTENDS MCPlatform, FiniteSetTheorems, TLAPS

LEMMA PartInit ==
    Init => AuditInit /\ TabsInit /\ GateInit /\ FixInit
            /\ NoticesInit /\ AlertsInit /\ TicketsInit /\ ListsInit
            /\ AuthInit /\ KeyInit /\ KycInit /\ DocInit
  BY DEF Init

LEMMA PartStep ==
    ASSUME [Next]_vars
    PROVE  /\ [AuditNext]_auditVars /\ [TabsNext]_tabVars
           /\ [GateNext]_gateVars /\ [FixNext]_fixVars
           /\ [NoticesNext]_noticeVars /\ [AlertsNext]_alertVars
           /\ [TicketsNext]_ticketVars /\ [ListsNext]_listVars
           /\ [AuthNext]_authVars /\ [KeyNext]_keyVars
           /\ [KycNext]_kycVars /\ [DocNext]_docVars
  BY DEF Next, vars, BesideKeys, BesideAuth, BesideKyc, BesideAudit, BesideTabs, BesideFiles,
         BesideGate, BesideFix, BesideNotices, BesideAlerts, BesideTickets, BesideLists
---------------------------------------------------------------------------
(* The sockets.                                                            *)

Connection ==
    [state : {"none", "open", "closing"}, host : Hosts \cup {NoHost},
     staff : BOOLEAN, exp : BOOLEAN, alive : BOOLEAN, mute : BOOLEAN, slow : BOOLEAN,
     strikes : Nat, replaying : BOOLEAN, seq : Nat, sent : Nat, quiet : Nat,
     slowFor : Nat, expiredFor : Nat]

TabsTypeOK ==
    /\ tab \in [Tabs -> Connection]
    /\ local \in [Hosts -> Nat] /\ conns \in [Hosts -> Nat]
    /\ nodeAge \in [Hosts -> Nat] /\ behind \in [Hosts -> BOOLEAN]

\* The strikes of an open connection are the keepalives it was slow in, and one
\* without a pong is marked: the next keepalive ends it.
Watching ==
    \A t \in Tabs : tab[t].state = "open" =>
        /\ tab[t].quiet <= 1 /\ (tab[t].alive => tab[t].quiet = 0)
        /\ tab[t].expiredFor = 0
        /\ tab[t].slowFor = tab[t].strikes /\ tab[t].strikes < STRIKE_LIMIT

TabsInv == TabsTypeOK /\ Watching /\ SeqAnchored /\ RegistryHeals /\ ~leaked

LEMMA NoTabTyped == NoTab \in Connection
  BY DEF NoTab, Connection

LEMMA TabsInitially == TabsInit => TabsInv
  BY TabsAssumption, NoTabTyped
  DEF TabsInit, TabsInv, TabsTypeOK, Watching, SeqAnchored, RegistryHeals, NoTab

LEMMA ConnectionKept ==
    ASSUME NEW c \in Connection, NEW b \in BOOLEAN
    PROVE  /\ [c EXCEPT !.slow = b] \in Connection /\ [c EXCEPT !.mute = b] \in Connection
           /\ [c EXCEPT !.exp = b] \in Connection /\ [c EXCEPT !.replaying = b] \in Connection
           /\ [c EXCEPT !.state = "closing"] \in Connection
<1>1. [c EXCEPT !.slow = b] \in Connection /\ [c EXCEPT !.mute = b] \in Connection
  BY DEF Connection
<1>2. [c EXCEPT !.exp = b] \in Connection /\ [c EXCEPT !.replaying = b] \in Connection
  BY DEF Connection
<1>3. [c EXCEPT !.state = "closing"] \in Connection
  BY DEF Connection
<1> QED
  BY <1>1, <1>2, <1>3

LEMMA ConnectionMade ==
    ASSUME NEW c \in Connection, NEW b \in BOOLEAN, NEW h \in Hosts
    PROVE  [c EXCEPT !.state = "open", !.host = h, !.staff = b, !.replaying = TRUE]
               \in Connection
  BY DEF Connection

LEMMA MessageCounted ==
    ASSUME NEW c \in Connection, NEW n \in Nat
    PROVE  /\ [c EXCEPT !.seq = n, !.sent = @ + 1] = [c EXCEPT !.seq = n, !.sent = c.sent + 1]
           /\ [c EXCEPT !.seq = n, !.sent = c.sent + 1] \in Connection
<1>1. c.sent + 1 \in Nat
  BY DEF Connection
<1>2. \A k \in Nat : [c EXCEPT !.seq = n, !.sent = k] \in Connection
  BY DEF Connection
<1>3. [c EXCEPT !.seq = n].sent = c.sent
  BY DEF Connection
<1> QED
  BY <1>1, <1>2, <1>3

LEMMA KeptTyped ==
    ASSUME NEW t \in Tabs, tab[t] \in Connection
    PROVE  Kept(t) \in Connection
<1> DEFINE c == tab[t]
<1>1. ASSUME NEW n \in Nat PROVE OneMore(n) \in Nat
  BY DEF OneMore
<1>2. /\ c \in Connection /\ c.quiet \in Nat /\ c.slowFor \in Nat /\ c.expiredFor \in Nat
      /\ c.strikes \in Nat /\ c.mute \in BOOLEAN
  BY DEF Connection
<1>3. Strikes(t) \in Nat
  BY <1>2 DEF Strikes
<1>4. ASSUME NEW a \in Nat, NEW b \in BOOLEAN, NEW d \in Nat, NEW e \in Nat, NEW f \in Nat,
             NEW k \in Connection
      PROVE [k EXCEPT !.strikes = a, !.alive = b, !.quiet = d, !.slowFor = e, !.expiredFor = f]
                \in Connection
  BY DEF Connection
<1> QED
  BY <1>1, <1>2, <1>3, <1>4 DEF Kept

LEMMA TabsTyped == TabsTypeOK /\ [TabsNext]_tabVars => TabsTypeOK'
<1> SUFFICES ASSUME TabsTypeOK, [TabsNext]_tabVars PROVE TabsTypeOK'
  OBVIOUS
<1> USE DEF TabsTypeOK, registry
<1>a. \A t \in Tabs : tab[t] \in Connection
  OBVIOUS
<1>1. ASSUME NEW t \in Tabs, TabChanges(t) PROVE TabsTypeOK'
  <2>1. \/ tab' = [tab EXCEPT ![t] = [tab[t] EXCEPT !.slow = TRUE]]
        \/ tab' = [tab EXCEPT ![t] = [tab[t] EXCEPT !.mute = TRUE]]
        \/ tab' = [tab EXCEPT ![t] = [tab[t] EXCEPT !.exp = TRUE]]
    BY <1>1 DEF TabChanges
  <2>2. /\ [tab[t] EXCEPT !.slow = TRUE] \in Connection
        /\ [tab[t] EXCEPT !.mute = TRUE] \in Connection
        /\ [tab[t] EXCEPT !.exp = TRUE] \in Connection
    BY <1>a, ConnectionKept
  <2>3. tab' \in [Tabs -> Connection]
    BY <2>1, <2>2
  <2> QED
    BY <1>1, <2>3 DEF TabChanges
<1>2. ASSUME NEW t \in Tabs, TabRecovers(t) PROVE TabsTypeOK'
  <2>1. \/ tab' = [tab EXCEPT ![t] = [tab[t] EXCEPT !.slow = FALSE]]
        \/ tab' = [tab EXCEPT ![t] = [tab[t] EXCEPT !.replaying = FALSE]]
    BY <1>2 DEF TabRecovers
  <2>2. /\ [tab[t] EXCEPT !.slow = FALSE] \in Connection
        /\ [tab[t] EXCEPT !.replaying = FALSE] \in Connection
    BY <1>a, ConnectionKept
  <2>3. tab' \in [Tabs -> Connection]
    BY <2>1, <2>2
  <2> QED
    BY <1>2, <2>3 DEF TabRecovers
<1>p. ASSUME NEW h \in Hosts \cup {NoHost}, local' \in [Hosts -> Nat], PublishConns(h)
      PROVE  conns' \in [Hosts -> Nat] /\ behind' \in [Hosts -> BOOLEAN]
  BY <1>p DEF PublishConns
<1>3. ASSUME NEW t \in Tabs, Gone(t) PROVE TabsTypeOK'
  <2>1. tab[t].host \in Hosts \cup {NoHost}
    BY <1>a DEF Connection
  <2>2. tab' \in [Tabs -> Connection]
    BY <1>3, NoTabTyped DEF Gone
  <2>3. local' \in [Hosts -> Nat] /\ nodeAge' = nodeAge
    <3>1. local' = [local EXCEPT ![tab[t].host] = IF @ = 0 THEN 0 ELSE @ - 1] /\ nodeAge' = nodeAge
      BY <1>3 DEF Gone
    <3>2. \A n \in Nat : (IF n = 0 THEN 0 ELSE n - 1) \in Nat
      OBVIOUS
    <3> QED
      BY <3>1, <3>2
  <2> QED
    BY <1>3, <1>p, <2>1, <2>2, <2>3 DEF Gone
<1>4. ASSUME NEW t \in Tabs, NEW h \in Hosts, NEW staff \in BOOLEAN, Connect(t, h, staff)
      PROVE TabsTypeOK'
  <2>1. tab' \in [Tabs -> Connection]
    BY <1>4, NoTabTyped, ConnectionMade DEF Connect
  <2>2. local' \in [Hosts -> Nat] /\ nodeAge' = nodeAge
    BY <1>4 DEF Connect
  <2> QED
    BY <1>4, <1>p, <2>1, <2>2 DEF Connect
<1>5. ASSUME NEW h \in Hosts, Keepalive(h) PROVE TabsTypeOK'
  <2>1. \A t \in Tabs : tab'[t] \in Connection
    BY <1>5, <1>a, ConnectionKept, KeptTyped DEF Keepalive
  <2> QED
    BY <1>5, <2>1 DEF Keepalive
<1>6. ASSUME NEW h \in Hosts, Heartbeat(h) PROVE TabsTypeOK'
  <2>1. NodeTtl \in Nat
    BY TabsAssumption
  <2>2. /\ tab' = tab /\ local' = local /\ nodeAge' \in [Hosts -> Nat]
        /\ conns' \in [Hosts -> Nat]
    BY <1>6, <2>1 DEF Heartbeat, Rewritten
  <2>3. behind' \in [Hosts -> BOOLEAN]
    BY <1>6 DEF Heartbeat
  <2> QED
    BY <2>2, <2>3
<1>s. ASSUME NEW T, SendTo(T) PROVE tab' \in [Tabs -> Connection]
  <2>1. \A t \in Tabs : NextSeq(t) \in Nat
    BY DEF NextSeq, Connection
  <2>2. \A t \in Tabs : [tab[t] EXCEPT !.seq = NextSeq(t), !.sent = @ + 1] \in Connection
    BY <1>a, <2>1, MessageCounted
  <2>3. \A t \in Tabs : tab'[t] \in Connection
    BY <1>s, <1>a, <2>2 DEF SendTo
  <2> QED
    BY <1>s, <2>3 DEF SendTo
<1>7. ASSUME NEW h \in Hosts, NEW kind \in {"user", "staff", "broadcast"}, Emit(h, kind)
      PROVE TabsTypeOK'
  BY <1>7, <1>s DEF Emit
<1>8. ASSUME NEW h \in Hosts, NEW kind \in {"user", "staff", "broadcast"}, OnMessage(h, kind)
      PROVE TabsTypeOK'
  BY <1>8, <1>s DEF OnMessage
<1>9. CASE UNCHANGED tabVars
  BY <1>9 DEF tabVars
<1> QED
  BY <1>1, <1>2, <1>3, <1>4, <1>5, <1>6, <1>7, <1>8, <1>9 DEF TabsNext

LEMMA TabsStep == TabsInv /\ [TabsNext]_tabVars => TabsInv'
<1> SUFFICES ASSUME TabsInv, [TabsNext]_tabVars PROVE TabsInv'
  OBVIOUS
<1>t. TabsTypeOK /\ TabsTypeOK'
  BY TabsTyped DEF TabsInv
<1> USE DEF TabsInv, Watching, SeqAnchored, RegistryHeals, registry
<1>1. ASSUME NEW t \in Tabs, TabChanges(t) PROVE TabsInv'
  BY <1>1, <1>t DEF TabChanges, HostFault, TabsTypeOK, Connection
<1>2. ASSUME NEW t \in Tabs, TabRecovers(t) PROVE TabsInv'
  BY <1>2, <1>t DEF TabRecovers, TabsTypeOK, Connection
<1>3. ASSUME NEW t \in Tabs, Gone(t) PROVE TabsInv'
  BY <1>3, <1>t DEF Gone, PublishConns, NoTab, HostFault, TabsTypeOK, Connection
<1>4. ASSUME NEW t \in Tabs, NEW h \in Hosts, NEW staff \in BOOLEAN, Connect(t, h, staff)
      PROVE TabsInv'
  BY <1>4, <1>t, TabsAssumption DEF Connect, PublishConns, NoTab, HostFault, TabsTypeOK, Connection
<1>5. ASSUME NEW h \in Hosts, Keepalive(h) PROVE TabsInv'
  <2> SUFFICES ASSUME NEW t \in Tabs
               PROVE  /\ tab'[t].state = "open" =>
                            /\ tab'[t].quiet <= 1 /\ (tab'[t].alive => tab'[t].quiet = 0)
                            /\ tab'[t].expiredFor = 0
                            /\ tab'[t].slowFor = tab'[t].strikes
                            /\ tab'[t].strikes < STRIKE_LIMIT
                      /\ tab'[t].seq = tab'[t].sent
    BY <1>5, <1>t DEF Keepalive
  <2>t. tab[t] \in Connection
    BY <1>t DEF TabsTypeOK
  <2>1. CASE t \notin On(h)
    BY <1>5, <2>1, <2>t DEF Keepalive
  <2>2. CASE t \in On(h) /\ (Dead(t) \/ tab[t].exp \/ TooSlow(t))
    BY <1>5, <2>2, <2>t DEF Keepalive, Connection
  <2>3. CASE t \in On(h) /\ ~(Dead(t) \/ tab[t].exp \/ TooSlow(t))
    <3>1. tab'[t] = Kept(t)
      BY <1>5, <2>3 DEF Keepalive
    <3>2. tab[t].state = "open" /\ tab[t].alive /\ ~tab[t].exp /\ Strikes(t) < STRIKE_LIMIT
      BY <2>3, <2>t, TabsAssumption DEF On, Dead, TooSlow, Strikes, Connection
    <3>3. /\ Kept(t).strikes = Strikes(t) /\ Kept(t).alive = ~tab[t].mute
          /\ Kept(t).quiet = (IF tab[t].mute THEN OneMore(tab[t].quiet) ELSE 0)
          /\ Kept(t).slowFor = (IF tab[t].slow THEN OneMore(tab[t].slowFor) ELSE 0)
          /\ Kept(t).expiredFor = (IF tab[t].exp THEN OneMore(tab[t].expiredFor) ELSE 0)
          /\ Kept(t).seq = tab[t].seq /\ Kept(t).sent = tab[t].sent
      BY <2>t DEF Kept, Connection
    <3>4. OneMore(0) = 1 /\ (tab[t].slow => OneMore(tab[t].slowFor) = Strikes(t))
      BY <3>2, <2>t, TabsAssumption DEF OneMore, Strikes, Connection
    <3>5. tab[t].slow \in BOOLEAN /\ tab[t].mute \in BOOLEAN /\ (~tab[t].slow => Strikes(t) = 0)
      BY <2>t DEF Connection, Strikes
    <3>6. Watching
      OBVIOUS
    <3>7. tab[t].quiet = 0 /\ tab[t].seq = tab[t].sent
      BY <3>2
    <3>8. Kept(t).quiet <= 1 /\ (Kept(t).alive => Kept(t).quiet = 0)
      <4>1. CASE tab[t].mute
        <5>1. Kept(t).quiet = 1
          BY <4>1, <3>3, <3>4, <3>7
        <5>2. ~Kept(t).alive
          BY <4>1, <3>3, Zenon
        <5> QED
          BY <5>1, <5>2
      <4>2. CASE ~tab[t].mute
        BY <4>2, <3>3
      <4> QED
        BY <4>1, <4>2
    <3>9. Kept(t).expiredFor = 0 /\ Kept(t).slowFor = Kept(t).strikes
      BY <3>2, <3>3, <3>4, <3>5
    <3> QED
      BY <3>1, <3>2, <3>3, <3>7, <3>8, <3>9
  <2> QED
    BY <2>1, <2>2, <2>3
<1>6. ASSUME NEW h \in Hosts, Heartbeat(h) PROVE TabsInv'
  BY <1>6, <1>t, TabsAssumption DEF Heartbeat, Rewritten, HostFault, TabsTypeOK, Connection
<1>7. ASSUME NEW T, T \subseteq Tabs, SendTo(T) PROVE Watching' /\ SeqAnchored'
  <2>1. ASSUME NEW t \in Tabs
        PROVE  /\ tab'[t].state = tab[t].state /\ tab'[t].quiet = tab[t].quiet
               /\ tab'[t].alive = tab[t].alive /\ tab'[t].expiredFor = tab[t].expiredFor
               /\ tab'[t].slowFor = tab[t].slowFor /\ tab'[t].strikes = tab[t].strikes
               /\ tab'[t].seq = tab'[t].sent
    <3>1. tab[t] \in Connection /\ tab[t].seq = tab[t].sent
      BY <1>t DEF TabsTypeOK
    <3>2. CASE t \in T /\ ~tab[t].slow
      <4>1. tab'[t] = [tab[t] EXCEPT !.seq = NextSeq(t), !.sent = @ + 1]
        BY <1>7, <3>2 DEF SendTo
      <4>2. NextSeq(t) = tab[t].sent + 1
        BY <3>1 DEF NextSeq
      <4>3. ASSUME NEW c \in Connection
            PROVE  LET d == [c EXCEPT !.seq = c.sent + 1, !.sent = @ + 1]
                   IN  /\ d.state = c.state /\ d.quiet = c.quiet /\ d.alive = c.alive
                       /\ d.expiredFor = c.expiredFor /\ d.slowFor = c.slowFor
                       /\ d.strikes = c.strikes /\ d.seq = d.sent
        BY DEF Connection
      <4> QED
        BY <3>1, <4>1, <4>2, <4>3
    <3>3. CASE ~(t \in T /\ ~tab[t].slow)
      <4>1. tab'[t] = tab[t]
        BY <1>7, <3>3 DEF SendTo
      <4> QED
        BY <3>1, <4>1
    <3> QED
      BY <3>2, <3>3
  <2>2. Watching'
    BY <2>1
  <2> QED
    BY <2>1, <2>2
<1>8. ASSUME NEW h \in Hosts, NEW kind \in {"user", "staff", "broadcast"}, Emit(h, kind)
      PROVE TabsInv'
  <2>1. Served(h) \subseteq Tabs /\ Staffed(h) \subseteq Tabs
    BY DEF Served, Staffed, On
  <2>2. Watching' /\ SeqAnchored'
    BY <1>7, <1>8, <2>1 DEF Emit
  <2>3. ASSUME SendTo(Staffed(h)), NEW t \in Tabs, tab'[t].sent # tab[t].sent
        PROVE  tab[t].staff
    BY <2>3, <1>t DEF SendTo, Staffed, TabsTypeOK
  <2>4. ~leaked'
    BY <1>8, <2>3 DEF Emit
  <2> QED
    BY <1>8, <1>t, <2>2, <2>4 DEF Emit
<1>9. ASSUME NEW h \in Hosts, NEW kind \in {"user", "staff", "broadcast"}, OnMessage(h, kind)
      PROVE TabsInv'
  <2>1. Served(h) \subseteq Tabs
    BY DEF Served, On
  <2>2. Watching' /\ SeqAnchored'
    BY <1>7, <1>9, <2>1 DEF OnMessage
  <2> QED
    BY <1>9, <1>t, <2>2 DEF OnMessage
<1>10. CASE UNCHANGED tabVars
  BY <1>10, <1>t DEF tabVars
<1> QED
  BY <1>1, <1>2, <1>3, <1>4, <1>5, <1>6, <1>8, <1>9, <1>10 DEF TabsNext

\* Whatever connects, falls silent, slows down or is lost, every connection gets
\* its messages numbered without a gap, none outlives its limits, and the registry
\* of nodes heals (realtime-infra).
THEOREM SocketsSound == Spec => []RealtimeSound
<1>1. TabsInv => RealtimeSound
  BY DEF TabsInv, Watching, RealtimeSound, Reaped
<1>2. Init => TabsInv
  BY PartInit, TabsInitially
<1>3. TabsInv /\ [Next]_vars => TabsInv'
  BY PartStep, TabsStep
<1> QED
  BY <1>1, <1>2, <1>3, PTL DEF Spec
---------------------------------------------------------------------------
(* The audit log.                                                          *)

Entry == [n : Nat, prev : Nat, writtenAt : Nat, createdAt : Nat, serializable : BOOLEAN]
Transaction ==
    [pc : {"idle", "begun", "locked", "inserted"}, mode : {"own", "serializable"},
     snapshot : SUBSET Entry, createdAt : Nat, row : SUBSET Entry]

AuditTypeOK ==
    /\ now \in Nat /\ inserted \in Nat /\ chain \subseteq Entry
    /\ writer \in [Writers -> Transaction]

\* The lock is held from before the head is read until the end: nobody commits
\* in between, so the row that is going to be committed is still the last one.
Follows(r, rows) == rows # {} => \E s \in Latest(rows) : r.prev = s.n
RowReady(w) ==
    \E r \in Entry :
        /\ writer[w].row = {r} /\ r.writtenAt <= now /\ Follows(r, Visible(w))
        /\ \A s \in chain : s.writtenAt <= r.writtenAt
LockedFromReadToEnd ==
    \A w \in Writers :
        /\ writer[w].pc \in {"locked", "inserted"} => chainLock = w
        /\ writer[w].pc = "inserted" => RowReady(w)
        /\ writer[w].snapshot \subseteq chain

AuditInv ==
    /\ AuditTypeOK /\ LockedFromReadToEnd
    /\ \A s \in chain : s.writtenAt <= now
    /\ ChainUnbroken

LEMMA AuditInitially == AuditInit => AuditInv
<1> SUFFICES ASSUME AuditInit PROVE AuditInv
  OBVIOUS
<1>1. AuditTypeOK
  BY DEF AuditInit, AuditTypeOK, NoWrite, Transaction
<1>2. LockedFromReadToEnd
  BY DEF AuditInit, LockedFromReadToEnd, NoWrite
<1> QED
  BY <1>1, <1>2 DEF AuditInit, AuditInv, ChainUnbroken, VerifyChain

\* What a commit adds to a log without a break.
LEMMA CommitFollows ==
    ASSUME NEW rows \in SUBSET Entry, NEW r \in Entry, VerifyChain(rows), Follows(r, rows),
           \A s \in rows : s.writtenAt <= r.writtenAt
    PROVE  Tied(rows \cup {r}) \/ VerifyChain(rows \cup {r})
<1> DEFINE all == rows \cup {r}
           before(x, X) == {s \in X : s.writtenAt < x.writtenAt}
<1>1. SUFFICES ASSUME ~Tied(all), NEW x \in all, before(x, all) # {}
               PROVE  \E s \in Latest(before(x, all)) : x.prev = s.n
  BY DEF VerifyChain
<1>2. \A s \in rows : s.writtenAt \in Nat /\ r.writtenAt \in Nat
  BY DEF Entry
<1>3. CASE x \in rows
  <2>1. before(x, all) = before(x, rows)
    BY <1>2, <1>3
  <2> QED
    BY <1>1, <1>3, <2>1 DEF VerifyChain
<1>4. CASE x = r /\ r \notin rows
  <2>1. \A s \in rows : s.writtenAt # r.writtenAt
    BY <1>1, <1>4 DEF Tied
  <2>2. before(x, all) = rows
    <3>1. \A s \in rows : s.writtenAt < r.writtenAt
      BY <1>2, <2>1
    <3>2. ~(r.writtenAt < r.writtenAt)
      BY DEF Entry
    <3> QED
      BY <1>4, <3>1, <3>2
  <2> QED
    BY <1>1, <1>4, <2>2 DEF Follows
<1> QED
  BY <1>3, <1>4

LEMMA AuditStep == AuditInv /\ [AuditNext]_auditVars => AuditInv'
<1> SUFFICES ASSUME AuditInv, [AuditNext]_auditVars PROVE AuditInv'
  OBVIOUS
<1> USE DEF AuditInv
<1>w. \A w \in Writers : writer[w] \in Transaction /\ w # Unlocked
  BY AuditAssumption DEF AuditTypeOK
<1>1. CASE MillisecondPasses
  <2>1. AuditTypeOK'
    BY <1>1 DEF MillisecondPasses, AuditTypeOK
  <2>2. LockedFromReadToEnd'
    BY <1>1 DEF MillisecondPasses, LockedFromReadToEnd, RowReady, Visible, Serializable,
                AuditTypeOK, Entry
  <2>3. ChainUnbroken' /\ \A s \in chain' : s.writtenAt <= now'
    BY <1>1 DEF MillisecondPasses, ChainUnbroken, AuditTypeOK, Entry
  <2> QED
    BY <2>1, <2>2, <2>3
<1>2. ASSUME NEW w \in Writers, NEW mode \in {"own", "serializable"}, BeginWrite(w, mode)
      PROVE  AuditInv'
  <2> DEFINE new == [NoWrite EXCEPT !.pc = "begun", !.mode = mode, !.snapshot = chain,
                                    !.createdAt = now]
  <2>1. /\ new \in Transaction /\ new.pc = "begun" /\ new.snapshot = chain
    BY DEF NoWrite, Transaction, AuditTypeOK
  <2>2. writer' = [writer EXCEPT ![w] = new]
    BY <1>2 DEF BeginWrite
  <2> HIDE DEF new
  <2>3. AuditTypeOK'
    BY <1>2, <2>1, <2>2 DEF BeginWrite, AuditTypeOK
  <2>4. \A v \in Writers : writer'[v] = (IF v = w THEN new ELSE writer[v])
    BY <2>2 DEF AuditTypeOK
  <2>5. LockedFromReadToEnd'
    BY <1>2, <2>1, <2>4
    DEF BeginWrite, LockedFromReadToEnd, RowReady, Visible, Serializable
  <2> QED
    BY <1>2, <2>3, <2>5 DEF BeginWrite, ChainUnbroken
<1>3. ASSUME NEW w \in Writers, Lock(w) PROVE AuditInv'
  <2> DEFINE new == [writer[w] EXCEPT !.pc = "locked"]
  <2>1. new \in Transaction /\ new.pc = "locked" /\ new.snapshot = writer[w].snapshot
    BY <1>w DEF Transaction
  <2>2. writer' = [writer EXCEPT ![w] = new]
    BY <1>3 DEF Lock
  <2> HIDE DEF new
  <2>3. AuditTypeOK'
    BY <1>3, <2>1, <2>2 DEF Lock, AuditTypeOK
  <2>4. \A v \in Writers : writer'[v] = (IF v = w THEN new ELSE writer[v])
    BY <2>2 DEF AuditTypeOK
  <2>5. \A v \in Writers : writer[v].pc \notin {"locked", "inserted"}
    BY <1>3, <1>w DEF Lock, Free, LockedFromReadToEnd
  <2>6. LockedFromReadToEnd'
    BY <1>3, <2>1, <2>4, <2>5 DEF Lock, LockedFromReadToEnd
  <2> QED
    BY <1>3, <2>3, <2>6 DEF Lock, ChainUnbroken
<1>4. ASSUME NEW w \in Writers, Insert(w) PROVE AuditInv'
  <2>1. PICK head \in (IF Visible(w) = {} THEN {0} ELSE {r.n : r \in Latest(Visible(w))}) :
            writer' = [writer EXCEPT ![w].pc = "inserted",
                          ![w].row = {[n |-> inserted + 1, prev |-> head, writtenAt |-> now,
                                       createdAt |-> writer[w].createdAt,
                                       serializable |-> Serializable(w)]}]
    BY <1>4 DEF Insert
  <2>2. Visible(w) \subseteq Entry /\ Visible(w) \subseteq chain
    BY <1>w DEF Visible, AuditTypeOK, LockedFromReadToEnd
  <2>3. head \in Nat
    BY <2>1, <2>2 DEF Latest, Entry
  <2> DEFINE r == [n |-> inserted + 1, prev |-> head, writtenAt |-> now,
                   createdAt |-> writer[w].createdAt, serializable |-> Serializable(w)]
             new == [writer[w] EXCEPT !.pc = "inserted", !.row = {r}]
  <2>4. r \in Entry /\ r.writtenAt = now /\ r.prev = head
    BY <1>w, <2>3 DEF Entry, AuditTypeOK, Transaction, Serializable
  <2>5. writer' = [writer EXCEPT ![w] = new]
    BY <2>1
  <2> HIDE DEF r
  <2>6. /\ new \in Transaction /\ new.pc = "inserted" /\ new.row = {r}
        /\ new.snapshot = writer[w].snapshot /\ new.mode = writer[w].mode
    BY <1>w, <2>4 DEF Transaction
  <2> HIDE DEF new
  <2>7. AuditTypeOK'
    <3>1. inserted' \in Nat /\ now' = now /\ chain' = chain
      BY <1>4 DEF Insert, AuditTypeOK
    <3>2. writer' \in [Writers -> Transaction]
      BY <2>5, <2>6 DEF AuditTypeOK
    <3> QED
      BY <3>1, <3>2 DEF AuditTypeOK
  <2>8. \A v \in Writers : writer'[v] = (IF v = w THEN new ELSE writer[v])
    BY <2>5 DEF AuditTypeOK
  <2>9. \A v \in Writers \ {w} : writer[v].pc \notin {"locked", "inserted"}
    BY <1>4 DEF Insert, LockedFromReadToEnd
  <2>10. Visible(w)' = Visible(w)
    BY <1>4, <2>6, <2>8 DEF Insert, Visible, Serializable
  <2>11. RowReady(w)'
    <3>1. Follows(r, Visible(w))
      BY <2>1, <2>4 DEF Follows
    <3>2. \A s \in chain : s.writtenAt <= r.writtenAt
      BY <2>4
    <3>3. chain' = chain /\ now' = now /\ now <= now
      BY <1>4 DEF Insert, AuditTypeOK
    <3>4. writer'[w].row = {r}
      BY <2>6, <2>8
    <3> QED
      BY <2>4, <2>10, <3>1, <3>2, <3>3, <3>4 DEF RowReady
  <2>12. LockedFromReadToEnd'
    BY <1>4, <2>6, <2>8, <2>9, <2>11 DEF Insert, LockedFromReadToEnd
  <2> QED
    BY <1>4, <2>7, <2>12 DEF Insert, ChainUnbroken
<1>5. ASSUME NEW w \in Writers, EndWrite(w), chain \subseteq chain',
             writer[w].pc \in {"locked", "inserted"}
      PROVE  /\ writer' \in [Writers -> Transaction] /\ LockedFromReadToEnd'
  <2>1. NoWrite \in Transaction /\ NoWrite.pc = "idle" /\ NoWrite.snapshot = {}
    BY DEF NoWrite, Transaction
  <2>2. writer' = [writer EXCEPT ![w] = NoWrite]
    BY <1>5 DEF EndWrite
  <2>3. \A v \in Writers : writer'[v] = (IF v = w THEN NoWrite ELSE writer[v])
    BY <2>2 DEF AuditTypeOK
  <2>4. \A v \in Writers \ {w} : writer[v].pc \notin {"locked", "inserted"}
    BY <1>5 DEF LockedFromReadToEnd
  <2> HIDE DEF NoWrite
  <2>5. writer' \in [Writers -> Transaction]
    BY <2>1, <2>2 DEF AuditTypeOK
  <2>6. LockedFromReadToEnd'
    BY <1>5, <2>1, <2>3, <2>4 DEF LockedFromReadToEnd
  <2> QED
    BY <2>5, <2>6
<1>6. ASSUME NEW w \in Writers, CommitWrite(w) PROVE AuditInv'
  <2>1. PICK r \in Entry :
            /\ writer[w].row = {r} /\ r.writtenAt <= now /\ Follows(r, Visible(w))
            /\ \A s \in chain : s.writtenAt <= r.writtenAt
    BY <1>6 DEF CommitWrite, LockedFromReadToEnd, RowReady
  <2>2. chain' = chain \cup {r} /\ now' = now /\ inserted' = inserted
    BY <1>6, <2>1 DEF CommitWrite, EndWrite
  <2>3. AuditTypeOK' /\ LockedFromReadToEnd'
    BY <1>5, <1>6, <2>1, <2>2 DEF CommitWrite, AuditTypeOK
  <2>4. \A s \in chain' : s.writtenAt <= now'
    BY <2>1, <2>2
  <2>5. CASE outdated'
    BY <2>3, <2>4, <2>5 DEF ChainUnbroken
  <2>6. CASE ~outdated'
    <3>1. ~outdated /\ ~(Serializable(w) /\ Missed(w) # {})
      BY <1>6, <2>6 DEF CommitWrite
    <3>2. Visible(w) = chain
      BY <3>1 DEF Visible, Missed, LockedFromReadToEnd
    <3>3. Tied(chain) => Tied(chain')
      BY <2>2 DEF Tied
    <3>4. VerifyChain(chain) => Tied(chain') \/ VerifyChain(chain')
      BY <2>1, <2>2, <3>2, CommitFollows DEF AuditTypeOK
    <3> QED
      BY <2>3, <2>4, <3>1, <3>3, <3>4 DEF ChainUnbroken
  <2> QED
    BY <2>5, <2>6
<1>7. ASSUME NEW w \in Writers, AbortWrite(w) PROVE AuditInv'
  BY <1>5, <1>7 DEF AbortWrite, EndWrite, AuditTypeOK, ChainUnbroken
<1>8. CASE UNCHANGED auditVars
  BY <1>8 DEF auditVars, AuditTypeOK, LockedFromReadToEnd, RowReady, Visible, Serializable,
              ChainUnbroken
<1> QED
  BY <1>1, <1>2, <1>3, <1>4, <1>6, <1>7, <1>8 DEF AuditNext

\* However transactions of both kinds interleave, conflict and die, the check
\* finds no break in a log nobody touched, but for the two exceptions
\* (security/immutable.audit.ts).
THEOREM LogUnbroken == Spec => []ChainUnbroken
<1>1. AuditInv => ChainUnbroken
  BY DEF AuditInv
<1>2. Init => AuditInv
  BY PartInit, AuditInitially
<1>3. AuditInv /\ [Next]_vars => AuditInv'
  BY PartStep, AuditStep
<1> QED
  BY <1>1, <1>2, <1>3, PTL DEF Spec
---------------------------------------------------------------------------
(* The FIX acceptor.                                                       *)

Sockets == {"none", "open", "ending", "closing", "closed"}
FixStates == {"DISCONNECTED", "CONNECTED", "ACTIVE", "LOGGING_OUT"}
Connected == [socket : Sockets, state : FixStates, timer : Nat]
Numbered == [conn : Conns, n : Nat]

FixTypeOK ==
    /\ fix \in [Conns -> Connected]
    /\ fixSessions \subseteq Conns /\ slots \in Nat
    /\ verifying \subseteq Numbered /\ intervals \subseteq Numbered
    /\ logons \in Nat

\* A session in the map is new and has its ten seconds, or logged on and has an
\* interval; a session that was logged out is not in the map.
SessionLives ==
    \A c \in fixSessions :
        /\ fix[c].socket \notin {"none", "closed"}
        /\ \/ fix[c].state = "CONNECTED" /\ (c \in guarded \/ fix[c].socket = "closing")
           \/ fix[c].state = "ACTIVE" /\ \E t \in intervals : t.conn = c

FixInv == FixTypeOK /\ SessionLives /\ SlotsCounted

LEMMA FixInitially == FixInit => FixInv
<1> SUFFICES ASSUME FixInit PROVE FixInv
  OBVIOUS
<1>1. FixTypeOK
  BY DEF FixInit, FixTypeOK, Unconnected, Connected, Sockets, FixStates
<1>2. SessionLives /\ SlotsCounted
  BY FS_EmptySet DEF FixInit, SessionLives, SlotsCounted
<1> QED
  BY <1>1, <1>2 DEF FixInv

\* One session leaves the map, or none did: the address is charged for no more
\* than are left.
LEMMA SlotGivenBack ==
    ASSUME FixTypeOK, SlotsCounted, NEW c \in Conns,
           fixSessions' = fixSessions \ {c},
           slots' = (IF slots > 0 THEN slots - 1 ELSE 0),
           again' = (again \/ c \notin fixSessions)
    PROVE  slots' \in Nat /\ SlotsCounted'
<1>1. IsFiniteSet(fixSessions)
  BY FixAssumption, FS_Subset DEF FixTypeOK
<1>2. /\ Cardinality(fixSessions) \in Nat /\ Cardinality(fixSessions \ {c}) \in Nat
      /\ Cardinality(fixSessions \ {c}) =
            IF c \in fixSessions THEN Cardinality(fixSessions) - 1 ELSE Cardinality(fixSessions)
  BY <1>1, FS_CardinalityType, FS_RemoveElement
<1>3. slots \in Nat /\ slots <= Cardinality(fixSessions)
  BY DEF FixTypeOK, SlotsCounted
<1>4. slots' \in Nat /\ slots' <= Cardinality(fixSessions \ {c})
  BY <1>2, <1>3
<1>5. ~again' => slots' = Cardinality(fixSessions \ {c})
  <2>1. ~again' => ~again /\ c \in fixSessions
    BY Zenon
  <2>2. ~again /\ c \in fixSessions => slots' = Cardinality(fixSessions \ {c})
    BY <1>2, <1>3 DEF SlotsCounted
  <2> QED
    BY <2>1, <2>2
<1> QED
  BY <1>4, <1>5 DEF SlotsCounted

LEMMA ClosingKeepsInv ==
    ASSUME FixInv, NEW c \in Conns, CloseSession(c), guarded' = guarded,
           verifying' \subseteq Numbered, logons' \in Nat
    PROVE  FixInv'
<1> USE DEF FixInv
<1>1. slots' \in Nat /\ SlotsCounted'
  BY SlotGivenBack DEF CloseSession
<1> DEFINE new == [socket |-> IF fix[c].socket = "closed" THEN "closed" ELSE "closing",
                   state |-> "LOGGING_OUT", timer |-> 0]
<1>2. fix' = [fix EXCEPT ![c] = new] /\ new \in Connected
  BY DEF CloseSession, Connected, Sockets, FixStates
<1> HIDE DEF new
<1>3. /\ fixSessions' = fixSessions \ {c}
      /\ intervals' = intervals \ {[conn |-> c, n |-> fix[c].timer]}
  BY DEF CloseSession
<1>4. FixTypeOK'
  BY <1>1, <1>2, <1>3 DEF FixTypeOK
<1>5. ASSUME NEW d \in fixSessions'
      PROVE  /\ fix'[d] = fix[d] /\ d \in fixSessions
             /\ \A t \in intervals : t.conn = d => t \in intervals'
  BY <1>2, <1>3 DEF FixTypeOK
<1>6. SessionLives'
  BY <1>5 DEF SessionLives
<1> QED
  BY <1>1, <1>4, <1>6

\* A connection other than those of the map, or a socket that begins to end,
\* leaves every session with what watches it.
LEMMA RejectingKeepsInv ==
    ASSUME FixInv, NEW c \in Conns, RejectLogon(c), guarded' = guarded,
           verifying' \subseteq Numbered, logons' \in Nat
    PROVE  FixInv'
<1> USE DEF FixInv
<1> DEFINE new == [fix[c] EXCEPT !.socket = IF @ = "open" THEN "ending" ELSE @]
<1>1. /\ fix' = [fix EXCEPT ![c] = new]
      /\ new \in Connected /\ new.state = fix[c].state
      /\ new.socket = fix[c].socket \/ (fix[c].socket = "open" /\ new.socket = "ending")
  BY DEF RejectLogon, FixTypeOK, Connected, Sockets
<1> HIDE DEF new
<1>2. FixTypeOK'
  BY <1>1 DEF RejectLogon, FixTypeOK
<1>3. SessionLives'
  BY <1>1 DEF RejectLogon, SessionLives, FixTypeOK
<1> QED
  BY <1>2, <1>3 DEF RejectLogon, SlotsCounted

LEMMA FixStep == FixInv /\ [FixNext]_fixVars => FixInv'
<1> SUFFICES ASSUME FixInv, [FixNext]_fixVars PROVE FixInv'
  OBVIOUS
<1> USE DEF FixInv
<1>q. ASSUME UNCHANGED <<fix, fixSessions, slots, guarded, verifying, intervals, logons, again>>
      PROVE  FixInv'
  BY <1>q DEF FixTypeOK, SessionLives, SlotsCounted
<1>s. ASSUME UNCHANGED sessionVars PROVE FixInv'
  BY <1>q, <1>s DEF sessionVars
<1>1. ASSUME NEW c \in Conns, NEW more \in BOOLEAN, HandleLogon(c, more) PROVE FixInv'
  <2>1. logons' \in Nat /\ guarded' = guarded
    BY <1>1 DEF HandleLogon, FixTypeOK
  <2>2. CASE RejectLogon(c) /\ UNCHANGED verifying
    BY <2>1, <2>2, RejectingKeepsInv DEF FixTypeOK
  <2>3. CASE /\ verifying' = verifying \cup {[conn |-> c, n |-> logons + 1]}
             /\ UNCHANGED <<fix, fixSessions, slots, intervals, again>>
    <3>1. verifying' \subseteq Numbered
      BY <2>3 DEF FixTypeOK, Numbered
    <3> QED
      BY <2>1, <2>3, <3>1 DEF FixTypeOK, SessionLives, SlotsCounted
  <2> QED
    BY <1>1, <2>2, <2>3 DEF HandleLogon
<1>2. ASSUME NEW c \in Conns, NEW more \in BOOLEAN, HandleLogout(c, more) PROVE FixInv'
  BY <1>2, ClosingKeepsInv DEF HandleLogout, FixTypeOK
<1>3. ASSUME NEW c \in Conns, NEW more \in BOOLEAN, OtherMessage(c, more) PROVE FixInv'
  BY <1>3, <1>q DEF OtherMessage
<1>4. ASSUME NEW c \in Conns, NEW o \in FixOrders, NEW more \in BOOLEAN,
             HandleNewOrder(c, o, more) \/ HandleCancel(c, o, more)
      PROVE FixInv'
  BY <1>4, <1>q DEF HandleNewOrder, HandleCancel
<1>5. ASSUME NEW c \in Conns, OnConnection(c) PROVE FixInv'
  <2>1. fix[c] = Unconnected /\ c \notin fixSessions
    BY <1>5 DEF OnConnection, SessionLives, Unconnected
  <2>2. CASE slots >= MaxPerIp
    <3> DEFINE new == [fix[c] EXCEPT !.socket = "closed"]
    <3>1. fix' = [fix EXCEPT ![c] = new] /\ new \in Connected
      BY <1>5, <2>2 DEF OnConnection, FixTypeOK, Connected, Sockets
    <3> HIDE DEF new
    <3>2. UNCHANGED <<fixSessions, slots, guarded, verifying, intervals, logons, again>>
      BY <1>5, <2>2 DEF OnConnection
    <3> QED
      BY <2>1, <3>1, <3>2 DEF FixTypeOK, SessionLives, SlotsCounted
  <2>3. CASE ~(slots >= MaxPerIp)
    <3> DEFINE new == [fix[c] EXCEPT !.socket = "open", !.state = "CONNECTED"]
    <3>1. /\ fix' = [fix EXCEPT ![c] = new] /\ new \in Connected
          /\ new.socket = "open" /\ new.state = "CONNECTED"
      <4>1. fix' = [fix EXCEPT ![c] = new]
        BY <1>5, <2>3 DEF OnConnection
      <4>2. fix[c] \in Connected
        BY DEF FixTypeOK
      <4> QED
        BY <4>1, <4>2 DEF Connected, Sockets, FixStates
    <3> HIDE DEF new
    <3>2. /\ fixSessions' = fixSessions \cup {c} /\ slots' = slots + 1
          /\ guarded' = guarded \cup {c} /\ UNCHANGED <<verifying, intervals, logons, again>>
      BY <1>5, <2>3 DEF OnConnection
    <3>3. FixTypeOK'
      BY <3>1, <3>2 DEF FixTypeOK
    <3>4. SessionLives'
      BY <3>1, <3>2 DEF SessionLives, FixTypeOK
    <3>5. IsFiniteSet(fixSessions)
      BY FixAssumption, FS_Subset DEF FixTypeOK
    <3>6. Cardinality(fixSessions') = Cardinality(fixSessions) + 1 /\ Cardinality(fixSessions) \in Nat
      BY <2>1, <3>2, <3>5, FS_AddElement, FS_CardinalityType
    <3>7. SlotsCounted'
      BY <3>2, <3>6 DEF SlotsCounted, FixTypeOK
    <3> QED
      BY <3>3, <3>4, <3>7
  <2> QED
    BY <2>2, <2>3
<1>6. ASSUME NEW v \in verifying, NEW valid \in BOOLEAN, LogonVerified(v, valid) PROVE FixInv'
  <2>1. v \in Numbered /\ v.conn \in Conns /\ v.n \in Nat
    BY DEF FixTypeOK, Numbered
  <2>2. CASE valid
    <3> DEFINE new == [fix[v.conn] EXCEPT !.state = "ACTIVE", !.timer = v.n]
    <3>1. fix' = [fix EXCEPT ![v.conn] = new]
      BY <1>6, <2>2 DEF LogonVerified
    <3>2. new \in Connected /\ new.state = "ACTIVE" /\ new.socket = fix[v.conn].socket
      BY <2>1 DEF FixTypeOK, Connected, FixStates
    <3> HIDE DEF new
    <3>3. /\ intervals' = intervals \cup {v} /\ verifying' = verifying \ {v}
          /\ UNCHANGED <<fixSessions, slots, again, guarded, logons>>
      BY <1>6, <2>2 DEF LogonVerified
    <3>4. FixTypeOK'
      BY <2>1, <3>1, <3>2, <3>3 DEF FixTypeOK
    <3>5. SessionLives'
      BY <2>1, <3>1, <3>2, <3>3 DEF SessionLives, FixTypeOK
    <3> QED
      BY <3>3, <3>4, <3>5 DEF SlotsCounted
  <2>3. CASE ~valid
    BY <1>6, <2>1, <2>3, RejectingKeepsInv DEF LogonVerified, FixTypeOK
  <2> QED
    BY <2>2, <2>3
<1>7. ASSUME NEW c \in Conns, LogonTimeout(c) PROVE FixInv'
  <2>1. /\ guarded' = guarded \ {c}
        /\ UNCHANGED <<fixSessions, slots, verifying, intervals, logons, again>>
    BY <1>7 DEF LogonTimeout
  <2>2. CASE LogonOverdue(c) /\ fix[c].socket # "closed"
    <3> DEFINE new == [fix[c] EXCEPT !.socket = "closing"]
    <3>1. fix' = [fix EXCEPT ![c] = new]
      BY <1>7, <2>2 DEF LogonTimeout
    <3>2. new \in Connected /\ new.state = fix[c].state /\ new.socket = "closing"
      BY DEF FixTypeOK, Connected, Sockets
    <3> HIDE DEF new
    <3>3. FixTypeOK'
      BY <2>1, <3>1, <3>2 DEF FixTypeOK
    <3>4. SessionLives'
      BY <2>1, <3>1, <3>2 DEF SessionLives, FixTypeOK
    <3> QED
      BY <2>1, <3>3, <3>4 DEF SlotsCounted
  <2>3. CASE ~(LogonOverdue(c) /\ fix[c].socket # "closed")
    <3>1. fix' = fix
      BY <1>7, <2>3 DEF LogonTimeout
    <3>2. c \in fixSessions => fix[c].state = "ACTIVE"
      BY <2>3 DEF LogonOverdue, SessionLives
    <3> QED
      BY <2>1, <3>1, <3>2 DEF FixTypeOK, SessionLives, SlotsCounted
  <2> QED
    BY <2>2, <2>3
<1>8. ASSUME NEW t \in intervals, HeartbeatFires(t) PROVE FixInv'
  <2>1. t.conn \in Conns
    BY DEF FixTypeOK, Numbered
  <2> QED
    BY <1>8, <2>1, ClosingKeepsInv DEF HeartbeatFires, FixTypeOK
<1>9. ASSUME NEW c \in Conns, Silence(c) PROVE FixInv'
  BY <1>9, <1>q DEF Silence
<1>10. ASSUME NEW c \in Conns, OnFixClose(c) PROVE FixInv'
  <2>1. UNCHANGED <<guarded, verifying, logons>>
    BY <1>10 DEF OnFixClose
  <2>2. CASE fix[c].state # "LOGGING_OUT"
    <3> DEFINE new == [socket |-> "closed", state |-> "LOGGING_OUT", timer |-> 0]
    <3>1. /\ fix' = [fix EXCEPT ![c] = new]
          /\ intervals' = intervals \ {[conn |-> c, n |-> fix[c].timer]}
          /\ fixSessions' = fixSessions \ {c}
          /\ slots' = (IF slots > 0 THEN slots - 1 ELSE 0)
          /\ again' = (again \/ c \notin fixSessions)
      BY <1>10, <2>2 DEF OnFixClose
    <3>2. new \in Connected
      BY DEF Connected, Sockets, FixStates
    <3> HIDE DEF new
    <3>3. slots' \in Nat /\ SlotsCounted'
      BY <3>1, SlotGivenBack
    <3>4. FixTypeOK'
      BY <2>1, <3>1, <3>2, <3>3 DEF FixTypeOK
    <3>5. ASSUME NEW d \in fixSessions'
          PROVE  /\ fix'[d] = fix[d] /\ d \in fixSessions
                 /\ \A t \in intervals : t.conn = d => t \in intervals'
      BY <3>1 DEF FixTypeOK
    <3>6. SessionLives'
      BY <2>1, <3>5 DEF SessionLives
    <3> QED
      BY <3>3, <3>4, <3>6
  <2>3. CASE fix[c].state = "LOGGING_OUT"
    <3> DEFINE new == [fix[c] EXCEPT !.socket = "closed"]
    <3>1. fix' = [fix EXCEPT ![c] = new] /\ UNCHANGED <<fixSessions, slots, intervals, again>>
      BY <1>10, <2>3 DEF OnFixClose
    <3>2. new \in Connected
      BY DEF FixTypeOK, Connected, Sockets
    <3> HIDE DEF new
    <3>3. c \notin fixSessions
      BY <2>3 DEF SessionLives
    <3> QED
      BY <2>1, <3>1, <3>2, <3>3 DEF FixTypeOK, SessionLives, SlotsCounted
  <2> QED
    BY <2>2, <2>3
<1>11. ASSUME NEW o \in FixOrders, ParkedOrderFills(o) PROVE FixInv'
  BY <1>11, <1>s DEF ParkedOrderFills
<1>12. ASSUME NEW o \in FixOrders, NEW outcome, OrderAnswered(o, outcome) PROVE FixInv'
  BY <1>12, <1>s DEF OrderAnswered
<1>13. ASSUME NEW a \in asked, NEW thrown \in BOOLEAN, CancelAnswered(a, thrown) PROVE FixInv'
  BY <1>13, <1>s DEF CancelAnswered
<1>14. CASE UNCHANGED fixVars
  BY <1>14, <1>q DEF fixVars
<1> QED
  BY <1>1, <1>2, <1>3, <1>4, <1>5, <1>6, <1>7, <1>8, <1>9, <1>10, <1>11, <1>12, <1>13, <1>14
  DEF FixNext
---------------------------------------------------------------------------
(* The gateway.                                                            *)

Asked == [pc : {"idle", "expire", "route", "stepup", "limit"},
          route : {k.route : k \in Kinds} \cup {"health"},
          who : {k.who : k \in Kinds} \cup {"none"}, over : BOOLEAN]
Counter == [count : Nat, ttl : Nat]
Patterns == {"scan", "refusal"}

GateTypeOK ==
    /\ inbound \in [Inbound -> Asked]
    /\ window \in [Limited -> Counter] /\ ran \in [Limited -> Nat]
    /\ ipBlock \in Nat /\ lock \in Nat /\ ticks \in Nat
    /\ critical \in Nat /\ stepUpsIssued \in Nat
    /\ IsFiniteSet(events) /\ \A e \in events : e.at \in Nat /\ e.at <= ticks
    /\ \A t \in trackers : t.kind \in Patterns

\* No handler ran that was not counted.
RunsCounted ==
    \A r \in Limited : /\ ran[r] <= Limit /\ ran[r] <= window[r].count
                       /\ window[r].count > 0 => window[r].ttl > 0

\* What a step-up may still do is in its token or in a request that spent it.
Spent == {c \in Inbound : inbound[c].route = "capital" /\ Stands(c, "limit")}
StepUpsAddUp ==
    critical + Cardinality(Spent) + (IF opToken = "fresh" THEN 1 ELSE 0) <= stepUpsIssued

\* A pattern over its threshold has a tracker that is going to see it, or a block
\* that outlives the last of its events.
Answered(kind, block) ==
    Cardinality(Recent(kind)) >= Threshold =>
        \/ \E t \in trackers : t.kind = kind
        \/ \A e \in Recent(kind) : e.at + Window - ticks < block
PatternsSeen == dropped \/ (Answered("scan", ipBlock) /\ Answered("refusal", lock))

GateInv == GateTypeOK /\ RunsCounted /\ StepUpsAddUp /\ PatternsSeen

LEMMA SpentFinite ==
    ASSUME NEW S \in SUBSET Inbound PROVE IsFiniteSet(S) /\ Cardinality(S) \in Nat
  BY GateAssumption, FS_Subset, FS_CardinalityType

LEMMA GateInitially == GateInit => GateInv
<1> SUFFICES ASSUME GateInit PROVE GateInv
  OBVIOUS
<1>1. GateTypeOK
  BY FS_EmptySet DEF GateInit, GateTypeOK, Asked, NoRequest, Counter, NoCount
<1>2. RunsCounted
  BY GateAssumption DEF GateInit, RunsCounted, NoCount
<1>3. Spent = {}
  BY DEF GateInit, Spent, Stands, NoRequest
<1>4. StepUpsAddUp
  BY <1>3, FS_EmptySet DEF GateInit, StepUpsAddUp
<1>5. Recent("scan") = {} /\ Recent("refusal") = {}
  BY DEF GateInit, Recent
<1>6. PatternsSeen
  BY <1>5, FS_EmptySet, GateAssumption DEF PatternsSeen, Answered
<1> QED
  BY <1>1, <1>2, <1>4, <1>6 DEF GateInv

\* The rows of the invariant, for steps that leave most of the state alone.
LEMMA RunsKept ==
    ASSUME RunsCounted, UNCHANGED <<window, ran>> PROVE RunsCounted'
  BY DEF RunsCounted

LEMMA StepUpsKept ==
    ASSUME GateTypeOK, StepUpsAddUp, Spent' \subseteq Spent,
           UNCHANGED <<critical, opToken, stepUpsIssued>>
    PROVE  StepUpsAddUp'
<1>1. Spent \subseteq Inbound
  BY DEF Spent
<1>2. Cardinality(Spent') <= Cardinality(Spent) /\ Cardinality(Spent) \in Nat /\ Cardinality(Spent') \in Nat
  BY <1>1, SpentFinite, FS_Subset
<1> QED
  BY <1>2 DEF StepUpsAddUp, GateTypeOK

LEMMA RecentFinite ==
    ASSUME GateTypeOK, NEW kind
    PROVE  IsFiniteSet(Recent(kind)) /\ Cardinality(Recent(kind)) \in Nat
<1>1. Recent(kind) \subseteq events
  BY DEF Recent
<1> QED
  BY <1>1, FS_Subset, FS_CardinalityType DEF GateTypeOK

LEMMA PatternsKept ==
    ASSUME PatternsSeen, UNCHANGED <<events, trackers, dropped, ticks, lock>>,
           ipBlock' = ipBlock \/ (GateTypeOK /\ ipBlock' = Window + 1)
    PROVE  PatternsSeen'
<1>1. CASE ipBlock' = ipBlock
  BY <1>1 DEF PatternsSeen, Answered, Recent
<1>2. CASE GateTypeOK /\ ipBlock' = Window + 1
  <2>1. \A e \in Recent("scan") : e.at + Window - ticks < Window + 1
    BY <1>2, GateAssumption DEF Recent, GateTypeOK
  <2>2. Recent("scan")' = Recent("scan") /\ Recent("refusal")' = Recent("refusal")
    BY DEF Recent
  <2> QED
    BY <1>2, <2>1, <2>2 DEF PatternsSeen, Answered
<1> QED
  BY <1>1, <1>2

\* A tracker that has added its event is going to count it.
LEMMA TrackKeeps ==
    ASSUME GateTypeOK, PatternsSeen, NEW kind \in Patterns, NEW id, NEW ok \in BOOLEAN,
           Track(kind, id, ok), UNCHANGED <<ticks, ipBlock, lock>>
    PROVE  /\ IsFiniteSet(events') /\ \A e \in events' : e.at \in Nat /\ e.at <= ticks'
           /\ \A t \in trackers' : t.kind \in Patterns
           /\ PatternsSeen'
<1> DEFINE new == [kind |-> kind, id |-> id, at |-> ticks]
           kept == {o \in events : ~(o.kind = kind /\ o.id = id)}
<1>1. /\ trackers' = trackers \cup {new} /\ dropped' = (dropped \/ ~ok)
      /\ events' = (IF ok THEN kept \cup {new} ELSE events)
  BY DEF Track
<1>2. new.kind = kind /\ new.at = ticks /\ ticks \in Nat
  BY DEF GateTypeOK
<1>3. IsFiniteSet(kept) /\ IsFiniteSet(kept \cup {new})
  BY FS_Subset, FS_AddElement DEF GateTypeOK
<1>4. IsFiniteSet(events') /\ \A e \in events' : e.at \in Nat /\ e.at <= ticks'
  BY <1>1, <1>2, <1>3 DEF GateTypeOK
<1>5. \A t \in trackers' : t.kind \in Patterns
  BY <1>1, <1>2 DEF GateTypeOK
<1>6. CASE ~ok
  BY <1>1, <1>4, <1>5, <1>6 DEF PatternsSeen
<1>7. CASE ok
  <2>1. ASSUME NEW k \in Patterns, k # kind PROVE Recent(k)' = Recent(k)
    BY <1>1, <1>2, <1>7, <2>1 DEF Recent
  <2>2. \E t \in trackers' : t.kind = kind
    BY <1>1, <1>2
  <2>3. ASSUME NEW k \in Patterns, NEW b, Answered(k, b)
        PROVE  Cardinality(Recent(k)') >= Threshold =>
                  \/ \E t \in trackers' : t.kind = k
                  \/ \A e \in Recent(k)' : e.at + Window - ticks' < b
    BY <1>1, <2>1, <2>2, <2>3 DEF Answered
  <2>4. dropped => dropped'
    BY <1>1
  <2>5. PatternsSeen'
    BY <2>3, <2>4 DEF PatternsSeen, Answered, Patterns
  <2> QED
    BY <1>4, <1>5, <2>5
<1> QED
  BY <1>6, <1>7

LEMMA CountedDown ==
    ASSUME NEW n \in Nat
    PROVE  Max({0, n - 1}) \in Nat /\ \A i \in Int : i < n => i - 1 < Max({0, n - 1})
<1> DEFINE m == IF n = 0 THEN 0 ELSE n - 1
<1>1. m \in {0, n - 1} /\ \A y \in {0, n - 1} : m >= y
  OBVIOUS
<1>2. \A x \in {0, n - 1} : (\A y \in {0, n - 1} : x >= y) => x = m
  OBVIOUS
<1>3. Max({0, n - 1}) = m
  BY <1>1, <1>2 DEF Max
<1> QED
  BY <1>3

LEMMA GateStep == GateInv /\ [GateNext]_gateVars => GateInv'
<1> SUFFICES ASSUME GateInv, [GateNext]_gateVars PROVE GateInv'
  OBVIOUS
<1> USE GateAssumption
<1>i. GateTypeOK /\ RunsCounted /\ StepUpsAddUp /\ PatternsSeen
  BY DEF GateInv
<1>1. ASSUME NEW ok \in BOOLEAN, NEW c \in Inbound, NEW kind \in Kinds, Arrive(c, kind, ok)
      PROVE GateInv'
  <2> DEFINE new == [pc |-> IF ok /\ rate.count = 0 THEN "expire" ELSE "route",
                     route |-> kind.route, who |-> kind.who,
                     over |-> ok /\ rate.count >= MaxRate]
  <2>1. /\ inbound' = inbound \/ inbound' = [inbound EXCEPT ![c] = new]
        /\ ipBlock' = ipBlock \/ ipBlock' = Window + 1
        /\ UNCHANGED <<window, lock, events, trackers, opToken, ticks, stepUpsIssued, ran, critical,
                       dropped>>
    BY <1>1 DEF Arrive
  <2>2. new \in Asked /\ new.pc # "limit"
    BY DEF Asked
  <2> HIDE DEF new
  <2>3. inbound' \in [Inbound -> Asked] /\ Spent' \subseteq Spent
    BY <1>i, <2>1, <2>2 DEF GateTypeOK, Spent, Stands
  <2>4. GateTypeOK'
    BY <1>i, <2>1, <2>3 DEF GateTypeOK
  <2>5. PatternsSeen'
    BY <1>i, <2>1, PatternsKept
  <2> QED
    BY <1>i, <2>1, <2>3, <2>4, <2>5, RunsKept, StepUpsKept DEF GateInv
<1>2. ASSUME NEW ok \in BOOLEAN, NEW c \in Inbound, DetectExpires(c, ok) PROVE GateInv'
  <2>1. /\ inbound' = [inbound EXCEPT ![c].pc = "route"]
        /\ UNCHANGED <<window, ipBlock, lock, events, trackers, opToken, ticks, stepUpsIssued, ran,
                       critical, dropped>>
    BY <1>2 DEF DetectExpires, Passes
  <2>2. inbound' \in [Inbound -> Asked] /\ Spent' \subseteq Spent
    BY <1>i, <2>1 DEF GateTypeOK, Asked, Spent, Stands
  <2>3. GateTypeOK'
    BY <1>i, <2>1, <2>2 DEF GateTypeOK
  <2>4. PatternsSeen'
    BY <1>i, <2>1, PatternsKept
  <2> QED
    BY <1>i, <2>1, <2>2, <2>3, <2>4, RunsKept, StepUpsKept DEF GateInv
<1>3. ASSUME NEW ok \in BOOLEAN, NEW c \in Inbound, RouteOf(c, ok) PROVE GateInv'
  <2>1. /\ Stands(c, "route")
        /\ \/ inbound' = [inbound EXCEPT ![c] = NoRequest]
           \/ \E pc \in {"stepup", "limit"} :
                 /\ inbound' = [inbound EXCEPT ![c].pc = pc]
                 /\ inbound[c].route = "capital" => pc = "stepup"
        /\ NoTrack \/ Track("scan", <<inbound[c].route, 0, 0>>, ok)
        /\ UNCHANGED <<window, ipBlock, lock, opToken, ticks, stepUpsIssued, ran, critical>>
    BY <1>3 DEF RouteOf, Passes, Replies
  <2>2. inbound' \in [Inbound -> Asked] /\ Spent' \subseteq Spent
    <3>1. CASE inbound' = [inbound EXCEPT ![c] = NoRequest]
      BY <1>i, <3>1 DEF GateTypeOK, Asked, Spent, Stands, NoRequest
    <3>2. ASSUME NEW pc \in {"stepup", "limit"}, inbound' = [inbound EXCEPT ![c].pc = pc],
                 inbound[c].route = "capital" => pc = "stepup"
          PROVE  inbound' \in [Inbound -> Asked] /\ Spent' \subseteq Spent
      BY <1>i, <3>2 DEF GateTypeOK, Asked, Spent, Stands
    <3> QED
      BY <2>1, <3>1, <3>2
  <2>3. CASE NoTrack
    <3>1. GateTypeOK'
      BY <1>i, <2>1, <2>2, <2>3 DEF GateTypeOK, NoTrack
    <3>2. PatternsSeen'
      BY <1>i, <2>1, <2>3, PatternsKept DEF NoTrack
    <3> QED
      BY <1>i, <2>1, <2>2, <3>1, <3>2, RunsKept, StepUpsKept DEF GateInv
  <2>4. CASE Track("scan", <<inbound[c].route, 0, 0>>, ok)
    <3>1. "scan" \in Patterns
      BY DEF Patterns
    <3>2. /\ IsFiniteSet(events') /\ \A e \in events' : e.at \in Nat /\ e.at <= ticks'
          /\ \A t \in trackers' : t.kind \in Patterns
          /\ PatternsSeen'
      BY <1>i, <2>1, <2>4, <3>1, TrackKeeps
    <3>3. GateTypeOK'
      BY <1>i, <2>1, <2>2, <3>2 DEF GateTypeOK
    <3> QED
      BY <1>i, <2>1, <2>2, <3>2, <3>3, RunsKept, StepUpsKept DEF GateInv
  <2> QED
    BY <2>1, <2>3, <2>4
<1>4. ASSUME NEW ok \in BOOLEAN, NEW c \in Inbound, StepUpCheck(c, ok) PROVE GateInv'
  <2>1. /\ Stands(c, "stepup")
        /\ UNCHANGED <<window, ipBlock, lock, events, trackers, ticks, stepUpsIssued, ran, critical,
                       dropped>>
    BY <1>4 DEF StepUpCheck
  <2>2. PatternsSeen' /\ RunsCounted'
    BY <1>i, <2>1, PatternsKept, RunsKept
  <2>3. CASE ok /\ Spends
    <3>1. opToken = "fresh" /\ opToken' = "consumed" /\ inbound' = [inbound EXCEPT ![c].pc = "limit"]
      BY <1>4, <2>3 DEF StepUpCheck, Spends, Passes
    <3>2. inbound' \in [Inbound -> Asked] /\ Spent' \subseteq Spent \cup {c}
      BY <1>i, <3>1 DEF GateTypeOK, Asked, Spent, Stands
    <3>3. GateTypeOK'
      BY <1>i, <2>1, <3>2 DEF GateTypeOK
    <3>4. Spent \subseteq Inbound /\ Spent \cup {c} \subseteq Inbound
      BY DEF Spent
    <3>5. /\ Cardinality(Spent') <= Cardinality(Spent \cup {c})
          /\ Cardinality(Spent') \in Nat /\ Cardinality(Spent) \in Nat
          /\ Cardinality(Spent \cup {c}) <= Cardinality(Spent) + 1
      <4>1. IsFiniteSet(Spent) /\ IsFiniteSet(Spent \cup {c}) /\ Cardinality(Spent) \in Nat
        BY <3>4, SpentFinite
      <4>2. Cardinality(Spent \cup {c}) = (IF c \in Spent THEN Cardinality(Spent) ELSE Cardinality(Spent) + 1)
        BY <4>1, FS_AddElement
      <4>3. IsFiniteSet(Spent') /\ Cardinality(Spent') <= Cardinality(Spent \cup {c})
        BY <3>2, <4>1, FS_Subset
      <4> QED
        BY <4>1, <4>2, <4>3, FS_CardinalityType
    <3>6. StepUpsAddUp'
      <4>1. critical + Cardinality(Spent) + 1 <= stepUpsIssued /\ critical \in Nat /\ stepUpsIssued \in Nat
        BY <1>i, <3>1 DEF StepUpsAddUp, GateTypeOK
      <4>2. critical' = critical /\ stepUpsIssued' = stepUpsIssued /\ opToken' # "fresh"
        BY <2>1, <3>1
      <4>3. critical + Cardinality(Spent') <= stepUpsIssued
        BY <3>5, <4>1, SpentFinite, <3>4
      <4>4. critical' + Cardinality(Spent') + 0 <= stepUpsIssued'
        BY <3>5, <4>1, <4>2, <4>3
      <4> QED
        BY <4>2, <4>4 DEF StepUpsAddUp
    <3> QED
      BY <2>2, <3>3, <3>6 DEF GateInv
  <2>4. CASE ~(ok /\ Spends)
    <3>1. inbound' = [inbound EXCEPT ![c] = NoRequest] /\ opToken' = opToken
      BY <1>4, <2>4 DEF StepUpCheck, Replies
    <3>2. inbound' \in [Inbound -> Asked] /\ Spent' \subseteq Spent
      BY <1>i, <3>1 DEF GateTypeOK, Asked, Spent, Stands, NoRequest
    <3>3. GateTypeOK'
      BY <1>i, <2>1, <3>2 DEF GateTypeOK
    <3> QED
      BY <1>i, <2>1, <2>2, <3>1, <3>2, <3>3, StepUpsKept DEF GateInv
  <2> QED
    BY <2>3, <2>4
<1>5. ASSUME NEW ok \in BOOLEAN, NEW c \in Inbound, LimitCheck(c, ok) PROVE GateInv'
  <2> DEFINE r == inbound[c].route
             short == r \in Reports /\ inbound[c].who # "operator"
             runs == ok /\ Counted(r).count <= Limit /\ ~short
             id == <<r, Counted(r).count, ticks>>
  <2>1. /\ Stands(c, "limit") /\ inbound' = [inbound EXCEPT ![c] = NoRequest]
        /\ window' = (IF ok THEN [window EXCEPT ![r] = Counted(r)] ELSE window)
        /\ NoTrack \/ Track("refusal", id, TRUE)
        /\ ran' = (IF runs THEN [ran EXCEPT ![r] = @ + 1] ELSE ran)
        /\ critical' = critical + (IF runs /\ r = "capital" THEN 1 ELSE 0)
        /\ UNCHANGED <<ipBlock, lock, opToken, ticks, stepUpsIssued>>
    BY <1>5 DEF LimitCheck, Replies
  <2>2. inbound' \in [Inbound -> Asked]
    BY <1>i, <2>1 DEF GateTypeOK, Asked, NoRequest
  <2>3. ASSUME r \in Limited
        PROVE  /\ Counted(r) \in Counter /\ Counted(r).ttl > 0
               /\ Counted(r).count = window[r].count + 1
    <3>1. window[r] \in Counter /\ (window[r].count > 0 => window[r].ttl > 0)
      BY <1>i, <2>3 DEF GateTypeOK, RunsCounted
    <3> QED
      BY <3>1 DEF Counted, Counter
  <2>4. window' \in [Limited -> Counter] /\ ran' \in [Limited -> Nat]
    <3>1. CASE r \in Limited
      <4> HIDE DEF r
      <4> QED
        BY <1>i, <2>1, <2>3, <3>1 DEF GateTypeOK
    <3>2. CASE r \notin Limited
      <4>1. window' = window /\ ran' = ran
        BY <1>i, <2>1, <3>2 DEF GateTypeOK
      <4> QED
        BY <1>i, <4>1 DEF GateTypeOK
    <3> QED
      BY <3>1, <3>2
  <2>5. RunsCounted'
    <3> SUFFICES ASSUME NEW q \in Limited
                 PROVE  /\ ran'[q] <= Limit /\ ran'[q] <= window'[q].count
                        /\ window'[q].count > 0 => window'[q].ttl > 0
      BY DEF RunsCounted
    <3>1. ran[q] \in Nat /\ window[q] \in Counter /\ ran[q] <= Limit /\ ran[q] <= window[q].count
          /\ (window[q].count > 0 => window[q].ttl > 0)
      BY <1>i DEF GateTypeOK, RunsCounted
    <3>2. CASE q # r \/ ~ok
      <4>1. ran'[q] = ran[q] /\ window'[q] = window[q]
        BY <1>i, <2>1, <3>2 DEF GateTypeOK
      <4> QED
        BY <3>1, <4>1
    <3>3. CASE q = r /\ ok
      <4>1. window'[q] = Counted(r)
        BY <1>i, <2>1, <3>3 DEF GateTypeOK
      <4>2. ran'[q] = (IF runs THEN ran[q] + 1 ELSE ran[q])
        BY <1>i, <2>1, <3>3 DEF GateTypeOK
      <4>3. Counted(r).count = window[q].count + 1 /\ Counted(r).ttl > 0
        BY <2>3, <3>3
      <4>4. runs => Counted(r).count <= Limit
        OBVIOUS
      <4> HIDE DEF runs
      <4> QED
        BY <3>1, <4>1, <4>2, <4>3, <4>4 DEF Counter
    <3> QED
      BY <3>2, <3>3
  <2>6. StepUpsAddUp'
    <3>1. Spent' \subseteq Spent \ {c} /\ Spent \subseteq Inbound
      BY <1>i, <2>1 DEF Spent, Stands, NoRequest, GateTypeOK
    <3>2. IsFiniteSet(Spent) /\ Cardinality(Spent) \in Nat /\ IsFiniteSet(Spent')
          /\ Cardinality(Spent') \in Nat
      BY <3>1, SpentFinite, FS_Subset
    <3>3. CASE r = "capital"
      <4>1. c \in Spent
        BY <2>1, <3>3 DEF Spent
      <4>2. Cardinality(Spent \ {c}) = Cardinality(Spent) - 1 /\ IsFiniteSet(Spent \ {c})
        BY <3>2, <4>1, FS_RemoveElement
      <4>3. Cardinality(Spent') <= Cardinality(Spent) - 1
        BY <3>1, <4>2, FS_Subset
      <4>4. critical' <= critical + 1 /\ critical' \in Nat
        BY <1>i, <2>1 DEF GateTypeOK
      <4> QED
        BY <1>i, <2>1, <3>2, <4>3, <4>4 DEF StepUpsAddUp, GateTypeOK
    <3>4. CASE r # "capital"
      <4>1. Cardinality(Spent') <= Cardinality(Spent)
        BY <3>1, <3>2, FS_Subset
      <4>2. critical' = critical
        BY <1>i, <2>1, <3>4 DEF GateTypeOK
      <4> QED
        BY <1>i, <2>1, <3>2, <4>1, <4>2 DEF StepUpsAddUp, GateTypeOK
    <3> QED
      BY <3>3, <3>4
  <2>7. critical' \in Nat
    BY <1>i, <2>1 DEF GateTypeOK
  <2>8. /\ IsFiniteSet(events') /\ \A e \in events' : e.at \in Nat /\ e.at <= ticks'
        /\ \A t \in trackers' : t.kind \in Patterns
        /\ PatternsSeen'
    <3>1. CASE NoTrack
      <4>1. PatternsSeen'
        BY <1>i, <2>1, <3>1, PatternsKept DEF NoTrack
      <4> QED
        BY <1>i, <2>1, <3>1, <4>1 DEF GateTypeOK, NoTrack
    <3>2. CASE Track("refusal", id, TRUE)
      <4>1. "refusal" \in Patterns
        BY DEF Patterns
      <4> HIDE DEF id
      <4> QED
        BY <1>i, <2>1, <3>2, <4>1, TrackKeeps
    <3> QED
      BY <2>1, <3>1, <3>2
  <2>9. GateTypeOK'
    BY <1>i, <2>1, <2>2, <2>4, <2>7, <2>8 DEF GateTypeOK
  <2> QED
    BY <2>5, <2>6, <2>8, <2>9 DEF GateInv
<1>6. ASSUME NEW ok \in BOOLEAN, NEW t \in trackers, TrackCount(t, ok) PROVE GateInv'
  <2> DEFINE over == ok /\ Seen(t) >= Threshold
  <2>1. /\ dropped' = (dropped \/ ~ok) /\ trackers' = trackers \ {t}
        /\ ipBlock' = (IF over /\ t.kind = "scan" THEN Window + 1 ELSE ipBlock)
        /\ lock' = (IF over /\ t.kind = "refusal" THEN Window + 1 ELSE lock)
        /\ UNCHANGED <<inbound, window, events, opToken, ticks, stepUpsIssued, ran, critical>>
    BY <1>6 DEF TrackCount
  <2>2. ipBlock' \in Nat /\ lock' \in Nat
    BY <1>i, <2>1 DEF GateTypeOK
  <2>3. GateTypeOK'
    BY <1>i, <2>1, <2>2 DEF GateTypeOK
  <2>4. RunsCounted' /\ Spent' = Spent
    BY <1>i, <2>1, RunsKept DEF Spent, Stands
  <2>5. StepUpsAddUp'
    BY <1>i, <2>1, <2>4, StepUpsKept
  <2>6. PatternsSeen'
    <3>1. CASE dropped \/ ~ok
      BY <2>1, <3>1 DEF PatternsSeen
    <3>2. CASE ~dropped /\ ok
      <4>1. ASSUME NEW k \in Patterns, NEW b \in Nat, NEW after \in Nat, Answered(k, b),
                   after = b \/ after = Window + 1,
                   t.kind = k /\ Seen(t) >= Threshold => after = Window + 1
            PROVE  Cardinality(Recent(k)') >= Threshold =>
                      \/ \E u \in trackers' : u.kind = k
                      \/ \A e \in Recent(k)' : e.at + Window - ticks' < after
        <5> SUFFICES ASSUME Cardinality(Recent(k)') >= Threshold,
                            ~ \E u \in trackers' : u.kind = k,
                            NEW e \in Recent(k)'
                     PROVE  e.at + Window - ticks' < after
          OBVIOUS
        <5>1. Recent(k)' = Recent(k) /\ ticks' = ticks
          BY <2>1 DEF Recent
        <5>2. e \in events /\ e.at \in Nat /\ e.at <= ticks /\ ticks \in Nat
          BY <1>i, <5>1 DEF Recent, GateTypeOK
        <5>3. CASE t.kind = k
          <6>1. Seen(t) >= Threshold
            BY <5>1, <5>3 DEF Seen
          <6> QED
            BY <4>1, <5>1, <5>2, <5>3, <6>1
        <5>4. CASE t.kind # k
          <6>1. ~ \E u \in trackers : u.kind = k
            BY <2>1, <5>4
          <6>2. e.at + Window - ticks < b
            BY <4>1, <5>1, <6>1 DEF Answered
          <6> QED
            BY <4>1, <5>1, <5>2, <6>2
        <5> QED
          BY <5>3, <5>4
      <4>2. "scan" \in Patterns /\ "refusal" \in Patterns /\ ipBlock \in Nat /\ lock \in Nat
        BY <1>i DEF Patterns, GateTypeOK
      <4>3. Answered("scan", ipBlock) /\ Answered("refusal", lock)
        BY <1>i, <3>2 DEF PatternsSeen
      <4>4. Answered("scan", ipBlock)'
        BY <2>1, <2>2, <3>2, <4>1, <4>2, <4>3 DEF Answered
      <4>5. Answered("refusal", lock)'
        BY <2>1, <2>2, <3>2, <4>1, <4>2, <4>3 DEF Answered
      <4> QED
        BY <4>4, <4>5 DEF PatternsSeen
    <3> QED
      BY <3>1, <3>2
  <2> QED
    BY <2>3, <2>4, <2>5, <2>6 DEF GateInv
<1>7. CASE IssueStepUp
  <2>1. /\ stepUpsIssued' = stepUpsIssued + 1 /\ opToken' = "fresh"
        /\ UNCHANGED <<inbound, window, ipBlock, lock, events, trackers, ticks, ran, critical, dropped>>
    BY <1>7 DEF IssueStepUp
  <2>2. RunsCounted' /\ PatternsSeen' /\ Spent' = Spent
    BY <1>i, <2>1, RunsKept, PatternsKept DEF Spent, Stands
  <2>3. GateTypeOK'
    BY <1>i, <2>1 DEF GateTypeOK
  <2>4. Cardinality(Spent) \in Nat
    BY SpentFinite DEF Spent
  <2>5. StepUpsAddUp'
    BY <1>i, <2>1, <2>2, <2>4 DEF StepUpsAddUp, GateTypeOK
  <2> QED
    BY <2>2, <2>3, <2>5 DEF GateInv
<1>8. CASE Tick
  <2>1. /\ ticks' = ticks + 1
        /\ window' = [r \in Limited |-> Lives(window[r])]
        /\ ran' = [r \in Limited |-> IF window[r].ttl = 1 THEN 0 ELSE ran[r]]
        /\ ipBlock' = Max({0, ipBlock - 1}) /\ lock' = Max({0, lock - 1})
        /\ events' = {e \in events : e.at > ticks + 1 - Window}
        /\ UNCHANGED <<inbound, opToken, trackers, stepUpsIssued, critical, dropped>>
    BY <1>8 DEF Tick
  <2>2. /\ ipBlock' \in Nat /\ \A i \in Int : i < ipBlock => i - 1 < ipBlock'
        /\ lock' \in Nat /\ \A i \in Int : i < lock => i - 1 < lock'
    BY <1>i, <2>1, CountedDown DEF GateTypeOK
  <2>3. ASSUME NEW r \in Limited
        PROVE  /\ window'[r] \in Counter /\ ran'[r] \in Nat
               /\ ran'[r] <= Limit /\ ran'[r] <= window'[r].count
               /\ window'[r].count > 0 => window'[r].ttl > 0
    <3> DEFINE k == window[r]
    <3>1. k \in Counter /\ ran[r] \in Nat /\ ran[r] <= Limit /\ ran[r] <= k.count
          /\ (k.count > 0 => k.ttl > 0)
      BY <1>i DEF GateTypeOK, RunsCounted
    <3>2. window'[r] = Lives(k) /\ ran'[r] = (IF k.ttl = 1 THEN 0 ELSE ran[r])
      BY <2>1
    <3> HIDE DEF k
    <3>3. CASE k.ttl = 0
      BY <3>1, <3>2, <3>3 DEF Lives, Counter
    <3>4. CASE k.ttl = 1
      BY <3>1, <3>2, <3>4 DEF Lives, Counter, NoCount
    <3>5. CASE k.ttl > 1
      <4>1. Lives(k) = [k EXCEPT !.ttl = k.ttl - 1]
        BY <3>1, <3>5 DEF Lives, Counter
      <4>2. Lives(k) \in Counter /\ Lives(k).count = k.count /\ Lives(k).ttl > 0
        BY <3>1, <3>5, <4>1 DEF Counter
      <4> QED
        BY <3>1, <3>2, <3>5, <4>2
    <3> QED
      BY <3>1, <3>3, <3>4, <3>5 DEF Counter
  <2>4. RunsCounted'
    BY <2>3 DEF RunsCounted
  <2>5. window' \in [Limited -> Counter] /\ ran' \in [Limited -> Nat]
    <3>1. window' = [r \in Limited |-> window'[r]] /\ ran' = [r \in Limited |-> ran'[r]]
      BY <2>1
    <3> QED
      BY <2>3, <3>1
  <2>6. IsFiniteSet(events') /\ events' \subseteq events
    BY <1>i, <2>1, FS_Subset DEF GateTypeOK
  <2>7. GateTypeOK'
    BY <1>i, <2>1, <2>2, <2>5, <2>6 DEF GateTypeOK
  <2>8. Spent' = Spent
    BY <2>1 DEF Spent, Stands
  <2>9. StepUpsAddUp'
    BY <1>i, <2>1, <2>8, StepUpsKept
  <2>10. ASSUME NEW k, NEW b \in Nat, NEW after \in Nat, Answered(k, b),
                \A i \in Int : i < b => i - 1 < after
         PROVE  Cardinality(Recent(k)') >= Threshold =>
                   \/ \E u \in trackers' : u.kind = k
                   \/ \A e \in Recent(k)' : e.at + Window - ticks' < after
    <3>1. Recent(k)' \subseteq Recent(k)
      BY <1>i, <2>1 DEF Recent, GateTypeOK
    <3>2. IsFiniteSet(Recent(k)) /\ Cardinality(Recent(k)) \in Nat
      BY <1>i, RecentFinite
    <3>3. Cardinality(Recent(k)') <= Cardinality(Recent(k)) /\ Cardinality(Recent(k)') \in Nat
      BY <3>1, <3>2, FS_Subset, FS_CardinalityType
    <3>4. ASSUME NEW e \in Recent(k)', e.at + Window - ticks < b
          PROVE  e.at + Window - ticks' < after
      <4>1. e.at \in Nat /\ ticks \in Nat
        BY <1>i, <3>1 DEF Recent, GateTypeOK
      <4>2. e.at + Window - ticks - 1 < after
        BY <2>10, <3>4, <4>1
      <4> QED
        BY <2>1, <4>1, <4>2
    <3> QED
      BY <2>1, <2>10, <3>1, <3>2, <3>3, <3>4 DEF Answered
  <2>11. PatternsSeen'
    <3>1. CASE dropped
      BY <2>1, <3>1 DEF PatternsSeen
    <3>2. CASE ~dropped
      <4>1. Answered("scan", ipBlock) /\ Answered("refusal", lock)
        BY <1>i, <3>2 DEF PatternsSeen
      <4>2. ipBlock \in Nat /\ lock \in Nat
        BY <1>i DEF GateTypeOK
      <4>3. Answered("scan", ipBlock)' /\ Answered("refusal", lock)'
        BY <2>2, <2>10, <4>1, <4>2 DEF Answered
      <4> QED
        BY <4>3 DEF PatternsSeen
    <3> QED
      BY <3>1, <3>2
  <2> QED
    BY <2>4, <2>7, <2>9, <2>11 DEF GateInv
<1>9. CASE UNCHANGED gateVars
  <2>1. UNCHANGED <<inbound, window, ran, ipBlock, lock, ticks, critical, stepUpsIssued, events,
                    trackers, opToken, dropped>>
    BY <1>9 DEF gateVars
  <2>2. GateTypeOK' /\ Spent' = Spent
    BY <1>i, <2>1 DEF GateTypeOK, Spent, Stands
  <2> QED
    BY <1>i, <2>1, <2>2, RunsKept, StepUpsKept, PatternsKept DEF GateInv
<1> QED
  BY <1>1, <1>2, <1>3, <1>4, <1>5, <1>6, <1>7, <1>8, <1>9 DEF GateNext

\* What the invariant of the gate says of the properties.
LEMMA GateAnswers == GateInv => GateSound
<1> SUFFICES ASSUME GateInv PROVE GateSound
  OBVIOUS
<1> USE GateAssumption
<1>1. LimitsHold
  BY DEF GateInv, RunsCounted, LimitsHold
<1>2. OneStepUpOneRun
  <2>1. Cardinality(Spent) \in Nat
    BY SpentFinite DEF Spent
  <2>2. critical + Cardinality(Spent) <= stepUpsIssued
    BY <2>1 DEF GateInv, StepUpsAddUp, GateTypeOK
  <2> QED
    BY <2>2 DEF OneStepUpOneRun, Spent
<1>3. ASSUME NEW k, NEW b \in Nat, Answered(k, b), trackers = {}, Cardinality(Recent(k)) >= Threshold
      PROVE  b > 0
  <2>1. IsFiniteSet(Recent(k)) /\ Cardinality(Recent(k)) \in Nat
    BY RecentFinite DEF GateInv
  <2>2. Recent(k) # {}
    BY <1>3, <2>1, FS_EmptySet
  <2>3. PICK e \in Recent(k) : e.at + Window - ticks < b
    BY <1>3, <2>2 DEF Answered
  <2>4. e.at \in Nat /\ ticks \in Nat /\ e.at > ticks - Window
    BY DEF Recent, GateInv, GateTypeOK
  <2> QED
    BY <2>3, <2>4
<1>4. PatternsAnswered
  BY <1>3 DEF PatternsAnswered, GateInv, PatternsSeen, GateTypeOK
<1> QED
  BY <1>1, <1>2, <1>4 DEF GateSound

\* Whatever the order of the requests, their checks and the failures of Redis: the
\* limits hold, a step-up lets one critical request through and patterns are
\* answered; and no FIX session lives unwatched or is counted twice (shared/http.ts,
\* fix.acceptor.ts).
THEOREM DoorsAreSound == Spec => []DoorsSound
<1>1. GateInv /\ FixInv => DoorsSound
  <2> SUFFICES ASSUME GateInv, FixInv PROVE DoorsSound
    OBVIOUS
  <2>1. EverySessionWatched
    BY DEF FixInv, SessionLives, EverySessionWatched
  <2> QED
    BY <2>1, GateAnswers DEF DoorsSound, FixInv, FixSound
<1>2. Init => GateInv /\ FixInv
  BY PartInit, GateInitially, FixInitially
<1>3. GateInv /\ FixInv /\ [Next]_vars => GateInv' /\ FixInv'
  BY PartStep, GateStep, FixStep
<1> QED
  BY <1>1, <1>2, <1>3, PTL DEF Spec
---------------------------------------------------------------------------
(* Notices, alerts and tickets.                                            *)

NoticesInv ==
    /\ notice \in [Messages -> {"none", "wanted", "creating", "again", "failing", "mailing",
                               "optedOut", "recorded", "lost", "done"}]
    /\ inbox \in [Messages -> Nat] /\ unread \subseteq Messages
    /\ \A m \in Messages : /\ inbox[m] <= 1
                           /\ notice[m] \in {"mailing", "done"} => inbox[m] = 1
                           /\ m \in unread => inbox[m] = 1

LEMMA NoticesInitially == NoticesInit => NoticesInv
  BY DEF NoticesInit, NoticesInv

LEMMA NoticesStep == NoticesInv /\ [NoticesNext]_noticeVars => NoticesInv'
<1> SUFFICES ASSUME NoticesInv, [NoticesNext]_noticeVars PROVE NoticesInv'
  OBVIOUS
<1> USE DEF NoticesInv
<1>1. ASSUME NEW e \in News, Announce(e) PROVE NoticesInv'
  BY <1>1 DEF Announce
<1>2. ASSUME NEW m \in Messages, NEW ok \in BOOLEAN, ReadPreference(m, ok) PROVE NoticesInv'
  BY <1>2 DEF ReadPreference, Become
<1>3. ASSUME NEW m \in Messages, NEW ok \in BOOLEAN, RecordFailure(m, ok) PROVE NoticesInv'
  BY <1>3 DEF RecordFailure, Become
<1>4. ASSUME NEW m \in Messages, NEW outcome \in {"stored", "unheard", "refused"},
             Create(m, outcome)
      PROVE NoticesInv'
  <2> DEFINE stores == outcome \in {"stored", "unheard"} /\ ~Taken(m)
             lost == IF notice[m] = "creating" THEN "again" ELSE "failing"
             next == IF stores /\ outcome = "stored" THEN Stored(m) ELSE lost
  <2>1. /\ inbox' = [inbox EXCEPT ![m] = IF stores THEN @ + 1 ELSE @]
        /\ unread' = (IF stores /\ ChannelOf(m) = "IN_APP" THEN unread \cup {m} ELSE unread)
        /\ notice' = [notice EXCEPT ![m] = next]
    BY <1>4 DEF Create, Become
  <2>2. stores => inbox[m] = 0
    BY DEF Taken
  <2>3. next \in {"mailing", "done", "again", "failing"}
    BY DEF Stored
  <2>4. next \in {"mailing", "done"} => stores
    OBVIOUS
  <2> HIDE DEF stores, next
  <2> QED
    BY <2>1, <2>2, <2>3, <2>4
<1>5. ASSUME NEW m \in Messages, Mail(m) PROVE NoticesInv'
  BY <1>5 DEF Mail, Become
<1>6. CASE RouterDies
  BY <1>6 DEF RouterDies
<1>7. CASE GetInApp
  BY <1>7 DEF GetInApp
<1>8. ASSUME NEW ids \in BOOLEAN, MarkRead(ids) PROVE NoticesInv'
  BY <1>8 DEF MarkRead
<1>9. ASSUME NEW r \in Changers, NEW c \in Channels, NEW on \in BOOLEAN, ReadPreferences(r, c, on)
      PROVE NoticesInv'
  BY <1>9 DEF ReadPreferences
<1>10. ASSUME NEW r \in Changers, WritePreferences(r) PROVE NoticesInv'
  BY <1>10 DEF WritePreferences
<1>11. CASE UNCHANGED noticeVars
  BY <1>11 DEF noticeVars
<1> QED
  BY <1>1, <1>2, <1>3, <1>4, <1>5, <1>6, <1>7, <1>8, <1>9, <1>10, <1>11 DEF NoticesNext

Incident == [pc : {"none", "sending", "sent", "swallowed"}, on : Desks \cup {""}, at : Nat,
             recorded : BOOLEAN]
AlertsTypeOK ==
    /\ incident \in [Incidents -> Incident] /\ recent \in [Desks -> [AlertKeys -> Nat]]
    /\ clock5 \in Nat \ {0}

\* What a worker remembers of a key is the last of its alerts.
GoneOut(i) == incident[i].pc \in {"sending", "sent"}
Remembered ==
    /\ \A w \in Desks, k \in AlertKeys :
           /\ recent[w][k] <= clock5
           /\ recent[w][k] > 0 =>
                 \E i \in Incidents : /\ GoneOut(i) /\ incident[i].on = w /\ AlertOf[i] = k
                                      /\ incident[i].at = recent[w][k]
    /\ \A i \in Incidents :
           GoneOut(i) => /\ incident[i].on \in Desks
                         /\ 1 <= incident[i].at
                         /\ incident[i].at <= recent[incident[i].on][AlertOf[i]]

Alike(i, j) == /\ i # j /\ AlertOf[i] = AlertOf[j] /\ incident[i].on = incident[j].on
               /\ incident[i].at <= incident[j].at
               /\ incident[j].at - incident[i].at < DedupWindow
Spaced ==
    \A j \in Incidents :
        /\ GoneOut(j) => ~\E i \in Incidents : GoneOut(i) /\ Alike(i, j)
        /\ incident[j].pc = "swallowed" => \E i \in Incidents : GoneOut(i) /\ Alike(i, j)

AlertsInv == AlertsTypeOK /\ Remembered /\ Spaced

LEMMA AlertsInitially == AlertsInit => AlertsInv
<1> SUFFICES ASSUME AlertsInit PROVE AlertsInv
  OBVIOUS
<1> DEFINE new == [pc |-> "none", on |-> "", at |-> 0, recorded |-> FALSE]
<1>a. new \in Incident /\ new.pc = "none"
  BY DEF Incident
<1>b. incident = [i \in Incidents |-> new] /\ clock5 = 1
      /\ recent = [w \in Desks |-> [k \in AlertKeys |-> 0]]
  BY DEF AlertsInit
<1> HIDE DEF new
<1>1. AlertsTypeOK
  BY <1>a, <1>b DEF AlertsTypeOK
<1>c. \A i \in Incidents : incident[i].pc = "none" /\ ~GoneOut(i)
  BY <1>a, <1>b DEF GoneOut
<1>2. Remembered /\ Spaced
  BY <1>b, <1>c DEF Remembered, Spaced
<1> QED
  BY <1>1, <1>2 DEF AlertsInv

LEMMA AlertsStep == AlertsInv /\ [AlertsNext]_alertVars => AlertsInv'
<1> SUFFICES ASSUME AlertsInv, [AlertsNext]_alertVars PROVE AlertsInv'
  OBVIOUS
<1> USE NoticeAssumption
<1>i. AlertsTypeOK /\ Remembered /\ Spaced
  BY DEF AlertsInv
<1>1. ASSUME NEW i \in Incidents, NEW w \in Desks, Raise(i, w) PROVE AlertsInv'
  <2> DEFINE k == AlertOf[i]
             pc == IF Duplicate(w, k) THEN "swallowed" ELSE "sending"
             new == [pc |-> pc, on |-> w, at |-> clock5, recorded |-> incident[i].recorded]
  <2>1. /\ incident[i].pc = "none" /\ incident' = [incident EXCEPT ![i] = new]
        /\ recent' = (IF Duplicate(w, k) THEN recent ELSE Marked(w, k)) /\ clock5' = clock5
    BY <1>1, <1>i DEF Raise, AlertsTypeOK, Incident
  <2>2. k \in AlertKeys /\ new \in Incident
    BY <1>i DEF AlertKeys, AlertsTypeOK, Incident
  <2>3. new.pc = pc /\ new.on = w /\ new.at = clock5
    OBVIOUS
  <2> HIDE DEF k, new
  <2>4. incident' \in [Incidents -> Incident] /\ \A j \in Incidents : incident'[j] = IF j = i THEN new ELSE incident[j]
    BY <1>i, <2>1, <2>2 DEF AlertsTypeOK
  <2>5. ~GoneOut(i)
    BY <2>1 DEF GoneOut
  <2>6. clock5 \in Nat /\ clock5 > 0
    BY <1>i DEF AlertsTypeOK
  <2>7. ASSUME NEW j \in Incidents, GoneOut(j), incident[j].on = w, AlertOf[j] = k
        PROVE  /\ incident[j].at \in Nat /\ recent[w][k] \in Nat /\ recent[w][k] <= clock5
               /\ 1 <= incident[j].at /\ incident[j].at <= recent[w][k]
    <3>1. recent[w] \in [AlertKeys -> Nat] /\ incident[j] \in Incident
      BY <1>i DEF AlertsTypeOK
    <3> QED
      BY <1>i, <2>2, <2>7, <3>1 DEF Remembered, Incident
  <2>8. CASE Duplicate(w, k)
    <3>1. recent' = recent /\ pc = "swallowed" /\ recent[w][k] > 0 /\ clock5 - recent[w][k] < DedupWindow
      BY <2>1, <2>8 DEF Duplicate
    <3>2. \A j \in Incidents : GoneOut(j)' <=> GoneOut(j)
      BY <2>3, <2>4, <2>5, <3>1 DEF GoneOut
    <3>3. AlertsTypeOK'
      BY <1>i, <2>1, <2>4, <3>1 DEF AlertsTypeOK
    <3>4. \A j \in Incidents : GoneOut(j) => incident'[j] = incident[j]
      BY <2>4, <2>5
    <3>5. Remembered'
      BY <1>i, <2>1, <3>1, <3>2, <3>4 DEF Remembered
    <3>6. PICK j \in Incidents : /\ GoneOut(j) /\ incident[j].on = w /\ AlertOf[j] = k
                                 /\ incident[j].at = recent[w][k]
      BY <1>i, <2>2, <3>1 DEF Remembered
    <3>7. Alike(j, i)'
      <4>1. j # i /\ incident'[j] = incident[j] /\ incident'[i] = new
        BY <2>4, <2>5, <3>6
      <4>2. recent[w][k] <= clock5
        BY <2>7, <3>6
      <4> QED
        BY <2>3, <3>1, <3>6, <4>1, <4>2 DEF Alike, k
    <3>8. \A a, b \in Incidents : a # i /\ b # i => (Alike(a, b)' <=> Alike(a, b))
      BY <2>4 DEF Alike
    <3>9. Spaced'
      <4> SUFFICES ASSUME NEW b \in Incidents
                   PROVE  /\ GoneOut(b)' => ~\E a \in Incidents : GoneOut(a)' /\ Alike(a, b)'
                          /\ incident'[b].pc = "swallowed" =>
                                \E a \in Incidents : GoneOut(a)' /\ Alike(a, b)'
        BY DEF Spaced
      <4>1. CASE b = i
        BY <2>5, <3>2, <3>6, <3>7, <4>1
      <4>2. CASE b # i
        <5>1. incident'[b] = incident[b]
          BY <2>4, <4>2
        <5>2. \A a \in Incidents : GoneOut(a)' /\ Alike(a, b)' <=> GoneOut(a) /\ Alike(a, b)
          BY <2>5, <3>2, <3>8, <4>2
        <5> QED
          BY <1>i, <3>2, <5>1, <5>2 DEF Spaced
      <4> QED
        BY <4>1, <4>2
    <3> QED
      BY <3>3, <3>5, <3>9 DEF AlertsInv
  <2>9. CASE ~Duplicate(w, k)
    <3>1. recent' = [recent EXCEPT ![w] = [recent[w] EXCEPT ![k] = clock5]] /\ pc = "sending"
      BY <2>1, <2>9 DEF Marked
    <3>2. \A j \in Incidents : GoneOut(j)' <=> j = i \/ GoneOut(j)
      BY <2>3, <2>4, <3>1 DEF GoneOut
    <3>3. /\ recent' \in [Desks -> [AlertKeys -> Nat]]
          /\ \A v \in Desks, q \in AlertKeys :
                 recent'[v][q] = IF v = w /\ q = k THEN clock5 ELSE recent[v][q]
      BY <1>i, <2>2, <2>6, <3>1 DEF AlertsTypeOK
    <3>4. AlertsTypeOK'
      BY <1>i, <2>1, <2>4, <3>3 DEF AlertsTypeOK
    <3>5. Remembered'
      <4>1. ASSUME NEW v \in Desks, NEW q \in AlertKeys
            PROVE  /\ recent'[v][q] <= clock5'
                   /\ recent'[v][q] > 0 =>
                        \E j \in Incidents : /\ GoneOut(j)' /\ incident'[j].on = v /\ AlertOf[j] = q
                                             /\ incident'[j].at = recent'[v][q]
        <5>1. CASE v = w /\ q = k
          BY <2>1, <2>3, <2>4, <2>6, <3>2, <3>3, <5>1 DEF k
        <5>2. CASE ~(v = w /\ q = k)
          <6>1. recent'[v][q] = recent[v][q]
            BY <3>3, <5>2
          <6>2. \A j \in Incidents : GoneOut(j) => incident'[j] = incident[j] /\ GoneOut(j)'
            BY <2>4, <2>5, <3>2
          <6> QED
            BY <1>i, <2>1, <6>1, <6>2 DEF Remembered
        <5> QED
          BY <5>1, <5>2
      <4>2. ASSUME NEW j \in Incidents, GoneOut(j)'
            PROVE  /\ incident'[j].on \in Desks /\ 1 <= incident'[j].at
                   /\ incident'[j].at <= recent'[incident'[j].on][AlertOf[j]]
        <5>1. CASE j = i
          BY <2>2, <2>3, <2>4, <2>6, <3>3, <5>1 DEF k
        <5>2. CASE j # i
          <6>1. incident'[j] = incident[j] /\ GoneOut(j) /\ AlertOf[j] \in AlertKeys
            BY <2>4, <3>2, <4>2, <5>2 DEF AlertKeys
          <6>2. /\ incident[j].on \in Desks /\ 1 <= incident[j].at
                /\ incident[j].at <= recent[incident[j].on][AlertOf[j]]
            BY <1>i, <6>1 DEF Remembered
          <6>3. CASE incident[j].on = w /\ AlertOf[j] = k
            <7>1. incident[j].at <= clock5
              BY <2>6, <2>7, <6>1, <6>3
            <7> QED
              BY <2>2, <3>3, <6>1, <6>2, <6>3, <7>1
          <6>4. CASE ~(incident[j].on = w /\ AlertOf[j] = k)
            BY <3>3, <6>1, <6>2, <6>4
          <6> QED
            BY <6>3, <6>4
        <5> QED
          BY <5>1, <5>2
      <4> QED
        BY <4>1, <4>2 DEF Remembered
    <3>6. ASSUME NEW j \in Incidents, GoneOut(j), incident[j].on = w, AlertOf[j] = k
          PROVE  \/ incident[j].at < clock5 /\ ~(clock5 - incident[j].at < DedupWindow)
                 \/ DedupWindow = 0
      BY <2>6, <2>7, <2>9, <3>6 DEF Duplicate
    <3>7. \A a \in Incidents : incident[a].at \in Nat
      BY <1>i DEF AlertsTypeOK, Incident
    <3>8. \A a, b \in Incidents : a # i /\ b # i => (Alike(a, b)' <=> Alike(a, b))
      BY <2>4 DEF Alike
    <3>9. ASSUME NEW j \in Incidents, GoneOut(j), j # i
          PROVE  ~Alike(j, i)' /\ ~Alike(i, j)'
      <4>1. incident'[j] = incident[j] /\ incident'[i] = new
        BY <2>4, <3>9
      <4>2. CASE incident[j].on = w /\ AlertOf[j] = k
        BY <2>3, <2>6, <3>6, <3>7, <3>9, <4>1, <4>2 DEF Alike
      <4>3. CASE ~(incident[j].on = w /\ AlertOf[j] = k)
        BY <2>3, <4>1, <4>3 DEF Alike, k
      <4> QED
        BY <4>2, <4>3
    <3>10. Spaced'
      <4> SUFFICES ASSUME NEW b \in Incidents
                   PROVE  /\ GoneOut(b)' => ~\E a \in Incidents : GoneOut(a)' /\ Alike(a, b)'
                          /\ incident'[b].pc = "swallowed" =>
                                \E a \in Incidents : GoneOut(a)' /\ Alike(a, b)'
        BY DEF Spaced
      <4>1. CASE b = i
        <5>1. \A a \in Incidents : GoneOut(a)' /\ a # i => ~Alike(a, i)'
          BY <3>2, <3>9
        <5>2. ~Alike(i, i)'
          BY DEF Alike
        <5> QED
          BY <2>3, <2>4, <3>1, <4>1, <5>1, <5>2
      <4>2. CASE b # i
        <5>1. incident'[b] = incident[b]
          BY <2>4, <4>2
        <5>2. \A a \in Incidents : GoneOut(a) => a # i /\ GoneOut(a)' /\ (Alike(a, b)' <=> Alike(a, b))
          BY <2>5, <3>2, <3>8, <4>2
        <5>3. GoneOut(b) => \A a \in Incidents : GoneOut(a)' => ~Alike(a, b)'
          BY <1>i, <3>2, <3>9, <4>2, <5>2 DEF Spaced
        <5> QED
          BY <1>i, <3>2, <4>2, <5>1, <5>2, <5>3 DEF Spaced
      <4> QED
        BY <4>1, <4>2
    <3> QED
      BY <3>4, <3>5, <3>10 DEF AlertsInv
  <2> QED
    BY <2>8, <2>9
<1>2. ASSUME NEW i \in Incidents, NEW audited \in BOOLEAN, Sent(i, audited) PROVE AlertsInv'
  <2> DEFINE new == [incident[i] EXCEPT !.pc = "sent", !.recorded = audited]
  <2>1. incident[i].pc = "sending" /\ incident' = [incident EXCEPT ![i] = new] /\ UNCHANGED <<recent, clock5>>
    BY <1>2 DEF Sent
  <2>2. new \in Incident /\ new.pc = "sent" /\ new.on = incident[i].on /\ new.at = incident[i].at
    BY <1>i DEF AlertsTypeOK, Incident
  <2> HIDE DEF new
  <2>3. incident' \in [Incidents -> Incident] /\ \A j \in Incidents : incident'[j] = IF j = i THEN new ELSE incident[j]
    BY <1>i, <2>1, <2>2 DEF AlertsTypeOK
  <2>4. \A j \in Incidents : GoneOut(j)' <=> GoneOut(j)
    BY <2>1, <2>2, <2>3 DEF GoneOut
  <2>c. \A j \in Incidents : incident'[j].on = incident[j].on /\ incident'[j].at = incident[j].at
    BY <2>2, <2>3
  <2>s. \A j \in Incidents : incident'[j].pc = "swallowed" => incident[j].pc = "swallowed"
    BY <2>2, <2>3
  <2>5. AlertsTypeOK'
    BY <1>i, <2>1, <2>3 DEF AlertsTypeOK
  <2>6. Remembered'
    BY <1>i, <2>1, <2>4, <2>c DEF Remembered
  <2>7. \A a, b \in Incidents : Alike(a, b)' <=> Alike(a, b)
    BY <2>c DEF Alike
  <2>8. Spaced'
    BY <1>i, <2>4, <2>s, <2>7 DEF Spaced
  <2> QED
    BY <2>5, <2>6, <2>8 DEF AlertsInv
<1>3. CASE AlertTick
  <2>1. clock5' = clock5 + 1 /\ UNCHANGED <<incident, recent>>
    BY <1>3 DEF AlertTick
  <2>2. AlertsTypeOK'
    BY <1>i, <2>1 DEF AlertsTypeOK
  <2>3. \A j \in Incidents : GoneOut(j)' <=> GoneOut(j)
    BY <2>1 DEF GoneOut
  <2>4. Remembered'
    <3>1. ASSUME NEW w \in Desks, NEW k \in AlertKeys PROVE recent[w][k] <= clock5'
      <4>1. recent[w][k] \in Nat /\ recent[w][k] <= clock5 /\ clock5 \in Nat
        BY <1>i DEF AlertsTypeOK, Remembered
      <4> QED
        BY <2>1, <4>1
    <3> QED
      BY <1>i, <2>1, <2>3, <3>1 DEF Remembered
  <2>5. Spaced'
    BY <1>i, <2>1, <2>3 DEF Spaced, Alike
  <2> QED
    BY <2>2, <2>4, <2>5 DEF AlertsInv
<1>4. CASE UNCHANGED alertVars
  BY <1>4, <1>i DEF alertVars, AlertsInv, AlertsTypeOK, Remembered, Spaced, Alike, GoneOut
<1> QED
  BY <1>1, <1>2, <1>3, <1>4 DEF AlertsNext

Settled == {"RESOLVED", "CLOSED"}
Ticket == [status : {"OPEN", "IN_PROGRESS"} \cup Settled, resolvedAt : BOOLEAN, note : Agents \cup {""}]
Reply == [pc : {"idle", "read", "done"}, read : {"OPEN", "IN_PROGRESS"} \cup Settled]

\* Who read a ticket as settled read one whose time is known.
TicketsInv ==
    /\ ticket \in Ticket /\ reply \in [Agents -> Reply]
    /\ ticket.status \in Settled => ticket.resolvedAt
    /\ \A a \in Agents : reply[a].pc = "read" /\ reply[a].read \in Settled => ticket.resolvedAt
    /\ decided \in Settled => lateReply \/ ticket.status = decided

LEMMA TicketsInitially == TicketsInit => TicketsInv
<1> SUFFICES ASSUME TicketsInit PROVE TicketsInv
  OBVIOUS
<1>1. ticket \in Ticket /\ ticket.status = "OPEN"
  BY DEF TicketsInit, Ticket, Settled
<1>2. reply \in [Agents -> Reply] /\ \A a \in Agents : reply[a].pc = "idle"
  BY DEF TicketsInit, Reply, Settled
<1> QED
  BY <1>1, <1>2 DEF TicketsInit, TicketsInv, Settled

LEMMA TicketsStep == TicketsInv /\ [TicketsNext]_ticketVars => TicketsInv'
<1> SUFFICES ASSUME TicketsInv, [TicketsNext]_ticketVars PROVE TicketsInv'
  OBVIOUS
<1> USE DEF TicketsInv
<1>1. ASSUME NEW a \in Agents, ReadTicket(a) PROVE TicketsInv'
  <2> DEFINE new == [pc |-> "read", read |-> ticket.status]
  <2>1. reply' = [reply EXCEPT ![a] = new] /\ UNCHANGED <<ticket, decided, lateReply>>
    BY <1>1 DEF ReadTicket
  <2>2. new \in Reply /\ new.read = ticket.status
    BY DEF Ticket, Reply
  <2> HIDE DEF new
  <2>3. \A b \in Agents : reply'[b] = IF b = a THEN new ELSE reply[b]
    BY <2>1
  <2> QED
    BY <2>1, <2>2, <2>3
<1>2. ASSUME NEW a \in Agents, WriteReply(a) PROVE TicketsInv'
  <2> DEFINE new == [ticket EXCEPT !.note = a, !.status = Progress(reply[a].read)]
             after == [reply[a] EXCEPT !.pc = "done"]
  <2>1. /\ reply[a].pc = "read" /\ ticket' = new /\ reply' = [reply EXCEPT ![a] = after]
        /\ lateReply' = (lateReply \/ reply[a].read # ticket.status) /\ decided' = decided
    BY <1>2 DEF WriteReply
  <2>2. Progress(reply[a].read) \in {"IN_PROGRESS"} \cup Settled
        /\ (Progress(reply[a].read) \in Settled => reply[a].read \in Settled)
        /\ (reply[a].read \in Settled => Progress(reply[a].read) = reply[a].read)
    BY DEF Reply, Progress, Settled
  <2>3. /\ new \in Ticket /\ new.status = Progress(reply[a].read)
        /\ new.resolvedAt = ticket.resolvedAt
    BY <2>2 DEF Ticket, Settled
  <2>4. after \in Reply /\ after.pc = "done"
    BY DEF Reply
  <2> HIDE DEF new, after
  <2>5. \A b \in Agents : reply'[b] = IF b = a THEN after ELSE reply[b]
    BY <2>1
  <2>6. ticket'.status \in Settled => ticket'.resolvedAt
    BY <2>1, <2>2, <2>3
  <2>7. decided' \in Settled => lateReply' \/ ticket'.status = decided'
    <3> SUFFICES ASSUME decided \in Settled, ~lateReply' PROVE ticket'.status = decided
      BY <2>1
    <3>1. ~lateReply /\ reply[a].read = ticket.status
      BY <2>1
    <3>2. ticket.status = decided
      BY <3>1
    <3> QED
      BY <2>1, <2>2, <2>3, <3>1, <3>2
  <2>8. \A b \in Agents : reply'[b].pc = "read" /\ reply'[b].read \in Settled => ticket'.resolvedAt
    BY <2>1, <2>3, <2>4, <2>5
  <2> QED
    BY <2>1, <2>3, <2>4, <2>6, <2>7, <2>8
<1>3. ASSUME NEW status \in {"OPEN", "IN_PROGRESS", "RESOLVED", "CLOSED"}, UpdateStatus(status)
      PROVE TicketsInv'
  <2> DEFINE at == ticket.resolvedAt \/ status \in {"RESOLVED", "CLOSED"}
             new == [ticket EXCEPT !.status = status, !.resolvedAt = at]
  <2>1. ticket' = new /\ decided' = status /\ UNCHANGED reply
    BY <1>3 DEF UpdateStatus
  <2>2. at \in BOOLEAN /\ (ticket.resolvedAt => at) /\ (status \in Settled => at)
    BY DEF Ticket, Settled
  <2> HIDE DEF at
  <2>3. new \in Ticket /\ new.status = status /\ new.resolvedAt = at
    BY <2>2 DEF Ticket, Settled
  <2> HIDE DEF new
  <2> QED
    BY <2>1, <2>2, <2>3
<1>4. CASE UNCHANGED ticketVars
  BY <1>4 DEF ticketVars
<1> QED
  BY <1>1, <1>2, <1>3, <1>4 DEF TicketsNext
---------------------------------------------------------------------------
(* The lists of symbols.                                                   *)

Row == [name : {"", "Favorites", "Other"}, symbols : [Spellings -> Nat], isDefault : BOOLEAN]
Visit == [pc : {"idle", "create", "name", "symbols", "order", "drop"}, on : Nat, row : Row]

ListsTypeOK ==
    /\ list \in [1..MaxLists -> Row]
    /\ visit \in [Visits -> Visit]

\* The names of the rows are all different, and a list about to be saved is in
\* order already, unless one that was not has been saved.
NamesDiffer ==
    /\ \A k, l \in Rows : list[k].name = list[l].name => k = l
    /\ \A l \in 1..MaxLists : list[l].name = "" => list[l] = NoList
DefaultNamed ==
    /\ ~renamedDefault => \A l \in Rows : list[l].isDefault => list[l].name = "Favorites"
    /\ \A v \in Visits : visit[v].pc = "create" /\ visit[v].row.isDefault
                         => visit[v].row.name = "Favorites"
InOrder ==
    ~misspelt => /\ \A l \in 1..MaxLists : Canonical(list[l].symbols)
                 /\ \A v \in Visits : visit[v].pc = "symbols" => Canonical(visit[v].row.symbols)
Named == \A v \in Visits : visit[v].pc \in {"create", "name"} => visit[v].row.name # ""

ListsInv == ListsTypeOK /\ NamesDiffer /\ DefaultNamed /\ InOrder /\ Named

LEMMA NothingTyped == NoList \in Row /\ NoList.name = "" /\ ~NoList.isDefault /\ Canonical(NoList.symbols)
  BY DEF NoList, Row, Nothing, Canonical

LEMMA ListsInitially == ListsInit => ListsInv
<1> SUFFICES ASSUME ListsInit PROVE ListsInv
  OBVIOUS
<1>1. /\ \A l \in 1..MaxLists : list[l] = NoList
      /\ \A v \in Visits : visit[v] = NoVisit
      /\ list = [l \in 1..MaxLists |-> NoList] /\ visit = [v \in Visits |-> NoVisit]
  BY DEF ListsInit
<1>2. NoVisit \in Visit /\ NoVisit.pc = "idle"
  BY NothingTyped DEF NoVisit, Visit
<1>3. Rows = {}
  BY <1>1 DEF Rows
<1> QED
  BY <1>1, <1>2, <1>3, NothingTyped
  DEF ListsInv, ListsTypeOK, NamesDiffer, DefaultNamed, InOrder, Named

LEMMA RowsNamed ==
    ASSUME ListsTypeOK, NamesDiffer
    PROVE  Rows = {l \in 1..MaxLists : list[l].name # ""}
  BY NothingTyped DEF NamesDiffer, Rows

\* A request read its list and is going to write it.
LEMMA VisitBegins ==
    ASSUME ListsInv, NEW v \in Visits, NEW new \in Visit,
           visit' = [visit EXCEPT ![v] = new], UNCHANGED <<list, misspelt, renamedDefault>>,
           new.pc = "create" /\ new.row.isDefault => new.row.name = "Favorites",
           new.pc = "symbols" /\ ~misspelt => Canonical(new.row.symbols),
           new.pc \in {"create", "name"} => new.row.name # ""
    PROVE  ListsInv'
<1>1. \A u \in Visits : visit'[u] = IF u = v THEN new ELSE visit[u]
  BY DEF ListsInv, ListsTypeOK
<1>2. ListsTypeOK'
  BY DEF ListsInv, ListsTypeOK
<1>3. NamesDiffer'
  BY DEF ListsInv, NamesDiffer, Rows
<1>4. DefaultNamed'
  BY <1>1 DEF ListsInv, DefaultNamed, Rows
<1>5. InOrder'
  BY <1>1 DEF ListsInv, InOrder
<1>6. Named'
  BY <1>1 DEF ListsInv, Named
<1> QED
  BY <1>2, <1>3, <1>4, <1>5, <1>6 DEF ListsInv

\* A row is written, and the visit is over.
LEMMA RowSaved ==
    ASSUME ListsInv, NEW v \in Visits, NEW l \in 1..MaxLists, NEW new \in Row,
           list' = [list EXCEPT ![l] = new], visit' = [visit EXCEPT ![v] = NoVisit],
           misspelt => misspelt', renamedDefault => renamedDefault',
           new = NoList \/ (new.name # "" /\ \A k \in Rows \ {l} : list[k].name # new.name),
           ~misspelt' => Canonical(new.symbols),
           ~renamedDefault' /\ new.isDefault => new.name = "Favorites"
    PROVE  ListsInv'
<1>0. NoVisit \in Visit /\ NoVisit.pc = "idle"
  BY NothingTyped DEF NoVisit, Visit
<1>1. /\ \A u \in Visits : visit'[u] = IF u = v THEN NoVisit ELSE visit[u]
      /\ \A k \in 1..MaxLists : list'[k] = IF k = l THEN new ELSE list[k]
  BY DEF ListsInv, ListsTypeOK
<1>2. ListsTypeOK'
  BY <1>0 DEF ListsInv, ListsTypeOK
<1>3. \A k \in Rows' : k \in 1..MaxLists /\ (k # l => k \in Rows) /\ (k = l => new # NoList)
  BY <1>1 DEF Rows
<1>4. NamesDiffer'
  <2>1. ASSUME NEW j \in Rows', NEW k \in Rows', list'[j].name = list'[k].name, j # k
        PROVE  FALSE
    <3>1. \A a, b \in Rows : list[a].name = list[b].name => a = b
      BY DEF ListsInv, NamesDiffer
    <3>2. CASE j # l /\ k # l
      <4>1. j \in Rows /\ k \in Rows
        BY <1>3, <2>1, <3>2
      <4>2. list'[j] = list[j] /\ list'[k] = list[k]
        BY <1>1, <3>2, <4>1 DEF Rows
      <4> QED
        BY <2>1, <3>1, <4>1, <4>2
    <3>3. CASE j = l
      BY <1>1, <1>3, <2>1, <3>3
    <3>4. CASE k = l
      BY <1>1, <1>3, <2>1, <3>4
    <3> QED
      BY <3>2, <3>3, <3>4
  <2>2. \A k \in 1..MaxLists : list'[k].name = "" => list'[k] = NoList
    BY <1>1 DEF ListsInv, NamesDiffer
  <2> QED
    BY <2>1, <2>2 DEF NamesDiffer
<1>5. DefaultNamed'
  <2>1. ~renamedDefault' => \A k \in Rows' : list'[k].isDefault => list'[k].name = "Favorites"
    BY <1>1, <1>3 DEF ListsInv, DefaultNamed
  <2>2. \A u \in Visits : visit'[u].pc = "create" => visit'[u] = visit[u]
    BY <1>0, <1>1
  <2> QED
    BY <2>1, <2>2 DEF ListsInv, DefaultNamed
<1>6. InOrder'
  BY <1>0, <1>1 DEF ListsInv, InOrder
<1>7. Named'
  BY <1>0, <1>1 DEF ListsInv, Named
<1> QED
  BY <1>2, <1>4, <1>5, <1>6, <1>7 DEF ListsInv

LEMMA VisitEnds ==
    ASSUME ListsInv, NEW v \in Visits, Fails(v)
    PROVE  ListsInv'
<1>1. NoVisit \in Visit /\ NoVisit.pc = "idle"
  BY NothingTyped DEF NoVisit, Visit
<1>2. visit' = [visit EXCEPT ![v] = NoVisit] /\ UNCHANGED <<list, misspelt, renamedDefault>>
  BY DEF Fails, Finish
<1> QED
  BY <1>1, <1>2, VisitBegins

LEMMA PairFinite ==
    ASSUME NEW S, NEW T, NEW p \in S \X T
    PROVE  IsFiniteSet(DOMAIN p)
<1>1. DOMAIN p = {1, 2}
  OBVIOUS
<1>2. IsFiniteSet({1}) /\ IsFiniteSet({1} \cup {2})
  BY FS_Singleton, FS_AddElement
<1>3. {1, 2} = {1} \cup {2}
  OBVIOUS
<1> QED
  BY <1>1, <1>2, <1>3

LEMMA UppersTyped ==
    ASSUME NEW tickers, IsFiniteSet(DOMAIN tickers)
    PROVE  Uppers(tickers) \in [Spellings -> Nat]
<1>1. ASSUME NEW x PROVE Cardinality({i \in DOMAIN tickers : tickers[i] = x}) \in Nat
  BY FS_Subset, FS_CardinalityType
<1> QED
  BY <1>1 DEF Uppers

LEMMA ListsStep == ListsInv /\ [ListsNext]_listVars => ListsInv'
<1> SUFFICES ASSUME ListsInv, [ListsNext]_listVars PROVE ListsInv'
  OBVIOUS
<1>i. ListsTypeOK /\ NamesDiffer /\ DefaultNamed /\ InOrder /\ Named
  BY DEF ListsInv
<1>r. \A l \in Rows : l \in 1..MaxLists /\ l \in Nat /\ list[l] \in Row /\ list[l].name # ""
  <2> SUFFICES ASSUME NEW l \in Rows
               PROVE  l \in 1..MaxLists /\ l \in Nat /\ list[l] \in Row /\ list[l].name # ""
    OBVIOUS
  <2>1. l \in 1..MaxLists /\ list[l] # NoList
    BY DEF Rows
  <2>2. l \in Nat
    BY <2>1
  <2>3. list[l] \in Row
    BY <1>i, <2>1 DEF ListsTypeOK
  <2> QED
    BY <1>i, <2>1, <2>2, <2>3 DEF NamesDiffer
<1>1. ASSUME NEW v \in Visits, NEW pc \in {"create", "name", "symbols", "order", "drop"},
             NEW on \in Nat, NEW row \in Row, Intend(v, pc, on, row),
             pc = "create" /\ row.isDefault => row.name = "Favorites",
             pc = "symbols" /\ ~misspelt => Canonical(row.symbols),
             pc \in {"create", "name"} => row.name # ""
      PROVE  ListsInv'
  <2> DEFINE new == [pc |-> pc, on |-> on, row |-> row]
  <2>1. new \in Visit /\ new.pc = pc /\ new.row = row
    BY DEF Visit
  <2>2. visit' = [visit EXCEPT ![v] = new] /\ UNCHANGED <<list, misspelt, renamedDefault>>
    BY <1>1 DEF Intend
  <2> HIDE DEF new
  <2> QED
    BY <1>1, <2>1, <2>2, VisitBegins
<1>2. ASSUME NEW v \in Visits, GetAll(v) PROVE ListsInv'
  <2> DEFINE row == [name |-> "Favorites", isDefault |-> TRUE, symbols |-> Uppers(Favorites)]
  <2>1. Intend(v, "create", 1, row)
    BY <1>2 DEF GetAll
  <2>2. row \in Row /\ row.name = "Favorites"
    BY UppersTyped, NoticeAssumption DEF Row
  <2> HIDE DEF row
  <2> QED
    BY <1>1, <2>1, <2>2
<1>3. ASSUME NEW v \in Visits, NEW tickers, IsFiniteSet(DOMAIN tickers), CreateList(v, "Other", tickers)
      PROVE ListsInv'
  <2> DEFINE row == [name |-> "Other", isDefault |-> FALSE, symbols |-> Uppers(tickers)]
  <2>1. Intend(v, "create", 1, row)
    BY <1>3 DEF CreateList
  <2>2. row \in Row /\ row.name = "Other" /\ ~row.isDefault
    BY <1>3, UppersTyped DEF Row
  <2> HIDE DEF row
  <2> QED
    BY <1>1, <2>1, <2>2
<1>4. ASSUME NEW v \in Visits, NEW l \in Rows, NEW name \in {"Favorites", "Other"}, Rename(v, l, name)
      PROVE ListsInv'
  <2> DEFINE row == [list[l] EXCEPT !.name = name]
  <2>1. Intend(v, "name", l, row)
    BY <1>4 DEF Rename
  <2>2. row \in Row /\ row.name = name
    BY <1>r DEF Row
  <2> HIDE DEF row
  <2> QED
    BY <1>1, <1>r, <2>1, <2>2
<1>5. ASSUME NEW v \in Visits, NEW l \in Rows, NEW ticker \in Tickers, AddSymbol(v, l, ticker)
      PROVE ListsInv'
  <2> DEFINE old == list[l].symbols
             symbols == With(old, ticker, old[Upper(ticker)] + 1)
             row == [list[l] EXCEPT !.symbols = symbols]
  <2>1. Intend(v, "symbols", l, row) /\ ~(old[Upper(ticker)] > 0)
    BY <1>5 DEF AddSymbol, Includes
  <2>2. old \in [Spellings -> Nat] /\ Upper(ticker) \in Spellings /\ Upper(ticker)[2]
    BY <1>r DEF Row, Upper, Spellings
  <2>3. /\ symbols \in [Spellings -> Nat]
        /\ \A s \in Spellings : symbols[s] = IF s = Upper(ticker) THEN 1 ELSE old[s]
    BY <2>1, <2>2 DEF With
  <2>4. ~misspelt => Canonical(symbols)
    <3> SUFFICES ASSUME ~misspelt PROVE Canonical(symbols)
      OBVIOUS
    <3>1. Canonical(old)
      BY <1>i, <1>r DEF InOrder
    <3> QED
      BY <2>2, <2>3, <3>1 DEF Canonical
  <2>5. row \in Row /\ row.symbols = symbols
    BY <1>r, <2>3 DEF Row
  <2> HIDE DEF symbols, row
  <2> QED
    BY <1>1, <1>r, <2>1, <2>4, <2>5
<1>6. ASSUME NEW v \in Visits, NEW l \in Rows, NEW ticker \in Tickers, RemoveSymbol(v, l, ticker)
      PROVE ListsInv'
  <2> DEFINE old == list[l].symbols
             symbols == With(old, ticker, 0)
             row == [list[l] EXCEPT !.symbols = symbols]
  <2>1. Intend(v, "symbols", l, row)
    BY <1>6 DEF RemoveSymbol
  <2>2. old \in [Spellings -> Nat] /\ Upper(ticker) \in Spellings
    BY <1>r DEF Row, Upper, Spellings
  <2>3. /\ symbols \in [Spellings -> Nat]
        /\ \A s \in Spellings : symbols[s] = IF s = Upper(ticker) THEN 0 ELSE old[s]
    BY <2>2 DEF With
  <2>4. ~misspelt => Canonical(symbols)
    <3> SUFFICES ASSUME ~misspelt PROVE Canonical(symbols)
      OBVIOUS
    <3>1. Canonical(old)
      BY <1>i, <1>r DEF InOrder
    <3> QED
      BY <2>3, <3>1 DEF Canonical
  <2>5. row \in Row /\ row.symbols = symbols
    BY <1>r, <2>3 DEF Row
  <2> HIDE DEF symbols, row
  <2> QED
    BY <1>1, <1>r, <2>1, <2>4, <2>5
<1>7. ASSUME NEW v \in Visits, NEW l \in Rows, NEW order \in Spellings \X Spellings,
             ReorderSymbols(v, l, order)
      PROVE ListsInv'
  <2> DEFINE known(s) == Includes(list[l].symbols, Upper(s[1]))
             times(s) == Cardinality({i \in DOMAIN order : order[i] = s})
             symbols == [s \in Spellings |-> IF known(s) THEN times(s) ELSE 0]
             row == [list[l] EXCEPT !.symbols = symbols]
  <2>1. Intend(v, "order", l, row)
    BY <1>7 DEF ReorderSymbols
  <2>2. IsFiniteSet(DOMAIN order)
    BY PairFinite
  <2>3. ASSUME NEW s PROVE times(s) \in Nat
    BY <2>2, FS_Subset, FS_CardinalityType
  <2> HIDE DEF known, times
  <2>4. symbols \in [Spellings -> Nat]
    BY <2>3
  <2> HIDE DEF symbols
  <2>5. row \in Row
    BY <1>r, <2>4 DEF Row
  <2> HIDE DEF row
  <2> QED
    BY <1>1, <1>r, <2>1, <2>5
<1>8. ASSUME NEW v \in Visits, NEW l \in Rows, DeleteList(v, l) PROVE ListsInv'
  <2>1. Intend(v, "drop", l, NoList)
    BY <1>8 DEF DeleteList
  <2> QED
    BY <1>1, <1>r, <2>1, NothingTyped
<1>9. ASSUME NEW v \in Visits, InsertList(v) PROVE ListsInv'
  <2> DEFINE row == visit[v].row
  <2>1. CASE Fails(v)
    BY <2>1, VisitEnds
  <2>2. ASSUME NEW l \in 1..MaxLists \ Rows, ~NameTaken(row.name),
               list' = [list EXCEPT ![l] = row], misspelt' = (misspelt \/ ~Canonical(row.symbols)),
               Finish(v), renamedDefault' = renamedDefault
        PROVE  ListsInv'
    <3>1. row \in Row /\ row.name # "" /\ (row.isDefault => row.name = "Favorites")
      BY <1>9, <1>i DEF InsertList, ListsTypeOK, Visit, Named, DefaultNamed
    <3>2. visit' = [visit EXCEPT ![v] = NoVisit]
      BY <2>2 DEF Finish
    <3>3. (misspelt => misspelt') /\ (~misspelt' => Canonical(row.symbols))
      BY <2>2
    <3>4. \A k \in Rows \ {l} : list[k].name # row.name
      BY <2>2 DEF NameTaken
    <3> HIDE DEF row
    <3> QED
      BY <2>2, <3>1, <3>2, <3>3, <3>4, RowSaved
  <2> QED
    BY <1>9, <2>1, <2>2 DEF InsertList
<1>10. ASSUME NEW v \in Visits, Save(v) PROVE ListsInv'
  <2> DEFINE l == visit[v].on
             row == visit[v].row
  <2>1. CASE Fails(v)
    BY <2>1, VisitEnds
  <2>2. CASE l \in Rows /\ Finish(v) /\ ~Fails(v)
    <3>1. /\ l \in 1..MaxLists /\ list[l] \in Row /\ list[l].name # "" /\ row \in Row
          /\ visit' = [visit EXCEPT ![v] = NoVisit]
      BY <1>i, <1>r, <2>2 DEF Finish, ListsTypeOK, Visit
    <3>2. \A k \in Rows \ {l} : list[k].name # list[l].name
      BY <1>i, <2>2 DEF NamesDiffer
    <3>3. ~renamedDefault /\ list[l].isDefault => list[l].name = "Favorites"
      BY <1>i, <2>2 DEF DefaultNamed
    <3>4. ~misspelt => Canonical(list[l].symbols)
      BY <1>i, <3>1 DEF InOrder
    <3>5. CASE visit[v].pc \in {"symbols", "order"}
      <4> DEFINE new == [list[l] EXCEPT !.symbols = row.symbols]
      <4>1. /\ list' = [list EXCEPT ![l] = new] /\ renamedDefault' = renamedDefault
            /\ misspelt' = (misspelt \/ (visit[v].pc = "order" /\ ~Canonical(row.symbols)))
        BY <1>10, <2>2, <3>5 DEF Save
      <4>2. /\ new \in Row /\ new.name = list[l].name /\ new.isDefault = list[l].isDefault
            /\ new.symbols = row.symbols
        BY <3>1 DEF Row
      <4>3. (misspelt => misspelt') /\ (~misspelt' => Canonical(row.symbols))
        BY <1>i, <3>5, <4>1 DEF InOrder
      <4> HIDE DEF new, l, row
      <4> QED
        BY <3>1, <3>2, <3>3, <4>1, <4>2, <4>3, RowSaved
    <3>6. CASE visit[v].pc = "name"
      <4> DEFINE new == [list[l] EXCEPT !.name = row.name]
      <4>1. /\ list' = [list EXCEPT ![l] = new] /\ misspelt' = misspelt
            /\ \A k \in Rows \ {l} : list[k].name # row.name
            /\ renamedDefault' = (renamedDefault \/ list[l].isDefault)
        BY <1>10, <2>2, <3>6 DEF Save
      <4>2. /\ new \in Row /\ new.name = row.name /\ new.isDefault = list[l].isDefault
            /\ new.symbols = list[l].symbols /\ row.name # ""
        BY <1>i, <3>1, <3>6 DEF Row, Named
      <4>3. (renamedDefault => renamedDefault') /\ (~renamedDefault' => ~new.isDefault)
        BY <4>1, <4>2
      <4> HIDE DEF new, l, row
      <4> QED
        BY <3>1, <3>4, <4>1, <4>2, <4>3, RowSaved
    <3>7. CASE visit[v].pc = "drop"
      <4>1. list' = [list EXCEPT ![l] = NoList] /\ UNCHANGED <<misspelt, renamedDefault>>
        BY <1>10, <2>2, <3>7 DEF Save
      <4> HIDE DEF l, row
      <4> QED
        BY <3>1, <4>1, NothingTyped, RowSaved
    <3> QED
      BY <1>10, <3>5, <3>6, <3>7 DEF Save
  <2> QED
    BY <1>10, <2>1, <2>2 DEF Save
<1>11. CASE UNCHANGED listVars
  BY <1>11, <1>i DEF listVars, ListsInv, ListsTypeOK, NamesDiffer, DefaultNamed, InOrder, Named, Rows
<1>12. \A tickers \in Tickers \X Tickers : IsFiniteSet(DOMAIN tickers)
  BY PairFinite
<1>13. IsFiniteSet(DOMAIN << >>)
  BY FS_EmptySet
<1> QED
  BY <1>2, <1>3, <1>4, <1>5, <1>6, <1>7, <1>8, <1>9, <1>10, <1>11, <1>12, <1>13 DEF ListsNext

LEMMA ListsShown == ListsInv => ListsInOrder
<1> SUFFICES ASSUME ListsInv PROVE ListsInOrder
  OBVIOUS
<1> DEFINE defaults == {l \in Rows : list[l].isDefault}
<1>1. ~misspelt => \A l \in Rows : Canonical(list[l].symbols)
  BY DEF ListsInv, InOrder, Rows
<1>2. ASSUME ~renamedDefault PROVE Cardinality(defaults) <= 1
  <2>1. \A k, l \in defaults : k = l
    BY <1>2 DEF ListsInv, NamesDiffer, DefaultNamed
  <2> HIDE DEF defaults
  <2>2. CASE defaults = {}
    BY <2>2, FS_EmptySet
  <2>3. ASSUME NEW l \in defaults PROVE Cardinality(defaults) <= 1
    <3>1. defaults = {l}
      BY <2>1
    <3> QED
      BY <3>1, FS_Singleton
  <2> QED
    BY <2>2, <2>3
<1> QED
  BY <1>1, <1>2 DEF ListsInOrder

\* However the steps of the services meet, of two requests and of two workers: a
\* notice is stored once, the alerts of a worker are spaced, what is resolved stays
\* so, and the lists of symbols are in order (notification.router.ts,
\* alert.manager.ts, support.service.ts, watchlist.service.ts).
THEOREM NoticesInOrder == Spec => []NoticesSound
<1> DEFINE Inv == NoticesInv /\ AlertsInv /\ TicketsInv /\ ListsInv
<1>1. Inv => NoticesSound
  <2> SUFFICES ASSUME Inv PROVE NoticesSound
    OBVIOUS
  <2>1. NoticesStored
    BY DEF NoticesInv, NoticesStored
  <2>2. AlertsSpaced
    BY DEF AlertsInv, Spaced, Alike, GoneOut, AlertsSpaced
  <2>3. TicketsStayResolved
    BY DEF TicketsInv, Settled, TicketsStayResolved
  <2> QED
    BY <2>1, <2>2, <2>3, ListsShown DEF NoticesSound
<1>2. Init => Inv
  BY PartInit, NoticesInitially, AlertsInitially, TicketsInitially, ListsInitially
<1>3. Inv /\ [Next]_vars => Inv'
  BY PartStep, NoticesStep, AlertsStep, TicketsStep, ListsStep
<1> QED
  BY <1>1, <1>2, <1>3, PTL DEF Spec
---------------------------------------------------------------------------
(* The second factor and the sessions.                                     *)

Factor == [enrolment : Nat, lastUsed : Int, backup : BOOLEAN]
AuthTypeOK ==
    /\ factor \in Factor /\ enrolments \in Nat /\ factor.enrolment <= enrolments
    /\ factor # NoFactor => factor.enrolment > 0
    /\ \A a \in admitted : /\ a.time = 0 /\ a.use.enrolment \in 1..enrolments
                           /\ a.use.code \in Int

\* What the codes of the present enrolment have opened, its row remembers.
Remembers ==
    \A a \in admitted :
        a.use.enrolment = factor.enrolment =>
            IF a.use.code = BackupCode THEN ~factor.backup ELSE a.use.code <= factor.lastUsed

AuthInv == AuthTypeOK /\ Remembers /\ RevocationSticks

LEMMA AuthInitially == AuthInit => AuthInv
  BY DEF AuthInit, AuthInv, AuthTypeOK, Remembers, RevocationSticks, NoFactor, Factor

LEMMA SessionCreated ==
    ASSUME RevocationSticks, CreateSession, UNCHANGED revocations
    PROVE  RevocationSticks'
  BY DEF RevocationSticks, CreateSession, NewSession

LEMMA OnlySessions ==
    ASSUME AuthInv, UNCHANGED <<factor, enrolments, admitted>>, RevocationSticks'
    PROVE  AuthInv'
  BY DEF AuthInv, AuthTypeOK, Remembers

\* A code that its row does not remember has opened nothing yet.
LEMMA CodeAdmitted ==
    ASSUME AuthInv, NEW r, NEW code \in Int, Admits(r, code), UNCHANGED <<enrolments, revocations>>,
           factor # NoFactor, NEW row \in Factor, factor' = row, row.enrolment = factor.enrolment,
           code = BackupCode => factor.backup /\ ~row.backup /\ row.lastUsed = factor.lastUsed,
           code # BackupCode => factor.lastUsed < code /\ row.lastUsed = code
                                /\ row.backup = factor.backup
    PROVE  AuthInv'
<1> DEFINE use == [enrolment |-> factor.enrolment, code |-> code]
           same == {a \in admitted : a.use = use}
           new == [use |-> use, time |-> Cardinality(same)]
<1>i. AuthTypeOK /\ Remembers /\ RevocationSticks
  BY DEF AuthInv
<1>1. admitted' = admitted \cup {new}
  BY DEF Admits
<1>2. use.enrolment = factor.enrolment /\ use.code = code /\ new.use = use
  OBVIOUS
<1>3. same = {}
  <2> SUFFICES ASSUME NEW a \in admitted, a.use = use PROVE FALSE
    OBVIOUS
  <2>1. a.use.enrolment = factor.enrolment /\ a.use.code = code
    BY <1>2
  <2> HIDE DEF use, same, new
  <2>2. factor.lastUsed \in Int
    BY <1>i DEF AuthTypeOK, Factor
  <2> QED
    BY <1>i, <2>1, <2>2 DEF Remembers
<1>4. new.time = 0
  BY <1>3, FS_EmptySet
<1> HIDE DEF use, same, new
<1>5. factor.enrolment \in 1..enrolments /\ factor.lastUsed \in Int
  BY <1>i DEF AuthTypeOK, Factor
<1>6. row # NoFactor => row.enrolment > 0
  BY <1>5
<1>7. AuthTypeOK'
  BY <1>i, <1>1, <1>2, <1>4, <1>5, <1>6 DEF AuthTypeOK
<1>8. Remembers'
  <2> SUFFICES ASSUME NEW a \in admitted', a.use.enrolment = row.enrolment
               PROVE  IF a.use.code = BackupCode THEN ~row.backup ELSE a.use.code <= row.lastUsed
    BY DEF Remembers
  <2>1. CASE a = new
    BY <1>2, <2>1
  <2>2. CASE a \in admitted
    <3>1. IF a.use.code = BackupCode THEN ~factor.backup ELSE a.use.code <= factor.lastUsed
      BY <1>i, <2>2 DEF Remembers
    <3>2. a.use.code \in Int
      BY <1>i, <2>2 DEF AuthTypeOK
    <3>3. CASE code = BackupCode
      BY <1>5, <3>1, <3>2, <3>3
    <3>4. CASE code # BackupCode
      BY <1>5, <3>1, <3>2, <3>4
    <3> QED
      BY <3>3, <3>4
  <2> QED
    BY <1>1, <2>1, <2>2
<1>9. RevocationSticks'
  <2>1. CASE CreateSession
    BY <1>i, <2>1, SessionCreated
  <2>2. CASE UNCHANGED sessions
    BY <1>i, <2>2 DEF RevocationSticks
  <2> QED
    BY <2>1, <2>2 DEF Admits
<1> QED
  BY <1>7, <1>8, <1>9 DEF AuthInv

LEMMA AuthStep == AuthInv /\ [AuthNext]_authVars => AuthInv'
<1> SUFFICES ASSUME AuthInv, [AuthNext]_authVars PROVE AuthInv'
  OBVIOUS
<1>i. AuthTypeOK /\ Remembers /\ RevocationSticks
  BY DEF AuthInv
<1>k. ASSUME UNCHANGED <<factor, enrolments, admitted, sessions, revocations>> PROVE AuthInv'
  BY <1>i, <1>k, OnlySessions DEF RevocationSticks
<1>1. CASE CounterPasses
  BY <1>1, <1>k DEF CounterPasses
<1>2. CASE Enable
  <2> DEFINE row == [enrolment |-> enrolments + 1, lastUsed |-> -1, backup |-> TRUE]
  <2>1. factor' = row /\ enrolments' = enrolments + 1 /\ UNCHANGED <<admitted, sessions, revocations>>
    BY <1>2 DEF Enable
  <2>2. enrolments \in Nat
    BY <1>i DEF AuthTypeOK
  <2>3. row \in Factor /\ row.enrolment = enrolments + 1
    BY <2>2 DEF Factor
  <2> HIDE DEF row
  <2>4. \A a \in admitted : a.use.enrolment \in 1..(enrolments + 1) /\ a.use.enrolment # enrolments + 1
    BY <1>i, <2>2 DEF AuthTypeOK
  <2>5. AuthTypeOK'
    BY <1>i, <2>1, <2>2, <2>3, <2>4 DEF AuthTypeOK
  <2>6. Remembers'
    BY <2>1, <2>3, <2>4 DEF Remembers
  <2> QED
    BY <1>i, <2>1, <2>5, <2>6 DEF AuthInv, RevocationSticks
<1>3. CASE Disable
  <2>1. factor' = NoFactor /\ UNCHANGED <<enrolments, admitted, sessions, revocations>>
    BY <1>3 DEF Disable
  <2>2. NoFactor \in Factor /\ NoFactor.enrolment = 0
    BY DEF NoFactor, Factor
  <2>3. \A a \in admitted : a.use.enrolment # 0
    BY <1>i DEF AuthTypeOK
  <2>4. AuthTypeOK'
    BY <1>i, <2>1, <2>2 DEF AuthTypeOK
  <2>5. Remembers'
    BY <2>1, <2>2, <2>3 DEF Remembers
  <2> QED
    BY <1>i, <2>1, <2>4, <2>5 DEF AuthInv, RevocationSticks
<1>4. CASE Login
  <2>1. UNCHANGED <<factor, enrolments, admitted, revocations>> /\ (CreateSession \/ UNCHANGED sessions)
    BY <1>4 DEF Login
  <2>2. CASE CreateSession
    BY <1>i, <2>1, <2>2, SessionCreated, OnlySessions
  <2>3. CASE UNCHANGED sessions
    BY <1>k, <2>1, <2>3
  <2> QED
    BY <2>1, <2>2, <2>3
<1>5. CASE RevokeAll
  <2>1. UNCHANGED <<factor, enrolments, admitted>> /\ sessions' = {}
    BY <1>5 DEF RevokeAll
  <2> QED
    BY <2>1, OnlySessions DEF RevocationSticks
<1>6. CASE SpendStepUp
  BY <1>6, <1>k DEF SpendStepUp
<1>7. ASSUME NEW c \in challenges, ChallengeExpires(c) PROVE AuthInv'
  BY <1>7, <1>k DEF ChallengeExpires
<1>8. ASSUME NEW s \in sessions, Revoke(s) PROVE AuthInv'
  <2>1. UNCHANGED <<factor, enrolments, admitted, revocations>> /\ sessions' \subseteq sessions
    BY <1>8 DEF Revoke
  <2> QED
    BY <1>i, <2>1, OnlySessions DEF RevocationSticks
<1>9. ASSUME NEW r \in Requests, NEW c \in challenges, GetChallenge(r, c) PROVE AuthInv'
  BY <1>9, <1>k DEF GetChallenge
<1>10. ASSUME NEW r \in Requests, NEW s \in sessions, Validate(r, s) PROVE AuthInv'
  BY <1>10, <1>k DEF Validate
<1>11. ASSUME NEW r \in Requests, NEW k \in 0 .. MaxClock, Claim(r, k) PROVE AuthInv'
  <2>1. UNCHANGED <<enrolments, revocations>> /\ k \in Nat
    BY <1>11 DEF Claim
  <2>2. CASE Claimable(r, k)
    <3> DEFINE row == [factor EXCEPT !.lastUsed = k]
    <3>1. factor' = row /\ Admits(r, k)
      BY <1>11, <2>2 DEF Claim
    <3>2. /\ row \in Factor /\ row.enrolment = factor.enrolment /\ row.lastUsed = k
          /\ row.backup = factor.backup
      BY <1>i, <2>1 DEF AuthTypeOK, Factor
    <3>3. factor # NoFactor /\ factor.lastUsed < k /\ k # BackupCode
      BY <2>1, <2>2 DEF Claimable, BackupCode
    <3> HIDE DEF row
    <3> QED
      BY <2>1, <3>1, <3>2, <3>3, CodeAdmitted
  <2>3. CASE ~Claimable(r, k)
    BY <1>11, <1>k, <2>1, <2>3 DEF Claim
  <2> QED
    BY <2>2, <2>3
<1>12. ASSUME NEW r \in Requests, DeleteChallenge(r) PROVE AuthInv'
  BY <1>12, <1>k DEF DeleteChallenge
<1>13. ASSUME NEW r \in Requests, AskStepUp(r) PROVE AuthInv'
  BY <1>13, <1>k DEF AskStepUp
<1>14. ASSUME NEW r \in Requests, ReadFactor(r) PROVE AuthInv'
  BY <1>14, <1>k DEF ReadFactor
<1>15. ASSUME NEW r \in Requests, Consume(r) PROVE AuthInv'
  <2> DEFINE found == factor.backup /\ factor.enrolment = request[r].read.enrolment
  <2>1. UNCHANGED <<enrolments, revocations>>
    BY <1>15 DEF Consume
  <2>2. CASE found
    <3> DEFINE row == [factor EXCEPT !.backup = FALSE]
    <3>1. factor' = row /\ Admits(r, BackupCode)
      BY <1>15, <2>2 DEF Consume
    <3>2. /\ row \in Factor /\ row.enrolment = factor.enrolment
          /\ row.lastUsed = factor.lastUsed /\ ~row.backup
      BY <1>i DEF AuthTypeOK, Factor
    <3>3. factor.backup /\ factor # NoFactor /\ BackupCode \in Int
      BY <2>2 DEF NoFactor, BackupCode
    <3> HIDE DEF row
    <3> QED
      BY <2>1, <3>1, <3>2, <3>3, CodeAdmitted
  <2>3. CASE ~found
    BY <1>15, <1>k, <2>1, <2>3 DEF Consume
  <2> QED
    BY <2>2, <2>3
<1>16. ASSUME NEW r \in Requests, RotateSession(r) PROVE AuthInv'
  <2>1. UNCHANGED <<factor, enrolments, admitted, revocations>>
    BY <1>16 DEF RotateSession
  <2>2. CASE Deleted(r)
    <3> DEFINE new == [token |-> created + 1, born |-> request[r].born]
    <3>1. sessions' = (sessions \ {Validated(r)}) \cup {new}
      BY <1>16, <2>2 DEF RotateSession
    <3>2. new.born = request[r].born /\ Validated(r).born = request[r].born
      BY DEF Validated
    <3>3. new.born = revocations
      BY <1>i, <2>2, <3>2 DEF Deleted, RevocationSticks
    <3> HIDE DEF new
    <3>4. RevocationSticks'
      BY <1>i, <2>1, <3>1, <3>3 DEF RevocationSticks
    <3> QED
      BY <2>1, <3>4, OnlySessions
  <2>3. CASE ~Deleted(r)
    BY <1>16, <1>k, <2>1, <2>3 DEF RotateSession
  <2> QED
    BY <2>2, <2>3
<1>17. CASE UNCHANGED authVars
  BY <1>17, <1>k DEF authVars
<1> QED
  BY <1>1, <1>2, <1>3, <1>4, <1>5, <1>6, <1>7, <1>8, <1>9, <1>10, <1>11, <1>12, <1>13, <1>14,
     <1>15, <1>16, <1>17
  DEF AuthNext
---------------------------------------------------------------------------
(* The signing keys.                                                       *)

Pair == [primary : Int, secondary : Int]
KeyTypeOK ==
    /\ keys \in [Signers -> Pair] /\ sending \in [Signers -> Seq(Int)] /\ published \in Seq(Int)
    /\ delivered \in [Signers -> Nat] /\ follows \in [Signers -> BOOLEAN] /\ rotations \in Nat

\* A worker that follows the channel signs with the last key it saw pass.
Following ==
    \A w \in Signers :
        /\ delivered[w] <= Len(published)
        /\ follows[w] => delivered[w] > 0 /\ keys[w].primary = published[delivered[w]]

KeyInv == KeyTypeOK /\ Following

LEMMA KeyInitially == KeyInit => KeyInv
  BY DEF KeyInit, KeyInv, KeyTypeOK, Following, EnvKeys, EnvKey, NoKey, Pair

\* One worker's pair, its place in the channel and whether it follows change.
LEMMA OneSigner ==
    ASSUME KeyInv, NEW w \in Signers, NEW pair \in Pair, NEW at \in Nat, NEW on \in BOOLEAN,
           keys' = [keys EXCEPT ![w] = pair], delivered' = [delivered EXCEPT ![w] = at],
           follows' = [follows EXCEPT ![w] = on], published' = published,
           sending' \in [Signers -> Seq(Int)], rotations' \in Nat,
           at <= Len(published), on => at > 0 /\ pair.primary = published[at]
    PROVE  KeyInv'
<1>1. \A v \in Signers : /\ keys'[v] = IF v = w THEN pair ELSE keys[v]
                         /\ delivered'[v] = IF v = w THEN at ELSE delivered[v]
  BY DEF KeyInv, KeyTypeOK
<1>f. /\ follows'[w] <=> on
      /\ \A v \in Signers : v # w => (follows'[v] <=> follows[v])
  BY Zenon DEF KeyInv, KeyTypeOK
<1>2. KeyTypeOK'
  BY DEF KeyInv, KeyTypeOK
<1>3. Following'
  <2> SUFFICES ASSUME NEW v \in Signers
               PROVE  /\ delivered'[v] <= Len(published)
                      /\ follows'[v] => delivered'[v] > 0 /\ keys'[v].primary = published[delivered'[v]]
    BY DEF Following
  <2>1. CASE v = w
    BY <1>1, <1>f, <2>1
  <2>2. CASE v # w
    BY <1>1, <1>f, <2>2 DEF KeyInv, Following
  <2> QED
    BY <2>1, <2>2
<1> QED
  BY <1>2, <1>3 DEF KeyInv

LEMMA Applied ==
    ASSUME KeyTypeOK, NEW w \in Signers, NEW key \in Int, Apply(w, key)
    PROVE  \E pair \in Pair : keys' = [keys EXCEPT ![w] = pair] /\ pair.primary = key
<1> DEFINE pair == [primary |-> key, secondary |-> keys[w].primary]
<1>1. pair \in Pair /\ pair.primary = key
  BY DEF KeyTypeOK, Pair
<1>2. keys' = [keys EXCEPT ![w] = pair]
  BY DEF Apply
<1> QED
  BY <1>1, <1>2

LEMMA KeyStep == KeyInv /\ [KeyNext]_keyVars => KeyInv'
<1> SUFFICES ASSUME KeyInv, [KeyNext]_keyVars PROVE KeyInv'
  OBVIOUS
<1>i. KeyTypeOK /\ Following
  BY DEF KeyInv
<1>t. ASSUME NEW w \in Signers
      PROVE  /\ keys[w] \in Pair /\ keys = [keys EXCEPT ![w] = keys[w]]
             /\ delivered[w] \in Nat /\ delivered = [delivered EXCEPT ![w] = delivered[w]]
             /\ Len(published) \in Nat /\ rotations \in Nat
  BY <1>i DEF KeyTypeOK
<1>1. ASSUME NEW w \in Signers, Rotate(w) PROVE KeyInv'
  <2>1. /\ Apply(w, rotations + 1) /\ rotations' = rotations + 1
        /\ sending' = [sending EXCEPT ![w] = Append(@, rotations + 1)]
        /\ follows' = [follows EXCEPT ![w] = FALSE] /\ UNCHANGED <<published, delivered>>
    BY <1>1 DEF Rotate
  <2>2. PICK pair \in Pair : keys' = [keys EXCEPT ![w] = pair] /\ pair.primary = rotations + 1
    BY <1>i, <1>t, <2>1, Applied
  <2>3. sending' \in [Signers -> Seq(Int)] /\ rotations' \in Nat
        /\ delivered' = [delivered EXCEPT ![w] = delivered[w]]
    BY <1>i, <1>t, <2>1 DEF KeyTypeOK
  <2>4. delivered[w] <= Len(published)
    BY <1>i DEF Following
  <2> QED
    BY <1>t, <2>1, <2>2, <2>3, <2>4, OneSigner
<1>2. ASSUME NEW w \in Signers, Publish(w) PROVE KeyInv'
  <2>1. /\ sending[w] # << >> /\ sending' = [sending EXCEPT ![w] = Tail(@)]
        /\ published' = Append(published, Head(sending[w])) \/ published' = published
        /\ UNCHANGED <<keys, delivered, follows, rotations>>
    BY <1>2 DEF Publish
  <2>2. sending[w] \in Seq(Int) /\ published \in Seq(Int)
    BY <1>i DEF KeyTypeOK
  <2>3. /\ published' \in Seq(Int) /\ Len(published) <= Len(published')
        /\ \A i \in 1..Len(published) : published'[i] = published[i]
    <3>1. CASE published' = published
      BY <2>2, <3>1
    <3>2. CASE published' = Append(published, Head(sending[w]))
      <4>1. Head(sending[w]) \in Int
        BY <2>1, <2>2
      <4> QED
        BY <2>2, <3>2, <4>1
    <3> QED
      BY <2>1, <3>1, <3>2
  <2>4. sending' \in [Signers -> Seq(Int)]
    BY <1>i, <2>1, <2>2 DEF KeyTypeOK
  <2>5. KeyTypeOK'
    BY <1>i, <2>1, <2>3, <2>4 DEF KeyTypeOK
  <2>6. ASSUME NEW v \in Signers
        PROVE  /\ delivered'[v] <= Len(published')
               /\ follows'[v] => delivered'[v] > 0 /\ keys'[v].primary = published'[delivered'[v]]
    <3>1. delivered[v] \in Nat /\ Len(published) \in Nat /\ Len(published') \in Nat
      BY <1>t, <2>3
    <3>2. /\ delivered[v] <= Len(published)
          /\ follows[v] => delivered[v] > 0 /\ keys[v].primary = published[delivered[v]]
      BY <1>i DEF Following
    <3> QED
      BY <2>1, <2>3, <3>1, <3>2
  <2>7. Following'
    BY <2>6 DEF Following
  <2> QED
    BY <2>5, <2>7 DEF KeyInv
<1>3. ASSUME NEW w \in Signers, Deliver(w) PROVE KeyInv'
  <2> DEFINE at == delivered[w] + 1
             key == published[at]
  <2>1. /\ delivered[w] < Len(published) /\ delivered' = [delivered EXCEPT ![w] = at]
        /\ follows' = [follows EXCEPT ![w] = TRUE] /\ UNCHANGED <<sending, published, rotations>>
    BY <1>3 DEF Deliver
  <2>2. at \in 1..Len(published) /\ at \in Nat /\ at > 0 /\ at <= Len(published) /\ key \in Int
    BY <1>i, <1>t, <2>1 DEF KeyTypeOK
  <2>3. \E pair \in Pair : keys' = [keys EXCEPT ![w] = pair] /\ pair.primary = key
    <3>1. CASE AlreadyApplied(w, key)
      BY <1>3, <1>t, <3>1 DEF Deliver, AlreadyApplied
    <3>2. CASE ~AlreadyApplied(w, key)
      <4>1. Apply(w, key)
        BY <1>3, <3>2 DEF Deliver
      <4> QED
        BY <1>i, <2>2, <4>1, Applied
    <3> QED
      BY <3>1, <3>2
  <2>4. PICK pair \in Pair : keys' = [keys EXCEPT ![w] = pair] /\ pair.primary = key
    BY <2>3
  <2>5. sending' \in [Signers -> Seq(Int)] /\ rotations' \in Nat
    BY <1>i, <2>1 DEF KeyTypeOK
  <2> QED
    BY <2>1, <2>2, <2>4, <2>5, OneSigner
<1>4. ASSUME NEW w \in Signers, Miss(w) PROVE KeyInv'
  <2> DEFINE at == delivered[w] + 1
  <2>1. /\ delivered[w] < Len(published) /\ delivered' = [delivered EXCEPT ![w] = at]
        /\ follows' = [follows EXCEPT ![w] = FALSE] /\ UNCHANGED <<keys, sending, published, rotations>>
    BY <1>4 DEF Miss
  <2>2. at \in Nat /\ at <= Len(published)
    BY <1>t, <2>1
  <2>3. sending' \in [Signers -> Seq(Int)] /\ rotations' \in Nat /\ keys' = [keys EXCEPT ![w] = keys[w]]
    BY <1>i, <1>t, <2>1 DEF KeyTypeOK
  <2> QED
    BY <1>t, <2>1, <2>2, <2>3, OneSigner
<1>5. ASSUME NEW w \in Signers, RestartSigner(w) PROVE KeyInv'
  <2>1. /\ keys' = [keys EXCEPT ![w] = EnvKeys] /\ sending' = [sending EXCEPT ![w] = << >>]
        /\ delivered' = [delivered EXCEPT ![w] = Len(published)]
        /\ follows' = [follows EXCEPT ![w] = FALSE] /\ UNCHANGED <<published, rotations>>
    BY <1>5 DEF RestartSigner
  <2>2. EnvKeys \in Pair
    BY DEF EnvKeys, EnvKey, NoKey, Pair
  <2>3. sending' \in [Signers -> Seq(Int)] /\ rotations' \in Nat
    BY <1>i, <2>1 DEF KeyTypeOK
  <2>4. Len(published) \in Nat /\ Len(published) <= Len(published)
    BY <1>t
  <2> QED
    BY <2>1, <2>2, <2>3, <2>4, OneSigner
<1>6. ASSUME NEW w \in Signers, NEW key \in expiring[w], GraceEnds(w, key) PROVE KeyInv'
  <2> DEFINE pair == IF keys[w].secondary = key THEN [keys[w] EXCEPT !.secondary = NoKey] ELSE keys[w]
  <2>1. /\ keys' = [keys EXCEPT ![w] = pair]
        /\ UNCHANGED <<sending, published, delivered, follows, rotations>>
    BY <1>6, <1>t DEF GraceEnds
  <2>2. pair \in Pair /\ pair.primary = keys[w].primary
    BY <1>t DEF Pair, NoKey
  <2> HIDE DEF pair
  <2>3. follows[w] \in BOOLEAN /\ follows' = [follows EXCEPT ![w] = follows[w]]
        /\ delivered' = [delivered EXCEPT ![w] = delivered[w]]
    BY <1>i, <1>t, <2>1 DEF KeyTypeOK
  <2>4. sending' \in [Signers -> Seq(Int)] /\ rotations' \in Nat
    BY <1>i, <2>1 DEF KeyTypeOK
  <2>5. delivered[w] <= Len(published)
        /\ (follows[w] => delivered[w] > 0 /\ pair.primary = published[delivered[w]])
    BY <1>i, <2>2 DEF Following
  <2> QED
    BY <1>t, <2>1, <2>2, <2>3, <2>4, <2>5, OneSigner
<1>7. CASE UNCHANGED keyVars
  BY <1>7, <1>i DEF keyVars, KeyInv, KeyTypeOK, Following
<1> QED
  BY <1>1, <1>2, <1>3, <1>4, <1>5, <1>6, <1>7 DEF KeyNext

\* However the requests of a user and the rotations of the workers cross: no code
\* opens anything twice, no session survives a revocation of all of them, and
\* workers that saw the same keys pass sign with the same one (auth-service,
\* security/jwt-key-manager.ts).
THEOREM IdentityIsSound == Spec => []IdentitySound
<1>1. AuthInv /\ KeyInv => IdentitySound
  <2> SUFFICES ASSUME AuthInv, KeyInv PROVE IdentitySound
    OBVIOUS
  <2>1. SessionsSound
    BY DEF AuthInv, AuthTypeOK, SessionsSound, CodesAdmitOnce
  <2>2. RotationsConverge
    BY DEF KeyInv, Following, RotationsConverge
  <2> QED
    BY <2>1, <2>2 DEF IdentitySound
<1>2. Init => AuthInv /\ KeyInv
  BY PartInit, AuthInitially, KeyInitially
<1>3. AuthInv /\ KeyInv /\ [Next]_vars => AuthInv' /\ KeyInv'
  BY PartStep, AuthStep, KeyStep
<1> QED
  BY <1>1, <1>2, <1>3, PTL DEF Spec
---------------------------------------------------------------------------
(* The stored documents.                                                   *)

Pcs == {"idle", "create", "exists", "trigger", "mark", "copy", "unlink", "activate", "stamp",
        "purge", "infected", "error", "remove", "deleted"}
FileKeys == {quarantineKey, activeKey}
Handling == [pc : Pcs, key : FileKeys, op : {"none", "upload", "scan", "delete"}]
Document == [status : {"none", "QUARANTINE", "ACTIVE", "INFECTED", "DELETED"},
            scan : {"none", "PENDING", "SCANNING", "ERROR", "CLEAN", "INFECTED"}, key : FileKeys]

DocTypeOK ==
    /\ docRow \in Document /\ files \subseteq FileKeys /\ scans \in Nat
    /\ handler \in [Handlers -> Handling]

Harmless == ~scanner \/ ~infected

\* The scanner is asked only where there is one; the row says where the file was
\* moved, and a document that can be served is harmless.
RowOK ==
    /\ scans > 0 => scanner
    /\ docRow.status = "none" => docRow.key = quarantineKey /\ puts = 0 /\ scans = 0
    /\ docRow.status \in {"QUARANTINE", "INFECTED"} => docRow.key = quarantineKey
    /\ docRow.status = "INFECTED" => ~Harmless
    /\ docRow.status = "ACTIVE" => docRow.key = activeKey
    /\ docRow.key = activeKey => Harmless

\* What a call that has come this far has found.
CallOK(x) ==
    /\ x.pc = "idle" => x.op = "none"
    /\ x.pc \in {"create", "exists", "trigger", "mark"} => x.op = "upload" /\ x.key = quarantineKey
    /\ x.pc \in {"copy", "unlink", "activate"} => x.op \in {"upload", "scan"} /\ Harmless
    /\ x.pc \in {"stamp", "error"} => x.op = "scan"
    /\ x.pc \in {"purge", "infected"} => x.op = "scan" /\ ~Harmless /\ x.key = quarantineKey
    /\ x.pc \in {"remove", "deleted"} => x.op = "delete"
    /\ docRow.status = "none" /\ x.pc # "idle" => x.pc = "create" /\ files # {}
CallsOK ==
    /\ \A h \in Handlers : CallOK(handler[h])
    /\ \A h \in Handlers : handler[h].pc = "create" => docRow.status = "none"
    /\ \A h, o \in Handlers : handler[h].pc = "create" /\ handler[o].pc = "create" => h = o

\* Unless a verdict came twice, a deletion met another call, or a call failed:
\* a deletion is alone, files are moved once, and the file follows the row.
Undisturbed == ~repeated /\ ~crossed /\ ~failed
CallSteady(x) ==
    /\ x.pc \in {"copy", "unlink", "activate"} => x.key = quarantineKey
    /\ x.pc \in {"remove", "deleted"} => x.key = docRow.key
    /\ x.pc \in {"unlink", "activate"} => activeKey \in files
    /\ x.pc \in {"infected", "deleted"} => docRow.key \notin files
    /\ docRow.status = "DELETED" => x.pc \notin {"exists", "trigger", "unlink", "activate"}
    /\ docRow.status = "DELETED" /\ x.pc = "copy" => x.key = docRow.key
RowSteady ==
    /\ docRow.status = "ACTIVE" => activeKey \in files \/ \E h \in Handlers : handler[h].pc = "deleted"
    /\ docRow.status \in {"DELETED", "INFECTED"} => docRow.key \notin files
Steady ==
    Undisturbed =>
        /\ \A h, o \in Handlers : handler[h].op = "delete" /\ h # o => handler[o].pc = "idle"
        /\ \A h \in Handlers : CallSteady(handler[h])
        /\ RowSteady

DocInv == DocTypeOK /\ RowOK /\ CallsOK /\ Steady

LEMMA IdleTyped == NoUpload \in Handling /\ NoUpload.pc = "idle" /\ NoUpload.op = "none"
  BY DEF NoUpload, Handling, Pcs, FileKeys

LEMMA DocInitially == DocInit => DocInv
<1> SUFFICES ASSUME DocInit PROVE DocInv
  OBVIOUS
<1>1. handler = [h \in Handlers |-> NoUpload] /\ \A h \in Handlers : handler[h] = NoUpload
  BY DEF DocInit
<1>2. docRow \in Document /\ docRow.status = "none" /\ docRow.key = quarantineKey
      /\ files = {} /\ puts = 0 /\ scans = 0 /\ quarantineKey # activeKey
  BY DEF DocInit, Document, FileKeys, quarantineKey, activeKey
<1>3. DocTypeOK
  BY <1>1, <1>2, IdleTyped DEF DocTypeOK
<1>4. RowOK
  BY <1>2 DEF RowOK
<1>5. CallsOK
  BY <1>1, IdleTyped DEF CallsOK, CallOK
<1>6. Steady
  BY <1>1, <1>2, IdleTyped DEF Steady, CallSteady, RowSteady
<1> QED
  BY <1>3, <1>4, <1>5, <1>6 DEF DocInv

LEMMA HandlerMoves ==
    ASSUME DocTypeOK, NEW h \in Handlers, NEW new \in Handling, handler' = [handler EXCEPT ![h] = new]
    PROVE  /\ handler' \in [Handlers -> Handling]
           /\ \A o \in Handlers : handler'[o] = IF o = h THEN new ELSE handler[o]
  BY DEF DocTypeOK

LEMMA NoneDeleting ==
    ASSUME DocInv, Undisturbed, NEW h \in Handlers, handler[h].pc # "idle",
           NEW o \in Handlers \ {h}
    PROVE  handler[o].op # "delete"
  BY DEF DocInv, Steady

\* A call goes on; the row keeps its status and its key, the store its files.
LEMMA CallGoesOn ==
    ASSUME DocInv, NEW h \in Handlers, NEW new \in Handling, handler' = [handler EXCEPT ![h] = new],
           docRow' \in Document, docRow'.status = docRow.status, docRow'.key = docRow.key,
           scans' \in Nat, scans' > 0 => scanner, docRow.status = "none" => scans' = 0,
           UNCHANGED <<files, puts, scanner, infected>>, Undisturbed' => Undisturbed,
           CallOK(new), new.pc = "create" => handler[h].pc = "create",
           Undisturbed' => /\ CallSteady(new)
                           /\ new.op = "delete" => \A o \in Handlers \ {h} : handler[o].pc = "idle"
                           /\ new.pc # "idle" => \A o \in Handlers \ {h} : handler[o].op # "delete"
                           /\ handler[h].pc # "deleted" \/ new.pc = "deleted"
    PROVE  DocInv'
<1>i. DocTypeOK /\ RowOK /\ CallsOK /\ Steady
  BY DEF DocInv
<1>1. /\ handler' \in [Handlers -> Handling]
      /\ \A o \in Handlers : handler'[o] = IF o = h THEN new ELSE handler[o]
  BY <1>i, HandlerMoves
<1>2. DocTypeOK'
  BY <1>i, <1>1 DEF DocTypeOK
<1>3. RowOK' /\ (Harmless' <=> Harmless)
  BY <1>i DEF RowOK, Harmless
<1>4. \A x : CallOK(x) => CallOK(x)'
  BY <1>3 DEF CallOK
<1>5. CallsOK'
  BY <1>i, <1>1, <1>4 DEF CallsOK
<1>6. Steady'
  <2> SUFFICES ASSUME Undisturbed'
               PROVE  /\ \A g, o \in Handlers : handler'[g].op = "delete" /\ g # o
                                              => handler'[o].pc = "idle"
                      /\ \A g \in Handlers : CallSteady(handler[g])'
                      /\ RowSteady'
    BY DEF Steady
  <2>1. \A x : CallSteady(x) => CallSteady(x)'
    BY DEF CallSteady
  <2>2. \A g \in Handlers : CallSteady(handler[g])'
    BY <1>i, <1>1, <2>1 DEF Steady
  <2>3. \A g, o \in Handlers : handler'[g].op = "delete" /\ g # o => handler'[o].pc = "idle"
    BY <1>i, <1>1 DEF Steady
  <2>4. RowSteady'
    <3>1. \A g \in Handlers : handler[g].pc = "deleted" => handler'[g].pc = "deleted"
      BY <1>1
    <3> QED
      BY <1>i, <3>1 DEF Steady, RowSteady
  <2> QED
    BY <2>2, <2>3, <2>4
<1> QED
  BY <1>2, <1>3, <1>5, <1>6 DEF DocInv

\* A call that read the row goes on with its key; a deletion beside another call
\* is noted.
LEMMA CallBegins ==
    ASSUME DocInv, NEW h \in Handlers, NEW pc \in Pcs, NEW op \in {"upload", "scan", "delete"},
           Begin(h, pc, op), UNCHANGED <<docRow, files, puts, scans, scanner, infected, failed>>,
           repeated => repeated',
           LET new == [pc |-> pc, key |-> docRow.key, op |-> op]
           IN  pc # "create" /\ CallOK(new) /\ (Undisturbed' => CallSteady(new))
               /\ (op = "delete" <=> pc = "remove")
    PROVE  DocInv'
<1> DEFINE new == [pc |-> pc, key |-> docRow.key, op |-> op]
<1>i. DocTypeOK /\ RowOK
  BY DEF DocInv
<1>1. /\ handler[h].pc = "idle" /\ handler' = [handler EXCEPT ![h] = new]
      /\ crossed' = (crossed \/ \E o \in Handlers \ {h} : Busy(o) /\ "delete" \in {op, handler[o].op})
  BY DEF Begin, Busy
<1>2. new \in Handling /\ new.pc = pc /\ new.op = op
  BY <1>i DEF Handling, DocTypeOK, Document
<1>3. pc # "create" /\ CallOK(new) /\ (Undisturbed' => CallSteady(new))
  OBVIOUS
<1> HIDE DEF new
<1>4. Undisturbed' => Undisturbed
  BY <1>1 DEF Undisturbed
<1>5. ASSUME Undisturbed', NEW o \in Handlers \ {h}
      PROVE  /\ op = "delete" => handler[o].pc = "idle"
             /\ handler[o].op # "delete"
  <2>1. ~(Busy(o) /\ "delete" \in {op, handler[o].op})
    BY <1>1, <1>5 DEF Undisturbed
  <2>2. handler[o].op = "delete" => handler[o].pc # "idle"
    BY DEF DocInv, CallsOK, CallOK
  <2> QED
    BY <2>1, <2>2 DEF Busy
<1>6. docRow' \in Document /\ scans' \in Nat /\ (scans' > 0 => scanner)
      /\ (docRow.status = "none" => scans' = 0)
  BY <1>i DEF DocTypeOK, RowOK
<1> QED
  BY <1>1, <1>2, <1>3, <1>4, <1>5, <1>6, CallGoesOn

\* A call moves the file or the row of a document there is.
LEMMA StoreMoves ==
    ASSUME DocInv, NEW h \in Handlers, NEW new \in Handling, handler' = [handler EXCEPT ![h] = new],
           docRow' \in Document, files' \subseteq FileKeys,
           docRow.status # "none", docRow'.status # "none",
           UNCHANGED <<scans, scanner, infected>>, RowOK', CallOK(new), new.pc # "create",
           Undisturbed' => /\ Undisturbed
                           /\ CallSteady(new)'
                           /\ \A o \in Handlers \ {h} : \A x : x = handler[o] => CallSteady(x)'
                           /\ new.op = "delete" => \A o \in Handlers \ {h} : handler[o].pc = "idle"
                           /\ new.pc # "idle" => \A o \in Handlers \ {h} : handler[o].op # "delete"
                           /\ RowSteady'
    PROVE  DocInv'
<1>i. DocTypeOK /\ CallsOK /\ Steady
  BY DEF DocInv
<1>1. /\ handler' \in [Handlers -> Handling]
      /\ \A o \in Handlers : handler'[o] = IF o = h THEN new ELSE handler[o]
  BY <1>i, HandlerMoves
<1>2. DocTypeOK'
  BY <1>i, <1>1 DEF DocTypeOK
<1>3. \A x : CallOK(x) => CallOK(x)'
  BY DEF CallOK, Harmless
<1>4. CallsOK'
  BY <1>i, <1>1, <1>3 DEF CallsOK
<1>5. Steady'
  <2> SUFFICES ASSUME Undisturbed'
               PROVE  /\ \A g, o \in Handlers : handler'[g].op = "delete" /\ g # o
                                              => handler'[o].pc = "idle"
                      /\ \A g \in Handlers : CallSteady(handler[g])'
                      /\ RowSteady'
    BY DEF Steady
  <2>1. \A g \in Handlers : CallSteady(handler[g])'
    BY <1>1
  <2>2. \A g, o \in Handlers : handler'[g].op = "delete" /\ g # o => handler'[o].pc = "idle"
    BY <1>i, <1>1 DEF Steady
  <2> QED
    BY <2>1, <2>2
<1> QED
  BY <1>2, <1>4, <1>5 DEF DocInv

LEMMA DocStep == DocInv /\ [DocNext]_docVars => DocInv'
<1> SUFFICES ASSUME DocInv, [DocNext]_docVars PROVE DocInv'
  OBVIOUS
<1>i. DocTypeOK /\ RowOK /\ CallsOK /\ Steady
  BY DEF DocInv
<1>k. quarantineKey # activeKey /\ quarantineKey \in FileKeys /\ activeKey \in FileKeys
  BY DEF quarantineKey, activeKey, FileKeys
<1>h. ASSUME NEW h \in Handlers
      PROVE  handler[h] \in Handling /\ CallOK(handler[h]) /\ docRow \in Document /\ scans \in Nat
             /\ (Undisturbed => CallSteady(handler[h])) /\ CallOK(NoUpload) /\ CallSteady(NoUpload)
  BY <1>i, IdleTyped DEF DocTypeOK, CallsOK, Steady, CallOK, CallSteady
\* A call ends; the row keeps its status and its key.
<1>e. ASSUME NEW h \in Handlers, Done(h), docRow' \in Document,
             docRow'.status = docRow.status, docRow'.key = docRow.key,
             UNCHANGED <<files, puts, scans, scanner, infected>>, Undisturbed' => Undisturbed,
             handler[h].pc # "deleted" \/ ~Undisturbed'
      PROVE  DocInv'
  BY <1>e, <1>h, <1>i, IdleTyped, CallGoesOn DEF Done, RowOK
\* A call goes on from one step to the next, the store and the row as they are.
<1>o. ASSUME NEW h \in Handlers, NEW pc \in Pcs, To(h, pc), pc # "create", pc # "idle",
             handler[h].pc # "idle", handler[h].op = "delete" => ~Undisturbed',
             UNCHANGED <<docRow, files, puts, scanner, infected>>, Undisturbed' => Undisturbed,
             scans' \in Nat, scans' > 0 => scanner, docRow.status = "none" => scans' = 0,
             LET new == [handler[h] EXCEPT !.pc = pc]
             IN  CallOK(new) /\ (Undisturbed' => CallSteady(new))
      PROVE  DocInv'
  <2> DEFINE new == [handler[h] EXCEPT !.pc = pc]
  <2>1. new \in Handling /\ new.pc = pc /\ new.op = handler[h].op /\ CallOK(new)
        /\ (Undisturbed' => CallSteady(new))
    BY <1>h, <1>o DEF Handling
  <2>2. handler' = [handler EXCEPT ![h] = new]
    BY <1>o DEF To
  <2> HIDE DEF new
  <2>3. Undisturbed' => \A o \in Handlers \ {h} : handler[o].op # "delete"
    BY <1>o, NoneDeleting
  <2>4. handler[h].pc = "deleted" => handler[h].op = "delete"
    BY <1>h DEF CallOK
  <2> QED
    BY <1>h, <1>o, <2>1, <2>2, <2>3, <2>4, CallGoesOn
<1>1. ASSUME NEW h \in Handlers, Exists(h) PROVE DocInv'
  <2>1. /\ \/ handler[h].pc = "exists" /\ To(h, "trigger")
           \/ handler[h].pc = "exists" /\ Done(h)
        /\ UNCHANGED <<docRow, files, puts, scans, scanner, infected, repeated, crossed, failed>>
    BY <1>1 DEF Exists
  <2>2. "trigger" \in Pcs
    BY DEF Pcs
  <2>u. Undisturbed' <=> Undisturbed
    BY <2>1 DEF Undisturbed
  <2>3. CASE Done(h)
    BY <1>e, <1>h, <2>1, <2>u, <2>3
  <2>4. CASE handler[h].pc = "exists" /\ To(h, "trigger")
    <3> DEFINE new == [handler[h] EXCEPT !.pc = "trigger"]
    <3>1. new.pc = "trigger" /\ new.op = handler[h].op /\ new.key = handler[h].key
      BY <1>h DEF Handling
    <3>2. CallOK(new) /\ (Undisturbed => CallSteady(new)) /\ handler[h].op = "upload"
      BY <1>h, <2>4, <3>1 DEF CallOK, CallSteady
    <3> QED
      BY <1>h, <1>i, <1>o, <2>1, <2>2, <2>u, <2>4, <3>2 DEF RowOK
  <2> QED
    BY <2>1, <2>3, <2>4
<1>2. ASSUME NEW h \in Handlers, TriggerScan(h) PROVE DocInv'
  <2>1. /\ handler[h].pc = "trigger"
        /\ \/ scanner /\ scans' = scans + 1 /\ To(h, "mark")
           \/ ~scanner /\ To(h, "copy") /\ scans' = scans
        /\ UNCHANGED <<docRow, files, puts, scanner, infected, repeated, crossed, failed>>
    BY <1>2 DEF TriggerScan
  <2>2. (Undisturbed' <=> Undisturbed) /\ "mark" \in Pcs /\ "copy" \in Pcs
    BY <2>1 DEF Undisturbed, Pcs
  <2>3. docRow.status # "none" /\ handler[h].op = "upload" /\ handler[h].key = quarantineKey
    BY <1>h, <2>1 DEF CallOK
  <2>4. CASE scanner /\ scans' = scans + 1 /\ To(h, "mark")
    <3> DEFINE new == [handler[h] EXCEPT !.pc = "mark"]
    <3>1. new.pc = "mark" /\ new.op = handler[h].op /\ new.key = handler[h].key
      BY <1>h DEF Handling
    <3>2. CallOK(new) /\ (Undisturbed => CallSteady(new))
      BY <1>h, <2>3, <3>1 DEF CallOK, CallSteady
    <3>3. scans' \in Nat
      BY <1>h, <2>4
    <3> QED
      BY <1>h, <1>o, <2>1, <2>2, <2>3, <2>4, <3>2, <3>3
  <2>5. CASE ~scanner /\ To(h, "copy") /\ scans' = scans
    <3> DEFINE new == [handler[h] EXCEPT !.pc = "copy"]
    <3>1. new.pc = "copy" /\ new.op = handler[h].op /\ new.key = handler[h].key
      BY <1>h DEF Handling
    <3>2. CallOK(new) /\ (Undisturbed => CallSteady(new))
      BY <1>h, <2>1, <2>3, <2>5, <3>1 DEF CallOK, CallSteady, Harmless
    <3> QED
      BY <1>h, <1>i, <1>o, <2>1, <2>2, <2>3, <2>5, <3>2 DEF RowOK
  <2> QED
    BY <2>1, <2>4, <2>5
<1>3. ASSUME NEW h \in Handlers, MarkScanning(h) PROVE DocInv'
  <2>1. /\ handler[h].pc = "mark" /\ Done(h) /\ docRow' = [docRow EXCEPT !.scan = "SCANNING"]
        /\ UNCHANGED <<files, puts, scans, scanner, infected, repeated, crossed, failed>>
    BY <1>3 DEF MarkScanning
  <2>2. docRow' \in Document /\ docRow'.status = docRow.status /\ docRow'.key = docRow.key
    BY <1>h, <2>1 DEF Document
  <2> QED
    BY <1>e, <2>1, <2>2 DEF Undisturbed
<1>4. ASSUME NEW h \in Handlers, ScanError(h) PROVE DocInv'
  <2>1. /\ handler[h].pc = "error" /\ Done(h) /\ docRow' = [docRow EXCEPT !.scan = "ERROR"]
        /\ UNCHANGED <<files, puts, scans, scanner, infected, repeated, crossed, failed>>
    BY <1>4 DEF ScanError
  <2>2. docRow' \in Document /\ docRow'.status = docRow.status /\ docRow'.key = docRow.key
    BY <1>h, <2>1 DEF Document
  <2> QED
    BY <1>e, <2>1, <2>2 DEF Undisturbed
<1>5. ASSUME NEW h \in Handlers, ConfirmUpload(h) PROVE DocInv'
  <2> DEFINE new == [pc |-> "exists", key |-> docRow.key, op |-> "upload"]
  <2>1. /\ docRow.status = "QUARANTINE" /\ Begin(h, "exists", "upload")
        /\ UNCHANGED <<docRow, files, puts, scans, scanner, infected, repeated, failed>>
    BY <1>5 DEF ConfirmUpload, InQuarantine
  <2>2. docRow.key = quarantineKey
    BY <1>i, <2>1 DEF RowOK
  <2>3. new.pc = "exists" /\ new.key = docRow.key /\ new.op = "upload" /\ "exists" \in Pcs
    BY DEF Pcs
  <2>4. CallOK(new) /\ CallSteady(new)
    BY <2>1, <2>2, <2>3 DEF CallOK, CallSteady
  <2> QED
    BY <2>1, <2>3, <2>4, CallBegins
<1>6. ASSUME NEW h \in Handlers, DeleteDocument(h) PROVE DocInv'
  <2> DEFINE new == [pc |-> "remove", key |-> docRow.key, op |-> "delete"]
  <2>1. /\ docRow.status # "DELETED" /\ Begin(h, "remove", "delete") /\ docRow.status # "none"
        /\ UNCHANGED <<docRow, files, puts, scans, scanner, infected, repeated, failed>>
    BY <1>6 DEF DeleteDocument, Begin
  <2>2. new.pc = "remove" /\ new.key = docRow.key /\ new.op = "delete" /\ "remove" \in Pcs
    BY DEF Pcs
  <2>3. CallOK(new) /\ CallSteady(new)
    BY <2>1, <2>2 DEF CallOK, CallSteady
  <2> QED
    BY <2>1, <2>2, <2>3, CallBegins
<1>7. ASSUME NEW h \in Handlers, NEW verdict \in {"CLEAN", "INFECTED", "ERROR"}, ScanResult(h, verdict)
      PROVE DocInv'
  <2> DEFINE pc == IF verdict = "CLEAN" THEN "copy" ELSE IF verdict = "INFECTED" THEN "purge" ELSE "error"
             new == [pc |-> pc, key |-> docRow.key, op |-> "scan"]
  <2>1. /\ scans > 0 /\ Begin(h, pc, "scan") /\ docRow.status # "none"
        /\ verdict \in {"ERROR", IF infected THEN "INFECTED" ELSE "CLEAN"}
        /\ repeated' = (repeated \/ (verdict = "CLEAN" /\ docRow.key = activeKey))
        /\ UNCHANGED <<docRow, files, puts, scans, scanner, infected, failed>>
    BY <1>7 DEF ScanResult, Activates, Begin
  <2>2. new.pc = pc /\ new.key = docRow.key /\ new.op = "scan" /\ pc \in Pcs
    BY DEF Pcs
  <2>3. scanner /\ docRow.key \in FileKeys
    BY <1>i, <2>1 DEF RowOK, DocTypeOK, Document
  <2>4. CASE verdict = "CLEAN"
    <3>1. pc = "copy" /\ ~infected
      BY <2>1, <2>4
    <3>2. CallOK(new)
      BY <2>1, <2>2, <3>1 DEF CallOK, Harmless
    <3>3. Undisturbed' => CallSteady(new)
      BY <2>1, <2>2, <2>3, <2>4, <3>1 DEF CallSteady, Undisturbed, FileKeys
    <3> QED
      BY <2>1, <2>2, <3>1, <3>2, <3>3, CallBegins
  <2>5. CASE verdict = "INFECTED"
    <3>1. pc = "purge" /\ infected
      BY <2>1, <2>5
    <3>2. docRow.key = quarantineKey
      BY <1>i, <2>3, <3>1 DEF RowOK, Harmless, FileKeys
    <3>3. CallOK(new) /\ CallSteady(new)
      BY <2>1, <2>2, <2>3, <3>1, <3>2 DEF CallOK, CallSteady, Harmless
    <3> QED
      BY <2>1, <2>2, <3>1, <3>3, CallBegins
  <2>6. CASE verdict = "ERROR"
    <3>1. pc = "error"
      BY <2>6
    <3>2. CallOK(new) /\ CallSteady(new)
      BY <2>1, <2>2, <3>1 DEF CallOK, CallSteady
    <3> QED
      BY <2>1, <2>2, <3>1, <3>2, CallBegins
  <2> QED
    BY <2>4, <2>5, <2>6
<1>8. ASSUME NEW h \in Handlers, CallFails(h) PROVE DocInv'
  <2>1. handler[h].pc # "idle"
    BY <1>8 DEF CallFails, Busy
  <2>d. \/ Done(h)
        \/ handler[h].pc = "purge" /\ To(h, "infected")
        \/ handler[h].pc = "remove" /\ To(h, "deleted")
    BY <1>8 DEF CallFails
  <2>u. UNCHANGED <<docRow, files, puts, scans, scanner, infected, repeated, crossed>>
    BY <1>8 DEF CallFails
  <2>f. failed' = (failed \/ handler[h].pc \notin {"exists", "trigger", "mark", "copy", "error"})
    BY <1>8 DEF CallFails
  <2>2. /\ Undisturbed' => Undisturbed
        /\ handler[h].pc \in {"purge", "remove", "deleted"} => ~Undisturbed'
    BY <2>u, <2>f DEF Undisturbed
  <2>p. "infected" \in Pcs /\ "deleted" \in Pcs
    BY DEF Pcs
  <2>3. CASE Done(h)
    BY <1>e, <1>h, <2>u, <2>2, <2>3
  <2>4. CASE handler[h].pc = "purge" /\ To(h, "infected")
    <3> DEFINE new == [handler[h] EXCEPT !.pc = "infected"]
    <3>1. new.pc = "infected" /\ new.op = handler[h].op /\ new.key = handler[h].key
      BY <1>h DEF Handling
    <3>2. CallOK(new)
      BY <1>h, <2>4, <3>1 DEF CallOK
    <3> QED
      BY <1>h, <1>i, <1>o, <2>1, <2>u, <2>p, <2>2, <2>4, <3>2 DEF RowOK
  <2>5. CASE handler[h].pc = "remove" /\ To(h, "deleted")
    <3> DEFINE new == [handler[h] EXCEPT !.pc = "deleted"]
    <3>1. new.pc = "deleted" /\ new.op = handler[h].op /\ new.key = handler[h].key
      BY <1>h DEF Handling
    <3>2. CallOK(new)
      BY <1>h, <2>5, <3>1 DEF CallOK
    <3> QED
      BY <1>h, <1>i, <1>o, <2>1, <2>u, <2>p, <2>2, <2>5, <3>2 DEF RowOK
  <2> QED
    BY <2>d, <2>3, <2>4, <2>5
<1>m. ASSUME NEW h \in Handlers, NEW pc \in Pcs, To(h, pc)
      PROVE  \E new \in Handling : /\ new.pc = pc /\ new.op = handler[h].op /\ new.key = handler[h].key
                                   /\ handler' = [handler EXCEPT ![h] = new]
  <2> DEFINE new == [handler[h] EXCEPT !.pc = pc]
  <2>1. /\ new \in Handling /\ new.pc = pc /\ new.op = handler[h].op /\ new.key = handler[h].key
        /\ handler' = [handler EXCEPT ![h] = new]
    BY <1>h, <1>m DEF To, Handling
  <2> HIDE DEF new
  <2> QED
    BY <2>1
<1>9. ASSUME NEW h \in Handlers, LastUpdate(h) PROVE DocInv'
  <2>1. /\ handler[h].pc \in {"stamp", "infected", "deleted"} /\ docRow' = Outcome(h) /\ Done(h)
        /\ UNCHANGED <<files, puts, scans, scanner, infected, repeated, crossed, failed>>
    BY <1>9 DEF LastUpdate
  <2>u. Undisturbed' <=> Undisturbed
    BY <2>1 DEF Undisturbed
  <2>n. docRow.status # "none" /\ handler' = [handler EXCEPT ![h] = NoUpload]
    BY <1>h, <2>1 DEF CallOK, Done
  <2>2. CASE handler[h].pc = "stamp"
    <3>1. docRow' = [docRow EXCEPT !.scan = "CLEAN"]
      BY <2>1, <2>2 DEF Outcome
    <3>2. docRow' \in Document /\ docRow'.status = docRow.status /\ docRow'.key = docRow.key
      BY <1>h, <3>1 DEF Document
    <3> QED
      BY <1>e, <2>1, <2>2, <2>u, <3>2
  <2>3. CASE handler[h].pc = "infected"
    <3>1. docRow' = [docRow EXCEPT !.status = "INFECTED", !.scan = "INFECTED"]
      BY <2>1, <2>3 DEF Outcome
    <3>2. docRow' \in Document /\ docRow'.status = "INFECTED" /\ docRow'.key = docRow.key
          /\ docRow.key \in FileKeys
      BY <1>h, <3>1 DEF Document
    <3>3. ~Harmless /\ docRow.key = quarantineKey
      BY <1>h, <1>i, <2>3, <3>2 DEF CallOK, RowOK, FileKeys
    <3>4. RowOK'
      BY <1>i, <1>k, <2>1, <2>n, <3>2, <3>3 DEF RowOK, Harmless
    <3>5. ASSUME Undisturbed' PROVE RowSteady' /\ \A x : CallSteady(x) => CallSteady(x)'
      <4>1. docRow.key \notin files
        BY <1>h, <2>3, <2>u, <3>5 DEF CallSteady
      <4> QED
        BY <2>1, <3>2, <4>1 DEF RowSteady, CallSteady
    <3>6. files' \subseteq FileKeys
      BY <1>i, <2>1 DEF DocTypeOK
    <3> QED
      BY <1>h, <2>1, <2>u, <2>n, <3>2, <3>4, <3>5, <3>6, IdleTyped, StoreMoves
  <2>4. CASE handler[h].pc = "deleted"
    <3>1. docRow' = [docRow EXCEPT !.status = "DELETED"]
      BY <2>1, <2>4 DEF Outcome
    <3>2. docRow' \in Document /\ docRow'.status = "DELETED" /\ docRow'.key = docRow.key
      BY <1>h, <3>1 DEF Document
    <3>4. RowOK'
      BY <1>i, <2>1, <2>n, <3>2 DEF RowOK, Harmless
    <3>5. ASSUME Undisturbed' PROVE RowSteady' /\ \A o \in Handlers \ {h} : handler[o].pc = "idle"
      <4>1. docRow.key \notin files /\ handler[h].op = "delete"
        BY <1>h, <2>4, <2>u, <3>5 DEF CallSteady, CallOK
      <4> QED
        BY <1>i, <2>1, <2>u, <3>2, <3>5, <4>1 DEF RowSteady, Steady
    <3>6. files' \subseteq FileKeys
      BY <1>i, <2>1 DEF DocTypeOK
    <3>7. \A x : x.pc = "idle" => CallSteady(x)'
      BY DEF CallSteady
    <3> QED
      BY <1>h, <2>1, <2>u, <2>n, <3>2, <3>4, <3>5, <3>6, <3>7, IdleTyped, StoreMoves
  <2> QED
    BY <2>1, <2>2, <2>3, <2>4
<1>q. ASSUME docRow.status = "none", files = {}, NEW h \in Handlers
      PROVE  handler[h].pc = "idle" /\ handler[h].op = "none"
  BY <1>h, <1>q DEF CallOK
<1>10. ASSUME InitiateUpload PROVE DocInv'
  <2>1. /\ docRow.status = "none" /\ files = {} /\ docRow' = [docRow EXCEPT !.status = "QUARANTINE", !.scan = "PENDING"]
        /\ UNCHANGED <<files, handler, scans, scanner, infected>>
    BY <1>10 DEF InitiateUpload
  <2>2. docRow' \in Document /\ docRow'.status = "QUARANTINE" /\ docRow'.key = quarantineKey
    BY <1>i, <2>1 DEF DocTypeOK, Document, RowOK
  <2>3. DocTypeOK'
    BY <1>i, <2>1, <2>2 DEF DocTypeOK
  <2>4. RowOK'
    BY <1>i, <1>k, <2>1, <2>2 DEF RowOK, Harmless
  <2>5. \A g \in Handlers : handler'[g].pc = "idle" /\ handler'[g].op = "none"
    BY <1>q, <2>1
  <2>6. CallsOK'
    BY <2>5 DEF CallsOK, CallOK
  <2>7. Steady'
    BY <2>2, <2>5 DEF Steady, CallSteady, RowSteady
  <2> QED
    BY <2>3, <2>4, <2>6, <2>7 DEF DocInv
<1>11. ASSUME ClientPut PROVE DocInv'
  <2>1. /\ puts > 0 /\ files' = files \cup {quarantineKey}
        /\ UNCHANGED <<docRow, scanner, infected, handler, scans, repeated, failed>>
    BY <1>11 DEF ClientPut
  <2>c. crossed' = (crossed \/ docRow.status # "QUARANTINE"
                     \/ \E h \in Handlers : handler[h].op \in {"delete", "scan"})
    BY <1>11 DEF ClientPut
  <2>2. docRow.status # "none" /\ DocTypeOK'
    BY <1>i, <1>k, <2>1 DEF RowOK, DocTypeOK
  <2>3. RowOK'
    BY <1>i, <2>1, <2>2 DEF RowOK, Harmless
  <2>4. CallsOK'
    BY <1>i, <2>1, <2>2 DEF CallsOK, CallOK, Harmless
  <2>5. Steady'
    <3> SUFFICES ASSUME Undisturbed' PROVE
                  /\ \A h, o \in Handlers : handler'[h].op = "delete" /\ h # o => handler'[o].pc = "idle"
                  /\ \A h \in Handlers : CallSteady(handler[h])'
                  /\ RowSteady'
      BY DEF Steady
    <3>1. docRow.status = "QUARANTINE" /\ Undisturbed
          /\ \A h \in Handlers : handler[h].op \notin {"delete", "scan"}
      BY <2>1, <2>c DEF Undisturbed
    <3>2. ASSUME NEW h \in Handlers PROVE CallSteady(handler[h])'
      <4>1. CallOK(handler[h]) /\ CallSteady(handler[h])
        BY <1>h, <3>1
      <4>2. handler[h].pc \notin {"infected", "deleted"}
        BY <3>1, <4>1 DEF CallOK
      <4> QED
        BY <2>1, <3>1, <4>1, <4>2 DEF CallSteady
    <3> QED
      BY <2>1, <3>1, <3>2 DEF RowSteady
  <2> QED
    BY <2>2, <2>3, <2>4, <2>5 DEF DocInv
<1>12. ASSUME NEW h \in Handlers, DirectUpload(h) PROVE DocInv'
  <2> DEFINE new == [pc |-> "create", key |-> quarantineKey, op |-> "upload"]
  <2>1. /\ docRow.status = "none" /\ files = {} /\ files' = {quarantineKey}
        /\ handler' = [handler EXCEPT ![h] = new]
        /\ UNCHANGED <<docRow, puts, scans, scanner, infected>>
    BY <1>12 DEF DirectUpload
  <2>2. new \in Handling /\ new.pc = "create" /\ new.op = "upload" /\ new.key = quarantineKey
    BY <1>k DEF Handling, Pcs
  <2> HIDE DEF new
  <2>3. /\ handler' \in [Handlers -> Handling]
        /\ \A g \in Handlers : handler'[g] = IF g = h THEN new ELSE handler[g]
    BY <1>i, <2>1, <2>2, HandlerMoves
  <2>4. \A g \in Handlers : g # h => handler'[g].pc = "idle" /\ handler'[g].op = "none"
    BY <1>q, <2>1, <2>3
  <2>5. DocTypeOK' /\ RowOK'
    BY <1>i, <1>k, <2>1, <2>3 DEF DocTypeOK, RowOK, Harmless
  <2>6. CallsOK'
    BY <2>1, <2>2, <2>3, <2>4 DEF CallsOK, CallOK
  <2>7. Steady'
    BY <2>1, <2>2, <2>3, <2>4 DEF Steady, CallSteady, RowSteady
  <2> QED
    BY <2>5, <2>6, <2>7 DEF DocInv
<1>13. ASSUME NEW h \in Handlers, CreateRow(h) PROVE DocInv'
  <2>1. /\ handler[h].pc = "create" /\ To(h, "trigger")
        /\ docRow' = [docRow EXCEPT !.status = "QUARANTINE", !.scan = "PENDING"]
        /\ UNCHANGED <<files, puts, scans, scanner, infected>>
    BY <1>13 DEF CreateRow
  <2>2. docRow.status = "none" /\ handler[h].op = "upload" /\ handler[h].key = quarantineKey
    BY <1>h, <1>i, <2>1 DEF CallsOK, CallOK
  <2>p. "trigger" \in Pcs
    BY DEF Pcs
  <2>3. PICK new \in Handling : /\ new.pc = "trigger" /\ new.op = "upload" /\ new.key = quarantineKey
                                /\ handler' = [handler EXCEPT ![h] = new]
    BY <1>m, <2>1, <2>2, <2>p
  <2>4. /\ handler' \in [Handlers -> Handling]
        /\ \A g \in Handlers : handler'[g] = IF g = h THEN new ELSE handler[g]
    BY <1>i, <2>3, HandlerMoves
  <2>5. \A g \in Handlers : g # h => handler'[g].pc = "idle" /\ handler'[g].op = "none"
    <3> SUFFICES ASSUME NEW g \in Handlers, g # h PROVE handler[g].pc = "idle" /\ handler[g].op = "none"
      BY <2>4
    <3>1. handler[g].pc # "create"
      BY <1>i, <2>1 DEF CallsOK
    <3> QED
      BY <1>h, <2>2, <3>1 DEF CallOK
  <2>6. docRow' \in Document /\ docRow'.status = "QUARANTINE" /\ docRow'.key = quarantineKey
    BY <1>i, <2>1, <2>2 DEF DocTypeOK, Document, RowOK
  <2>7. DocTypeOK' /\ RowOK'
    BY <1>i, <1>k, <2>1, <2>4, <2>6 DEF DocTypeOK, RowOK, Harmless
  <2>8. CallsOK'
    BY <2>3, <2>4, <2>5, <2>6 DEF CallsOK, CallOK
  <2>9. Steady'
    BY <2>3, <2>4, <2>5, <2>6 DEF Steady, CallSteady, RowSteady
  <2> QED
    BY <2>7, <2>8, <2>9 DEF DocInv
<1>14. ASSUME NEW h \in Handlers, Copy(h) PROVE DocInv'
  <2>1. /\ handler[h].pc = "copy"
        /\ \/ handler[h].key \in files /\ files' = files \cup {activeKey} /\ To(h, "unlink")
           \/ Done(h) /\ files' = files
        /\ UNCHANGED <<docRow, puts, scans, scanner, infected, repeated, crossed, failed>>
    BY <1>14 DEF Copy
  <2>u. Undisturbed' <=> Undisturbed
    BY <2>1 DEF Undisturbed
  <2>2. CASE Done(h) /\ files' = files
    BY <1>e, <1>h, <2>1, <2>u, <2>2
  <2>3. CASE handler[h].key \in files /\ files' = files \cup {activeKey} /\ To(h, "unlink")
    <3>1. "unlink" \in Pcs
      BY DEF Pcs
    <3>2. PICK new \in Handling : /\ new.pc = "unlink" /\ new.op = handler[h].op /\ new.key = handler[h].key
                                  /\ handler' = [handler EXCEPT ![h] = new]
      BY <1>m, <2>3, <3>1
    <3>3. docRow.status # "none" /\ Harmless /\ CallOK(new)
          /\ handler[h].op # "delete"
      BY <1>h, <2>1, <3>2 DEF CallOK
    <3>4. RowOK' /\ files' \subseteq FileKeys /\ docRow' \in Document
      BY <1>h, <1>i, <1>k, <2>1, <2>3, <3>3 DEF RowOK, DocTypeOK, Harmless
    <3>5. ASSUME Undisturbed'
          PROVE  /\ CallSteady(new)' /\ RowSteady'
                 /\ \A o \in Handlers \ {h} : handler[o].op # "delete"
                 /\ \A o \in Handlers \ {h} : \A x : x = handler[o] => CallSteady(x)'
      <4>1. Undisturbed /\ CallSteady(handler[h]) /\ RowSteady
        BY <1>h, <1>i, <2>u, <3>5 DEF Steady
      <4>2. docRow.status \notin {"DELETED", "INFECTED"}
        BY <1>i, <2>1, <2>3, <3>3, <4>1 DEF CallSteady, RowSteady, RowOK
      <4>3. CallSteady(new)' /\ RowSteady'
        BY <2>1, <2>3, <3>2, <4>1, <4>2 DEF CallSteady, RowSteady
      <4>4. \A o \in Handlers \ {h} : handler[o].op # "delete"
        BY <2>1, <4>1, NoneDeleting
      <4>5. ASSUME NEW o \in Handlers \ {h}, NEW x, x = handler[o] PROVE CallSteady(x)'
        <5>1. CallOK(x) /\ CallSteady(x) /\ x.op # "delete"
          BY <1>h, <4>1, <4>4, <4>5
        <5>2. x.pc \notin {"infected", "deleted", "remove"}
          BY <3>3, <5>1 DEF CallOK
        <5> QED
          BY <2>1, <2>3, <4>2, <5>1, <5>2 DEF CallSteady
      <4> QED
        BY <4>3, <4>4, <4>5
    <3> QED
      BY <2>1, <2>u, <3>2, <3>3, <3>4, <3>5, StoreMoves
  <2> QED
    BY <2>1, <2>2, <2>3
<1>15. ASSUME NEW h \in Handlers, Unlink(h) PROVE DocInv'
  <2> DEFINE pc == IF handler[h].pc = "unlink" THEN "activate"
                   ELSE IF handler[h].pc = "purge" THEN "infected" ELSE "deleted"
  <2>1. /\ handler[h].pc \in {"unlink", "purge", "remove"} /\ files' = files \ {handler[h].key}
        /\ To(h, pc)
        /\ UNCHANGED <<docRow, puts, scans, scanner, infected, repeated, crossed, failed>>
    BY <1>15 DEF Unlink
  <2>u. Undisturbed' <=> Undisturbed
    BY <2>1 DEF Undisturbed
  <2>p. pc \in Pcs
    BY DEF Pcs
  <2>2. PICK new \in Handling : /\ new.pc = pc /\ new.op = handler[h].op /\ new.key = handler[h].key
                                /\ handler' = [handler EXCEPT ![h] = new]
    BY <1>m, <2>1, <2>p
  <2>3. docRow.status # "none" /\ CallOK(new) /\ new.pc # "create" /\ CallOK(handler[h])
    BY <1>h, <2>1, <2>2 DEF CallOK
  <2>4. RowOK' /\ files' \subseteq FileKeys /\ docRow' \in Document
    BY <1>h, <1>i, <2>1, <2>3 DEF RowOK, DocTypeOK, Harmless
  <2>5. ASSUME Undisturbed'
        PROVE  /\ CallSteady(new)' /\ RowSteady'
               /\ handler[h].op = "delete" => \A o \in Handlers \ {h} : handler[o].pc = "idle"
               /\ \A o \in Handlers \ {h} : handler[o].op # "delete"
               /\ \A o \in Handlers \ {h} : \A x : x = handler[o] => CallSteady(x)'
    <3>1. Undisturbed /\ CallSteady(handler[h]) /\ RowSteady
      BY <1>h, <1>i, <2>u, <2>5 DEF Steady
    <3>2. \A o \in Handlers \ {h} : handler[o].op # "delete"
      BY <2>1, <3>1, NoneDeleting
    <3>3. handler[h].op = "delete" => \A o \in Handlers \ {h} : handler[o].pc = "idle"
      BY <1>i, <3>1 DEF Steady
    <3>q. /\ handler[h].pc = "unlink" => handler[h].key = quarantineKey /\ docRow.status # "DELETED"
          /\ handler[h].pc = "purge" => handler[h].key = quarantineKey /\ docRow.key = quarantineKey
                                        /\ docRow.status # "ACTIVE"
          /\ handler[h].pc = "remove" => handler[h].key = docRow.key /\ handler[h].op = "delete"
      BY <1>h, <1>i, <1>k, <2>3, <3>1 DEF CallSteady, CallOK, RowOK, Document, FileKeys
    <3>4. CallSteady(new)'
      BY <1>k, <2>1, <2>2, <3>1, <3>q DEF CallSteady
    <3>5. RowSteady'
      <4>1. docRow'.status \in {"DELETED", "INFECTED"} => docRow'.key \notin files'
        BY <2>1, <3>1 DEF RowSteady
      <4>2. ASSUME docRow.status = "ACTIVE", handler[h].pc = "unlink"
            PROVE  activeKey \in files'
        BY <1>k, <2>1, <3>1, <3>q, <4>2 DEF CallSteady
      <4>3. ASSUME handler[h].pc = "remove" PROVE handler'[h].pc = "deleted"
        <5>1. h \in Handlers /\ handler'[h] = new
          BY <1>i, <2>2, HandlerMoves
        <5> QED
          BY <2>2, <4>3, <5>1
      <4> QED
        BY <2>1, <3>q, <4>1, <4>2, <4>3 DEF RowSteady
    <3>6. ASSUME NEW o \in Handlers \ {h}, NEW x, x = handler[o] PROVE CallSteady(x)'
      <4>1. CallOK(x) /\ CallSteady(x) /\ x.op # "delete"
        BY <1>h, <3>1, <3>2, <3>6
      <4>2. handler[h].pc = "remove" => x.pc = "idle"
        BY <3>3, <3>6, <3>q
      <4>3. x.pc \in {"unlink", "activate"} => activeKey \in files'
        BY <1>k, <2>1, <3>q, <4>1, <4>2 DEF CallSteady
      <4> QED
        BY <2>1, <4>1, <4>3 DEF CallSteady
    <3> QED
      BY <3>2, <3>3, <3>4, <3>5, <3>6
  <2> QED
    BY <2>1, <2>u, <2>2, <2>3, <2>4, <2>5, StoreMoves
<1>16. ASSUME NEW h \in Handlers, Activate(h) PROVE DocInv'
  <2>1. /\ handler[h].pc = "activate" /\ docRow' = [status |-> "ACTIVE", scan |-> "CLEAN", key |-> activeKey]
        /\ \/ handler[h].op = "scan" /\ To(h, "stamp")
           \/ Done(h)
        /\ UNCHANGED <<files, puts, scans, scanner, infected, repeated, crossed, failed>>
    BY <1>16 DEF Activate
  <2>u. Undisturbed' <=> Undisturbed
    BY <2>1 DEF Undisturbed
  <2>2. docRow' \in Document /\ docRow'.status = "ACTIVE" /\ docRow'.key = activeKey
    BY <1>k, <2>1 DEF Document
  <2>3. docRow.status # "none" /\ Harmless /\ handler[h].op # "delete"
    BY <1>h, <2>1 DEF CallOK
  <2>4. RowOK' /\ files' \subseteq FileKeys
    BY <1>i, <2>1, <2>2, <2>3 DEF RowOK, DocTypeOK, Harmless
  <2>5. ASSUME Undisturbed'
        PROVE  /\ RowSteady'
               /\ \A o \in Handlers \ {h} : handler[o].op # "delete"
               /\ \A o \in Handlers \ {h} : \A x : x = handler[o] => CallSteady(x)'
    <3>1. Undisturbed /\ CallSteady(handler[h])
      BY <1>h, <2>u, <2>5
    <3>2. \A o \in Handlers \ {h} : handler[o].op # "delete"
      BY <2>1, <3>1, NoneDeleting
    <3>3. RowSteady'
      BY <2>1, <2>2, <3>1 DEF RowSteady, CallSteady
    <3>4. ASSUME NEW o \in Handlers \ {h}, NEW x, x = handler[o] PROVE CallSteady(x)'
      <4>1. CallOK(x) /\ CallSteady(x) /\ x.op # "delete"
        BY <1>h, <3>1, <3>2, <3>4
      <4>2. x.pc \notin {"infected", "deleted", "remove"}
        BY <2>3, <4>1 DEF CallOK
      <4> QED
        BY <2>1, <2>2, <4>1, <4>2 DEF CallSteady
    <3> QED
      BY <3>2, <3>3, <3>4
  <2>6. ASSUME NEW new \in Handling, handler' = [handler EXCEPT ![h] = new], CallOK(new),
               new.pc \in {"idle", "stamp"}, new.op # "delete"
        PROVE  DocInv'
    <3>1. CallSteady(new)'
      BY <2>2, <2>6 DEF CallSteady
    <3> QED
      BY <2>1, <2>u, <2>2, <2>3, <2>4, <2>5, <2>6, <3>1, StoreMoves
  <2>7. CASE Done(h)
    BY <1>h, <2>6, <2>7, IdleTyped DEF Done
  <2>8. CASE handler[h].op = "scan" /\ To(h, "stamp")
    <3>1. "stamp" \in Pcs
      BY DEF Pcs
    <3>2. PICK new \in Handling : /\ new.pc = "stamp" /\ new.op = "scan"
                                  /\ handler' = [handler EXCEPT ![h] = new]
      BY <1>m, <2>8, <3>1
    <3>3. CallOK(new)
      BY <2>3, <3>2 DEF CallOK
    <3> QED
      BY <2>6, <3>2, <3>3
  <2> QED
    BY <2>1, <2>7, <2>8
<1>17. CASE UNCHANGED docVars
  <2>1. /\ UNCHANGED <<docRow, files, handler, puts, scans, scanner, infected>>
        /\ (Undisturbed' <=> Undisturbed)
    BY <1>17 DEF docVars, Undisturbed
  <2>2. DocTypeOK' /\ RowOK'
    BY <1>i, <2>1 DEF DocTypeOK, RowOK, Harmless
  <2>3. CallsOK'
    BY <1>i, <2>1 DEF CallsOK, CallOK, Harmless
  <2>4. Steady'
    BY <1>i, <2>1 DEF Steady, CallSteady, RowSteady
  <2> QED
    BY <2>2, <2>3, <2>4 DEF DocInv
<1> QED
  BY <1>1, <1>2, <1>3, <1>4, <1>5, <1>6, <1>7, <1>8, <1>9, <1>10, <1>11, <1>12, <1>13, <1>14,
     <1>15, <1>16, <1>17 DEF DocNext

\* What the invariant says of a document nobody is dealing with.
LEMMA DocumentsFollow == DocInv => DocumentsSound
<1> SUFFICES ASSUME DocInv PROVE DocumentsSound
  OBVIOUS
<1>1. ServedOnlyClean
  BY DEF DocInv, RowOK, ServedOnlyClean, Harmless
<1>2. FileFollowsRow
  <2> SUFFICES ASSUME \A h \in Handlers : ~Busy(h), ~repeated, ~crossed, ~failed
               PROVE  /\ docRow.status = "ACTIVE" => activeKey \in files
                      /\ docRow.status \in {"DELETED", "INFECTED"} => docRow.key \notin files
    BY DEF FileFollowsRow
  <2>1. RowSteady /\ \A h \in Handlers : handler[h].pc # "deleted"
    BY DEF DocInv, Steady, Undisturbed, Busy
  <2> QED
    BY <2>1 DEF RowSteady
<1> QED
  BY <1>1, <1>2 DEF DocumentsSound
---------------------------------------------------------------------------
(* The identity check.                                                     *)

CaseStatus == {"none", "SUBMITTED", "DOCUMENT_CHECK", "SELFIE_CHECK", "ADDRESS_CHECK", "MANUAL_REVIEW"}
        \cup TERMINAL_KYC_STATUSES
KycCall ==
    {NoCall} \cup [pc : {"create", "link", "assess", "reject", "store", "count"}, key : Keys \cup {"TOKEN"}]
            \cup [pc : {"advance"}, status : CaseStatus] \cup [pc : {"webhook"}, event : Events]
Decision == [by : Events \cup {"admin", "SYSTEM"}, status : TERMINAL_KYC_STATUSES, round : Nat]

KycTypeOK ==
    /\ kase \in CaseStatus /\ round \in Nat /\ decisions \in Seq(Decision)
    /\ call \in [Calls -> KycCall] /\ processed \subseteq Events

\* Every round of an open case is undecided, and an event that is still to decide
\* is one call's and has decided nothing.
RoundsDecided ==
    /\ \A i \in DOMAIN decisions : decisions[i].round <= round
    /\ NotTerminal => \A i \in DOMAIN decisions : decisions[i].round < round
    /\ \A i, j \in DOMAIN decisions : i # j => decisions[i].round # decisions[j].round
EventsDecideOnce ==
    /\ \A i \in DOMAIN decisions : decisions[i].by \in Events => decisions[i].by \in processed
    /\ \A i, j \in DOMAIN decisions :
          i # j /\ decisions[i].by \in Events => decisions[i].by # decisions[j].by
    /\ \A c \in Calls : At(c, "webhook") =>
          /\ call[c].event \in processed
          /\ \A i \in DOMAIN decisions : decisions[i].by # call[c].event
          /\ \A d \in Calls \ {c} : At(d, "webhook") => call[d].event # call[c].event
LastStands ==
    decisions # << >> =>
        kycStatus = IF decisions[Len(decisions)].status = "APPROVED" THEN "approved" ELSE "rejected"

KycInv == KycTypeOK /\ RoundsDecided /\ EventsDecideOnce /\ LastStands

\* A sequence one element longer.
LEMMA Lengthened ==
    ASSUME NEW S, NEW s \in Seq(S), NEW x \in S
    PROVE  /\ DOMAIN s = 1..Len(s) /\ Len(s) \in Nat /\ \A i \in DOMAIN s : s[i] \in S
           /\ Append(s, x) \in Seq(S) /\ Len(Append(s, x)) = Len(s) + 1
           /\ DOMAIN Append(s, x) = 1..(Len(s) + 1) /\ Append(s, x)[Len(s) + 1] = x
           /\ \A i \in DOMAIN s : Append(s, x)[i] = s[i]
  OBVIOUS

LEMMA LastOrBefore ==
    ASSUME NEW k \in Nat
    PROVE  /\ k + 1 \in Nat /\ k + 1 # 0
           /\ \A i \in 1..(k + 1) : i = k + 1 \/ (i \in 1..k /\ i # k + 1)
  OBVIOUS

LEMMA DecisionsTyped ==
    ASSUME KycTypeOK
    PROVE  \A i \in DOMAIN decisions : decisions[i] \in Decision /\ decisions[i].round \in Nat
<1>1. \A i \in DOMAIN decisions : decisions[i] \in Decision
  BY DEF KycTypeOK
<1> QED
  BY <1>1 DEF Decision

LEMMA KycInitially == KycInit => KycInv
<1> SUFFICES ASSUME KycInit PROVE KycInv
  OBVIOUS
<1>1. \A c \in Calls : call[c] = NoCall /\ NoCall.pc = "idle"
  BY DEF KycInit, NoCall
<1>2. decisions = << >> /\ processed = {} /\ kase = "none" /\ round = 0
  BY DEF KycInit
<1>3. KycTypeOK
  BY <1>2 DEF KycInit, KycTypeOK, CaseStatus, KycCall
<1> QED
  BY <1>1, <1>2, <1>3 DEF KycInv, RoundsDecided, EventsDecideOnce, LastStands, At

\* The fields of a call.
LEMMA CallTyped ==
    ASSUME NEW x \in KycCall
    PROVE  /\ x.pc = "advance" => x.status \in CaseStatus
           /\ x.pc = "webhook" => x.event \in Events
           /\ \A pc \in {"link", "assess", "reject", "store", "count"} :
                 x.pc \in {"create", "link", "assess", "reject", "store", "count"}
                    => [x EXCEPT !.pc = pc] \in KycCall /\ [x EXCEPT !.pc = pc].pc = pc
  BY DEF KycCall, NoCall

\* An update without a condition leaves open rounds undecided.
LEMMA Overwritten ==
    ASSUME KycTypeOK, NEW status \in CaseStatus, Overwrite(status)
    PROVE  kase' \in CaseStatus /\ round' \in Nat /\ round' >= round
           /\ (NotTerminal' => NotTerminal \/ round' > round)
  BY DEF KycTypeOK, Overwrite, NotTerminal

\* No decision is made, and no call turns to an event.
LEMMA Undecided ==
    ASSUME KycInv, kase' \in CaseStatus, round' \in Nat, round' >= round,
           NotTerminal' => NotTerminal \/ round' > round,
           UNCHANGED <<kycStatus, decisions, processed>>, call' \in [Calls -> KycCall],
           \A d \in Calls : call'[d].pc = "webhook" => call'[d] = call[d]
    PROVE  KycInv'
<1>i. KycTypeOK /\ RoundsDecided /\ EventsDecideOnce /\ LastStands
  BY DEF KycInv
<1>1. KycTypeOK'
  BY <1>i DEF KycTypeOK
<1>2. RoundsDecided'
  <2>1. \A i \in DOMAIN decisions : decisions[i].round \in Nat
    BY <1>i, DecisionsTyped
  <2> QED
    BY <1>i, <2>1 DEF RoundsDecided, KycTypeOK
<1>3. EventsDecideOnce'
  BY <1>i DEF EventsDecideOnce, At
<1>4. LastStands'
  BY <1>i DEF LastStands
<1> QED
  BY <1>1, <1>2, <1>3, <1>4 DEF KycInv

\* A guarded decision: the round was undecided, the event has decided nothing.
LEMMA Concluded ==
    ASSUME KycInv, NEW by \in Events \cup {"admin", "SYSTEM"}, NEW status \in TERMINAL_KYC_STATUSES,
           Conclude(by, status), round' = round, processed' = processed,
           call' \in [Calls -> KycCall],
           \A d \in Calls : call'[d].pc = "webhook" => call'[d] = call[d] /\ call[d].event # by,
           by \in Events => by \in processed /\ \A i \in DOMAIN decisions : decisions[i].by # by
    PROVE  KycInv'
<1>i. KycTypeOK /\ RoundsDecided /\ EventsDecideOnce /\ LastStands
  BY DEF KycInv
<1>1. CASE ~NotTerminal
  <2>1. UNCHANGED <<kase, kycStatus, decisions>>
    BY <1>1 DEF Conclude
  <2>2. kase' \in CaseStatus /\ round' \in Nat /\ round' >= round /\ (NotTerminal' => NotTerminal)
    BY <1>i, <2>1 DEF KycTypeOK, NotTerminal
  <2> QED
    BY <2>1, <2>2, Undecided
<1>2. CASE NotTerminal
  <2> DEFINE d == [by |-> by, status |-> status, round |-> round]
             n == Len(decisions) + 1
  <2>1. /\ kase' = status /\ decisions' = Append(decisions, d)
        /\ kycStatus' = IF status = "APPROVED" THEN "approved" ELSE "rejected"
    BY <1>2 DEF Conclude
  <2>2. d \in Decision /\ d.by = by /\ d.status = status /\ d.round = round
    BY <1>i DEF Decision, KycTypeOK
  <2> HIDE DEF d
  <2>3. /\ decisions \in Seq(Decision) /\ round \in Nat
        /\ decisions' \in Seq(Decision) /\ Len(decisions') = n /\ decisions' # << >>
        /\ decisions'[n] = d /\ n \in Nat
        /\ \A i \in DOMAIN decisions' : \/ i = n
                                        \/ i \in DOMAIN decisions /\ decisions'[i] = decisions[i] /\ i # n
    <3>1. decisions \in Seq(Decision) /\ round \in Nat
      BY <1>i DEF KycTypeOK
    <3>2. /\ DOMAIN decisions = 1..Len(decisions) /\ Len(decisions) \in Nat
          /\ decisions' \in Seq(Decision) /\ Len(decisions') = n
          /\ DOMAIN decisions' = 1..n /\ decisions'[n] = d
          /\ \A i \in DOMAIN decisions : decisions'[i] = decisions[i]
      BY <2>1, <2>2, <3>1, Lengthened
    <3>3. n \in Nat /\ n # 0 /\ \A i \in 1..n : i = n \/ (i \in 1..Len(decisions) /\ i # n)
      BY <3>2, LastOrBefore, Zenon
    <3>4. decisions' # << >>
      BY <3>2, <3>3
    <3>5. ASSUME NEW i \in DOMAIN decisions', i # n
          PROVE  i \in DOMAIN decisions /\ decisions'[i] = decisions[i]
      BY <3>2, <3>3, <3>5, Zenon
    <3> HIDE DEF n
    <3>6. \A i \in DOMAIN decisions' : \/ i = n
                                       \/ i \in DOMAIN decisions /\ decisions'[i] = decisions[i] /\ i # n
      BY <3>5
    <3> QED
      BY <3>1, <3>2, <3>3, <3>4, <3>6
  <2> HIDE DEF n
  <2>4. KycTypeOK'
    BY <1>i, <2>1, <2>3 DEF KycTypeOK, CaseStatus
  <2>5. \A i \in DOMAIN decisions : decisions[i].round < round /\ decisions[i].round \in Nat
    BY <1>2, <1>i, <2>3, DecisionsTyped DEF RoundsDecided
  <2>6. RoundsDecided'
    <3>1. ~NotTerminal'
      BY <2>1 DEF NotTerminal
    <3>2. \A i \in DOMAIN decisions' : decisions'[i].round <= round'
      BY <2>2, <2>3, <2>5
    <3>3. \A i, j \in DOMAIN decisions' : i # j => decisions'[i].round # decisions'[j].round
      <4> SUFFICES ASSUME NEW i \in DOMAIN decisions', NEW j \in DOMAIN decisions', i # j
                   PROVE  decisions'[i].round # decisions'[j].round
        OBVIOUS
      <4>1. CASE i = n
        BY <2>2, <2>3, <2>5, <4>1
      <4>2. CASE j = n
        BY <2>2, <2>3, <2>5, <4>2
      <4>3. CASE i # n /\ j # n
        BY <1>i, <2>3, <4>3 DEF RoundsDecided
      <4> QED
        BY <4>1, <4>2, <4>3
    <3> QED
      BY <3>1, <3>2, <3>3 DEF RoundsDecided
  <2>7. EventsDecideOnce'
    <3>1. \A i \in DOMAIN decisions' : decisions'[i].by \in Events => decisions'[i].by \in processed'
      BY <1>i, <2>2, <2>3 DEF EventsDecideOnce
    <3>2. ASSUME NEW i \in DOMAIN decisions', NEW j \in DOMAIN decisions', i # j,
                 decisions'[i].by \in Events
          PROVE  decisions'[i].by # decisions'[j].by
      <4>1. CASE i = n
        BY <2>2, <2>3, <3>2, <4>1
      <4>2. CASE j = n
        BY <2>2, <2>3, <3>2, <4>2
      <4>3. CASE i # n /\ j # n
        BY <1>i, <2>3, <3>2, <4>3 DEF EventsDecideOnce
      <4> QED
        BY <4>1, <4>2, <4>3
    <3>3. ASSUME NEW c \in Calls, call'[c].pc = "webhook"
          PROVE  /\ call'[c].event \in processed'
                 /\ \A i \in DOMAIN decisions' : decisions'[i].by # call'[c].event
                 /\ \A e \in Calls \ {c} : call'[e].pc = "webhook" => call'[e].event # call'[c].event
      <4>1. call'[c] = call[c] /\ call[c].event # by
        BY <3>3
      <4>2. /\ call[c].event \in processed /\ \A i \in DOMAIN decisions : decisions[i].by # call[c].event
            /\ \A e \in Calls \ {c} : call[e].pc = "webhook" => call[e].event # call[c].event
        BY <1>i, <3>3, <4>1 DEF EventsDecideOnce, At
      <4> QED
        BY <2>2, <2>3, <4>1, <4>2
    <3> QED
      BY <3>1, <3>2, <3>3 DEF EventsDecideOnce, At
  <2>8. LastStands'
    BY <2>1, <2>2, <2>3 DEF LastStands
  <2> QED
    BY <2>4, <2>6, <2>7, <2>8 DEF KycInv
<1> QED
  BY <1>1, <1>2

LEMMA KycStep == KycInv /\ [KycNext]_kycVars => KycInv'
<1> SUFFICES ASSUME KycInv, [KycNext]_kycVars PROVE KycInv'
  OBVIOUS
<1>i. KycTypeOK /\ RoundsDecided /\ EventsDecideOnce /\ LastStands
  BY DEF KycInv
<1>h. ASSUME NEW c \in Calls PROVE call[c] \in KycCall
  BY <1>i DEF KycTypeOK
<1>n. NoCall \in KycCall /\ NoCall.pc = "idle"
  BY DEF KycCall, NoCall
<1>s. /\ kase \in CaseStatus /\ round \in Nat /\ round >= round
      /\ UNCHANGED <<kase, round>> => kase' \in CaseStatus /\ round' \in Nat /\ round' >= round
                                       /\ (NotTerminal' => NotTerminal)
  BY <1>i DEF KycTypeOK, NotTerminal
\* The step of a call that is not at an event, and does not decide.
<1>c. ASSUME NEW c \in Calls, NEW new \in KycCall, Continue(c, new), new.pc # "webhook",
             kase' \in CaseStatus, round' \in Nat, round' >= round,
             NotTerminal' => NotTerminal \/ round' > round,
             UNCHANGED <<kycStatus, decisions, processed>>
      PROVE  KycInv'
  <2>1. /\ call' \in [Calls -> KycCall]
        /\ \A d \in Calls : call'[d] = IF d = c THEN new ELSE call[d]
    BY <1>c, <1>i DEF Continue, KycTypeOK
  <2>2. \A d \in Calls : call'[d].pc = "webhook" => call'[d] = call[d]
    BY <1>c, <2>1
  <2> QED
    BY <1>c, <2>1, <2>2, Undecided
<1>1. ASSUME NEW c \in Calls, NEW key \in Keys, Upload(c, key) PROVE KycInv'
  <2> DEFINE new == [pc |-> IF kase = "none" THEN "create" ELSE "assess", key |-> key]
  <2>1. Continue(c, new) /\ UNCHANGED <<kase, round, kycStatus, decisions, processed>>
    BY <1>1 DEF Upload
  <2>2. new \in KycCall /\ new.pc # "webhook"
    BY DEF KycCall
  <2> HIDE DEF new
  <2> QED
    BY <1>c, <1>s, <2>1, <2>2
<1>2. ASSUME NEW c \in Calls, AskToken(c) PROVE KycInv'
  <2> DEFINE new == [pc |-> IF kase = "none" THEN "create" ELSE "link", key |-> "TOKEN"]
  <2>1. Continue(c, new) /\ UNCHANGED <<kase, round, kycStatus, decisions, processed>>
    BY <1>2 DEF AskToken
  <2>2. new \in KycCall /\ new.pc # "webhook"
    BY DEF KycCall
  <2> HIDE DEF new
  <2> QED
    BY <1>c, <1>s, <2>1, <2>2
<1>3. ASSUME NEW c \in Calls, CreateCase(c) PROVE KycInv'
  <2>1. /\ call[c].pc = "create"
        /\ UNCHANGED <<round, kycStatus, decisions, processed>>
        /\ \/ /\ kase = "none" /\ kase' = "SUBMITTED"
              /\ \E pc \in {"link", "assess"} : Continue(c, [call[c] EXCEPT !.pc = pc])
           \/ kase' = kase /\ Continue(c, NoCall)
    BY <1>3 DEF CreateCase, At
  <2>2. CASE kase' = kase /\ Continue(c, NoCall)
    BY <1>c, <1>n, <1>s, <2>1, <2>2
  <2>3. ASSUME kase = "none", kase' = "SUBMITTED", NEW pc \in {"link", "assess"},
               Continue(c, [call[c] EXCEPT !.pc = pc])
        PROVE  KycInv'
    <3>1. kase' \in CaseStatus /\ NotTerminal
      BY <2>3 DEF CaseStatus, NotTerminal, TERMINAL_KYC_STATUSES
    <3> QED
      BY <1>c, <1>h, <1>s, <2>1, <2>3, <3>1, CallTyped
  <2> QED
    BY <2>1, <2>2, <2>3
<1>4. ASSUME NEW c \in Calls, LinkApplicant(c) PROVE KycInv'
  BY <1>c, <1>n, <1>s, <1>4 DEF LinkApplicant
<1>5. ASSUME NEW c \in Calls, Assess(c) PROVE KycInv'
  <2> DEFINE pc == IF call[c].key = "EXPIRED_PASSPORT" THEN "reject" ELSE "store"
             new == [call[c] EXCEPT !.pc = pc]
  <2>1. /\ call[c].pc = "assess" /\ Continue(c, new) /\ UNCHANGED <<kycStatus, decisions, processed>>
        /\ (\E status \in {"REJECTED", "DOCUMENT_CHECK"} : Overwrite(status)) \/ UNCHANGED <<kase, round>>
    BY <1>5 DEF Assess, At
  <2>2. kase' \in CaseStatus /\ round' \in Nat /\ round' >= round
        /\ (NotTerminal' => NotTerminal \/ round' > round)
    <3>1. \A status \in {"REJECTED", "DOCUMENT_CHECK"} : status \in CaseStatus
      BY DEF CaseStatus, TERMINAL_KYC_STATUSES
    <3> QED
      BY <1>i, <1>s, <2>1, <3>1, Overwritten
  <2>3. new \in KycCall /\ new.pc # "webhook"
    BY <1>h, <2>1, CallTyped
  <2> HIDE DEF new
  <2> QED
    BY <1>c, <2>1, <2>2, <2>3
<1>6. ASSUME NEW c \in Calls, RejectUpload(c) PROVE KycInv'
  <2> DEFINE new == [call[c] EXCEPT !.pc = "store"]
  <2>1. /\ call[c].pc = "reject" /\ Conclude("SYSTEM", "REJECTED") /\ Continue(c, new)
        /\ UNCHANGED <<round, processed>>
    BY <1>6 DEF RejectUpload, At
  <2>2. new \in KycCall /\ new.pc = "store"
    BY <1>h, <2>1, CallTyped
  <2> HIDE DEF new
  <2>3. /\ call' \in [Calls -> KycCall]
        /\ \A d \in Calls : call'[d] = IF d = c THEN new ELSE call[d]
    BY <1>i, <2>1, <2>2 DEF Continue, KycTypeOK
  <2>4. "SYSTEM" \notin Events /\ "REJECTED" \in TERMINAL_KYC_STATUSES
    BY KycAssumption DEF TERMINAL_KYC_STATUSES
  <2>5. \A d \in Calls : call'[d].pc = "webhook" => call'[d] = call[d] /\ call[d].event # "SYSTEM"
    <3>1. \A d \in Calls : call[d].pc = "webhook" => call[d].event # "SYSTEM"
      BY <1>h, <2>4, CallTyped
    <3> QED
      BY <2>2, <2>3, <3>1
  <2> QED
    BY <2>1, <2>3, <2>4, <2>5, Concluded
<1>7. ASSUME NEW c \in Calls, StoreDocument(c) PROVE KycInv'
  <2> DEFINE new == [call[c] EXCEPT !.pc = "count"]
  <2>1. /\ call[c].pc = "store" /\ Continue(c, new)
        /\ UNCHANGED <<kase, round, kycStatus, decisions, processed>>
    BY <1>7 DEF StoreDocument, At
  <2>2. new \in KycCall /\ new.pc # "webhook"
    BY <1>h, <2>1, CallTyped
  <2> HIDE DEF new
  <2> QED
    BY <1>c, <1>s, <2>1, <2>2
<1>8. ASSUME NEW c \in Calls, CountDocuments(c) PROVE KycInv'
  <2> DEFINE new == [pc |-> "advance", status |-> NextStatus]
  <2>1. Continue(c, new) /\ UNCHANGED <<kase, round, kycStatus, decisions, processed>>
    BY <1>8 DEF CountDocuments
  <2>2. NextStatus \in CaseStatus
    BY DEF NextStatus, CaseStatus
  <2>3. new \in KycCall /\ new.pc # "webhook"
    BY <2>2 DEF KycCall
  <2> HIDE DEF new
  <2> QED
    BY <1>c, <1>s, <2>1, <2>3
<1>9. ASSUME NEW c \in Calls, Advance(c) PROVE KycInv'
  <2>1. /\ call[c].pc = "advance" /\ Overwrite(call[c].status) /\ Continue(c, NoCall)
        /\ UNCHANGED <<kycStatus, decisions, processed>>
    BY <1>9 DEF Advance, At
  <2>2. call[c].status \in CaseStatus
    BY <1>h, <2>1, CallTyped
  <2>3. kase' \in CaseStatus /\ round' \in Nat /\ round' >= round
        /\ (NotTerminal' => NotTerminal \/ round' > round)
    BY <1>i, <2>1, <2>2, Overwritten
  <2> QED
    BY <1>c, <1>n, <2>1, <2>3
<1>10. ASSUME NEW c \in Calls, NEW e \in Events, RecordEvent(c, e) PROVE KycInv'
  <2> DEFINE new == [pc |-> "webhook", event |-> e]
  <2>1. /\ e \notin processed /\ processed' = processed \cup {e} /\ Continue(c, new)
        /\ UNCHANGED <<kase, round, kycStatus, decisions>>
    BY <1>10 DEF RecordEvent, Replayed
  <2>2. new \in KycCall /\ new.pc = "webhook" /\ new.event = e
    BY DEF KycCall
  <2> HIDE DEF new
  <2>3. /\ call' \in [Calls -> KycCall]
        /\ \A d \in Calls : call'[d] = IF d = c THEN new ELSE call[d]
    BY <1>i, <2>1, <2>2 DEF Continue, KycTypeOK
  <2>4. KycTypeOK' /\ RoundsDecided' /\ LastStands'
    BY <1>i, <2>1, <2>3 DEF KycTypeOK, RoundsDecided, LastStands, NotTerminal
  <2>5. /\ \A i \in DOMAIN decisions : decisions[i].by # e
        /\ \A d \in Calls : call[d].pc = "webhook" => call[d].event # e
    BY <1>i, <2>1 DEF EventsDecideOnce, At
  <2>6. ASSUME NEW d \in Calls, call'[d].pc = "webhook"
        PROVE  /\ call'[d].event \in processed'
               /\ \A i \in DOMAIN decisions' : decisions'[i].by # call'[d].event
               /\ \A g \in Calls \ {d} : call'[g].pc = "webhook" => call'[g].event # call'[d].event
    <3>1. CASE d = c
      BY <2>1, <2>2, <2>3, <2>5, <3>1
    <3>2. CASE d # c
      <4>1. /\ call'[d] = call[d] /\ call[d].event \in processed /\ call[d].event # e
            /\ \A i \in DOMAIN decisions : decisions[i].by # call[d].event
            /\ \A g \in Calls \ {d} : call[g].pc = "webhook" => call[g].event # call[d].event
        BY <1>i, <2>3, <2>5, <2>6, <3>2 DEF EventsDecideOnce, At
      <4> QED
        BY <2>1, <2>2, <2>3, <4>1
    <3> QED
      BY <3>1, <3>2
  <2>7. EventsDecideOnce'
    BY <1>i, <2>1, <2>6 DEF EventsDecideOnce, At
  <2> QED
    BY <2>4, <2>7 DEF KycInv
<1>11. ASSUME NEW c \in Calls, ApplyEvent(c) PROVE KycInv'
  <2> DEFINE e == call[c].event
  <2>1. /\ call[c].pc = "webhook" /\ Continue(c, NoCall) /\ UNCHANGED <<round, processed>>
        /\ \/ UNCHANGED <<kase, kycStatus, decisions>>
           \/ Reviews[e] \in Answers /\ Conclude(e, MapReviewToStatus(e))
           \/ /\ kase' = IF NotTerminal THEN MapReviewToStatus(e) ELSE kase
              /\ Reviews[e] \notin Answers /\ UNCHANGED <<kycStatus, decisions>>
    BY <1>11 DEF ApplyEvent, At
  <2>2. e \in Events /\ e \in processed /\ \A i \in DOMAIN decisions : decisions[i].by # e
    BY <1>h, <1>i, <2>1, CallTyped DEF EventsDecideOnce, At
  <2>3. CASE UNCHANGED <<kase, kycStatus, decisions>>
    BY <1>c, <1>n, <1>s, <2>1, <2>3
  <2>4. CASE Reviews[e] \in Answers /\ Conclude(e, MapReviewToStatus(e))
    <3>1. MapReviewToStatus(e) \in TERMINAL_KYC_STATUSES
      BY <2>4 DEF MapReviewToStatus, Answers, TERMINAL_KYC_STATUSES
    <3>2. /\ call' \in [Calls -> KycCall]
          /\ \A d \in Calls : call'[d] = IF d = c THEN NoCall ELSE call[d]
      BY <1>i, <1>n, <2>1 DEF Continue, KycTypeOK
    <3>3. \A d \in Calls : call'[d].pc = "webhook" => call'[d] = call[d] /\ call[d].event # e
      BY <1>i, <1>n, <2>1, <3>2 DEF EventsDecideOnce, At
    <3> HIDE DEF e
    <3> QED
      BY <2>1, <2>2, <2>4, <3>1, <3>2, <3>3, Concluded
  <2>5. CASE /\ kase' = IF NotTerminal THEN MapReviewToStatus(e) ELSE kase
             /\ Reviews[e] \notin Answers /\ UNCHANGED <<kycStatus, decisions>>
    <3>1. MapReviewToStatus(e) \in {"MANUAL_REVIEW", "DOCUMENT_CHECK"}
      BY <2>5 DEF MapReviewToStatus, Answers
    <3>2. kase' \in CaseStatus /\ (NotTerminal' => NotTerminal)
      BY <1>s, <2>5, <3>1 DEF CaseStatus, NotTerminal
    <3>3. round' \in Nat /\ round' >= round
      BY <1>s, <2>1
    <3> QED
      BY <1>c, <1>n, <2>1, <2>5, <3>2, <3>3
  <2> QED
    BY <2>1, <2>3, <2>4, <2>5
<1>12. ASSUME NEW c \in Calls, Fail(c) PROVE KycInv'
  BY <1>c, <1>n, <1>s, <1>12 DEF Fail
<1>13. ASSUME NEW status \in TERMINAL_KYC_STATUSES, Review("admin", status) PROVE KycInv'
  <2>1. Conclude("admin", status) /\ UNCHANGED <<round, processed, call>>
    BY <1>13 DEF Review
  <2>2. "admin" \notin Events
    BY KycAssumption
  <2>3. \A d \in Calls : call[d].pc = "webhook" => call[d].event # "admin"
    BY <1>h, <2>2, CallTyped
  <2>4. call \in [Calls -> KycCall]
    BY <1>i DEF KycTypeOK
  <2> QED
    BY <2>1, <2>2, <2>3, <2>4, Concluded
<1>14. ASSUME RequestMoreDocuments PROVE KycInv'
  <2>1. Overwrite("SUBMITTED") /\ UNCHANGED <<kycStatus, processed, decisions, call>>
    BY <1>14 DEF RequestMoreDocuments
  <2>2. "SUBMITTED" \in CaseStatus /\ call \in [Calls -> KycCall]
    BY <1>i DEF CaseStatus, KycTypeOK
  <2>3. kase' \in CaseStatus /\ round' \in Nat /\ round' >= round
        /\ (NotTerminal' => NotTerminal \/ round' > round)
    BY <1>i, <2>1, <2>2, Overwritten
  <2> QED
    BY <2>1, <2>2, <2>3, Undecided
<1>15. CASE UNCHANGED kycVars
  <2>1. UNCHANGED <<kase, round, kycStatus, processed, decisions, call>>
    BY <1>15 DEF kycVars
  <2>2. call \in [Calls -> KycCall]
    BY <1>i DEF KycTypeOK
  <2> QED
    BY <1>s, <2>1, <2>2, Undecided
<1> QED
  BY <1>1, <1>2, <1>3, <1>4, <1>5, <1>6, <1>7, <1>8, <1>9, <1>10, <1>11, <1>12, <1>13, <1>14,
     <1>15 DEF KycNext

\* However uploads, administrators and webhooks of a case cross, the user is what
\* the last decision made them and no round and no event decides twice; and a
\* document that is served was found clean, while the row and the store agree once
\* nobody is at them (kyc-service/kyc.service.ts, document-storage/).
THEOREM CustomerFilesAreSound == Spec => []CustomerFilesSound
<1>1. KycInv /\ DocInv => CustomerFilesSound
  <2> SUFFICES ASSUME KycInv, DocInv PROVE CustomerFilesSound
    OBVIOUS
  <2>1. DecisionsStand
    BY DEF KycInv, RoundsDecided, EventsDecideOnce, LastStands, DecisionsStand
  <2>2. DocumentsSound
    BY DocumentsFollow
  <2> QED
    BY <2>1, <2>2 DEF CustomerFilesSound
<1>2. Init => KycInv /\ DocInv
  BY PartInit, KycInitially, DocInitially
<1>3. KycInv /\ DocInv /\ [Next]_vars => KycInv' /\ DocInv'
  BY PartStep, KycStep, DocStep
<1> QED
  BY <1>1, <1>2, <1>3, PTL DEF Spec
=============================================================================
