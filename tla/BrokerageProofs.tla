--------------------------- MODULE BrokerageProofs ---------------------------
(***************************************************************************)
(* Proofs about what the brokerage does beside the execution of orders:    *)
(* managed stops, signals and what is learned from them, market data, the  *)
(* end of the day, exposure, and the state the broker keeps of itself.  As *)
(* in PlatformProofs each component is proved by itself and PartStep       *)
(* carries the result to MCBrokerage.                                      *)
(***************************************************************************)
EXTENDS MCBrokerage, FiniteSetTheorems, FiniteSums, TLAPS

LEMMA PartInit ==
    Init => /\ EodInit /\ StopsInit /\ SignalInit /\ FeedsInit /\ SocketsInit
            /\ StateInit /\ ExposureInit /\ SandboxInit /\ PricingInit /\ PaperInit
  BY DEF Init

LEMMA PartStep ==
    ASSUME [Next]_vars
    PROVE  /\ [EodNext]_eodVars /\ [StopsNext]_stopVars /\ [SignalNext]_signalVars
           /\ [FeedsNext]_feedVars /\ [SocketsNext]_socketVars /\ [StateNext]_stateVars
           /\ [ExposureNext]_exposureVars /\ [SandboxNext]_sandboxVars
           /\ [PricingNext]_pricingVars /\ [PaperNext]_paperVars
  BY DEF Next, vars, BesideEod, BesideStops, BesideSignal, BesideFeeds, BesideDial, BesideState,
         BesideExposure, BesideSandbox, BesideQuotes, BesidePaper
---------------------------------------------------------------------------
(* The stops of a managed position.                                        *)

Pass == [pc : {"none", "exits", "breakEven", "trailing", "tell", "loaded"}, pnl : Int, live : Int,
         applied : BOOLEAN, at : Int, next : {"none", "trailing"}, got : Int]
Edit == [pc : {"none", "checked"}, level : Int]

\* What the pass has read of the row is what is in it, unless the owner has
\* moved the stop since; and so is what the monitor is about to take over.
PassIsCurrent == pass.pc # "none" /\ ~raced => pass.live = stop
ReadIsCurrent == pass.pc = "loaded" /\ ~unheard => pass.got = stop
WatchIsCurrent == pass.pc # "loaded" /\ ~unheard => armed = stop

StopsInv ==
    /\ price \in Int /\ pnl \in Int /\ stop \in Int /\ armed \in Int
    /\ breakEvenApplied \in BOOLEAN /\ raced \in BOOLEAN
    /\ pass \in Pass /\ edit \in Edit
    /\ PassIsCurrent /\ ReadIsCurrent /\ WatchIsCurrent
    /\ OnlyTightensUnlessRaced

LEMMA NoPassTyped == NoPass \in Pass /\ NoPass.pc = "none"
<1>1. 0 \in Int
  OBVIOUS
<1> QED
  BY <1>1, Zenon DEF NoPass, Pass

LEMMA PassBegun ==
    ASSUME NEW seenPnl \in Int, NEW live \in Int, NEW applied \in BOOLEAN
    PROVE  [pc |-> "exits", pnl |-> seenPnl, live |-> live, applied |-> applied, at |-> 0,
            next |-> "none", got |-> 0] \in Pass
<1>1. 0 \in Int
  OBVIOUS
<1> QED
  BY <1>1, Zenon DEF Pass

LEMMA StopsInitially == StopsInit => StopsInv
<1> SUFFICES ASSUME StopsInit PROVE StopsInv
  OBVIOUS
<1>1. NoEdit \in Edit
  BY DEF NoEdit, Edit
<1>2. /\ price = 0 /\ pnl = 0 /\ stop = -4 /\ armed = -4
      /\ breakEvenApplied = FALSE /\ raced = FALSE /\ loosened = FALSE
      /\ pass = NoPass /\ edit = NoEdit
  BY DEF StopsInit, InitialStop
<1>3. /\ price \in Int /\ pnl \in Int /\ stop \in Int /\ armed \in Int
      /\ pass \in Pass /\ edit \in Edit /\ armed = stop /\ pass.pc = "none"
  BY <1>1, <1>2, NoPassTyped
<1>4. breakEvenApplied \in BOOLEAN /\ raced \in BOOLEAN /\ ~loosened
  BY <1>2
<1> QED
  BY <1>3, <1>4
     DEF StopsInv, PassIsCurrent, ReadIsCurrent, WatchIsCurrent, OnlyTightensUnlessRaced

LEMMA PassTyped ==
    ASSUME pass \in Pass
    PROVE  /\ pass.pc \in {"none", "exits", "breakEven", "trailing", "tell", "loaded"}
           /\ pass.pnl \in Int /\ pass.live \in Int /\ pass.at \in Int /\ pass.got \in Int
           /\ pass.next \in {"none", "trailing"}
  BY DEF Pass

\* The steps a pass may take.
LEMMA WentOn ==
    ASSUME pass \in Pass, NEW next \in {"none", "trailing"}
    PROVE  /\ GoOn(next) \in Pass /\ GoOn(next).pc = next
           /\ next # "none" => GoOn(next).live = pass.live
<1>1. CASE next = "none"
  BY <1>1, NoPassTyped DEF GoOn
<1>2. CASE next = "trailing"
  <2>1. GoOn(next) = [pass EXCEPT !.pc = "trailing"]
    BY <1>2 DEF GoOn
  <2>2. [pass EXCEPT !.pc = "trailing"] \in Pass
    BY Zenon DEF Pass
  <2>3. [pass EXCEPT !.pc = "trailing"].pc = "trailing" /\ [pass EXCEPT !.pc = "trailing"].live = pass.live
    BY DEF Pass
  <2> QED
    BY <1>2, <2>1, <2>2, <2>3
<1> QED
  BY <1>1, <1>2

LEMMA LookedAt ==
    ASSUME pass \in Pass, NEW at \in Int
    PROVE  \E p \in Pass : /\ p = [pass EXCEPT !.pc = "breakEven", !.at = at]
                           /\ p.pc = "breakEven" /\ p.live = pass.live
<1>1. [pass EXCEPT !.pc = "breakEven", !.at = at] \in Pass
  BY Zenon DEF Pass
<1> QED
  BY <1>1, Zenon DEF Pass

LEMMA HasRead ==
    ASSUME pass \in Pass, NEW level \in Int
    PROVE  \E p \in Pass : /\ p = [pass EXCEPT !.pc = "loaded", !.got = level]
                           /\ p.pc = "loaded" /\ p.got = level /\ p.live = pass.live
<1>1. [pass EXCEPT !.pc = "loaded", !.got = level] \in Pass
  BY Zenon DEF Pass
<1> QED
  BY <1>1, Zenon DEF Pass

\* updateSLTP() on behalf of the pass: a level it improves on only lowers the stop
\* when the owner has moved it meanwhile.
LEMMA UpdatedStop ==
    ASSUME StopsInv, NEW level \in Int, NEW next \in {"none", "trailing"},
           pass.pc \in {"breakEven", "trailing"}, level > pass.live,
           UpdateStop(level, next), breakEvenApplied' \in BOOLEAN,
           UNCHANGED <<price, pnl, edit, armed, raced>>
    PROVE  StopsInv'
<1>1. CASE Valid(level)
  <2>1. PICK p \in Pass : /\ p = [pass EXCEPT !.pc = "tell", !.next = next, !.live = level]
                          /\ p.pc = "tell" /\ p.live = level
    <3>1. pass \in Pass
      BY DEF StopsInv
    <3>2. [pass EXCEPT !.pc = "tell", !.next = next, !.live = level] \in Pass
      BY <3>1, Zenon DEF Pass
    <3> QED
      BY <3>1, <3>2, Zenon DEF Pass
  <2>2. pass' = p
    BY <1>1, <2>1 DEF UpdateStop
  <2>3. stop' = level /\ unheard' = TRUE /\ (loosened' <=> (loosened \/ (level < stop /\ ~raced)))
    BY <1>1 DEF UpdateStop
  <2>4. level < stop => raced
    BY PassTyped DEF StopsInv, PassIsCurrent
  <2> QED
    BY <2>1, <2>2, <2>3, <2>4
       DEF StopsInv, PassIsCurrent, ReadIsCurrent, WatchIsCurrent, OnlyTightensUnlessRaced
<1>2. CASE ~Valid(level)
  <2>1. PICK p \in Pass : /\ p = GoOn(next) /\ p.pc = next
                          /\ next # "none" => p.live = pass.live
    BY WentOn DEF StopsInv
  <2>2. pass' = p
    BY <1>2, <2>1 DEF UpdateStop
  <2>3. stop' = stop /\ (unheard' <=> unheard) /\ (loosened' <=> loosened)
    BY <1>2 DEF UpdateStop
  <2> QED
    BY <2>1, <2>2, <2>3
       DEF StopsInv, PassIsCurrent, ReadIsCurrent, WatchIsCurrent, OnlyTightensUnlessRaced
<1> QED
  BY <1>1, <1>2

LEMMA StopsStep == StopsInv /\ [StopsNext]_stopVars => StopsInv'
<1> SUFFICES ASSUME StopsInv, [StopsNext]_stopVars PROVE StopsInv'
  OBVIOUS
<1> USE DEF row, world, watch
<1>p. /\ pass.pc \in {"none", "exits", "breakEven", "trailing", "tell", "loaded"}
      /\ pass.pnl \in Int /\ pass.live \in Int /\ pass.at \in Int /\ pass.got \in Int
      /\ pass.next \in {"none", "trailing"}
  BY PassTyped DEF StopsInv
<1>g. \A next \in {"none", "trailing"} :
        /\ GoOn(next) \in Pass /\ GoOn(next).pc = next
        /\ next # "none" => GoOn(next).live = pass.live
  BY WentOn DEF StopsInv
<1>1. CASE MarketMoves \/ FlushPnl \/ Age \/ MonitorFires \/ ClosedElsewhere
  <2>1. price' \in Int /\ pnl' \in Int
    BY <1>1, StopsAssumption DEF StopsInv, MarketMoves, FlushPnl, Age, MonitorFires, ClosedElsewhere
  <2>2. UNCHANGED <<stop, breakEvenApplied, armed, unheard, edit, pass, raced, loosened>>
    BY <1>1 DEF MarketMoves, FlushPnl, Age, MonitorFires, ClosedElsewhere
  <2> QED
    BY <2>1, <2>2
       DEF StopsInv, PassIsCurrent, ReadIsCurrent, WatchIsCurrent, OnlyTightensUnlessRaced
<1>2. ASSUME NEW level \in OwnStops, OwnerChecks(level) PROVE StopsInv'
  <2>1. edit' \in Edit
    BY <1>2, StopsAssumption DEF OwnerChecks, Edit
  <2>2. UNCHANGED <<price, pnl, stop, breakEvenApplied, armed, unheard, pass, raced, loosened>>
    BY <1>2 DEF OwnerChecks
  <2> QED
    BY <2>1, <2>2
       DEF StopsInv, PassIsCurrent, ReadIsCurrent, WatchIsCurrent, OnlyTightensUnlessRaced
<1>3. CASE OwnerWrites
  <2>1. edit' \in Edit /\ stop' \in Int
    BY <1>3 DEF OwnerWrites, NoEdit, Edit, StopsInv
  <2>2. unheard' = TRUE /\ (raced' <=> pass.pc # "none") /\ raced' \in BOOLEAN
    BY <1>3 DEF OwnerWrites
  <2>3. UNCHANGED <<price, pnl, breakEvenApplied, armed, pass, loosened>>
    BY <1>3 DEF OwnerWrites
  <2> QED
    BY <2>1, <2>2, <2>3
       DEF StopsInv, PassIsCurrent, ReadIsCurrent, WatchIsCurrent, OnlyTightensUnlessRaced
<1>4. CASE StartPass
  <2>1. PICK p \in Pass : p = [pc |-> "exits", pnl |-> pnl, live |-> stop,
                               applied |-> breakEvenApplied, at |-> 0, next |-> "none", got |-> 0]
    BY PassBegun DEF StopsInv
  <2>2. pass' = p /\ p.pc = "exits" /\ p.live = stop /\ raced' = FALSE /\ pass.pc = "none"
    BY <1>4, <2>1, NoPassTyped DEF StartPass
  <2>3. UNCHANGED <<price, pnl, stop, breakEvenApplied, armed, unheard, edit, loosened>>
    BY <1>4 DEF StartPass
  <2> QED
    BY <2>2, <2>3
       DEF StopsInv, PassIsCurrent, ReadIsCurrent, WatchIsCurrent, OnlyTightensUnlessRaced
<1>5. CASE Exits
  <2>1. PICK q \in Pass : /\ q = [pass EXCEPT !.pc = "breakEven", !.at = price]
                          /\ q.pc = "breakEven" /\ q.live = pass.live
    BY LookedAt DEF StopsInv
  <2>2. PICK p \in Pass : /\ pass' = p /\ p.pc \in {"none", "breakEven"}
                          /\ p.pc # "none" => p.live = pass.live
    BY <1>5, <2>1, NoPassTyped DEF Exits
  <2>3. /\ pass.pc = "exits"
        /\ UNCHANGED <<price, pnl, stop, breakEvenApplied, armed, unheard, edit, raced, loosened>>
    BY <1>5 DEF Exits
  <2> QED
    BY <2>1, <2>2, <2>3
       DEF StopsInv, PassIsCurrent, ReadIsCurrent, WatchIsCurrent, OnlyTightensUnlessRaced
<1>6. CASE BreakEven
  <2>1. /\ pass.pc = "breakEven"
        /\ UNCHANGED <<price, pnl, armed, edit, raced>>
    BY <1>6 DEF BreakEven
  <2>2. CASE UpdateStop(Buffer, "trailing") /\ Improves(Buffer, pass.live)
             /\ (breakEvenApplied' <=> (breakEvenApplied \/ Valid(Buffer)))
             /\ breakEvenApplied' \in BOOLEAN
    <3>1. Buffer \in Int /\ Buffer > pass.live
      BY <1>p, <2>2 DEF Buffer, Improves
    <3> QED
      BY <2>1, <2>2, <3>1, UpdatedStop
  <2>3. CASE /\ pass' \in {NoPass, GoOn("trailing")}
             /\ UNCHANGED <<stop, breakEvenApplied, unheard, loosened>>
    <3>1. PICK p \in Pass : pass' = p /\ p.pc \in {"none", "trailing"}
                            /\ (p.pc # "none" => p.live = pass.live)
      BY <1>g, <2>3, NoPassTyped
    <3> QED
      BY <2>1, <2>3, <3>1
         DEF StopsInv, PassIsCurrent, ReadIsCurrent, WatchIsCurrent, OnlyTightensUnlessRaced
  <2> QED
    BY <1>6, <2>2, <2>3 DEF BreakEven
<1>7. CASE Trailing
  <2>1. /\ pass.pc = "trailing"
        /\ UNCHANGED <<price, pnl, breakEvenApplied, armed, edit, raced>>
    BY <1>7 DEF Trailing
  <2>2. CASE UpdateStop(pass.at - atrTrail, "none") /\ Improves(pass.at - atrTrail, pass.live)
    <3>1. PICK level \in Int : level = pass.at - atrTrail
      BY <1>p, StopsAssumption
    <3>2. level > pass.live /\ UpdateStop(level, "none") /\ breakEvenApplied' \in BOOLEAN
      BY <1>p, <2>1, <2>2, <3>1 DEF Improves, StopsInv
    <3> QED
      BY <2>1, <3>2, UpdatedStop
  <2>3. CASE pass' = NoPass /\ UNCHANGED <<stop, unheard, loosened>>
    <3>1. PICK p \in Pass : pass' = p /\ p.pc = "none"
      BY <1>g, <2>3, NoPassTyped
    <3> QED
      BY <2>1, <2>3, <3>1
         DEF StopsInv, PassIsCurrent, ReadIsCurrent, WatchIsCurrent, OnlyTightensUnlessRaced
  <2> QED
    BY <1>7, <2>2, <2>3 DEF Trailing
<1>8. CASE MonitorReads
  <2>1. /\ pass.pc = "tell"
        /\ UNCHANGED <<price, pnl, stop, breakEvenApplied, armed, edit, raced, loosened>>
    BY <1>8 DEF MonitorReads
  <2>2. CASE pass' = [pass EXCEPT !.pc = "loaded", !.got = stop] /\ unheard' = FALSE
    <3>1. PICK p \in Pass : pass' = p /\ p.pc = "loaded" /\ p.got = stop /\ p.live = pass.live
      BY <2>2, HasRead DEF StopsInv
    <3> QED
      BY <2>1, <2>2, <3>1
         DEF StopsInv, PassIsCurrent, ReadIsCurrent, WatchIsCurrent, OnlyTightensUnlessRaced
  <2>3. CASE pass' = GoOn(pass.next) /\ UNCHANGED unheard
    <3>1. PICK p \in Pass : pass' = p /\ p.pc \in {"none", "trailing"}
                            /\ (p.pc # "none" => p.live = pass.live)
      BY <1>g, <1>p, <2>3
    <3> QED
      BY <2>1, <2>3, <3>1
         DEF StopsInv, PassIsCurrent, ReadIsCurrent, WatchIsCurrent, OnlyTightensUnlessRaced
  <2> QED
    BY <1>8, <2>2, <2>3 DEF MonitorReads
<1>9. CASE MonitorTakes
  <2>1. /\ pass.pc = "loaded" /\ armed' = pass.got
        /\ UNCHANGED <<price, pnl, stop, breakEvenApplied, unheard, edit, raced, loosened>>
    BY <1>9 DEF MonitorTakes, TakeRow
  <2>2. PICK p \in Pass : pass' = p /\ p.pc \in {"none", "trailing"}
                          /\ (p.pc # "none" => p.live = pass.live)
    BY <1>g, <1>p, <1>9 DEF MonitorTakes
  <2> QED
    BY <1>p, <2>1, <2>2
       DEF StopsInv, PassIsCurrent, ReadIsCurrent, WatchIsCurrent, OnlyTightensUnlessRaced
<1>10. CASE UNCHANGED stopVars
  BY <1>10 DEF stopVars, StopsInv, PassIsCurrent, ReadIsCurrent, WatchIsCurrent,
               OnlyTightensUnlessRaced
<1> QED
  BY <1>1, <1>2, <1>3, <1>4, <1>5, <1>6, <1>7, <1>8, <1>9, <1>10 DEF StopsNext

\* Whoever moves the stop and whenever, the manager only tightens it unless its
\* owner moves it during the pass, and the monitor watches what it was last told
\* (autopilot-service/autopilot.position.manager.ts).
THEOREM StopsAreSound == Spec => []StopsSound
<1>1. StopsInv => StopsSound
  BY DEF StopsInv, StopsSound, WatchIsCurrent, MonitorWatchesTheRow
<1>2. Init => StopsInv
  BY PartInit, StopsInitially
<1>3. StopsInv /\ [Next]_vars => StopsInv'
  BY PartStep, StopsStep
<1> QED
  BY <1>1, <1>2, <1>3, PTL DEF Spec
---------------------------------------------------------------------------
(* The signals: how often they come.                                       *)

Signal == [by : Scanners, born : Nat, status : {"ACTIVE", "EXPIRED"},
           outcome : {"none", "PENDING", "WIN", "LOSS", "EXPIRED"},
           position : {"none"} \cup Followers, trade : [Followers -> {"none", "open", "closed"}]]
SpacingTypeOK ==
    /\ spell \in Nat /\ amnesia \in Nat /\ issued \in Seq(Signal)
    /\ cooldown \in [Scanners -> Int] /\ scan \in [Scanners -> BOOLEAN]

Found(w, t) == {i \in DOMAIN issued : issued[i].born = t /\ issued[i].by = w}

\* The signals are in the order of their birth, and those of this spell are active:
\* the newest active signal tells whether there was one in this spell.
InOrder ==
    /\ \A i \in DOMAIN issued : /\ issued[i].born <= spell
                                /\ issued[i].born = spell => issued[i].status = "ACTIVE"
    /\ \A i, j \in DOMAIN issued : i <= j => issued[i].born <= issued[j].born

\* A worker that may find a signal in this spell has found none in it that a
\* lost memory does not account for, and that is so until its scan is over.
MayScan ==
    \A w \in Scanners : /\ cooldown[w] <= spell
                        /\ scan[w] => cooldown[w] # spell
                        /\ cooldown[w] # spell => Cardinality(Found(w, spell)) <= amnesia

SpacingInv == SpacingTypeOK /\ InOrder /\ MayScan /\ SignalsSpaced

LEMMA SignalFields ==
    ASSUME NEW s \in Seq(Signal), NEW i \in DOMAIN s
    PROVE  /\ s[i] \in Signal /\ s[i].by \in Scanners /\ s[i].born \in Nat
           /\ s[i].status \in {"ACTIVE", "EXPIRED"}
           /\ DOMAIN s = 1..Len(s) /\ Len(s) \in Nat
<1>1. s[i] \in Signal /\ DOMAIN s = 1..Len(s) /\ Len(s) \in Nat
  OBVIOUS
<1> QED
  BY <1>1 DEF Signal

LEMMA FoundCounts ==
    ASSUME issued \in Seq(Signal), NEW w, NEW t
    PROVE  IsFiniteSet(Found(w, t)) /\ Cardinality(Found(w, t)) \in Nat
<1>1. IsFiniteSet(1..Len(issued))
  BY FS_Interval
<1>2. Found(w, t) \in SUBSET (1..Len(issued))
  BY DEF Found
<1> QED
  BY <1>1, <1>2, FS_Subset, FS_CardinalityType

LEMMA FewFound ==
    /\ SignalsSpaced <=> \A t \in 0..spell, w \in Scanners : Cardinality(Found(w, t)) <= 1 + amnesia
    /\ SignalsSpaced' <=> \A t \in 0..spell', w \in Scanners :
                              Cardinality(Found(w, t)') <= 1 + amnesia'
  BY DEF SignalsSpaced, Found

LEMMA OneElementMore ==
    ASSUME NEW S, IsFiniteSet(S), NEW x
    PROVE  /\ Cardinality(S) \in Nat /\ Cardinality(S \cup {x}) \in Nat
           /\ IsFiniteSet(S \cup {x}) /\ Cardinality(S \cup {x}) <= Cardinality(S) + 1
<1>1. IsFiniteSet(S \cup {x}) /\ Cardinality(S) \in Nat /\ Cardinality(S \cup {x}) \in Nat
  BY FS_AddElement, FS_CardinalityType
<1>2. Cardinality(S \cup {x}) = IF x \in S THEN Cardinality(S) ELSE Cardinality(S) + 1
  BY FS_AddElement
<1> QED
  BY <1>1, <1>2

LEMMA SpacingInitially == SignalInit => SpacingInv
<1> SUFFICES ASSUME SignalInit PROVE SpacingInv
  OBVIOUS
<1>1. /\ spell = 0 /\ amnesia = 0 /\ issued = << >>
      /\ cooldown = [w \in Scanners |-> -1] /\ scan = [w \in Scanners |-> FALSE]
  BY DEF SignalInit, Nowhere
<1>2. SpacingTypeOK /\ InOrder
  BY <1>1 DEF SpacingTypeOK, InOrder
<1>3. \A w, t : Cardinality(Found(w, t)) = 0
  <2>1. \A w, t : Found(w, t) = {}
    BY <1>1 DEF Found
  <2> QED
    BY <2>1, FS_EmptySet
<1>4. MayScan
  BY <1>1, <1>3 DEF MayScan
<1>5. SignalsSpaced
  BY <1>1, <1>3, FewFound
<1> QED
  BY <1>2, <1>4, <1>5 DEF SpacingInv

\* What happens to a signal that was found changes neither its finder nor its birth.
LEMMA RowsChange ==
    ASSUME SpacingInv, issued' \in Seq(Signal), Len(issued') = Len(issued),
           UNCHANGED <<spell, cooldown, scan, amnesia>>,
           \A i \in DOMAIN issued : /\ issued'[i].by = issued[i].by
                                    /\ issued'[i].born = issued[i].born
                                    /\ issued[i].born = spell =>
                                            issued'[i].status = issued[i].status
    PROVE  SpacingInv'
<1>1. DOMAIN issued' = DOMAIN issued
  BY DEF SpacingInv, SpacingTypeOK
<1>2. \A w, t : Found(w, t)' = Found(w, t)
  BY <1>1 DEF Found
<1>3. InOrder'
  BY <1>1 DEF SpacingInv, InOrder
<1>4. MayScan'
  BY <1>2 DEF SpacingInv, MayScan
<1>5. SignalsSpaced'
  BY <1>2, FewFound DEF SpacingInv
<1> QED
  BY <1>3, <1>4, <1>5 DEF SpacingInv, SpacingTypeOK

\* A worker has found nothing, and goes on or ends its scan.
LEMMA NothingFound ==
    ASSUME SpacingInv, UNCHANGED <<spell, issued, amnesia>>, NEW w \in Scanners,
           NEW waits \in BOOLEAN, scan' = [scan EXCEPT ![w] = waits], cooldown[w] # spell,
           NEW c \in Int, cooldown' = [cooldown EXCEPT ![w] = c], c <= spell, c # spell
    PROVE  SpacingInv'
<1>1. SpacingTypeOK'
  BY DEF SpacingInv, SpacingTypeOK
<1>2. \A v, t : Found(v, t)' = Found(v, t)
  BY DEF Found
<1>3. MayScan'
  BY <1>2 DEF SpacingInv, SpacingTypeOK, MayScan
<1>4. SignalsSpaced'
  BY <1>2, FewFound DEF SpacingInv
<1> QED
  BY <1>1, <1>3, <1>4 DEF SpacingInv, InOrder

LEMMA SignalFound ==
    ASSUME SpacingInv, UNCHANGED <<spell, amnesia>>, NEW w \in Scanners,
           NEW waits \in BOOLEAN, scan' = [scan EXCEPT ![w] = waits], waits = FALSE,
           cooldown[w] # spell, cooldown' = [cooldown EXCEPT ![w] = spell],
           NEW s \in Signal, s.by = w, s.born = spell, s.status = "ACTIVE",
           issued' = Append(issued, s)
    PROVE  SpacingInv'
<1> DEFINE n == Len(issued)
<1>1. /\ issued \in Seq(Signal) /\ n \in Nat /\ DOMAIN issued = 1..n
      /\ issued' \in Seq(Signal) /\ DOMAIN issued' = 1..(n + 1) /\ issued'[n + 1] = s
      /\ \A i \in 1..n : issued'[i] = issued[i] /\ issued[i].born \in Nat
  BY SignalFields DEF SpacingInv, SpacingTypeOK
<1>2. SpacingTypeOK'
  BY <1>1 DEF SpacingInv, SpacingTypeOK
<1>3. InOrder'
  BY <1>1 DEF SpacingInv, SpacingTypeOK, InOrder
<1>4. Cardinality(Found(w, spell)) <= amnesia
  BY DEF SpacingInv, MayScan
<1>5. \A v, t : v # w \/ t # spell => Found(v, t)' = Found(v, t)
  BY <1>1 DEF Found
<1>6. Found(w, spell)' = Found(w, spell) \cup {n + 1}
  BY <1>1 DEF Found
<1>7. Cardinality(Found(w, spell)') <= 1 + amnesia
  <2>1. IsFiniteSet(Found(w, spell)) /\ Cardinality(Found(w, spell)) \in Nat /\ amnesia \in Nat
    BY <1>1, FoundCounts DEF SpacingInv, SpacingTypeOK
  <2>2. PICK S : S = Found(w, spell)
    OBVIOUS
  <2>3. /\ Cardinality(S) \in Nat /\ Cardinality(S) <= amnesia
        /\ Cardinality(S \cup {n + 1}) \in Nat /\ Cardinality(S \cup {n + 1}) <= Cardinality(S) + 1
    BY <1>4, <2>1, <2>2, OneElementMore
  <2>4. Cardinality(Found(w, spell)') = Cardinality(S \cup {n + 1})
    BY <1>6, <2>2
  <2> QED
    BY <2>1, <2>3, <2>4
<1>8. MayScan'
  BY <1>5 DEF SpacingInv, SpacingTypeOK, MayScan
<1>9. SignalsSpaced'
  BY <1>5, <1>7, FewFound DEF SpacingInv
<1> QED
  BY <1>2, <1>3, <1>8, <1>9 DEF SpacingInv

\* A scan that decides: nothing, a signal, or one that could not be stored.
LEMMA SpacingDecided ==
    ASSUME SpacingInv, UNCHANGED <<spell, amnesia>>, NEW w \in Scanners,
           NEW waits \in BOOLEAN, scan' = [scan EXCEPT ![w] = waits], waits = FALSE,
           cooldown[w] # spell, NEW v, Decide(w, v)
    PROVE  SpacingInv'
<1>c. /\ cooldown[w] \in Int /\ cooldown[w] <= spell /\ spell \in Nat
      /\ cooldown = [cooldown EXCEPT ![w] = cooldown[w]]
  BY DEF SpacingInv, SpacingTypeOK, MayScan
<1>1. CASE UNCHANGED <<issued, cooldown>>
  BY <1>c, <1>1, NothingFound
<1>2. ASSUME NEW outcome \in {"PENDING", "none"}, issued' = Append(issued, NewSignal(w, outcome)),
             cooldown' = [cooldown EXCEPT ![w] = spell]
      PROVE  SpacingInv'
  <2>1. [u \in Followers |-> "none"] \in [Followers -> {"none", "open", "closed"}]
    OBVIOUS
  <2>2. NewSignal(w, outcome) \in Signal
    BY <1>c, <2>1, Zenon DEF NewSignal, Signal
  <2>3. /\ NewSignal(w, outcome).by = w /\ NewSignal(w, outcome).born = spell
        /\ NewSignal(w, outcome).status = "ACTIVE"
    BY DEF NewSignal
  <2> QED
    BY <1>2, <2>2, <2>3, SignalFound
<1>3. CASE cooldown' = [cooldown EXCEPT ![w] = -1] /\ UNCHANGED issued
  <2>1. -1 \in Int /\ -1 <= spell /\ -1 # spell
    BY <1>c
  <2> QED
    BY <1>3, <2>1, NothingFound
<1> QED
  BY <1>1, <1>2, <1>3 DEF Decide, Nowhere

\* loadCooldownsFromDB() finds the signal of this spell, if there is one.
LEMMA ReloadFinds ==
    ASSUME SpacingInv
    PROVE  /\ ReloadedCooldown \in Int /\ ReloadedCooldown <= spell
           /\ ReloadedCooldown # spell => \A w \in Scanners : Found(w, spell) = {}
<1> DEFINE active == {i \in DOMAIN issued : issued[i].status = "ACTIVE"}
           Newest(i) == \A j \in active : j <= i
           n == Len(issued)
<1>1. /\ n \in Nat /\ DOMAIN issued = 1..n /\ spell \in Nat
      /\ \A i \in 1..n : issued[i].born \in Nat /\ issued[i].born <= spell
  BY SignalFields DEF SpacingInv, SpacingTypeOK, InOrder
<1>2. CASE active = {}
  <2>1. ReloadedCooldown = -1
    BY <1>2 DEF ReloadedCooldown, Nowhere
  <2>2. \A i \in 1..n : issued[i].born # spell
    BY <1>1, <1>2 DEF SpacingInv, InOrder
  <2> QED
    BY <1>1, <2>1, <2>2 DEF Found
<1>3. CASE active # {}
  <2>1. \E i \in active : Newest(i)
    <3> DEFINE upper == {m \in 0..n : \A j \in active : j <= m}
    <3>1. active \in SUBSET (1..n) /\ n \in upper
      BY <1>1
    <3>2. PICK m \in upper : \A y \in upper : m <= y
      <4>1. upper \subseteq Nat /\ upper # {}
        BY <3>1
      <4> HIDE DEF upper
      <4> QED
        BY <4>1, LeastMember
    <3>3. m - 1 \notin upper
      BY <1>1, <3>2
    <3>4. m # 0
      BY <1>3, <3>1, <3>2
    <3>5. m - 1 \in 0..n
      BY <1>1, <3>2, <3>4
    <3>6. PICK j \in active : ~(j <= m - 1)
      BY <3>3, <3>5
    <3>7. j = m
      BY <1>1, <3>1, <3>2, <3>6
    <3> QED
      BY <3>2, <3>6, <3>7
  <2>2. PICK i \in active : ReloadedCooldown = issued[i].born /\ Newest(i)
    BY <1>3, <2>1 DEF ReloadedCooldown
  <2>3. ASSUME NEW k \in 1..n, issued[k].born = spell PROVE issued[i].born = spell
    <3>1. k \in active
      BY <1>1, <2>3 DEF SpacingInv, InOrder
    <3>2. k <= i /\ issued[k].born <= issued[i].born
      BY <1>1, <2>2, <3>1 DEF SpacingInv, InOrder
    <3> QED
      BY <1>1, <2>2, <2>3, <3>2
  <2> QED
    BY <1>1, <2>2, <2>3 DEF Found
<1> QED
  BY <1>2, <1>3

\* What becomes of a signal: it is followed, tied to a position, closed or expires.
LEMMA Traded ==
    ASSUME issued \in Seq(Signal), NEW i \in DOMAIN issued, issued[i] \in Signal,
           NEW u \in Followers,
           Follow(i, u) \/ LinkPosition(i, u) \/ CloseTrade(i, u)
    PROVE  \E sig \in Signal : /\ issued' = [issued EXCEPT ![i] = sig]
                               /\ sig.by = issued[i].by /\ sig.born = issued[i].born
                               /\ sig.status = issued[i].status
<1>1. CASE Follow(i, u)
  <2>1. PICK t \in [Followers -> {"none", "open", "closed"}] : t = [issued[i].trade EXCEPT ![u] = "open"]
    BY DEF Signal
  <2>2. issued' = [issued EXCEPT ![i] = [issued[i] EXCEPT !.trade = t]]
    BY <1>1, <2>1 DEF Follow
  <2>3. [issued[i] EXCEPT !.trade = t] \in Signal
    BY Zenon DEF Signal
  <2> QED
    BY <2>2, <2>3, Zenon DEF Signal
<1>2. CASE LinkPosition(i, u)
  <2>1. issued' = [issued EXCEPT ![i] = [issued[i] EXCEPT !.position = u]]
    BY <1>2 DEF LinkPosition
  <2>2. [issued[i] EXCEPT !.position = u] \in Signal
    BY Zenon DEF Signal
  <2> QED
    BY <2>1, <2>2, Zenon DEF Signal
<1>3. CASE CloseTrade(i, u)
  <2>1. PICK result \in {"none", "PENDING", "WIN", "LOSS", "EXPIRED"} :
           issued' = [issued EXCEPT ![i].trade[u] = "closed", ![i].outcome = result]
    BY <1>3 DEF CloseTrade, Signal
  <2>2. PICK t \in [Followers -> {"none", "open", "closed"}] : t = [issued[i].trade EXCEPT ![u] = "closed"]
    BY DEF Signal
  <2>3. issued' = [issued EXCEPT ![i] = [issued[i] EXCEPT !.trade = t, !.outcome = result]]
    BY <2>1, <2>2
  <2>4. [issued[i] EXCEPT !.trade = t, !.outcome = result] \in Signal
    BY Zenon DEF Signal
  <2> QED
    BY <2>3, <2>4, Zenon DEF Signal
<1> QED
  BY <1>1, <1>2, <1>3

Expired(i) == [issued[i] EXCEPT
                  !.outcome = IF Stale(i) /\ Unexecuted(i) THEN "EXPIRED" ELSE @,
                  !.status = IF issued[i].born < spell THEN "EXPIRED" ELSE @]

LEMMA ExpiredTyped ==
    ASSUME issued \in Seq(Signal), NEW i \in DOMAIN issued, spell \in Nat
    PROVE  /\ Expired(i) \in Signal
           /\ Expired(i).by = issued[i].by /\ Expired(i).born = issued[i].born
           /\ issued[i].born = spell => Expired(i).status = issued[i].status
<1>1. issued[i] \in Signal
  BY SignalFields
<1>2. PICK o \in {"none", "PENDING", "WIN", "LOSS", "EXPIRED"} :
         o = IF Stale(i) /\ Unexecuted(i) THEN "EXPIRED" ELSE issued[i].outcome
  BY <1>1 DEF Signal
<1>3. PICK s \in {"ACTIVE", "EXPIRED"} :
         s = IF issued[i].born < spell THEN "EXPIRED" ELSE issued[i].status
  BY <1>1 DEF Signal
<1>4. Expired(i) = [issued[i] EXCEPT !.outcome = o, !.status = s]
  BY <1>2, <1>3 DEF Expired
<1>5. [issued[i] EXCEPT !.outcome = o, !.status = s] \in Signal
  BY <1>1, Zenon DEF Signal
<1>6. /\ Expired(i).by = issued[i].by /\ Expired(i).born = issued[i].born /\ Expired(i).status = s
  BY <1>1, <1>4, Zenon DEF Signal
<1>7. issued[i].born = spell => s = issued[i].status
  BY <1>3
<1> QED
  BY <1>4, <1>5, <1>6, <1>7

LEMMA SpacingStep == SpacingInv /\ [SignalNext]_signalVars => SpacingInv'
<1> SUFFICES ASSUME SpacingInv, [SignalNext]_signalVars PROVE SpacingInv'
  OBVIOUS
<1> USE DEF weights, scanning
<1>t. /\ spell \in Nat /\ amnesia \in Nat /\ issued \in Seq(Signal)
      /\ cooldown \in [Scanners -> Int] /\ scan \in [Scanners -> BOOLEAN]
  BY DEF SpacingInv, SpacingTypeOK
<1>n. \A i \in DOMAIN issued : issued[i] \in Signal /\ issued[i].born \in Nat
  BY <1>t, SignalFields
<1>1. ASSUME NEW i \in DOMAIN issued, NEW sig \in Signal, issued' = [issued EXCEPT ![i] = sig],
             sig.by = issued[i].by, sig.born = issued[i].born, sig.status = issued[i].status,
             UNCHANGED <<spell, cooldown, scan, amnesia>>
      PROVE  SpacingInv'
  <2>1. /\ issued' \in Seq(Signal) /\ Len(issued') = Len(issued)
        /\ \A j \in DOMAIN issued : issued'[j] = IF j = i THEN sig ELSE issued[j]
    BY <1>t, <1>1
  <2> QED
    BY <1>1, <2>1, RowsChange
<1>2. ASSUME NEW i \in DOMAIN issued, NEW u \in Followers,
             Follow(i, u) \/ LinkPosition(i, u) \/ CloseTrade(i, u)
      PROVE  SpacingInv'
  <2>1. UNCHANGED <<spell, cooldown, scan, amnesia>>
    BY <1>2 DEF Follow, LinkPosition, CloseTrade
  <2>2. PICK sig \in Signal : /\ issued' = [issued EXCEPT ![i] = sig]
                              /\ sig.by = issued[i].by /\ sig.born = issued[i].born
                              /\ sig.status = issued[i].status
    BY <1>2, <1>t, <1>n, Traded
  <2> QED
    BY <1>1, <2>1, <2>2
<1>3. CASE SignalExpiry
  <2>1. /\ issued' = [i \in DOMAIN issued |-> Expired(i)]
        /\ UNCHANGED <<spell, cooldown, scan, amnesia>>
    BY <1>3 DEF SignalExpiry, Expired
  <2>2. \A i \in DOMAIN issued : /\ Expired(i) \in Signal
                                 /\ Expired(i).by = issued[i].by /\ Expired(i).born = issued[i].born
                                 /\ issued[i].born = spell => Expired(i).status = issued[i].status
    BY <1>t, ExpiredTyped
  <2>3. DOMAIN issued = 1..Len(issued) /\ Len(issued) \in Nat
    BY <1>t
  <2>4. issued' \in Seq(Signal) /\ Len(issued') = Len(issued)
    BY <2>1, <2>2, <2>3
  <2> QED
    BY <2>1, <2>2, <2>4, RowsChange
<1>4. CASE SpellPasses
  <2>1. /\ spell' = spell + 1 /\ UNCHANGED <<cooldown, scan, issued, amnesia>>
    BY <1>4 DEF SpellPasses
  <2>2. \A w, t : Found(w, t)' = Found(w, t)
    BY <2>1 DEF Found
  <2>3. \A w : Found(w, spell') = {}
    BY <1>t, <1>n, <2>1 DEF Found, SpacingInv, InOrder
  <2>4. \A w : Cardinality(Found(w, spell)') = 0
    <3>1. \A w : Found(w, spell)' = {}
      BY <2>1, <2>3 DEF Found
    <3> QED
      BY <3>1, FS_EmptySet
  <2>5. MayScan'
    BY <1>t, <2>1, <2>4 DEF SpacingInv, MayScan
  <2>6. SignalsSpaced'
    <3>1. \A t \in 0..spell', w \in Scanners : Cardinality(Found(w, t)') <= 1 + amnesia'
      <4> SUFFICES ASSUME NEW t \in 0..spell', NEW w \in Scanners
                   PROVE  Cardinality(Found(w, t)') <= 1 + amnesia'
        OBVIOUS
      <4>1. CASE t \in 0..spell
        BY <2>1, <2>2, <4>1, FewFound DEF SpacingInv
      <4>2. CASE t = spell'
        <5>1. Found(w, t)' = {}
          BY <2>2, <2>3, <4>2
        <5> QED
          BY <1>t, <2>1, <5>1, FS_EmptySet
      <4> QED
        BY <1>t, <2>1, <4>1, <4>2
    <3> QED
      BY <3>1, FewFound
  <2>7. InOrder'
    BY <1>t, <1>n, <2>1 DEF SpacingInv, InOrder
  <2> QED
    BY <1>t, <2>1, <2>5, <2>6, <2>7 DEF SpacingInv, SpacingTypeOK
<1>5. ASSUME NEW w \in Scanners, Scan(w) PROVE SpacingInv'
  <2>1. cooldown[w] # spell /\ ~scan[w] /\ UNCHANGED <<spell, amnesia>>
    BY <1>5 DEF Scan
  <2>2. CASE scan' = [scan EXCEPT ![w] = TRUE] /\ UNCHANGED <<issued, cooldown>>
    <3>1. /\ cooldown[w] \in Int /\ cooldown[w] <= spell
          /\ cooldown = [cooldown EXCEPT ![w] = cooldown[w]]
      BY <1>t DEF SpacingInv, MayScan
    <3> QED
      BY <2>1, <2>2, <3>1, NothingFound
  <2>3. CASE Decide(w, cache[w]) /\ UNCHANGED scan
    <3>1. scan' = [scan EXCEPT ![w] = FALSE]
      BY <1>t, <2>1, <2>3
    <3> QED
      BY <2>1, <2>3, <3>1, SpacingDecided
  <2> QED
    BY <1>5, <2>2, <2>3 DEF Scan
<1>6. ASSUME NEW w \in Scanners, Scanned(w) PROVE SpacingInv'
  <2>1. scan[w] /\ scan' = [scan EXCEPT ![w] = FALSE] /\ UNCHANGED <<spell, amnesia>>
    BY <1>6 DEF Scanned
  <2>2. cooldown[w] # spell
    BY <2>1 DEF SpacingInv, MayScan
  <2>3. PICK v : Decide(w, v)
    BY <1>6 DEF Scanned
  <2> QED
    BY <2>1, <2>2, <2>3, SpacingDecided
<1>7. ASSUME NEW w \in Scanners, RestartScanner(w) PROVE SpacingInv'
  <2>1. UNCHANGED <<spell, issued>> /\ scan' = [scan EXCEPT ![w] = FALSE]
    BY <1>7 DEF RestartScanner
  <2>2. \A v, t : Found(v, t)' = Found(v, t)
    BY <2>1 DEF Found
  <2>3. \A v \in Scanners, t \in 0..spell :
           IsFiniteSet(Found(v, t)) /\ Cardinality(Found(v, t)) \in Nat
           /\ Cardinality(Found(v, t)) <= 1 + amnesia
    BY <1>t, FoundCounts, FewFound DEF SpacingInv
  <2>4. CASE cooldown' = [cooldown EXCEPT ![w] = ReloadedCooldown] /\ UNCHANGED amnesia
    <3>1. PICK c \in Int : /\ cooldown' = [cooldown EXCEPT ![w] = c] /\ c <= spell
                           /\ c # spell => \A v \in Scanners : Found(v, spell) = {}
      BY <2>4, ReloadFinds
    <3>2. ASSUME c # spell, NEW v \in Scanners PROVE Cardinality(Found(v, spell)) = 0
      <4>1. Found(v, spell) = {}
        BY <3>1, <3>2
      <4> QED
        BY <4>1, FS_EmptySet
    <3>a. /\ cooldown' \in [Scanners -> Int]
          /\ \A v \in Scanners : cooldown'[v] = IF v = w THEN c ELSE cooldown[v]
      BY <1>t, <3>1
    <3>b. scan' \in [Scanners -> BOOLEAN] /\ ~scan'[w] /\ \A v \in Scanners : scan'[v] => scan[v]
      BY <1>t, <2>1
    <3>3. MayScan'
      <4> SUFFICES ASSUME NEW v \in Scanners
                   PROVE  /\ cooldown'[v] <= spell
                          /\ scan'[v] => cooldown'[v] # spell
                          /\ cooldown'[v] # spell => Cardinality(Found(v, spell)) <= amnesia
        BY <2>1, <2>2, <2>4 DEF MayScan
      <4>1. CASE v = w
        BY <1>t, <3>1, <3>2, <3>a, <3>b, <4>1
      <4>2. CASE v # w
        BY <3>a, <3>b, <4>2 DEF SpacingInv, MayScan
      <4> QED
        BY <4>1, <4>2
    <3>4. SignalsSpaced'
      BY <2>1, <2>2, <2>4, FewFound DEF SpacingInv
    <3> QED
      BY <1>t, <2>1, <2>4, <3>a, <3>b, <3>3, <3>4 DEF SpacingInv, SpacingTypeOK, InOrder
  <2>5. CASE cooldown' = [cooldown EXCEPT ![w] = -1] /\ amnesia' = amnesia + 1
    <3>1. spell \in 0..spell
      BY <1>t
    <3>2. MayScan'
      BY <1>t, <2>1, <2>2, <2>3, <2>5, <3>1 DEF SpacingInv, MayScan
    <3>3. SignalsSpaced'
      BY <1>t, <2>1, <2>2, <2>3, <2>5, FewFound
    <3> QED
      BY <1>t, <2>1, <2>5, <3>2, <3>3 DEF SpacingInv, SpacingTypeOK, InOrder
  <2> QED
    BY <1>7, <2>4, <2>5 DEF RestartScanner, Nowhere
<1>8. ASSUME UNCHANGED <<spell, cooldown, scan, issued, amnesia>> PROVE SpacingInv'
  <2>1. \A w, t : Found(w, t)' = Found(w, t)
    BY <1>8 DEF Found
  <2>2. MayScan' /\ SignalsSpaced'
    BY <1>8, <2>1, FewFound DEF SpacingInv, MayScan
  <2> QED
    BY <1>8, <2>2 DEF SpacingInv, SpacingTypeOK, InOrder
<1>9. ASSUME NEW w \in Tuners, Tune(w) \/ TuneLoaded(w) \/ ReadLast(w) \/ SaveVersion(w)
      PROVE  SpacingInv'
  BY <1>8, <1>9 DEF Tune, TuneLoaded, ReadLast, SaveVersion
<1>10. CASE UNCHANGED signalVars
  BY <1>8, <1>10 DEF signalVars
<1> QED
  BY <1>2, <1>3, <1>4, <1>5, <1>6, <1>7, <1>9, <1>10 DEF SignalNext
---------------------------------------------------------------------------
(* The signals: the weights of a worker never go back.                     *)

\* What a worker uses and what it holds or waits for, in that order.
Ready(c, l, u, b) ==
    /\ c # 0 => u <= c
    /\ \A r \in Readers : l[r] # Nowhere => l[r] \in Nat /\ c = 0 /\ u <= l[r]
    /\ \A r, q \in Readers : l[r] # Nowhere /\ l[q] # Nowhere => r = q
    /\ b => l["scan"] # Nowhere

WeightsInv ==
    /\ versions \in Seq(BOOLEAN)
    /\ cache \in [Scanners -> Nat] /\ used \in [Scanners -> Nat]
    /\ loads \in [Scanners -> [Readers -> Int]] /\ scan \in [Scanners -> BOOLEAN]
    /\ \A w \in Scanners : used[w] <= Len(versions) /\ Ready(cache[w], loads[w], used[w], scan[w])
    /\ \A w \in Scanners, r \in Readers : loads[w][r] <= Len(versions)
    /\ \A w \in Scanners : cache[w] <= Len(versions)
    /\ WeightsNeverGoBack

LEMMA WeightsInitially == SignalInit => WeightsInv
<1> SUFFICES ASSUME SignalInit PROVE WeightsInv
  OBVIOUS
<1>1. /\ versions = << >> /\ cache = [w \in Scanners |-> 0] /\ used = [w \in Scanners |-> 0]
      /\ loads = [w \in Scanners |-> [r \in Readers |-> -1]]
      /\ scan = [w \in Scanners |-> FALSE] /\ wentBack = FALSE
  BY DEF SignalInit, NoLoads, Nowhere
<1> QED
  BY <1>1 DEF WeightsInv, Ready, Nowhere, WeightsNeverGoBack

\* A step of one worker.
LEMMA WorkerStep ==
    ASSUME WeightsInv, NEW w \in Scanners, NEW c \in Nat, NEW l \in [Readers -> Int],
           NEW u \in Nat, NEW b \in BOOLEAN, Ready(c, l, u, b),
           u <= Len(versions), c <= Len(versions), \A r \in Readers : l[r] <= Len(versions),
           cache' = [cache EXCEPT ![w] = c], loads' = [loads EXCEPT ![w] = l],
           used' = [used EXCEPT ![w] = u], scan' = [scan EXCEPT ![w] = b],
           versions' \in Seq(BOOLEAN), Len(versions) <= Len(versions'), ~wentBack'
    PROVE  WeightsInv'
<1>1. /\ \A v \in Scanners : /\ cache'[v] = IF v = w THEN c ELSE cache[v]
                             /\ loads'[v] = IF v = w THEN l ELSE loads[v]
                             /\ used'[v] = IF v = w THEN u ELSE used[v]
                             /\ scan'[v] = IF v = w THEN b ELSE scan[v]
      /\ cache' \in [Scanners -> Nat] /\ used' \in [Scanners -> Nat]
      /\ loads' \in [Scanners -> [Readers -> Int]] /\ scan' \in [Scanners -> BOOLEAN]
  BY DEF WeightsInv
<1>2. Len(versions) \in Nat /\ Len(versions') \in Nat
  BY DEF WeightsInv
<1>3. \A v \in Scanners : Ready(cache[v], loads[v], used[v], scan[v])'
  BY <1>1 DEF WeightsInv
<1>4. \A v \in Scanners : used'[v] <= Len(versions') /\ cache'[v] <= Len(versions')
                          /\ \A r \in Readers : loads'[v][r] <= Len(versions')
  <2> SUFFICES ASSUME NEW v \in Scanners
               PROVE  used'[v] <= Len(versions') /\ cache'[v] <= Len(versions')
                      /\ \A r \in Readers : loads'[v][r] <= Len(versions')
    OBVIOUS
  <2>1. /\ used[v] \in Nat /\ cache[v] \in Nat /\ loads[v] \in [Readers -> Int]
        /\ used[v] <= Len(versions) /\ cache[v] <= Len(versions)
        /\ \A r \in Readers : loads[v][r] <= Len(versions)
    BY DEF WeightsInv
  <2>2. CASE v = w
    BY <1>1, <1>2, <2>2
  <2>3. CASE v # w
    BY <1>1, <1>2, <2>1, <2>3
  <2> QED
    BY <2>2, <2>3
<1> QED
  BY <1>1, <1>2, <1>3, <1>4 DEF WeightsInv, WeightsNeverGoBack

LEMMA WeightsStep == WeightsInv /\ [SignalNext]_signalVars => WeightsInv'
<1> SUFFICES ASSUME WeightsInv, [SignalNext]_signalVars PROVE WeightsInv'
  OBVIOUS
<1> USE DEF weights, scanning, WeightsNeverGoBack
<1>t. ASSUME NEW w \in Scanners
      PROVE  /\ cache[w] \in Nat /\ used[w] \in Nat /\ loads[w] \in [Readers -> Int] /\ scan[w] \in BOOLEAN
             /\ used[w] <= Len(versions) /\ cache[w] <= Len(versions)
             /\ \A r \in Readers : loads[w][r] <= Len(versions)
             /\ Ready(cache[w], loads[w], used[w], scan[w])
             /\ cache = [cache EXCEPT ![w] = cache[w]] /\ used = [used EXCEPT ![w] = used[w]]
             /\ loads = [loads EXCEPT ![w] = loads[w]] /\ scan = [scan EXCEPT ![w] = scan[w]]
  BY <1>t DEF WeightsInv
<1>k. ASSUME NEW w \in Scanners
      PROVE  \E c, u \in Nat, l \in [Readers -> Int], b \in BOOLEAN :
                /\ c = cache[w] /\ u = used[w] /\ l = loads[w] /\ b = scan[w]
  BY <1>t, <1>k
<1>v. versions \in Seq(BOOLEAN) /\ Len(versions) \in Nat /\ ~wentBack
  BY DEF WeightsInv
<1>1. ASSUME UNCHANGED <<versions, cache, loads, used, scan, wentBack>> PROVE WeightsInv'
  BY <1>1 DEF WeightsInv, Ready
\* Using what the worker holds, or the defaults.
<1>2. ASSUME NEW w \in Scanners, Uses(w, cache[w]), UNCHANGED <<versions, cache, loads, scan>>
      PROVE  WeightsInv'
  <2>1. PICK u \in Nat : u = IF cache[w] = 0 THEN used[w] ELSE cache[w]
    BY <1>t, <1>2
  <2>2. used' = [used EXCEPT ![w] = u]
    BY <1>2, <2>1 DEF Uses
  <2>3. u <= Len(versions) /\ Ready(cache[w], loads[w], u, scan[w])
    BY <1>t, <1>v, <1>2, <2>1 DEF Ready
  <2>4. ~wentBack'
    <3>1. cache[w] # 0 => ~(cache[w] < used[w])
      BY <1>t DEF Ready
    <3> QED
      BY <1>v, <1>2, <3>1 DEF Uses
  <2>5. versions' \in Seq(BOOLEAN) /\ Len(versions) <= Len(versions')
    BY <1>v, <1>2
  <2>6. /\ cache' = [cache EXCEPT ![w] = cache[w]] /\ loads' = [loads EXCEPT ![w] = loads[w]]
        /\ scan' = [scan EXCEPT ![w] = scan[w]]
    BY <1>t, <1>2
  <2>k. PICK c, o \in Nat, k \in [Readers -> Int], e \in BOOLEAN :
                c = cache[w] /\ o = used[w] /\ k = loads[w] /\ e = scan[w]
    BY <1>k
  <2>7. /\ Ready(c, k, u, e) /\ c <= Len(versions) /\ \A r \in Readers : k[r] <= Len(versions)
        /\ cache' = [cache EXCEPT ![w] = c] /\ loads' = [loads EXCEPT ![w] = k]
        /\ scan' = [scan EXCEPT ![w] = e]
    BY <1>t, <2>3, <2>6, <2>k
  <2> QED
    BY <2>2, <2>3, <2>4, <2>5, <2>7, WorkerStep
<1>3. ASSUME NEW w \in Scanners, NEW r \in Readers, MustQuery(w), Query(w, r), NEW b \in BOOLEAN,
             b => r = "scan", scan' = [scan EXCEPT ![w] = b],
             UNCHANGED <<versions, cache, used, wentBack>>
      PROVE  WeightsInv'
  <2>1. PICK l \in [Readers -> Int] : l = [loads[w] EXCEPT ![r] = Len(versions)]
    <3>1. loads[w] \in [Readers -> Int] /\ Len(versions) \in Int
      BY <1>t, <1>v, <1>3
    <3>2. [loads[w] EXCEPT ![r] = Len(versions)] \in [Readers -> Int]
      BY <3>1
    <3> QED
      BY <3>2
  <2>2. loads' = [loads EXCEPT ![w] = l]
    BY <1>3, <2>1 DEF Query
  <2>3. \A q \in Readers : l[q] = IF q = r THEN Len(versions) ELSE Nowhere
    BY <1>t, <1>3, <2>1 DEF MustQuery, Loading
  <2>4. Ready(cache[w], l, used[w], b)
    BY <1>t, <1>v, <1>3, <2>3 DEF Ready, MustQuery, Nowhere
  <2>5. \A q \in Readers : l[q] <= Len(versions)
    BY <1>v, <2>3 DEF Nowhere
  <2>6. versions' \in Seq(BOOLEAN) /\ Len(versions) <= Len(versions') /\ ~wentBack'
    BY <1>v, <1>3
  <2>7. cache' = [cache EXCEPT ![w] = cache[w]] /\ used' = [used EXCEPT ![w] = used[w]]
    BY <1>t, <1>3
  <2>k. PICK c, o \in Nat, k \in [Readers -> Int], e \in BOOLEAN :
                c = cache[w] /\ o = used[w] /\ k = loads[w] /\ e = scan[w]
    BY <1>k
  <2>8. /\ Ready(c, l, o, b) /\ o <= Len(versions) /\ c <= Len(versions)
        /\ cache' = [cache EXCEPT ![w] = c] /\ used' = [used EXCEPT ![w] = o]
    BY <1>t, <2>4, <2>7, <2>k
  <2> QED
    BY <1>3, <2>2, <2>5, <2>6, <2>8, WorkerStep
\* The answer of a query, its failure, or a restart: the reader waits no more.
<1>4. ASSUME NEW w \in Scanners, NEW r \in Readers, loads[w][r] # Nowhere, NEW v \in {0, loads[w][r]},
             loads' = [loads EXCEPT ![w][r] = Nowhere], Uses(w, v),
             cache' = [cache EXCEPT ![w] = IF v = 0 THEN @ ELSE v],
             NEW b \in BOOLEAN, b => r # "scan" /\ scan[w], scan' = [scan EXCEPT ![w] = b],
             UNCHANGED versions
      PROVE  WeightsInv'
  <2>1. PICK l \in [Readers -> Int] : l = [loads[w] EXCEPT ![r] = Nowhere]
    <3>1. loads[w] \in [Readers -> Int] /\ Nowhere \in Int
      BY <1>t, <1>4 DEF Nowhere
    <3>2. [loads[w] EXCEPT ![r] = Nowhere] \in [Readers -> Int]
      BY <3>1
    <3> QED
      BY <3>2
  <2>2. loads' = [loads EXCEPT ![w] = l]
    BY <1>4, <2>1
  <2>3. v \in Nat /\ used[w] <= loads[w][r] /\ v <= Len(versions) /\ cache[w] = 0
    BY <1>t, <1>4 DEF Ready
  <2>4. \A q \in Readers : l[q] = Nowhere
    BY <1>t, <1>4, <2>1 DEF Ready
  <2>5. PICK u \in Nat : u = IF v = 0 THEN used[w] ELSE v
    BY <1>t, <2>3
  <2>6. used' = [used EXCEPT ![w] = u] /\ ~wentBack'
    <3>1. used' = [used EXCEPT ![w] = u]
      BY <1>4, <2>5 DEF Uses
    <3>2. v # 0 => ~(v < used[w])
      BY <1>t, <1>4, <2>3
    <3>3. ~wentBack'
      BY <1>v, <1>4, <3>2 DEF Uses
    <3> QED
      BY <3>1, <3>3
  <2>7. PICK c \in Nat : c = IF v = 0 THEN cache[w] ELSE v
    BY <1>t, <2>3
  <2>8. cache' = [cache EXCEPT ![w] = c]
    BY <1>4, <2>7
  <2>9. ~b
    BY <1>t, <1>4 DEF Ready, Readers
  <2>10. Ready(c, l, u, b)
    BY <2>3, <2>4, <2>5, <2>7, <2>9 DEF Ready
  <2>11. u <= Len(versions) /\ c <= Len(versions) /\ \A q \in Readers : l[q] <= Len(versions)
    BY <1>t, <1>v, <2>3, <2>4, <2>5, <2>7 DEF Nowhere
  <2>12. versions' \in Seq(BOOLEAN) /\ Len(versions) <= Len(versions')
    BY <1>v, <1>4
  <2> QED
    BY <1>4, <2>2, <2>6, <2>8, <2>10, <2>11, <2>12, WorkerStep
<1>5. ASSUME NEW w \in Scanners, Scan(w) PROVE WeightsInv'
  <2>1. CASE MustQuery(w)
    <3>1. /\ Query(w, "scan") /\ scan' = [scan EXCEPT ![w] = TRUE]
          /\ UNCHANGED <<versions, cache, used, wentBack>>
      BY <1>5, <2>1 DEF Scan
    <3> QED
      BY <1>3, <2>1, <3>1 DEF Readers
  <2>2. CASE ~MustQuery(w)
    <3>1. Uses(w, cache[w]) /\ UNCHANGED <<versions, cache, loads, scan>>
      BY <1>5, <2>2 DEF Scan
    <3> QED
      BY <1>2, <3>1
  <2> QED
    BY <2>1, <2>2
<1>6. ASSUME NEW w \in Scanners, Scanned(w) PROVE WeightsInv'
  <2>1. /\ scan[w] /\ scan' = [scan EXCEPT ![w] = FALSE] /\ UNCHANGED versions
        /\ loads' = [loads EXCEPT ![w]["scan"] = Nowhere]
    BY <1>6 DEF Scanned
  <2>2. PICK v \in {0, loads[w]["scan"]} : /\ cache' = [cache EXCEPT ![w] = IF v = 0 THEN @ ELSE v]
                                           /\ Uses(w, v)
    BY <1>6 DEF Scanned
  <2>3. loads[w]["scan"] # Nowhere
    BY <1>t, <2>1 DEF Ready
  <2> QED
    BY <1>4, <2>1, <2>2, <2>3 DEF Readers
<1>7. ASSUME NEW w \in Scanners, RestartScanner(w) PROVE WeightsInv'
  <2>1. /\ cache' = [cache EXCEPT ![w] = 0] /\ loads' = [loads EXCEPT ![w] = NoLoads]
        /\ scan' = [scan EXCEPT ![w] = FALSE] /\ UNCHANGED <<versions, used, wentBack>>
    BY <1>7 DEF RestartScanner
  <2>2. NoLoads \in [Readers -> Int] /\ \A r \in Readers : NoLoads[r] = -1
    BY DEF NoLoads, Nowhere
  <2>3. Ready(0, NoLoads, used[w], FALSE)
    BY <1>t, <2>2 DEF Ready, Nowhere
  <2>4. used' = [used EXCEPT ![w] = used[w]] /\ ~wentBack'
    BY <1>t, <1>v, <2>1
  <2>5. versions' \in Seq(BOOLEAN) /\ Len(versions) <= Len(versions') /\ 0 <= Len(versions)
    BY <1>v, <2>1
  <2>6. \A r \in Readers : NoLoads[r] <= Len(versions)
    BY <1>v, <2>2
  <2>7. 0 \in Nat /\ FALSE \in BOOLEAN
    OBVIOUS
  <2>k. PICK c, o \in Nat, k \in [Readers -> Int], e \in BOOLEAN :
                c = cache[w] /\ o = used[w] /\ k = loads[w] /\ e = scan[w]
    BY <1>k
  <2> QED
    BY <1>t, <2>1, <2>2, <2>3, <2>4, <2>5, <2>6, <2>7, <2>k, WorkerStep
<1>8. ASSUME NEW w \in Tuners, Tune(w) PROVE WeightsInv'
  <2>w. w \in Scanners
    BY SignalAssumption
  <2>1. CASE MustQuery(w)
    <3>1. Query(w, "tune") /\ UNCHANGED <<versions, cache, used, wentBack, scan>>
      BY <1>8, <2>1 DEF Tune
    <3>2. ~scan[w]
      BY <1>t, <2>w, <2>1 DEF Ready, MustQuery, Loading, Readers
    <3>3. scan' = [scan EXCEPT ![w] = FALSE]
      BY <1>t, <2>w, <3>1, <3>2
    <3> QED
      BY <1>3, <2>w, <2>1, <3>1, <3>3 DEF Readers
  <2>2. CASE ~MustQuery(w)
    <3>1. Uses(w, cache[w]) /\ UNCHANGED <<versions, cache, loads, scan>>
      BY <1>8, <2>2 DEF Tune
    <3> QED
      BY <1>2, <2>w, <3>1
  <2> QED
    BY <2>1, <2>2
<1>9. ASSUME NEW w \in Tuners, TuneLoaded(w) PROVE WeightsInv'
  <2>w. w \in Scanners
    BY SignalAssumption
  <2>1. PICK v \in 0..Len(versions) : Answer(w, "tune", v) /\ Uses(w, v) /\ UNCHANGED <<versions, scan>>
    BY <1>9 DEF TuneLoaded
  <2>2. /\ loads[w]["tune"] # Nowhere /\ v \in {0, loads[w]["tune"]}
        /\ loads' = [loads EXCEPT ![w]["tune"] = Nowhere]
        /\ cache' = [cache EXCEPT ![w] = IF v = 0 THEN @ ELSE v]
    BY <1>t, <2>w, <2>1 DEF Answer
  <2>3. scan' = [scan EXCEPT ![w] = scan[w]] /\ scan[w] \in BOOLEAN
    BY <1>t, <2>w, <2>1
  <2> QED
    BY <1>4, <2>w, <2>1, <2>2, <2>3 DEF Readers
<1>10. ASSUME NEW w \in Tuners, SaveVersion(w) PROVE WeightsInv'
  <2>w. w \in Scanners
    BY SignalAssumption
  <2>1. UNCHANGED <<loads, used, wentBack, scan>>
    BY <1>10 DEF SaveVersion
  <2>2. CASE UNCHANGED <<versions, cache>>
    BY <1>1, <2>1, <2>2
  <2>3. ASSUME NEW d \in BOOLEAN, versions' = Append(versions, d), cache' = [cache EXCEPT ![w] = 0]
        PROVE  WeightsInv'
    <3>1. versions' \in Seq(BOOLEAN) /\ Len(versions') = Len(versions) + 1
      BY <1>v, <2>3
    <3>2. Ready(0, loads[w], used[w], scan[w])
      BY <1>t, <2>w DEF Ready
    <3>3. /\ used' = [used EXCEPT ![w] = used[w]] /\ loads' = [loads EXCEPT ![w] = loads[w]]
          /\ scan' = [scan EXCEPT ![w] = scan[w]] /\ ~wentBack'
      BY <1>t, <1>v, <2>w, <2>1
    <3>4. Len(versions) <= Len(versions') /\ 0 <= Len(versions) /\ 0 \in Nat
      BY <1>v, <3>1
    <3>k. PICK c, o \in Nat, k \in [Readers -> Int], e \in BOOLEAN :
                  c = cache[w] /\ o = used[w] /\ k = loads[w] /\ e = scan[w]
      BY <1>k, <2>w
    <3>5. /\ Ready(0, k, o, e) /\ o <= Len(versions) /\ \A r \in Readers : k[r] <= Len(versions)
          /\ used' = [used EXCEPT ![w] = o] /\ loads' = [loads EXCEPT ![w] = k]
          /\ scan' = [scan EXCEPT ![w] = e]
      BY <1>t, <2>w, <3>2, <3>3, <3>k
    <3>6. ~wentBack'
      BY <3>3
    <3> QED
      BY <2>w, <2>3, <3>1, <3>4, <3>5, <3>6, WorkerStep
  <2> QED
    BY <1>10, <2>2, <2>3 DEF SaveVersion
<1>11. ASSUME NEW w \in Tuners, ReadLast(w) PROVE WeightsInv'
  BY <1>1, <1>11 DEF ReadLast
<1>12. CASE SignalExpiry \/ SpellPasses
  BY <1>1, <1>12 DEF SignalExpiry, SpellPasses
<1>13. ASSUME NEW i \in DOMAIN issued, NEW u \in Followers,
              Follow(i, u) \/ LinkPosition(i, u) \/ CloseTrade(i, u)
       PROVE  WeightsInv'
  BY <1>1, <1>13 DEF Follow, LinkPosition, CloseTrade
<1>14. CASE UNCHANGED signalVars
  BY <1>1, <1>14 DEF signalVars
<1> QED
  BY <1>5, <1>6, <1>7, <1>8, <1>9, <1>10, <1>11, <1>12, <1>13, <1>14 DEF SignalNext

\* A worker finds one signal in a spell, and one more for each restart that lost
\* its cooldowns, and never takes up weights older than those it used, whatever
\* query comes back late (signals-engine/signal.generator.ts, adaptive.weights.ts).
THEOREM SignalsAreSound == Spec => []SignalsSound
<1>1. SpacingInv /\ WeightsInv => SignalsSound
  BY DEF SpacingInv, WeightsInv, SignalsSound
<1>2. Init => SpacingInv /\ WeightsInv
  BY PartInit, SpacingInitially, WeightsInitially
<1>3. SpacingInv /\ WeightsInv /\ [Next]_vars => SpacingInv' /\ WeightsInv'
  BY PartStep, SpacingStep, WeightsStep
<1> QED
  BY <1>1, <1>2, <1>3, PTL DEF Spec
---------------------------------------------------------------------------
(* The prices of the feeds.                                                *)

AnyPrice == Levels \cup {Garbage}
Instrument == [mid : Nat, real : BOOLEAN, rank : Int, covered : BOOLEAN, age : Int]
Health == [open : BOOLEAN, since : Int]
FeedsTypeOK ==
    /\ market \in Levels /\ before \in Levels
    /\ core \in [Replicas -> Instrument] /\ tainted \in [Replicas -> BOOLEAN]
    /\ relayed \in [Replicas -> SUBSET AnyPrice]
    /\ silence \in [Replicas -> Nat] /\ manager \in [Replicas -> Health]
    /\ feedCircuit \in [Replicas -> BOOLEAN]

\* A price is of the market, or garbage that came first.
Believed(i, first) == IF i.real THEN i.mid \in Levels \/ (i.mid = Garbage /\ first) ELSE i.mid = 0
PricesBelieved == \A r \in Replicas : Believed(core[r], tainted[r])

\* What a manager counts is silence, until the next look at the feeds.
Tallies(m, quiet, blocked) ==
    /\ quiet <= Ages
    /\ m.since >= 0 /\ quiet # 0 => quiet >= FeedDead + m.since
    /\ m.since <= CircuitBreak
    /\ m.open => quiet >= Ages
    /\ blocked => m.open
SilenceCounted == \A r \in Replicas : Tallies(manager[r], silence[r], feedCircuit[r])

FeedsInv == FeedsTypeOK /\ PricesBelieved /\ SilenceCounted

LEMMA Starting ==
    /\ Unpriced \in Instrument /\ Unpriced.mid = 0 /\ Unpriced.real = FALSE
    /\ Closed \in Health /\ Closed.open = FALSE /\ Closed.since = -1
<1>1. 0 \in Nat /\ 0 \in Int /\ -1 \in Int /\ StaleAfter \in Int
  BY FeedsAssumption
<1>2. Unpriced \in Instrument /\ Unpriced.mid = 0 /\ Unpriced.real = FALSE
  BY <1>1, Zenon DEF Unpriced, Instrument
<1>3. Closed \in Health /\ Closed.open = FALSE /\ Closed.since = -1
  BY <1>1, Zenon DEF Closed, Health
<1> QED
  BY <1>2, <1>3

LEMMA FeedsInitially == FeedsInit => FeedsInv
<1> SUFFICES ASSUME FeedsInit PROVE FeedsInv
  OBVIOUS
<1>1. Ages \in Nat /\ CircuitBreak \in Nat
  BY FeedsAssumption DEF Ages
<1>2. FeedsTypeOK
  BY <1>1, Starting DEF FeedsInit, FeedsTypeOK
<1>3. PricesBelieved
  BY Starting DEF FeedsInit, PricesBelieved, Believed
<1>4. SilenceCounted
  BY <1>1, Starting DEF FeedsInit, SilenceCounted, Tallies
<1> QED
  BY <1>2, <1>3, <1>4 DEF FeedsInv

\* A step of one replica that takes up a price.
LEMMA Ingested ==
    ASSUME FeedsInv, NEW r \in Replicas, NEW source \in {"ws", "binance", "rest", "relay"},
           NEW p \in AnyPrice, Accepts(r, source, p), Ingest(r, source, p)
    PROVE  /\ core' \in [Replicas -> Instrument] /\ tainted' \in [Replicas -> BOOLEAN]
           /\ PricesBelieved'
<1>1. core[r] \in Instrument /\ tainted[r] \in BOOLEAN /\ Believed(core[r], tainted[r])
  BY DEF FeedsInv, FeedsTypeOK, PricesBelieved
<1>2. core[r].real \in BOOLEAN /\ core[r].mid \in Nat
  BY <1>1 DEF Instrument
<1>3. PICK i \in Instrument : /\ i = [mid |-> p, real |-> TRUE, rank |-> SOURCE_PRIORITY[source],
                                     covered |-> TRUE, age |-> 0]
                              /\ i.mid = p /\ i.real = TRUE
  <2>1. p \in Nat /\ SOURCE_PRIORITY[source] \in Int /\ 0 \in Int
    BY FeedsAssumption DEF AnyPrice, SOURCE_PRIORITY
  <2>2. PICK rank \in Int : rank = SOURCE_PRIORITY[source]
    BY <2>1
  <2>3. [mid |-> p, real |-> TRUE, rank |-> rank, covered |-> TRUE, age |-> 0] \in Instrument
    BY <2>1, <2>2, Zenon DEF Instrument
  <2> QED
    BY <2>2, <2>3
<1>4. PICK f \in BOOLEAN : f = IF core[r].real THEN tainted[r] ELSE p = Garbage
  BY <1>1
<1>5. core' = [core EXCEPT ![r] = i] /\ tainted' = [tainted EXCEPT ![r] = f]
  BY <1>3, <1>4 DEF Ingest
<1>6. core[r].real => ~Outlying(p, core[r].mid)
  BY DEF Accepts, Outlier
<1>7. core[r].real /\ p = Garbage => core[r].mid = Garbage
  <2>1. ASSUME core[r].mid \in Levels, p = Garbage PROVE Outlying(p, core[r].mid)
    <3>1. Levels \subseteq Nat /\ Garbage \in Nat /\ SanityBound \in Nat
      BY FeedsAssumption
    <3>2. core[r].mid + SanityBound < Garbage \/ Garbage + SanityBound < core[r].mid
      BY <2>1, FeedsAssumption
    <3>3. core[r].mid \in Int /\ Garbage \in Int /\ SanityBound \in Int
      BY <1>2, <3>1
    <3>4. Garbage - core[r].mid > SanityBound \/ core[r].mid - Garbage > SanityBound
      BY <3>2, <3>3
    <3> QED
      BY <2>1, <3>4, Zenon DEF Outlying
  <2> QED
    BY <1>1, <1>6, <2>1 DEF Believed
<1>8. Believed(i, f)
  BY <1>1, <1>3, <1>4, <1>7, FeedsAssumption DEF Believed, AnyPrice
<1>9. \A q \in Replicas : /\ core'[q] = IF q = r THEN i ELSE core[q]
                          /\ tainted'[q] = IF q = r THEN f ELSE tainted[q]
  BY <1>5 DEF FeedsInv, FeedsTypeOK
<1>10. core' \in [Replicas -> Instrument] /\ tainted' \in [Replicas -> BOOLEAN]
  BY <1>3, <1>4, <1>5 DEF FeedsInv, FeedsTypeOK
<1>11. PricesBelieved'
  BY <1>8, <1>9 DEF FeedsInv, PricesBelieved
<1> QED
  BY <1>10, <1>11

\* A quote ends the silence, and with it the circuit.
LEMMA CircuitClosed ==
    ASSUME FeedsInv, NEW r \in Replicas, CloseCircuit(r)
    PROVE  /\ silence' \in [Replicas -> Nat] /\ manager' \in [Replicas -> Health]
           /\ feedCircuit' \in [Replicas -> BOOLEAN] /\ SilenceCounted'
<1>t. /\ silence \in [Replicas -> Nat] /\ manager \in [Replicas -> Health]
      /\ feedCircuit \in [Replicas -> BOOLEAN] /\ SilenceCounted
  BY DEF FeedsInv, FeedsTypeOK
<1>a. Ages \in Nat /\ Ages > 0 /\ CircuitBreak \in Nat
  BY FeedsAssumption DEF Ages
<1>1. silence' = [silence EXCEPT ![r] = 0]
  BY DEF CloseCircuit
<1>2. CASE manager[r].open
  <2>1. manager' = [manager EXCEPT ![r] = Closed] /\ feedCircuit' = [feedCircuit EXCEPT ![r] = FALSE]
    BY <1>2 DEF CloseCircuit
  <2>2. \A q \in Replicas : /\ silence'[q] = IF q = r THEN 0 ELSE silence[q]
                            /\ manager'[q] = IF q = r THEN Closed ELSE manager[q]
                            /\ feedCircuit'[q] = IF q = r THEN FALSE ELSE feedCircuit[q]
    BY <1>t, <1>1, <2>1
  <2>3. Tallies(Closed, 0, FALSE)
    BY <1>a, Starting DEF Tallies
  <2>4. SilenceCounted'
    BY <1>t, <2>2, <2>3 DEF SilenceCounted
  <2> QED
    BY <1>t, <1>1, <2>1, <2>4, Starting
<1>3. CASE ~manager[r].open
  <2>1. manager' = manager /\ feedCircuit' = feedCircuit
    BY <1>3 DEF CloseCircuit
  <2>2. \A q \in Replicas : silence'[q] = IF q = r THEN 0 ELSE silence[q]
    BY <1>t, <1>1
  <2>3. Tallies(manager[r], 0, feedCircuit[r])
    BY <1>t, <1>a, <1>3 DEF SilenceCounted, Tallies
  <2>4. SilenceCounted'
    BY <1>t, <2>1, <2>2, <2>3 DEF SilenceCounted
  <2> QED
    BY <1>t, <1>1, <2>1, <2>4
<1> QED
  BY <1>2, <1>3

LEMMA FeedGave ==
    ASSUME FeedsInv, NEW r \in Replicas, NEW source \in {"ws", "binance", "rest"},
           NEW p \in AnyPrice, FeedGives(r, source, p), UNCHANGED <<market, before>>
    PROVE  FeedsInv'
<1>1. /\ silence' \in [Replicas -> Nat] /\ manager' \in [Replicas -> Health]
      /\ feedCircuit' \in [Replicas -> BOOLEAN] /\ SilenceCounted'
  BY CircuitClosed DEF FeedGives
<1>2. CASE Accepts(r, source, p)
  <2>1. /\ Ingest(r, source, p)
        /\ relayed' = [s \in Replicas |-> IF s = r THEN relayed[s] ELSE relayed[s] \cup {p}]
    BY <1>2 DEF FeedGives
  <2>2. /\ core' \in [Replicas -> Instrument] /\ tainted' \in [Replicas -> BOOLEAN]
        /\ PricesBelieved'
    BY <1>2, <2>1, Ingested
  <2>3. relayed' \in [Replicas -> SUBSET AnyPrice]
    BY <2>1 DEF FeedsInv, FeedsTypeOK
  <2> QED
    BY <1>1, <2>2, <2>3 DEF FeedsInv, FeedsTypeOK
<1>3. CASE ~Accepts(r, source, p)
  <2>1. UNCHANGED <<core, tainted, relayed>>
    BY <1>3 DEF FeedGives
  <2> QED
    BY <1>1, <2>1 DEF FeedsInv, FeedsTypeOK, PricesBelieved
<1> QED
  BY <1>2, <1>3

LEMMA OnePeriod ==
    ASSUME NEW m \in Health, NEW quiet \in Nat, NEW blocked \in BOOLEAN,
           Tallies(m, quiet, blocked), NEW n \in Health, NEW now \in Nat, NEW blocks \in BOOLEAN,
           now = Capped(quiet, Ages),
           n = IF now >= FeedDead
               THEN [open |-> m.open \/ Capped(m.since, CircuitBreak) >= CircuitBreak,
                     since |-> Capped(m.since, CircuitBreak)]
               ELSE [open |-> FALSE, since |-> -1],
           blocks <=> blocked \/ (~m.open /\ now >= FeedDead /\ n.since >= CircuitBreak)
    PROVE  Tallies(n, now, blocks)
<1>1. /\ FeedDead \in Nat /\ FeedDead > 1 /\ CircuitBreak \in Nat /\ CircuitBreak > 0
      /\ Ages = FeedDead + CircuitBreak
  BY FeedsAssumption DEF Ages
<1>2. m.open \in BOOLEAN /\ m.since \in Int
  BY DEF Health
<1>3. CASE now >= FeedDead
  <2>1. (n.open <=> m.open \/ Capped(m.since, CircuitBreak) >= CircuitBreak)
        /\ n.since = Capped(m.since, CircuitBreak)
    BY <1>3
  <2>2. quiet # 0
    BY <1>1, <1>3 DEF Capped
  <2>3. CASE m.open
    BY <1>1, <1>2, <2>1, <2>2, <2>3 DEF Tallies, Capped
  <2>4. CASE ~m.open
    BY <1>1, <1>2, <2>1, <2>2, <2>4 DEF Tallies, Capped
  <2> QED
    BY <2>3, <2>4
<1>4. CASE ~(now >= FeedDead)
  <2>1. n.open = FALSE /\ n.since = -1
    BY <1>4
  <2>2. ~m.open /\ ~blocks
    BY <1>1, <1>2, <1>4 DEF Tallies, Capped
  <2> QED
    BY <1>1, <1>4, <2>1, <2>2 DEF Tallies, Capped
<1> QED
  BY <1>3, <1>4

LEMMA FeedsStep == FeedsInv /\ [FeedsNext]_feedVars => FeedsInv'
<1> SUFFICES ASSUME FeedsInv, [FeedsNext]_feedVars PROVE FeedsInv'
  OBVIOUS
<1> USE DEF outside
<1>t. FeedsTypeOK
  BY DEF FeedsInv
<1>c. /\ Levels \subseteq Nat /\ Garbage \in Nat /\ market \in Levels /\ before \in Levels
      /\ Levels \subseteq AnyPrice /\ Garbage \in AnyPrice
  BY <1>t, FeedsAssumption DEF FeedsTypeOK, AnyPrice
<1>1. CASE MarketTicks \/ PrimaryMoves
  BY <1>1 DEF MarketTicks, PrimaryMoves, FeedsInv, FeedsTypeOK, PricesBelieved, SilenceCounted
<1>2. ASSUME NEW r \in Replicas, NEW source \in {"ws", "binance", "rest"},
             OnQuote(r, source) \/ OnGarbage(r, source)
      PROVE  FeedsInv'
  BY <1>2, <1>c, FeedGave DEF OnQuote, OnGarbage
<1>3. ASSUME NEW r \in Replicas, PollRestBatch(r) PROVE FeedsInv'
  BY <1>3, <1>c, FeedGave DEF PollRestBatch
<1>4. ASSUME NEW r \in Replicas, OnOtherQuote(r) PROVE FeedsInv'
  <2>1. /\ silence' \in [Replicas -> Nat] /\ manager' \in [Replicas -> Health]
        /\ feedCircuit' \in [Replicas -> BOOLEAN] /\ SilenceCounted'
    BY <1>4, CircuitClosed DEF OnOtherQuote
  <2> QED
    BY <1>4, <2>1 DEF OnOtherQuote, FeedsInv, FeedsTypeOK, PricesBelieved
<1>5. ASSUME NEW r \in Replicas, NEW p \in AnyPrice, OnTickEvent(r, p) PROVE FeedsInv'
  <2>1. /\ UNCHANGED <<market, before, silence, manager, feedCircuit>>
        /\ relayed' \in [Replicas -> SUBSET AnyPrice]
    BY <1>5, <1>t DEF OnTickEvent, FeedsTypeOK
  <2>2. /\ core' \in [Replicas -> Instrument] /\ tainted' \in [Replicas -> BOOLEAN]
        /\ PricesBelieved'
    <3>1. CASE Accepts(r, "relay", p)
      BY <1>5, <3>1, Ingested DEF OnTickEvent
    <3>2. CASE ~Accepts(r, "relay", p)
      BY <1>5, <1>t, <3>2 DEF OnTickEvent, FeedsInv, FeedsTypeOK, PricesBelieved
    <3> QED
      BY <3>1, <3>2
  <2> QED
    BY <2>1, <2>2 DEF FeedsInv, FeedsTypeOK, SilenceCounted
<1>6. ASSUME NEW r \in Replicas, NEW p \in AnyPrice, TickLost(r, p) PROVE FeedsInv'
  <2>1. relayed' \in [Replicas -> SUBSET AnyPrice]
    BY <1>6, <1>t DEF TickLost, FeedsTypeOK
  <2> QED
    BY <1>6, <2>1 DEF TickLost, FeedsInv, FeedsTypeOK, PricesBelieved, SilenceCounted
<1>7. ASSUME NEW r \in Replicas, ProtectionEnds(r) PROVE FeedsInv'
  <2>1. core[r] \in Instrument
    BY <1>t DEF FeedsTypeOK
  <2>2. PICK i \in Instrument : i = [core[r] EXCEPT !.covered = FALSE]
    BY <2>1, Zenon DEF Instrument
  <2>3. i.mid = core[r].mid /\ i.real = core[r].real
    BY <2>1, <2>2, Zenon DEF Instrument
  <2>4. core' = [core EXCEPT ![r] = i]
    BY <1>7, <2>2 DEF ProtectionEnds
  <2>5. core' \in [Replicas -> Instrument] /\ \A q \in Replicas : core'[q] = IF q = r THEN i ELSE core[q]
    BY <1>t, <2>4 DEF FeedsTypeOK
  <2>6. Believed(i, tainted[r])
    BY <2>3 DEF FeedsInv, PricesBelieved, Believed
  <2>7. UNCHANGED <<market, before, silence, manager, feedCircuit, relayed, tainted>>
    BY <1>7 DEF ProtectionEnds
  <2>8. PricesBelieved'
    BY <2>5, <2>6, <2>7 DEF FeedsInv, PricesBelieved
  <2> QED
    BY <2>5, <2>7, <2>8 DEF FeedsInv, FeedsTypeOK, SilenceCounted
<1>8. CASE PeriodPasses
  <2>1. /\ UNCHANGED <<market, before, relayed, tainted>>
        /\ silence' = [r \in Replicas |-> Capped(silence[r], Ages)]
        /\ core' = [r \in Replicas |->
              [core[r] EXCEPT !.age = Capped(core[r].age, StaleAfter), !.covered = FALSE]]
        /\ manager' = [r \in Replicas |->
              IF silence'[r] >= FeedDead
              THEN [open |-> manager[r].open \/ Capped(manager[r].since, CircuitBreak) >= CircuitBreak,
                    since |-> Capped(manager[r].since, CircuitBreak)]
              ELSE [open |-> FALSE, since |-> -1]]
        /\ feedCircuit' = [r \in Replicas |-> feedCircuit[r] \/ Opens(r)]
    BY <1>8 DEF PeriodPasses, CheckHealth, AllDead, SinceCleared
  <2>2. ASSUME NEW r \in Replicas
        PROVE  /\ core'[r] \in Instrument /\ Believed(core'[r], tainted'[r])
    <3>1. core[r] \in Instrument
      BY <1>t DEF FeedsTypeOK
    <3>2. PICK a \in Int : a = Capped(core[r].age, StaleAfter)
      BY <3>1, FeedsAssumption DEF Instrument, Capped
    <3>3. core'[r] = [core[r] EXCEPT !.age = a, !.covered = FALSE]
      BY <2>1, <3>2
    <3>4. [core[r] EXCEPT !.age = a, !.covered = FALSE] \in Instrument
      BY <3>1, Zenon DEF Instrument
    <3>5. core'[r].mid = core[r].mid /\ core'[r].real = core[r].real
      BY <3>1, <3>3, Zenon DEF Instrument
    <3>6. tainted'[r] = tainted[r] /\ Believed(core[r], tainted[r])
      BY <2>1 DEF FeedsInv, PricesBelieved
    <3> QED
      BY <3>3, <3>4, <3>5, <3>6 DEF Believed
  <2>3. ASSUME NEW r \in Replicas
        PROVE  /\ silence'[r] \in Nat /\ manager'[r] \in Health /\ feedCircuit'[r] \in BOOLEAN
               /\ Tallies(manager'[r], silence'[r], feedCircuit'[r])
    <3>1. /\ silence[r] \in Nat /\ manager[r] \in Health /\ feedCircuit[r] \in BOOLEAN
          /\ Tallies(manager[r], silence[r], feedCircuit[r])
      BY <1>t DEF FeedsInv, FeedsTypeOK, SilenceCounted
    <3>2. manager[r].open \in BOOLEAN /\ manager[r].since \in Int
      BY <3>1 DEF Health
    <3>3. PICK now \in Nat : now = Capped(silence[r], Ages)
      BY <3>1, FeedsAssumption DEF Capped, Ages
    <3>4. PICK n \in Health :
             n = IF now >= FeedDead
                 THEN [open |-> manager[r].open \/ Capped(manager[r].since, CircuitBreak) >= CircuitBreak,
                       since |-> Capped(manager[r].since, CircuitBreak)]
                 ELSE [open |-> FALSE, since |-> -1]
      <4>1. Capped(manager[r].since, CircuitBreak) \in Int /\ -1 \in Int
        BY <3>2, FeedsAssumption DEF Capped
      <4>2. [open |-> manager[r].open \/ Capped(manager[r].since, CircuitBreak) >= CircuitBreak,
             since |-> Capped(manager[r].since, CircuitBreak)] \in Health
        BY <3>2, <4>1 DEF Health
      <4>3. [open |-> FALSE, since |-> -1] \in Health
        BY <4>1 DEF Health
      <4> QED
        BY <4>2, <4>3
    <3>5. silence'[r] = now /\ manager'[r] = n
      BY <2>1, <3>3, <3>4
    <3>6. PICK blocks \in BOOLEAN : blocks = feedCircuit'[r]
      BY <2>1, <3>1 DEF Opens, AllDead
    <3>7. blocks <=> feedCircuit[r] \/ (~manager[r].open /\ now >= FeedDead /\ n.since >= CircuitBreak)
      BY <2>1, <3>5, <3>6 DEF Opens, AllDead
    <3>8. PICK m \in Health, quiet \in Nat, blocked \in BOOLEAN :
             m = manager[r] /\ quiet = silence[r] /\ blocked = feedCircuit[r]
      BY <3>1
    <3>9. Tallies(n, now, blocks)
      <4>1. /\ Tallies(m, quiet, blocked) /\ now = Capped(quiet, Ages)
            /\ n = IF now >= FeedDead
                   THEN [open |-> m.open \/ Capped(m.since, CircuitBreak) >= CircuitBreak,
                         since |-> Capped(m.since, CircuitBreak)]
                   ELSE [open |-> FALSE, since |-> -1]
            /\ blocks <=> blocked \/ (~m.open /\ now >= FeedDead /\ n.since >= CircuitBreak)
        BY <3>1, <3>3, <3>4, <3>7, <3>8
      <4> QED
        BY <4>1, OnePeriod
    <3> QED
      BY <3>5, <3>6, <3>9
  <2>4. core' \in [Replicas -> Instrument] /\ PricesBelieved'
    BY <2>1, <2>2 DEF PricesBelieved
  <2>5. /\ silence' \in [Replicas -> Nat] /\ manager' \in [Replicas -> Health]
        /\ feedCircuit' \in [Replicas -> BOOLEAN] /\ SilenceCounted'
    BY <2>1, <2>3 DEF SilenceCounted
  <2> QED
    BY <1>t, <2>1, <2>4, <2>5 DEF FeedsInv, FeedsTypeOK
<1>9. ASSUME NEW r \in Replicas, ResetCircuit(r) PROVE FeedsInv'
  <2>1. /\ feedCircuit' = [feedCircuit EXCEPT ![r] = FALSE]
        /\ UNCHANGED <<market, before, core, silence, manager, relayed, tainted>>
    BY <1>9 DEF ResetCircuit
  <2>2. /\ feedCircuit' \in [Replicas -> BOOLEAN]
        /\ \A q \in Replicas : feedCircuit'[q] = IF q = r THEN FALSE ELSE feedCircuit[q]
    BY <1>t, <2>1 DEF FeedsTypeOK
  <2>3. SilenceCounted'
    BY <2>1, <2>2 DEF FeedsInv, SilenceCounted, Tallies
  <2> QED
    BY <2>1, <2>2, <2>3 DEF FeedsInv, FeedsTypeOK, PricesBelieved
<1>10. ASSUME NEW r \in Replicas, RestartReplica(r) PROVE FeedsInv'
  <2>1. /\ silence' = [silence EXCEPT ![r] = Ages] /\ manager' = [manager EXCEPT ![r] = Closed]
        /\ feedCircuit' = [feedCircuit EXCEPT ![r] = FALSE] /\ relayed' = [relayed EXCEPT ![r] = {}]
        /\ tainted' = [tainted EXCEPT ![r] = FALSE] /\ UNCHANGED <<market, before>>
    BY <1>10 DEF RestartReplica
  <2>2. PICK i \in Instrument : core' = [core EXCEPT ![r] = i] /\ Believed(i, FALSE)
    <3>1. CASE core' = [core EXCEPT ![r] = Unpriced]
      BY <3>1, Starting DEF Believed
    <3>2. CASE core' = [core EXCEPT ![r] = [Unpriced EXCEPT !.mid = before, !.real = TRUE, !.age = 0]]
      <4>1. before \in Nat /\ 0 \in Int
        BY <1>c
      <4>2. [Unpriced EXCEPT !.mid = before, !.real = TRUE, !.age = 0] \in Instrument
        BY <4>1, Starting, Zenon DEF Instrument
      <4>3. PICK i \in Instrument : /\ i = [Unpriced EXCEPT !.mid = before, !.real = TRUE, !.age = 0]
                                    /\ i.mid = before /\ i.real = TRUE
        BY <4>2, Zenon DEF Unpriced
      <4> QED
        BY <3>2, <1>c, <4>3 DEF Believed
    <3> QED
      BY <1>10, <3>1, <3>2 DEF RestartReplica
  <2>3. Ages \in Nat /\ CircuitBreak \in Nat
    BY FeedsAssumption DEF Ages
  <2>4. FeedsTypeOK'
    BY <1>t, <2>1, <2>2, <2>3, Starting DEF FeedsTypeOK
  <2>5. \A q \in Replicas : /\ core'[q] = IF q = r THEN i ELSE core[q]
                            /\ tainted'[q] = IF q = r THEN FALSE ELSE tainted[q]
                            /\ silence'[q] = IF q = r THEN Ages ELSE silence[q]
                            /\ manager'[q] = IF q = r THEN Closed ELSE manager[q]
                            /\ feedCircuit'[q] = IF q = r THEN FALSE ELSE feedCircuit[q]
    BY <1>t, <2>1, <2>2 DEF FeedsTypeOK
  <2>6. PricesBelieved'
    BY <2>2, <2>5 DEF FeedsInv, PricesBelieved
  <2>7. Tallies(Closed, Ages, FALSE)
    BY <2>3, Starting DEF Tallies
  <2>8. SilenceCounted'
    BY <2>5, <2>7 DEF FeedsInv, SilenceCounted
  <2> QED
    BY <2>4, <2>6, <2>8 DEF FeedsInv
<1>11. CASE UNCHANGED feedVars
  BY <1>11 DEF feedVars, FeedsInv, FeedsTypeOK, PricesBelieved, SilenceCounted
<1> QED
  BY <1>1, <1>2, <1>3, <1>4, <1>5, <1>6, <1>7, <1>8, <1>9, <1>10, <1>11 DEF FeedsNext, AnyPrice

LEMMA FeedsFollow == FeedsInv => FeedsSound
<1> SUFFICES ASSUME FeedsInv PROVE FeedsSound
  OBVIOUS
<1>1. GarbageOnlyFirst
  BY FeedsAssumption DEF FeedsInv, PricesBelieved, Believed, GarbageOnlyFirst
<1>2. BlockedOnlyWhenSilent
  BY FeedsAssumption DEF FeedsInv, FeedsTypeOK, SilenceCounted, Tallies, BlockedOnlyWhenSilent, Ages
<1> QED
  BY <1>1, <1>2 DEF FeedsSound
---------------------------------------------------------------------------
(* The connections to the vendor.                                          *)

Feed == [stopped : BOOLEAN, socket : {"none", "connecting", "open", "closing"},
         reconnectTimer : BOOLEAN, pings : BOOLEAN]

\* A feed in use has a socket or dials; a dropped one only waits for its end.
InUse(f) == ~f.stopped /\ ((f.socket # "none") # f.reconnectTimer) /\ f.socket # "closing"
Dropped(f) == f.stopped /\ ~f.reconnectTimer /\ f.socket \in {"none", "closing"} /\ ~f.pings

SocketsInv ==
    \E n \in Nat :
       /\ feeds \in [1..n -> Feed]
       /\ wsFeed \in 0..n /\ restTimer \in BOOLEAN /\ primaryRunning \in BOOLEAN
       /\ primaryRunning <=> wsFeed # 0
       /\ restTimer => primaryRunning
       /\ \A f \in 1..n : IF f = wsFeed THEN InUse(feeds[f]) ELSE Dropped(feeds[f])

LEMMA SocketsInitially == SocketsInit => SocketsInv
<1> SUFFICES ASSUME SocketsInit PROVE SocketsInv
  OBVIOUS
<1>1. 1..0 = {} /\ 0 \in Nat /\ 0 \in 0..0
  OBVIOUS
<1>2. feeds \in [1..0 -> Feed]
  BY <1>1 DEF SocketsInit
<1> QED
  BY <1>1, <1>2 DEF SocketsInit, SocketsInv

\* A step that changes one feed and neither what is in use nor the timer.
LEMMA OneFeed ==
    ASSUME NEW n \in Nat, feeds \in [1..n -> Feed], wsFeed \in 0..n, restTimer \in BOOLEAN,
           primaryRunning \in BOOLEAN, primaryRunning <=> wsFeed # 0, restTimer => primaryRunning,
           \A f \in 1..n : IF f = wsFeed THEN InUse(feeds[f]) ELSE Dropped(feeds[f]),
           NEW f \in 1..n, NEW g \in Feed, feeds' = [feeds EXCEPT ![f] = g],
           IF f = wsFeed THEN InUse(g) ELSE Dropped(g),
           UNCHANGED <<wsFeed, restTimer, primaryRunning>>
    PROVE  SocketsInv'
<1>1. feeds' \in [1..n -> Feed] /\ \A h \in 1..n : feeds'[h] = IF h = f THEN g ELSE feeds[h]
  OBVIOUS
<1>2. \A h \in 1..n : IF h = wsFeed' THEN InUse(feeds'[h]) ELSE Dropped(feeds'[h])
  BY <1>1
<1> QED
  BY <1>1, <1>2 DEF SocketsInv

LEMMA SocketsStep == SocketsInv /\ [SocketsNext]_socketVars => SocketsInv'
<1> SUFFICES ASSUME SocketsInv, [SocketsNext]_socketVars PROVE SocketsInv'
  OBVIOUS
<1> USE DEF rest
<1>n. PICK n \in Nat :
         /\ feeds \in [1..n -> Feed]
         /\ wsFeed \in 0..n /\ restTimer \in BOOLEAN /\ primaryRunning \in BOOLEAN
         /\ primaryRunning <=> wsFeed # 0
         /\ restTimer => primaryRunning
         /\ \A f \in 1..n : IF f = wsFeed THEN InUse(feeds[f]) ELSE Dropped(feeds[f])
  BY DEF SocketsInv
<1>m. Made = 1..n /\ Cardinality(Made) = n
  <2>1. Made = 1..n
    BY <1>n DEF Made
  <2>2. Cardinality(1..n) = n
    BY FS_Interval
  <2> QED
    BY <2>1, <2>2
<1>f. ASSUME NEW f \in 1..n
      PROVE  /\ feeds[f] \in Feed /\ feeds[f].stopped \in BOOLEAN
             /\ feeds[f].reconnectTimer \in BOOLEAN /\ feeds[f].pings \in BOOLEAN
             /\ feeds[f].socket \in {"none", "connecting", "open", "closing"}
             /\ IF f = wsFeed THEN InUse(feeds[f]) ELSE Dropped(feeds[f])
  <2>1. feeds[f] \in Feed
    BY <1>n, <1>f
  <2> QED
    BY <1>n, <1>f, <2>1 DEF Feed
<1>1. ASSUME UNCHANGED <<feeds, wsFeed, restTimer, primaryRunning>> PROVE SocketsInv'
  BY <1>1 DEF SocketsInv
<1>2. CASE StartPrimary
  <2>1. /\ ~primaryRunning /\ primaryRunning' = TRUE /\ restTimer' = TRUE
        /\ wsFeed' = n + 1
        /\ feeds' = [f \in Made \cup {wsFeed'} |-> IF f = wsFeed' THEN Fresh ELSE feeds[f]]
    BY <1>2, <1>m DEF StartPrimary
  <2>2. wsFeed = 0 /\ n + 1 \in Nat /\ (1..n) \cup {n + 1} = 1..(n + 1)
    BY <1>n, <2>1
  <2>3. Fresh \in Feed /\ InUse(Fresh)
    <3>1. Fresh \in Feed
      BY Zenon DEF Fresh, Feed
    <3>2. /\ Fresh.stopped = FALSE /\ Fresh.socket = "connecting" /\ Fresh.reconnectTimer = FALSE
      BY DEF Fresh
    <3> QED
      BY <3>1, <3>2 DEF InUse
  <2>4. feeds' = [f \in 1..(n + 1) |-> IF f = n + 1 THEN Fresh ELSE feeds[f]]
    BY <1>m, <2>1, <2>2
  <2>5. ASSUME NEW f \in 1..(n + 1)
        PROVE  feeds'[f] \in Feed /\ IF f = wsFeed' THEN InUse(feeds'[f]) ELSE Dropped(feeds'[f])
    <3>1. CASE f = n + 1
      BY <2>1, <2>3, <2>4, <3>1
    <3>2. CASE f # n + 1
      <4>1. f \in 1..n /\ f # wsFeed
        BY <2>2, <3>2
      <4>2. feeds'[f] = feeds[f]
        BY <2>4, <3>2
      <4>3. feeds[f] \in Feed /\ Dropped(feeds[f])
        BY <1>f, <4>1
      <4> QED
        BY <2>1, <3>2, <4>2, <4>3
    <3> QED
      BY <3>1, <3>2
  <2>6. feeds' \in [1..(n + 1) -> Feed]
    BY <2>4, <2>5
  <2>7. wsFeed' \in 0..(n + 1) /\ wsFeed' # 0
    BY <2>1, <2>2
  <2> QED
    BY <2>1, <2>2, <2>5, <2>6, <2>7 DEF SocketsInv
<1>3. CASE StopPrimary
  <2>1. /\ primaryRunning /\ primaryRunning' = FALSE /\ wsFeed' = 0 /\ restTimer' = FALSE
        /\ feeds' = [feeds EXCEPT ![wsFeed] = StopFeed(wsFeed)]
    BY <1>3 DEF StopPrimary
  <2>2. wsFeed \in 1..n
    BY <1>n, <2>1
  <2>3. PICK s \in {"none", "closing"} : s = IF feeds[wsFeed].socket = "none" THEN "none" ELSE "closing"
    OBVIOUS
  <2>4. PICK g \in Feed : g = StopFeed(wsFeed) /\ Dropped(g)
    <3>1. StopFeed(wsFeed) = [feeds[wsFeed] EXCEPT !.stopped = TRUE, !.reconnectTimer = FALSE,
                                                   !.pings = FALSE, !.socket = s]
      BY <2>3 DEF StopFeed
    <3>2. [feeds[wsFeed] EXCEPT !.stopped = TRUE, !.reconnectTimer = FALSE,
                                !.pings = FALSE, !.socket = s] \in Feed
      BY <1>f, <2>2, <2>3, Zenon DEF Feed
    <3>3. PICK g \in Feed : g = [feeds[wsFeed] EXCEPT !.stopped = TRUE, !.reconnectTimer = FALSE,
                                                      !.pings = FALSE, !.socket = s]
      BY <3>2
    <3>4. feeds[wsFeed] \in Feed
      BY <1>f, <2>2
    <3>5. g.stopped = TRUE /\ g.reconnectTimer = FALSE /\ g.pings = FALSE /\ g.socket = s
      BY <3>3, <3>4, Zenon DEF Feed
    <3> QED
      BY <2>3, <3>1, <3>3, <3>5 DEF Dropped
  <2>5. feeds' = [feeds EXCEPT ![wsFeed] = g]
    BY <2>1, <2>4
  <2>6. feeds' \in [1..n -> Feed] /\ \A h \in 1..n : feeds'[h] = IF h = wsFeed THEN g ELSE feeds[h]
    BY <1>n, <2>5
  <2>7. \A h \in 1..n : Dropped(feeds'[h])
    BY <1>n, <2>4, <2>6
  <2>8. 0 \in 0..n /\ \A h \in 1..n : h # 0
    BY <1>n
  <2> QED
    BY <2>1, <2>6, <2>7, <2>8 DEF SocketsInv
<1>4. ASSUME NEW f \in 1..n, OnOpen(f) PROVE SocketsInv'
  <2>1. /\ feeds[f].socket = "connecting" /\ UNCHANGED <<wsFeed, restTimer, primaryRunning>>
        /\ feeds' = [feeds EXCEPT ![f] = [feeds[f] EXCEPT !.socket = "open", !.pings = TRUE]]
    BY <1>4, <1>n DEF OnOpen
  <2>2. PICK g \in Feed : g = [feeds[f] EXCEPT !.socket = "open", !.pings = TRUE]
    BY <1>f, Zenon DEF Feed
  <2>3. /\ g.socket = "open" /\ g.stopped = feeds[f].stopped
        /\ g.reconnectTimer = feeds[f].reconnectTimer
    BY <1>f, <2>2, Zenon DEF Feed
  <2>4. f = wsFeed /\ InUse(feeds[f])
    BY <1>f, <2>1 DEF Dropped
  <2>5. InUse(g)
    BY <2>1, <2>3, <2>4 DEF InUse
  <2> QED
    BY <1>n, <1>4, <2>1, <2>2, <2>4, <2>5, OneFeed
<1>5. ASSUME NEW f \in 1..n, OnClose(f) PROVE SocketsInv'
  <2>1. PICK b \in BOOLEAN : b <=> feeds[f].reconnectTimer \/ Reconnect(f)
    OBVIOUS
  <2>2. /\ feeds[f].socket # "none" /\ UNCHANGED <<wsFeed, restTimer, primaryRunning>>
        /\ feeds' = [feeds EXCEPT ![f] = [feeds[f] EXCEPT !.socket = "none", !.pings = FALSE,
                                             !.reconnectTimer = feeds[f].reconnectTimer \/ Reconnect(f)]]
    BY <1>5, <1>n DEF OnClose
  <2>3. b = (feeds[f].reconnectTimer \/ Reconnect(f))
    BY <2>1
  <2>4. PICK g \in Feed : g = [feeds[f] EXCEPT !.socket = "none", !.pings = FALSE, !.reconnectTimer = b]
    BY <1>f, Zenon DEF Feed
  <2>5. g.socket = "none" /\ g.stopped = feeds[f].stopped /\ g.reconnectTimer = b /\ g.pings = FALSE
    BY <1>f, <2>4, Zenon DEF Feed
  <2>6. feeds' = [feeds EXCEPT ![f] = g]
    BY <2>2, <2>3, <2>4
  <2>7. IF f = wsFeed THEN InUse(g) ELSE Dropped(g)
    BY <1>f, <2>1, <2>2, <2>5 DEF InUse, Dropped, Reconnect
  <2> QED
    BY <1>n, <1>5, <2>2, <2>6, <2>7, OneFeed
<1>6. ASSUME NEW f \in 1..n, Dial(f) PROVE SocketsInv'
  <2>1. feeds[f].reconnectTimer /\ UNCHANGED <<wsFeed, restTimer, primaryRunning>>
    BY <1>6 DEF Dial
  <2>2. f = wsFeed /\ InUse(feeds[f])
    BY <1>f, <2>1 DEF Dropped
  <2>3. feeds' = [feeds EXCEPT ![f] = [feeds[f] EXCEPT !.reconnectTimer = FALSE,
                                                       !.socket = "connecting"]]
    BY <1>6, <1>n, <2>2 DEF Dial, InUse
  <2>4. PICK g \in Feed : g = [feeds[f] EXCEPT !.reconnectTimer = FALSE, !.socket = "connecting"]
    BY <1>f, Zenon DEF Feed
  <2>5. g.socket = "connecting" /\ g.stopped = feeds[f].stopped /\ g.reconnectTimer = FALSE
    BY <1>f, <2>4, Zenon DEF Feed
  <2>6. InUse(g)
    BY <2>2, <2>5 DEF InUse
  <2> QED
    BY <1>n, <1>6, <2>1, <2>2, <2>3, <2>4, <2>6, OneFeed
<1>7. CASE PollRest
  BY <1>1, <1>7 DEF PollRest
<1>8. ASSUME NEW b, PollAnswered(b) PROVE SocketsInv'
  BY <1>1, <1>8 DEF PollAnswered
<1>9. CASE UNCHANGED socketVars
  BY <1>1, <1>9 DEF socketVars
<1> QED
  BY <1>m, <1>2, <1>3, <1>4, <1>5, <1>6, <1>7, <1>8, <1>9 DEF SocketsNext

LEMMA SocketsFollow == SocketsInv => OneDialler
<1> SUFFICES ASSUME SocketsInv PROVE OneDialler
  OBVIOUS
<1>1. PICK n \in Nat :
         /\ feeds \in [1..n -> Feed]
         /\ restTimer => primaryRunning
         /\ \A f \in 1..n : IF f = wsFeed THEN InUse(feeds[f]) ELSE Dropped(feeds[f])
  BY DEF SocketsInv
<1>2. Made = 1..n
  BY <1>1 DEF Made
<1> QED
  BY <1>1, <1>2 DEF OneDialler, InUse, Dropped
---------------------------------------------------------------------------
(* The quotes and what they are filled at.                                 *)

\* What a spread may be before it is widened.
Spreads == Bases \cup {RealSpread + Step, 2 * HalfSpread + Step}

\* A price as it is shown, in whole steps.
Whole(x) == \E k \in Int : x = k * Step

LEMMA RoundIs ==
    ASSUME NEW x \in Int
    PROVE  \E q \in Int, h \in Nat \ {0} :
              /\ Step = 2 * h /\ RoundPrice(x) = q * Step /\ q * Step \in Int
              /\ q * Step <= x + h /\ x - h < q * Step
<1>1. PICK h \in Nat \ {0} : Step = 2 * h /\ Step \div 2 = h
  <2>1. Step \div 2 \in Nat \ {0} /\ Step = 2 * (Step \div 2)
    BY PricingAssumption
  <2> QED
    BY <2>1
<1>2. PICK q \in Int : (x + h) \div Step = q /\ q * Step <= x + h /\ x + h < q * Step + Step
  BY <1>1, PricingAssumption
<1>3. RoundPrice(x) = q * Step /\ q * Step \in Int
  BY <1>1, <1>2, PricingAssumption DEF RoundPrice
<1> QED
  BY <1>1, <1>2, <1>3

LEMMA StepsCompare ==
    ASSUME NEW q \in Int, NEW r \in Int
    PROVE  /\ q * Step < r * Step + Step => q <= r
           /\ q <= r => q * Step <= r * Step
<1>1. Step \in Nat \ {0}
  BY PricingAssumption
<1>2. (r + 1) * Step = r * Step + Step /\ q * Step \in Int /\ r * Step \in Int
  BY <1>1
<1>3. ASSUME r + 1 <= q PROVE (r + 1) * Step <= q * Step
  BY <1>1, <1>3
<1>4. ASSUME q <= r PROVE q * Step <= r * Step
  BY <1>1, <1>4
<1>5. ASSUME q * Step < r * Step + Step PROVE q <= r
  <2>1. SUFFICES ASSUME r + 1 <= q PROVE FALSE
    OBVIOUS
  <2>2. PICK a \in Int, b \in Int, c \in Int : a = q * Step /\ b = r * Step /\ c = (r + 1) * Step
    BY <1>1, <1>2
  <2>3. c <= a
    BY <1>3, <2>1, <2>2
  <2>4. c = b + Step
    BY <1>2, <2>2
  <2>5. a < b + Step
    BY <1>5, <2>2
  <2> QED
    BY <1>1, <2>3, <2>4, <2>5
<1> QED
  BY <1>4, <1>5

LEMMA RoundKeepsOrder ==
    ASSUME NEW x \in Int, NEW y \in Int, x <= y
    PROVE  RoundPrice(x) \in Int /\ RoundPrice(y) \in Int /\ RoundPrice(x) <= RoundPrice(y)
<1>1. PICK q \in Int, h \in Nat \ {0} : /\ Step = 2 * h /\ RoundPrice(x) = q * Step /\ q * Step \in Int
                                        /\ q * Step <= x + h /\ x - h < q * Step
  BY RoundIs
<1>2. PICK r \in Int, k \in Nat \ {0} : /\ Step = 2 * k /\ RoundPrice(y) = r * Step /\ r * Step \in Int
                                        /\ r * Step <= y + k /\ y - k < r * Step
  BY RoundIs
<1>3. q * Step < r * Step + Step
  BY <1>1, <1>2
<1>4. q * Step <= r * Step
  BY <1>3, StepsCompare
<1> QED
  BY <1>1, <1>2, <1>4

LEMMA RoundOfWhole ==
    ASSUME NEW x \in Int, Whole(x)
    PROVE  RoundPrice(x) = x
<1>1. PICK k \in Int : x = k * Step
  BY DEF Whole
<1>2. PICK q \in Int, h \in Nat \ {0} : /\ Step = 2 * h /\ RoundPrice(x) = q * Step /\ q * Step \in Int
                                        /\ q * Step <= x + h /\ x - h < q * Step
  BY RoundIs
<1>3. q * Step < k * Step + Step /\ k * Step < q * Step + Step
  BY <1>1, <1>2
<1>4. q <= k /\ k <= q
  BY <1>3, StepsCompare
<1> QED
  BY <1>1, <1>2, <1>4

LEMMA RoundIsWhole ==
    ASSUME NEW x \in Int
    PROVE  /\ RoundPrice(x) \in Int /\ Whole(RoundPrice(x))
           /\ x >= 0 => RoundPrice(x) \in Nat
<1>1. PICK q \in Int, h \in Nat \ {0} : /\ Step = 2 * h /\ RoundPrice(x) = q * Step /\ q * Step \in Int
                                        /\ q * Step <= x + h /\ x - h < q * Step
  BY RoundIs
<1>2. Whole(0)
  <2>1. 0 = 0 * Step
    BY PricingAssumption
  <2> QED
    BY <2>1 DEF Whole
<1>3. x >= 0 => RoundPrice(0) <= RoundPrice(x)
  BY RoundKeepsOrder
<1> QED
  BY <1>1, <1>2, <1>3, RoundOfWhole DEF Whole

\* A quote made around a price is as wide as the spread but for one step.
Shown(q) == /\ q = [bid |-> q.bid, ask |-> q.ask] /\ q.bid \in Nat /\ q.ask \in Nat
            /\ Whole(q.bid) /\ Whole(q.ask) /\ q.bid <= q.ask

LEMMA AroundIs ==
    ASSUME NEW m \in Nat, NEW s \in Nat, s <= m
    PROVE  /\ Shown(Around(m, s)) /\ Width(Around(m, s)) \in Nat
           /\ Width(Around(m, s)) >= s - Step /\ Width(Around(m, s)) <= s + Step
<1>1. PICK k \in Nat : k = s \div 2 /\ 2 * k <= s /\ s <= 2 * k + 1
  OBVIOUS
<1>2. PICK x \in Int, y \in Int : x = m - k /\ y = m + k /\ x >= 0 /\ y >= 0
  BY <1>1
<1>3. PICK q \in Int, h \in Nat \ {0} :
         /\ Step = 2 * h /\ RoundPrice(x) = q * Step /\ q * Step \in Int
         /\ q * Step <= x + h /\ x - h < q * Step
  BY <1>2, RoundIs
<1>4. PICK r \in Int, j \in Nat \ {0} :
         /\ Step = 2 * j /\ RoundPrice(y) = r * Step /\ r * Step \in Int
         /\ r * Step <= y + j /\ y - j < r * Step
  BY <1>2, RoundIs
<1>5. PICK b \in Nat : b = RoundPrice(x) /\ Whole(b)
  BY <1>2, RoundIsWhole
<1>6. PICK a \in Nat : a = RoundPrice(y) /\ Whole(a)
  BY <1>2, RoundIsWhole
<1>7. Around(m, s) = [bid |-> b, ask |-> a]
  BY <1>1, <1>2, <1>5, <1>6 DEF Around
<1>8. b <= a
  BY <1>2, <1>5, <1>6, RoundKeepsOrder
<1>9. a - b >= s - Step /\ a - b <= s + Step
  BY <1>1, <1>2, <1>3, <1>4, <1>5, <1>6
<1>10. Around(m, s).bid = b /\ Around(m, s).ask = a
  BY <1>7
<1>11. Width(Around(m, s)) = a - b
  BY <1>10 DEF Width
<1>12. Shown(Around(m, s))
  BY <1>5, <1>6, <1>7, <1>8, <1>10 DEF Shown
<1> QED
  BY <1>8, <1>9, <1>11, <1>12

\* Spreads that a mid above the floor leaves room for.
Small(x) == \E s \in Spreads : x <= s
Bearable(x) == \E s \in Spreads : x <= (s * maxSpreadMultiplier) \div 10
Floor(m) == \A s \in Spreads : (s * maxSpreadMultiplier) \div 10 <= m

LEMMA SpreadsTyped == Spreads \subseteq Nat /\ Bases \subseteq Spreads
<1>1. RealSpread + Step \in Nat /\ 2 * HalfSpread + Step \in Nat
  BY PricingAssumption
<1> QED
  BY <1>1, PricingAssumption DEF Spreads

LEMMA Stretches ==
    ASSUME NEW x \in Nat, NEW n \in Nat, n >= 10, n <= maxSpreadMultiplier, Small(x)
    PROVE  (x * n) \div 10 \in Nat /\ (x * n) \div 10 >= x /\ Bearable((x * n) \div 10) /\ Bearable(x)
<1>1. PICK s \in Nat : s \in Spreads /\ x <= s
  BY SpreadsTyped DEF Small
<1>2. x * 10 <= x * n
  OBVIOUS
<1>3. x * n <= s * maxSpreadMultiplier
  <2>1. x * n <= s * n
    BY <1>1
  <2>2. s * n <= s * maxSpreadMultiplier
    BY <1>1, PricingAssumption
  <2> QED
    BY <1>1, <2>1, <2>2, PricingAssumption
<1>4. PICK a \in Nat, b \in Nat : a = x * n /\ b = s * maxSpreadMultiplier
  BY <1>1, PricingAssumption
<1>5. a <= b /\ x * 10 <= a
  BY <1>2, <1>3, <1>4
<1>6. a \div 10 \in Nat /\ a \div 10 >= x /\ a \div 10 <= b \div 10
  BY <1>5
<1>7. x <= b \div 10
  BY <1>5
<1> QED
  BY <1>1, <1>4, <1>6, <1>7 DEF Bearable

LEMMA RoomFor ==
    ASSUME NEW x \in Nat, NEW m \in Nat, Floor(m), Bearable(x)
    PROVE  x <= m
<1>1. PICK s \in Spreads : x <= (s * maxSpreadMultiplier) \div 10
  BY DEF Bearable
<1>2. (s * maxSpreadMultiplier) \div 10 <= m
  BY DEF Floor
<1>3. PICK k \in Int : k = (s * maxSpreadMultiplier) \div 10
  <2>1. s * maxSpreadMultiplier \in Int
    BY SpreadsTyped, PricingAssumption
  <2> QED
    BY <2>1
<1> QED
  BY <1>1, <1>2, <1>3

LEMMA SmallIsBearable ==
    ASSUME NEW x \in Nat, Small(x)
    PROVE  Bearable(x)
<1>1. 10 \in Nat /\ 10 >= 10 /\ 10 <= maxSpreadMultiplier
  BY PricingAssumption
<1> QED
  BY <1>1, Stretches

LEMMA MultiplierIs ==
    ASSUME NEW move \in Nat
    PROVE  /\ Multiplier(move) \in Nat /\ Multiplier(move) >= 10
           /\ Multiplier(move) <= maxSpreadMultiplier
           /\ event # "on" /\ move <= volatilityThreshold => Multiplier(move) = 10
<1>1. /\ volatilityThreshold \in Nat \ {0} /\ volatilityFactor \in Nat
      /\ maxSpreadMultiplier \in Nat /\ maxSpreadMultiplier >= 10
      /\ eventMultiplier \in Nat /\ eventMultiplier >= 10
  BY PricingAssumption
<1>2. PICK v \in Nat : v = Volatility(move) /\ v >= 10 /\ (move <= volatilityThreshold => v = 10)
  <2>1. CASE move <= volatilityThreshold
    BY <2>1 DEF Volatility
  <2>2. CASE move > volatilityThreshold
    <3>1. PICK over \in Nat : over = Least(move, 3 * volatilityThreshold) - volatilityThreshold
      BY <1>1, <2>2 DEF Least
    <3>2. PICK n \in Nat : n = volatilityFactor * over
      BY <1>1
    <3>3. PICK d \in Nat \ {0} : d = 2 * volatilityThreshold
      BY <1>1
    <3>4. n \div d \in Nat
      OBVIOUS
    <3>5. Volatility(move) = 10 + n \div d
      BY <1>1, <2>2, <3>1, <3>2, <3>3 DEF Volatility
    <3> QED
      BY <1>1, <2>2, <3>4, <3>5
  <2> QED
    BY <1>1, <2>1, <2>2
<1>3. PICK e \in Nat : /\ e = IF event = "on" THEN eventMultiplier ELSE 10
                       /\ e >= 10 /\ (event # "on" => e = 10)
  BY <1>1
<1>4. PICK p \in Nat : p = v * e /\ p >= 100 /\ (v = 10 /\ e = 10 => p = 100)
  <2>1. v * e >= 10 * e
    BY <1>2, <1>3
  <2>2. 10 * e >= 100
    BY <1>3
  <2>3. v * e \in Nat
    OBVIOUS
  <2> QED
    BY <2>1, <2>2, <2>3
<1>5. Multiplier(move) = Least(p \div 10, maxSpreadMultiplier)
  BY <1>2, <1>3, <1>4 DEF Multiplier
<1>6. p \div 10 \in Nat /\ p \div 10 >= 10 /\ (p = 100 => p \div 10 = 10)
  BY <1>4
<1> QED
  BY <1>1, <1>2, <1>3, <1>4, <1>5, <1>6 DEF Least

PricedInstrument == [priced : BOOLEAN, mid : Nat, bid : Nat, ask : Nat, dayOpen : Nat,
                     prevClose : Nat, dated : Nat]
Tick == [spread : Nat, agitated : BOOLEAN, base : Nat]
Dynamic == [multiplier : Nat, effective : Nat]

Calm == lastTick.base > 0 /\ ~lastTick.agitated
Plain == IF lastTick.spread < lastTick.base THEN lastTick.base ELSE lastTick.spread

QuoteInv ==
    /\ instrument \in PricedInstrument /\ lastTick \in Tick /\ dynamic \in Dynamic
    /\ lastReal \in Nat /\ smoothed \in Nat /\ baseSpread \in Bases /\ date \in Nat
    /\ Small(lastReal) /\ (smoothed # 0 => Floor(smoothed))
    /\ dynamic.multiplier >= 10 /\ dynamic.multiplier <= maxSpreadMultiplier
    /\ Bearable(dynamic.effective) /\ (Calm => dynamic.multiplier = 10)
    /\ Whole(instrument.bid) /\ Whole(instrument.ask) /\ instrument.bid <= instrument.ask
    /\ Quoted => instrument.ask - instrument.bid >= lastTick.spread - Step
    /\ Quoted /\ Calm => instrument.ask - instrument.bid <= Plain + Step

LEMMA FallbackIs ==
    ASSUME QuoteInv
    PROVE  Fallback \in Nat /\ Small(Fallback)
<1>1. baseSpread \in Nat /\ Small(baseSpread)
  <2>1. baseSpread \in Spreads /\ baseSpread \in Nat
    BY SpreadsTyped, PricingAssumption DEF QuoteInv
  <2> QED
    BY <2>1 DEF Small
<1> QED
  BY <1>1 DEF QuoteInv, Fallback

LEMMA SpreadApplied ==
    ASSUME QuoteInv, NEW move \in Nat
    PROVE  \E n, e \in Nat :
              /\ ApplySpread(move) = [multiplier |-> n, effective |-> e]
              /\ ApplySpread(move).multiplier = n /\ ApplySpread(move).effective = e
              /\ n >= 10 /\ n <= maxSpreadMultiplier /\ Bearable(e)
              /\ baseSpread > 0 /\ event # "on" /\ move <= volatilityThreshold => n = 10 /\ e = baseSpread
<1>1. baseSpread \in Nat /\ Small(baseSpread)
  <2>1. baseSpread \in Spreads /\ baseSpread \in Nat
    BY SpreadsTyped, PricingAssumption DEF QuoteInv
  <2> QED
    BY <2>1 DEF Small
<1>2. CASE baseSpread = 0
  <2>1. /\ dynamic = [multiplier |-> dynamic.multiplier, effective |-> dynamic.effective]
        /\ dynamic.multiplier \in Nat /\ dynamic.effective \in Nat
    BY DEF QuoteInv, Dynamic
  <2>2. ApplySpread(move) = dynamic
    BY <1>2 DEF ApplySpread
  <2> QED
    BY <1>2, <2>1, <2>2 DEF QuoteInv
<1>3. CASE baseSpread # 0
  <2>1. PICK n \in Nat : /\ n = Multiplier(move) /\ n >= 10 /\ n <= maxSpreadMultiplier
                         /\ event # "on" /\ move <= volatilityThreshold => n = 10
    BY MultiplierIs
  <2>2. PICK e \in Nat : /\ e = (baseSpread * n) \div 10 /\ Bearable(e)
                         /\ n = 10 => e = baseSpread
    <3>1. (baseSpread * n) \div 10 \in Nat /\ Bearable((baseSpread * n) \div 10)
      BY <1>1, <2>1, Stretches
    <3>2. (baseSpread * 10) \div 10 = baseSpread
      BY <1>1
    <3> QED
      BY <3>1, <3>2
  <2>3. ApplySpread(move) = [multiplier |-> n, effective |-> e]
    BY <1>3, <2>1, <2>2 DEF ApplySpread
  <2>4. ApplySpread(move).multiplier = n /\ ApplySpread(move).effective = e
    BY <2>3
  <2> QED
    BY <2>1, <2>2, <2>3, <2>4
<1> QED
  BY <1>2, <1>3

\* What is shown of a price that a feed gives, or of a price that comes without.
LEMMA WidenedIs ==
    ASSUME NEW m \in Nat, Floor(m), NEW q, Shown(q), NEW offered, NEW d, NEW n \in Nat, NEW e \in Nat,
           d.multiplier = n, d.effective = e, n >= 10, n <= maxSpreadMultiplier, Bearable(e),
           baseSpread \in Bases, offered # NoBidAsk => Small(Width(q))
    PROVE  /\ Shown(Widened(q, m, offered, d))
           /\ Width(Widened(q, m, offered, d)) \in Nat
           /\ Width(Widened(q, m, offered, d)) >= Width(q) - Step
           /\ n = 10 /\ (e = baseSpread \/ e = 0) =>
                Width(Widened(q, m, offered, d)) <=
                    (IF Width(q) < baseSpread THEN baseSpread ELSE Width(q)) + Step
<1>1. PICK x \in Nat : x = Width(q)
  BY DEF Shown, Width
<1>2. PICK b \in Nat : b = baseSpread /\ Bearable(b)
  <2>1. baseSpread \in Spreads /\ baseSpread \in Nat
    BY SpreadsTyped, PricingAssumption
  <2>2. Small(baseSpread)
    BY <2>1 DEF Small
  <2> QED
    BY <2>1, <2>2, SmallIsBearable
<1>3. PICK f \in Nat : f = EffectiveSpread(d) /\ Bearable(f) /\ (e = b \/ e = 0 => f = b)
  BY <1>2 DEF EffectiveSpread
<1>4. ASSUME NEW s \in Nat, Bearable(s)
      PROVE  /\ Shown(Around(m, s)) /\ Width(Around(m, s)) \in Nat
             /\ Width(Around(m, s)) >= s - Step /\ Width(Around(m, s)) <= s + Step
  BY <1>4, RoomFor, AroundIs
<1>s. Step \in Nat
  BY PricingAssumption
<1>5. CASE offered = NoBidAsk /\ f > x
  <2>1. Widened(q, m, offered, d) = Around(m, f)
    BY <1>1, <1>3, <1>5 DEF Widened
  <2> QED
    BY <1>1, <1>2, <1>3, <1>4, <1>5, <1>s, <2>1
<1>6. CASE offered # NoBidAsk /\ n > 10
  <2>1. PICK s \in Nat : s = (x * n) \div 10 /\ s >= x /\ Bearable(s)
    BY <1>1, <1>6, Stretches
  <2>2. Widened(q, m, offered, d) = Around(m, s)
    BY <1>1, <1>6, <2>1 DEF Widened, Stretched
  <2> QED
    BY <1>1, <1>4, <1>6, <1>s, <2>1, <2>2
<1>7. CASE ~(offered = NoBidAsk /\ f > x) /\ ~(offered # NoBidAsk /\ n > 10)
  <2>1. Widened(q, m, offered, d) = q
    BY <1>1, <1>3, <1>7 DEF Widened
  <2> QED
    BY <1>1, <1>2, <1>s, <2>1
<1> QED
  BY <1>5, <1>6, <1>7

LEMMA DatesAre ==
    ASSUME instrument \in PricedInstrument, NEW m \in Nat
    PROVE  \E o, p \in Nat : Dated(m).dayOpen = o /\ Dated(m).prevClose = p
<1>1. instrument.dayOpen \in Nat /\ instrument.prevClose \in Nat
  BY DEF PricedInstrument
<1> QED
  BY <1>1 DEF Dated

LEMMA PricedIs ==
    ASSUME NEW m \in Nat, NEW q, Shown(q), NEW dates, NEW o \in Nat, NEW p \in Nat, date \in Nat,
           dates.dayOpen = o, dates.prevClose = p, Priced(m, q, dates)
    PROVE  /\ instrument' \in PricedInstrument /\ instrument'.priced = TRUE
           /\ instrument'.bid = q.bid /\ instrument'.ask = q.ask
<1>1. PICK b \in Nat, a \in Nat : b = q.bid /\ a = q.ask
  BY DEF Shown
<1>2. instrument' = [priced |-> TRUE, mid |-> m, bid |-> b, ask |-> a, dayOpen |-> o,
                     prevClose |-> p, dated |-> date]
  BY <1>1 DEF Priced
<1>3. instrument' \in PricedInstrument
  BY <1>2, Zenon DEF PricedInstrument
<1> QED
  BY <1>1, <1>2, <1>3

LEMMA Repriced ==
    ASSUME QuoteInv, NEW m \in Nat, Floor(m), NEW offered,
           offered # NoBidAsk => Shown(Narrow(m, offered)) /\ Small(Width(Narrow(m, offered))),
           Reprice(m, offered), UNCHANGED <<baseSpread, date>>,
           smoothed' \in Nat, smoothed' # 0 => Floor(smoothed')
    PROVE  QuoteInv'
<1>f. PICK fall \in Nat : fall = Fallback /\ Small(fall) /\ fall <= m
  <2>1. Fallback \in Nat /\ Small(Fallback)
    BY FallbackIs
  <2>2. PICK fall \in Nat : fall = Fallback /\ Small(fall)
    BY <2>1
  <2>3. fall <= m
    BY <2>2, SmallIsBearable, RoomFor
  <2> QED
    BY <2>2, <2>3
<1>1. PICK q : q = Narrow(m, offered) /\ Shown(q) /\ (offered # NoBidAsk => Small(Width(q)))
  <2>1. CASE offered = NoBidAsk
    <3>1. Narrow(m, offered) = Around(m, fall)
      BY <1>f, <2>1 DEF Narrow
    <3> QED
      BY <1>f, <2>1, <3>1, AroundIs
  <2>2. CASE offered # NoBidAsk
    BY <2>2
  <2> QED
    BY <2>1, <2>2
<1>2. PICK x \in Nat : x = Width(q)
  BY <1>1 DEF Shown, Width
<1>3. PICK move \in Nat : move = IF Quoted THEN Distance(m, instrument.prevClose) ELSE 0
  <2>1. instrument.prevClose \in Nat
    BY DEF QuoteInv, PricedInstrument
  <2> QED
    BY <2>1 DEF Distance
<1>4. PICK n, e \in Nat :
         /\ ApplySpread(move) = [multiplier |-> n, effective |-> e]
         /\ ApplySpread(move).multiplier = n /\ ApplySpread(move).effective = e
         /\ n >= 10 /\ n <= maxSpreadMultiplier /\ Bearable(e)
         /\ baseSpread > 0 /\ event # "on" /\ move <= volatilityThreshold => n = 10 /\ e = baseSpread
  BY SpreadApplied
<1>5. /\ dynamic' = ApplySpread(move)
      /\ Priced(m, Widened(q, m, offered, dynamic'), Dated(m))
      /\ lastReal' = (IF offered # NoBidAsk /\ x > 0 THEN x ELSE lastReal)
      /\ lastTick' = [spread |-> x, base |-> baseSpread,
                      agitated |-> event = "on" \/ move > volatilityThreshold]
  BY <1>1, <1>2, <1>3 DEF Reprice
<1>6. dynamic' \in Dynamic /\ dynamic'.multiplier = n /\ dynamic'.effective = e
  BY <1>4, <1>5 DEF Dynamic
<1>7. PICK b \in Nat : b = baseSpread /\ baseSpread \in Bases
  BY PricingAssumption DEF QuoteInv
<1>8. PICK w : /\ w = Widened(q, m, offered, dynamic') /\ Shown(w)
               /\ Width(w) \in Nat /\ Width(w) >= x - Step
               /\ n = 10 /\ (e = baseSpread \/ e = 0) =>
                    Width(w) <= (IF x < baseSpread THEN baseSpread ELSE x) + Step
  <2>1. PICK d : d = dynamic' /\ d.multiplier = n /\ d.effective = e
    BY <1>6
  <2> QED
    BY <1>1, <1>2, <1>4, <1>7, <2>1, WidenedIs
<1>9. PICK o, p \in Nat : Dated(m).dayOpen = o /\ Dated(m).prevClose = p
  BY DatesAre DEF QuoteInv
<1>10. PICK dates : dates = Dated(m)
  OBVIOUS
<1>11. /\ instrument' \in PricedInstrument /\ instrument'.priced = TRUE
       /\ instrument'.bid = w.bid /\ instrument'.ask = w.ask
  <2>1. Priced(m, w, dates) /\ date \in Nat /\ dates.dayOpen = o /\ dates.prevClose = p
    BY <1>5, <1>8, <1>9, <1>10 DEF QuoteInv
  <2> QED
    BY <1>8, <2>1, PricedIs
<1>12. PICK g \in BOOLEAN : g <=> event = "on" \/ move > volatilityThreshold
  OBVIOUS
<1>13. g = (event = "on" \/ move > volatilityThreshold)
  BY <1>12
<1>14. lastTick' = [spread |-> x, base |-> b, agitated |-> g]
  BY <1>5, <1>7, <1>13
<1>15. lastTick' \in Tick /\ lastTick'.spread = x /\ lastTick'.base = b /\ lastTick'.agitated = g
  BY <1>14 DEF Tick
<1>16. lastReal' \in Nat /\ Small(lastReal')
  BY <1>1, <1>2, <1>5 DEF QuoteInv
<1>17. Calm' <=> b > 0 /\ ~g
  BY <1>15 DEF Calm
<1>18. Calm' => n = 10 /\ e = b
  BY <1>3, <1>4, <1>7, <1>12, <1>17, PricingAssumption
<1>19. Plain' = IF x < b THEN b ELSE x
  BY <1>15 DEF Plain
<1>20. w.bid \in Nat /\ w.ask \in Nat /\ Whole(w.bid) /\ Whole(w.ask) /\ w.bid <= w.ask /\ Width(w) = w.ask - w.bid
  BY <1>8 DEF Shown, Width
<1>21. Whole(instrument'.bid) /\ Whole(instrument'.ask) /\ instrument'.bid <= instrument'.ask
  BY <1>11, <1>20
<1>22. instrument'.ask - instrument'.bid >= lastTick'.spread - Step
  BY <1>8, <1>11, <1>15, <1>20
<1>23. Calm' => instrument'.ask - instrument'.bid <= Plain' + Step
  BY <1>7, <1>8, <1>11, <1>18, <1>19, <1>20
<1>24. baseSpread' \in Bases /\ date' \in Nat
  BY DEF QuoteInv
<1>25. dynamic'.multiplier >= 10 /\ dynamic'.multiplier <= maxSpreadMultiplier /\ Bearable(dynamic'.effective)
  BY <1>4, <1>6
<1>26. Calm' => dynamic'.multiplier = 10
  BY <1>6, <1>18
<1> QED
  BY <1>6, <1>11, <1>15, <1>16, <1>21, <1>22, <1>23, <1>24, <1>25, <1>26
     DEF QuoteInv, Quoted, Whole, Small, Floor, Bearable, Spreads

LEMMA QuoteInitially == PricingInit => QuoteInv
<1> SUFFICES ASSUME PricingInit PROVE QuoteInv
  OBVIOUS
<1>1. 0 \in Nat /\ 10 \in Nat
  OBVIOUS
<1>2. /\ instrument = [priced |-> FALSE, mid |-> 0, bid |-> 0, ask |-> 0, dayOpen |-> 0,
                       prevClose |-> 0, dated |-> 0]
      /\ lastTick = [spread |-> 0, agitated |-> FALSE, base |-> 0]
      /\ dynamic = [multiplier |-> 10, effective |-> 0]
      /\ smoothed = 0 /\ lastReal = 0 /\ baseSpread \in Bases /\ date = 0
  BY DEF PricingInit
<1>3. instrument \in PricedInstrument /\ lastTick \in Tick /\ dynamic \in Dynamic
  BY <1>1, <1>2, Zenon DEF PricedInstrument, Tick, Dynamic
<1>4. /\ instrument.priced = FALSE /\ instrument.bid = 0 /\ instrument.ask = 0
      /\ lastTick.base = 0 /\ dynamic.multiplier = 10 /\ dynamic.effective = 0
  BY <1>2
<1>5. Whole(0)
  <2>1. 0 = 0 * Step
    BY PricingAssumption
  <2> QED
    BY <2>1 DEF Whole
<1>6. Small(0) /\ Bearable(0)
  <2>1. RealSpread + Step \in Spreads /\ RealSpread + Step \in Nat
    BY PricingAssumption DEF Spreads
  <2>2. Small(0)
    BY <2>1 DEF Small
  <2> QED
    BY <2>2, SmallIsBearable
<1> QED
  BY <1>2, <1>3, <1>4, <1>5, <1>6, PricingAssumption DEF QuoteInv, Quoted, Calm

LEMMA PricesHaveFloor ==
    /\ MarketPrices \subseteq Nat /\ Daily.close \in Nat /\ Daily.prevClose \in Nat
    /\ \A p \in MarketPrices \cup {Daily.close} : Floor(p)
  BY PricingAssumption DEF Floor, Spreads

LEMMA BlendIs ==
    ASSUME QuoteInv, NEW p \in Nat, Floor(p)
    PROVE  Blend(p) \in Nat /\ Floor(Blend(p))
<1>1. PICK b \in Nat : b = smoothed /\ (b # 0 => Floor(b))
  BY DEF QuoteInv
<1>2. CASE b = 0
  BY <1>1, <1>2 DEF Blend
<1>3. CASE b # 0
  <2>1. Blend(p) = (9 * p + b) \div 10 /\ (9 * p + b) \div 10 \in Nat
    BY <1>1, <1>3 DEF Blend
  <2>2. ASSUME NEW s \in Spreads PROVE (s * maxSpreadMultiplier) \div 10 <= (9 * p + b) \div 10
    <3>1. (s * maxSpreadMultiplier) \div 10 <= p /\ (s * maxSpreadMultiplier) \div 10 <= b
      BY <1>1, <1>3 DEF Floor
    <3>2. PICK k \in Int : k = (s * maxSpreadMultiplier) \div 10
      <4>1. s * maxSpreadMultiplier \in Int
        BY SpreadsTyped, PricingAssumption
      <4> QED
        BY <4>1
    <3>3. k <= p /\ k <= b
      BY <3>1, <3>2
    <3>4. k <= (9 * p + b) \div 10
      BY <3>3
    <3> QED
      BY <3>2, <3>4
  <2> QED
    BY <2>1, <2>2 DEF Floor
<1> QED
  BY <1>2, <1>3

\* The bid and ask of a feed, rounded.
LEMMA OfferedIs ==
    ASSUME NEW m \in Nat, Floor(m), NEW s \in {RealSpread, 2 * HalfSpread}
    PROVE  Shown(Around(m, s)) /\ Small(Width(Around(m, s)))
<1>1. s \in Nat /\ s + Step \in Spreads /\ s + Step \in Nat
  BY PricingAssumption DEF Spreads
<1>2. Small(s + Step)
  BY <1>1 DEF Small
<1>3. s + Step <= m
  BY <1>1, <1>2, SmallIsBearable, RoomFor
<1>4. s <= m
  BY <1>1, <1>3, PricingAssumption
<1>5. /\ Shown(Around(m, s)) /\ Width(Around(m, s)) \in Nat /\ Width(Around(m, s)) <= s + Step
  BY <1>1, <1>4, AroundIs
<1> QED
  BY <1>1, <1>5 DEF Small

LEMMA QuoteStep == QuoteInv /\ [PricingNext]_pricingVars => QuoteInv'
<1> SUFFICES ASSUME QuoteInv, [PricingNext]_pricingVars PROVE QuoteInv'
  OBVIOUS
<1> USE DEF prices, settings
<1>1. ASSUME UNCHANGED <<instrument, lastTick, dynamic, lastReal, smoothed, baseSpread, date>>
      PROVE  QuoteInv'
  BY <1>1 DEF QuoteInv, Quoted, Calm, Plain, Whole, Small, Bearable, Floor, Spreads
<1>2. ASSUME NEW p \in MarketPrices, NEW kind \in {"paid", "made", "free"}, FeedTicks(p, kind)
      PROVE  QuoteInv'
  <2>1. p \in Nat /\ Floor(p)
    BY PricesHaveFloor
  <2>2. PICK m \in Nat : m = Blend(p) /\ Floor(m)
    BY <2>1, BlendIs
  <2>3. smoothed' = m /\ UNCHANGED <<baseSpread, date>>
    BY <1>2, <2>2 DEF FeedTicks
  <2>4. CASE kind = "paid"
    <3>1. PICK b \in Int, a \in Int : b = p - RealSpread \div 2 /\ a = p + RealSpread \div 2
      BY <2>1, PricingAssumption
    <3>2. PICK offered : offered = [bid |-> b, ask |-> a]
      OBVIOUS
    <3>3. Reprice(m, offered)
      BY <1>2, <2>2, <2>4, <3>1, <3>2 DEF FeedTicks
    <3>6. offered.bid = b /\ offered.ask = a
      BY <3>2
    <3>4. offered # NoBidAsk => Narrow(m, offered) = Around(p, RealSpread)
      BY <3>1, <3>6 DEF Narrow, Around
    <3>5. Shown(Around(p, RealSpread)) /\ Small(Width(Around(p, RealSpread)))
      BY <2>1, OfferedIs
    <3> QED
      BY <2>2, <2>3, <3>3, <3>4, <3>5, Repriced
  <2>5. CASE kind = "made"
    <3>1. PICK offered : offered = Around(m, 2 * HalfSpread)
      OBVIOUS
    <3>2. Reprice(m, offered)
      BY <1>2, <2>2, <2>5, <3>1 DEF FeedTicks
    <3>3. Shown(offered) /\ Small(Width(offered))
      BY <2>2, <3>1, OfferedIs
    <3>4. offered # NoBidAsk => Narrow(m, offered) = offered
      <4>1. RoundPrice(offered.bid) = offered.bid /\ RoundPrice(offered.ask) = offered.ask
        BY <3>3, RoundOfWhole DEF Shown
      <4> QED
        BY <3>3, <4>1 DEF Narrow, Shown
    <3> QED
      BY <2>2, <2>3, <3>2, <3>3, <3>4, Repriced
  <2>6. CASE kind = "free"
    <3>1. Reprice(m, NoBidAsk)
      BY <1>2, <2>2, <2>6 DEF FeedTicks
    <3>2. PICK offered : offered = NoBidAsk
      OBVIOUS
    <3>3. Reprice(m, offered)
      BY <3>1, <3>2
    <3> QED
      BY <2>2, <2>3, <3>2, <3>3, Repriced
  <2> QED
    BY <2>4, <2>5, <2>6
<1>3. ASSUME NEW p \in MarketPrices, RestTick(p) PROVE QuoteInv'
  <2>1. PICK offered : offered = NoBidAsk
    OBVIOUS
  <2>2. Reprice(p, offered) /\ UNCHANGED <<baseSpread, date, smoothed>>
    BY <1>3, <2>1 DEF RestTick
  <2>3. p \in Nat /\ Floor(p) /\ smoothed \in Nat /\ (smoothed # 0 => Floor(smoothed))
    BY PricesHaveFloor DEF QuoteInv
  <2>4. smoothed' \in Nat /\ (smoothed' # 0 => Floor(smoothed'))
    BY <2>2, <2>3
  <2> QED
    BY <2>1, <2>2, <2>3, <2>4, Repriced
<1>4. CASE SeedDailyData
  <2>1. PICK m \in Nat : m = Daily.close /\ Floor(m)
    BY PricesHaveFloor
  <2>2. PICK s \in Nat : s = Fallback /\ Small(s)
    BY FallbackIs
  <2>3. s <= m
    BY <2>1, <2>2, SmallIsBearable, RoomFor
  <2>4. PICK q : /\ q = Around(m, s) /\ Shown(q) /\ Width(q) \in Nat
                 /\ Width(q) >= s - Step /\ Width(q) <= s + Step
    BY <2>3, AroundIs
  <2>5. PICK prev \in Nat : prev = IF date = instrument.dated THEN Daily.prevClose ELSE m
    BY PricesHaveFloor
  <2>6. PICK dates : dates = [dayOpen |-> m, prevClose |-> prev]
    OBVIOUS
  <2>7. Priced(m, q, dates) /\ dates.dayOpen = m /\ dates.prevClose = prev
    BY <1>4, <2>1, <2>2, <2>4, <2>5, <2>6 DEF SeedDailyData
  <2>8. /\ lastTick' = [lastTick EXCEPT !.spread = s]
        /\ UNCHANGED <<smoothed, lastReal, dynamic, baseSpread, date>>
    BY <1>4, <2>2 DEF SeedDailyData
  <2>9. /\ instrument' \in PricedInstrument /\ instrument'.priced = TRUE
        /\ instrument'.bid = q.bid /\ instrument'.ask = q.ask
    <3>1. date \in Nat
      BY DEF QuoteInv
    <3> QED
      BY <2>4, <2>7, <3>1, PricedIs
  <2>10. /\ lastTick' \in Tick /\ lastTick'.spread = s /\ lastTick'.base = lastTick.base
         /\ lastTick'.agitated = lastTick.agitated /\ lastTick.base \in Nat
    <3>1. lastTick \in Tick
      BY DEF QuoteInv
    <3>2. [lastTick EXCEPT !.spread = s] \in Tick
      BY <3>1, Zenon DEF Tick
    <3>3. /\ [lastTick EXCEPT !.spread = s].spread = s
          /\ [lastTick EXCEPT !.spread = s].base = lastTick.base
          /\ [lastTick EXCEPT !.spread = s].agitated = lastTick.agitated /\ lastTick.base \in Nat
      BY <3>1, Zenon DEF Tick
    <3> QED
      BY <2>8, <3>2, <3>3
  <2>11. (Calm' <=> Calm) /\ Plain' >= s /\ Plain' \in Nat
    BY <2>10 DEF Calm, Plain
  <2>12. /\ q.bid \in Nat /\ q.ask \in Nat /\ Whole(q.bid) /\ Whole(q.ask) /\ q.bid <= q.ask
         /\ Width(q) = q.ask - q.bid
    BY <2>4 DEF Shown, Width
  <2>13. /\ Whole(instrument'.bid) /\ Whole(instrument'.ask) /\ instrument'.bid <= instrument'.ask
         /\ instrument'.ask - instrument'.bid >= lastTick'.spread - Step
         /\ instrument'.ask - instrument'.bid <= Plain' + Step
    BY <2>4, <2>9, <2>10, <2>11, <2>12, PricingAssumption
  <2> QED
    BY <2>8, <2>9, <2>10, <2>11, <2>13
       DEF QuoteInv, Quoted, Whole, Small, Floor, Bearable, Spreads
<1>5. ASSUME NEW b \in Bases, SetSpread(b) PROVE QuoteInv'
  <2>1. baseSpread' \in Bases /\ UNCHANGED <<instrument, lastTick, dynamic, lastReal, smoothed, date>>
    BY <1>5 DEF SetSpread
  <2> QED
    BY <2>1 DEF QuoteInv, Quoted, Calm, Plain, Whole, Small, Bearable, Floor, Spreads
<1>6. CASE DayChanges
  <2>1. date' \in Nat /\ UNCHANGED <<instrument, lastTick, dynamic, lastReal, smoothed, baseSpread>>
    BY <1>6 DEF DayChanges
  <2> QED
    BY <2>1 DEF QuoteInv, Quoted, Calm, Plain, Whole, Small, Bearable, Floor, Spreads
<1>7. CASE AddEvent \/ WindowMoves
  BY <1>1, <1>7 DEF AddEvent, WindowMoves
<1>8. CASE TickAll
  <2>1. PICK m \in Nat, b \in Nat, a \in Nat :
           /\ m = instrument.mid /\ b = instrument.bid /\ a = instrument.ask
           /\ Whole(b) /\ Whole(a) /\ b <= a
    BY DEF QuoteInv, PricedInstrument
  <2>2. PICK q : q = [bid |-> b, ask |-> a]
    OBVIOUS
  <2>9. q.bid = b /\ q.ask = a
    BY <2>2
  <2>3. PICK o, p \in Nat : Dated(m).dayOpen = o /\ Dated(m).prevClose = p
    BY DatesAre DEF QuoteInv
  <2>4. PICK dates : dates = Dated(m)
    OBVIOUS
  <2>5. Priced(m, q, dates)
    BY <1>8, <2>1, <2>9, <2>4 DEF TickAll, Priced
  <2>6. Quoted /\ UNCHANGED <<smoothed, lastReal, dynamic, lastTick, baseSpread, date>>
    BY <1>8 DEF TickAll
  <2>7. /\ instrument' \in PricedInstrument /\ instrument'.priced = TRUE
        /\ instrument'.bid = b /\ instrument'.ask = a
    <3>1. Shown(q) /\ date \in Nat
      BY <2>1, <2>2, <2>9 DEF Shown, QuoteInv
    <3> QED
      BY <2>9, <2>3, <2>4, <2>5, <3>1, PricedIs
  <2>8. /\ Whole(instrument'.bid) /\ Whole(instrument'.ask) /\ instrument'.bid <= instrument'.ask
        /\ instrument'.bid = instrument.bid /\ instrument'.ask = instrument.ask
    BY <2>1, <2>7
  <2> QED
    BY <2>6, <2>7, <2>8 DEF QuoteInv, Quoted, Calm, Plain, Whole, Small, Floor, Bearable, Spreads
<1>9. ASSUME NEW t \in Terms, PlaceMarket(t) \/ TriggerLimit(t) PROVE QuoteInv'
  BY <1>1, <1>9 DEF PlaceMarket, TriggerLimit, TakeQuote
<1>10. CASE GrantLeverage \/ ExecuteBargain
  BY <1>1, <1>10 DEF GrantLeverage, ExecuteBargain
<1>11. CASE UNCHANGED pricingVars
  BY <1>1, <1>11 DEF pricingVars
<1> QED
  BY <1>2, <1>3, <1>4, <1>5, <1>6, <1>7, <1>8, <1>9, <1>10, <1>11 DEF PricingNext

(* What an order that was quoted is granted and filled at.                 *)

Bargain == [pc : {"idle", "quoted", "granted", "filled", "refused"}, terms : Terms, top : Nat,
            leverage : Nat, calm : BOOLEAN, price : Nat, fresh : Nat]

\* A limit order is quoted on the right side of its limit.
WithinLimit(t, top) ==
    t.limit # 0 => IF t.side = "BUY" THEN top <= t.limit ELSE top >= t.limit

BargainInv ==
    /\ bargain \in Bargain /\ Whole(bargain.top)
    /\ bargain.pc \in {"idle", "quoted"} => bargain.leverage = 0
    /\ bargain.pc # "idle" => WithinLimit(bargain.terms, bargain.top)
    /\ FillsAsQuoted /\ LeverageHasCause

LEMMA BargainInitially == PricingInit => BargainInv
<1> SUFFICES ASSUME PricingInit PROVE BargainInv
  OBVIOUS
<1>1. PICK t \in Terms : bargain = [pc |-> "idle", terms |-> t, top |-> 0, leverage |-> 0,
                                    calm |-> FALSE, price |-> 0, fresh |-> 0]
  BY PricingAssumption DEF PricingInit
<1>2. bargain \in Bargain
  <2>1. 0 \in Nat
    OBVIOUS
  <2> QED
    BY <1>1, <2>1, Zenon DEF Bargain
<1>3. bargain.pc = "idle" /\ bargain.top = 0 /\ bargain.leverage = 0
  BY <1>1
<1>4. Whole(0)
  <2>1. 0 = 0 * Step
    BY PricingAssumption
  <2> QED
    BY <2>1 DEF Whole
<1> QED
  BY <1>2, <1>3, <1>4 DEF BargainInv, FillsAsQuoted, LeverageHasCause

\* The quoted price, and the leverage and the price that follow from it.
LEMMA TopIs ==
    ASSUME QuoteInv, NEW t \in Terms
    PROVE  TopPrice(t) \in Nat /\ Whole(TopPrice(t))
<1>1. instrument.bid \in Nat /\ instrument.ask \in Nat
  BY DEF QuoteInv, PricedInstrument
<1> QED
  BY <1>1 DEF QuoteInv, TopPrice

LEMMA LeverageIs ==
    ASSUME QuoteInv, NEW t \in Terms
    PROVE  /\ DeratedLeverage(CappedLeverage(t)) \in Nat
           /\ DeratedLeverage(CappedLeverage(t)) <= CappedLeverage(t)
           /\ Calm => DeratedLeverage(CappedLeverage(t)) = CappedLeverage(t)
<1>1. PICK l \in Nat \ {0} : l = CappedLeverage(t)
  BY PricingAssumption DEF CappedLeverage, Least
<1>2. PICK n \in Nat : n = dynamic.multiplier /\ (Calm => n = 10)
  BY DEF QuoteInv, Dynamic
<1>3. FactorFor \in {1, 2, 3, 4} /\ (Calm => FactorFor = 4)
  <2>1. CASE n >= 30
    BY <1>2, <2>1 DEF FactorFor
  <2>2. CASE n \in 20 .. 29
    BY <1>2, <2>2 DEF FactorFor
  <2>3. CASE n \in 15 .. 19
    BY <1>2, <2>3 DEF FactorFor
  <2>4. CASE n < 15
    BY <1>2, <2>4 DEF FactorFor
  <2> QED
    BY <2>1, <2>2, <2>3, <2>4
<1>4. CASE FactorFor = 4
  BY <1>1, <1>4 DEF DeratedLeverage
<1>5. CASE FactorFor # 4
  <2>1. PICK f \in {1, 2, 3} : f = FactorFor
    BY <1>3, <1>5
  <2>2. l * f \in Nat /\ l * f <= 4 * l /\ (l * f) \div 4 \in Nat /\ (l * f) \div 4 <= l
    BY <1>1, <2>1
  <2>3. DeratedLeverage(l) = IF l * f < 4 THEN 1 ELSE (l * f) \div 4
    BY <1>5, <2>1 DEF DeratedLeverage
  <2> QED
    BY <1>1, <1>3, <1>5, <2>2, <2>3
<1> QED
  BY <1>4, <1>5

LEMMA FillIs ==
    ASSUME BargainInv, NEW t \in Terms, bargain.terms = t
    PROVE  /\ AveragePrice(t) \in Nat
           /\ IF t.side = "BUY" THEN AveragePrice(t) = bargain.top + Slippage(t)
              ELSE /\ AveragePrice(t) <= bargain.top
                   /\ bargain.top - AveragePrice(t) <= Slippage(t)
           /\ Slippage(t) \in Nat /\ Slippage(t) <= SlippageOfLarge /\ bargain.top \in Nat
<1>1. PICK s \in Nat : s = Slippage(t) /\ s <= SlippageOfLarge /\ Whole(s)
  <2>1. SlippageOfLarge \in Nat /\ Whole(SlippageOfLarge)
    <3>1. PICK k \in Int : k = SlippageOfLarge \div Step /\ SlippageOfLarge = k * Step
      BY PricingAssumption
    <3> QED
      BY <3>1, PricingAssumption DEF Whole
  <2>2. Whole(0)
    <3>1. 0 = 0 * Step
      BY PricingAssumption
    <3> QED
      BY <3>1 DEF Whole
  <2> QED
    BY <2>1, <2>2 DEF Slippage
<1>2. PICK p \in Nat : p = bargain.top /\ Whole(p)
  BY DEF BargainInv, Bargain
<1>3. Whole(p + s) /\ Whole(p - s) /\ Whole(0)
  <2>1. PICK k \in Int, j \in Int : p = k * Step /\ s = j * Step
    BY <1>1, <1>2 DEF Whole
  <2>2. p + s = (k + j) * Step /\ p - s = (k - j) * Step /\ 0 = 0 * Step
    BY <2>1, PricingAssumption
  <2> QED
    BY <2>1, <2>2 DEF Whole
<1>4. RoundPrice(p + s) = p + s /\ RoundPrice(p - s) = p - s /\ RoundPrice(0) = 0
  BY <1>3, RoundOfWhole
<1>5. CASE t.side = "BUY"
  <2>1. AveragePrice(t) = p + s
    BY <1>1, <1>2, <1>4, <1>5 DEF AveragePrice
  <2> QED
    BY <1>1, <1>2, <1>5, <2>1
<1>6. CASE t.side # "BUY" /\ p > s
  <2>1. AveragePrice(t) = p - s
    BY <1>1, <1>2, <1>4, <1>6 DEF AveragePrice
  <2> QED
    BY <1>1, <1>2, <1>6, <2>1
<1>7. CASE t.side # "BUY" /\ p <= s
  <2>1. AveragePrice(t) = 0
    BY <1>1, <1>2, <1>4, <1>7 DEF AveragePrice
  <2> QED
    BY <1>1, <1>2, <1>7, <2>1
<1> QED
  BY <1>5, <1>6, <1>7

LEMMA BargainStep == QuoteInv /\ BargainInv /\ [PricingNext]_pricingVars => BargainInv'
<1> SUFFICES ASSUME QuoteInv, BargainInv, [PricingNext]_pricingVars PROVE BargainInv'
  OBVIOUS
<1>1. CASE UNCHANGED bargain
  BY <1>1 DEF BargainInv, Whole, WithinLimit, FillsAsQuoted, LeverageHasCause
<1>t. bargain \in Bargain
  BY DEF BargainInv
<1>2. ASSUME NEW t \in Terms, TakeQuote(t), WithinLimit(t, TopPrice(t)) PROVE BargainInv'
  <2>1. PICK p \in Nat : p = TopPrice(t) /\ Whole(p) /\ WithinLimit(t, p)
    BY <1>2, TopIs
  <2>2. bargain.pc = "idle" /\ bargain.leverage = 0
    BY <1>2 DEF TakeQuote, BargainInv
  <2>3. bargain' = [bargain EXCEPT !.pc = "quoted", !.terms = t, !.top = p]
    BY <1>2, <2>1 DEF TakeQuote
  <2>4. bargain' \in Bargain
    BY <1>t, <2>3, Zenon DEF Bargain
  <2>5. /\ bargain'.pc = "quoted" /\ bargain'.terms = t /\ bargain'.top = p
        /\ bargain'.leverage = 0
    BY <1>t, <2>2, <2>3 DEF Bargain
  <2> QED
    BY <2>1, <2>4, <2>5
       DEF BargainInv, Whole, WithinLimit, FillsAsQuoted, LeverageHasCause
<1>3. ASSUME NEW t \in Terms, PlaceMarket(t) \/ TriggerLimit(t) PROVE BargainInv'
  <2>1. TakeQuote(t) /\ WithinLimit(t, TopPrice(t))
    BY <1>3 DEF PlaceMarket, TriggerLimit, WithinLimit, Reached, TopPrice
  <2> QED
    BY <1>2, <2>1
<1>4. CASE GrantLeverage
  <2>1. PICK t \in Terms, p \in Nat : t = bargain.terms /\ p = bargain.top
    BY <1>t DEF Bargain
  <2>2. PICK l \in Nat : /\ l = DeratedLeverage(CappedLeverage(t)) /\ l <= CappedLeverage(t)
                         /\ Calm => l = CappedLeverage(t)
    BY LeverageIs
  <2>3. PICK c \in BOOLEAN : c = (lastTick.base > 0 /\ ~lastTick.agitated) /\ (c => Calm)
    BY DEF Calm
  <2>4. bargain' = [bargain EXCEPT !.pc = "granted", !.leverage = l, !.calm = c]
    BY <1>4, <2>1, <2>2, <2>3 DEF GrantLeverage
  <2>5. bargain' \in Bargain
    BY <1>t, <2>4, Zenon DEF Bargain
  <2>6. /\ bargain'.pc = "granted" /\ bargain'.terms = t /\ bargain'.top = p
        /\ bargain'.leverage = l /\ bargain'.calm = c
    BY <1>t, <2>1, <2>4 DEF Bargain
  <2>7. Whole(p) /\ WithinLimit(t, p)
    BY <1>4, <2>1 DEF BargainInv, GrantLeverage
  <2>8. l > 0 => l <= CappedLeverage(t) /\ (c => l = CappedLeverage(t))
    BY <2>2, <2>3
  <2>9. LeverageHasCause'
    BY <2>6, <2>8 DEF LeverageHasCause, CappedLeverage, Least
  <2> QED
    BY <2>5, <2>6, <2>7, <2>9 DEF BargainInv, Whole, WithinLimit, FillsAsQuoted
<1>5. CASE ExecuteBargain
  <2>1. PICK t \in Terms, p \in Nat, l \in Nat, c \in BOOLEAN :
           t = bargain.terms /\ p = bargain.top /\ l = bargain.leverage /\ c = bargain.calm
    BY <1>t DEF Bargain
  <2>2. PICK fresh \in Nat : fresh = TopPrice(t)
    BY TopIs
  <2>3. PICK refused \in BOOLEAN :
           refused = (Requoted(t) \/ (t.limit # 0 /\ ~Tradable))
    OBVIOUS
  <2>4. PICK paid \in Nat : paid = IF refused THEN 0 ELSE AveragePrice(t)
    BY <2>1, FillIs
  <2>5. bargain' = [bargain EXCEPT !.pc = IF refused THEN "refused" ELSE "filled",
                                   !.price = paid, !.fresh = fresh]
    BY <1>5, <2>1, <2>2, <2>3, <2>4 DEF ExecuteBargain
  <2>6. bargain' \in Bargain
    BY <1>t, <2>5, Zenon DEF Bargain
  <2>7. /\ bargain'.pc = (IF refused THEN "refused" ELSE "filled")
        /\ bargain'.terms = t /\ bargain'.top = p /\ bargain'.leverage = l /\ bargain'.calm = c
        /\ bargain'.price = paid /\ bargain'.fresh = fresh
    BY <1>t, <2>1, <2>5 DEF Bargain
  <2>8. Whole(p) /\ WithinLimit(t, p)
    BY <1>5, <2>1 DEF BargainInv, ExecuteBargain
  <2>9. LeverageHasCause'
    <3>1. l > 0 => l <= CappedLeverage(t) /\ (c => l = CappedLeverage(t))
      BY <2>1 DEF BargainInv, LeverageHasCause
    <3> QED
      BY <2>7, <3>1 DEF LeverageHasCause, CappedLeverage, Least
  <2>10. FillsAsQuoted'
    <3>1. SUFFICES ASSUME ~refused PROVE FillsAsQuoted'
      BY <2>7 DEF FillsAsQuoted
    <3>2. PICK s \in Nat : s = Slippage(t) /\ s <= SlippageOfLarge
      BY <2>1, FillIs
    <3>3. IF t.side = "BUY" THEN paid = p + s ELSE paid <= p /\ p - paid <= s
      BY <2>1, <2>4, <3>1, <3>2, FillIs
    <3>4. Distance(fresh, p) <= Tolerance
      <4>1. Distance(fresh, p) \in Int /\ Tolerance \in Int
        BY PricingAssumption DEF Distance
      <4>2. ~Requoted(t)
        BY <2>3, <3>1, Zenon
      <4>3. ~(Distance(fresh, p) > Tolerance)
        BY <2>1, <2>2, <4>2, Zenon DEF Requoted
      <4> QED
        BY <4>1, <4>3
    <3>5. t.limit \in Nat /\ SlippageOfLarge \in Nat
      BY PricingAssumption
    <3>6. CASE t.side = "BUY"
      <4>1. paid - p \in 0 .. SlippageOfLarge /\ (t.limit # 0 => paid - t.limit <= s)
        BY <2>8, <3>2, <3>3, <3>5, <3>6 DEF WithinLimit
      <4> QED
        BY <2>7, <3>2, <3>4, <3>6, <4>1 DEF FillsAsQuoted, Slippage, Distance
    <3>7. CASE t.side # "BUY"
      <4>1. p - paid \in 0 .. SlippageOfLarge /\ (t.limit # 0 => t.limit - paid <= s)
        BY <2>8, <3>2, <3>3, <3>5, <3>7 DEF WithinLimit
      <4> QED
        BY <2>7, <3>2, <3>4, <3>7, <4>1 DEF FillsAsQuoted, Slippage, Distance
    <3> QED
      BY <3>6, <3>7
  <2>11. bargain'.pc \notin {"idle", "quoted"}
    BY <2>7
  <2> QED
    BY <2>6, <2>7, <2>8, <2>9, <2>10, <2>11 DEF BargainInv, Whole, WithinLimit
<1>6. CASE \E q \in MarketPrices :
              (\E kind \in {"paid", "made", "free"} : FeedTicks(q, kind)) \/ RestTick(q)
  BY <1>1, <1>6 DEF FeedTicks, RestTick
<1>7. CASE SeedDailyData \/ (\E b \in Bases \ {baseSpread} : SetSpread(b))
  BY <1>1, <1>7 DEF SeedDailyData, SetSpread
<1>8. CASE AddEvent \/ WindowMoves \/ DayChanges \/ TickAll
  BY <1>1, <1>8 DEF AddEvent, WindowMoves, DayChanges, TickAll
<1>9. CASE UNCHANGED pricingVars
  BY <1>1, <1>9 DEF pricingVars
<1> QED
  BY <1>3, <1>4, <1>5, <1>6, <1>7, <1>8, <1>9 DEF PricingNext

\* The depth starts at the quote and only leaves it.
LEMMA DepthFollows == QuoteInv => DepthAgrees
<1> SUFFICES ASSUME QuoteInv, Quoted PROVE DepthAgrees
  BY DEF DepthAgrees
<1>1. DepthLevels \in Nat \ {0} /\ TickStep \in Nat
  BY PricingAssumption
<1>2. PICK b \in Nat, a \in Nat : b = instrument.bid /\ a = instrument.ask /\ Whole(b) /\ Whole(a)
  BY DEF QuoteInv, PricedInstrument
<1>3. /\ DomBook.bids = Ladder(b, -1) /\ DomBook.asks = Ladder(a, 1)
  BY <1>2 DEF DomBook
<1>4. ASSUME NEW i \in 1 .. DepthLevels
      PROVE  /\ DomBook.bids[i] = RoundPrice(b - (i - 1) * TickStep)
             /\ DomBook.asks[i] = RoundPrice(a + (i - 1) * TickStep)
  <2>1. PICK n \in Nat : n = (i - 1) * TickStep
    BY <1>1, <1>4
  <2>2. b + (-1) * (i - 1) * TickStep = b - n /\ a + 1 * (i - 1) * TickStep = a + n
    BY <1>1, <1>4, <2>1
  <2>3. /\ Ladder(b, -1)[i] = RoundPrice(b + (-1) * (i - 1) * TickStep)
        /\ Ladder(a, 1)[i] = RoundPrice(a + 1 * (i - 1) * TickStep)
    BY <1>4, Zenon DEF Ladder
  <2> QED
    BY <1>3, <2>1, <2>2, <2>3
<1>5. DomBook.bids[1] = b /\ DomBook.asks[1] = a
  <2>1. 1 \in 1 .. DepthLevels /\ b - (1 - 1) * TickStep = b /\ a + (1 - 1) * TickStep = a
    BY <1>1
  <2> QED
    BY <1>2, <1>4, <2>1, RoundOfWhole
<1>6. ASSUME NEW i \in 1 .. DepthLevels, NEW j \in 1 .. DepthLevels, i < j
      PROVE  DomBook.bids[j] <= DomBook.bids[i] /\ DomBook.asks[i] <= DomBook.asks[j]
  <2>1. PICK m \in Nat, n \in Nat : m = (i - 1) * TickStep /\ n = (j - 1) * TickStep
    BY <1>1
  <2>2. m <= n
    <3>1. PICK k \in Nat \ {0} : j = i + k
      BY <1>6
    <3>2. (j - 1) * TickStep = (i - 1) * TickStep + k * TickStep /\ k * TickStep \in Nat
      BY <1>1, <3>1
    <3> QED
      BY <2>1, <3>2
  <2>3. RoundPrice(b - n) <= RoundPrice(b - m) /\ RoundPrice(a + m) <= RoundPrice(a + n)
    BY <2>2, RoundKeepsOrder
  <2> QED
    BY <1>4, <2>1, <2>3
<1> QED
  BY <1>2, <1>5, <1>6 DEF DepthAgrees

LEMMA PricesFollow == QuoteInv /\ BargainInv => PricesSound
<1> SUFFICES ASSUME QuoteInv, BargainInv PROVE PricesSound
  OBVIOUS
<1>1. instrument.bid \in Nat /\ instrument.ask \in Nat
  BY DEF QuoteInv, PricedInstrument
<1>2. NeverNarrower
  BY <1>1 DEF QuoteInv, NeverNarrower, Width
<1>3. WidthHasCause
  BY <1>1 DEF QuoteInv, WidthHasCause, Width, Calm, Plain
<1>4. FillsAsQuoted /\ LeverageHasCause
  BY DEF BargainInv
<1> QED
  BY <1>2, <1>3, <1>4, DepthFollows DEF PricesSound

\* What is served is near the market or came first, and orders are blocked only by
\* silence; one feed dials; quotes are as wide as their cause, and an order fills
\* as it was quoted (market-data/, liquidity-engine/, execution-service/).
THEOREM MarketDataIsSound == Spec => []MarketDataSound
<1> DEFINE MarketInv == FeedsInv /\ SocketsInv /\ QuoteInv /\ BargainInv
<1>1. MarketInv => MarketDataSound
  BY FeedsFollow, SocketsFollow, PricesFollow DEF MarketDataSound
<1>2. Init => MarketInv
  BY PartInit, FeedsInitially, SocketsInitially, QuoteInitially, BargainInitially
<1>3. MarketInv /\ [Next]_vars => MarketInv'
  BY PartStep, FeedsStep, SocketsStep, QuoteStep, BargainStep
<1> QED
  BY <1>1, <1>2, <1>3, PTL DEF Spec
---------------------------------------------------------------------------
(* The end of the day.                                                     *)

\* The nights of charges, as a sum.
NightsOf(S) == MapThenSumSet(LAMBDA s : s.nights, S)
PostedIn(S, d) == {s \in S : s.posted = d}
UpTo(S, d) == {s \in S : s.posted <= d}

LEMMA NightsAre ==
    ASSUME NEW U, IsFiniteSet(U), \A s \in U : s.nights \in Int
    PROVE  \E g : /\ Sums(g, [s \in U |-> s.nights], U)
                  /\ \A T \in SUBSET U : NightsOf(T) = g[T]
<1> DEFINE f == [s \in U |-> s.nights]
<1>1. f \in [U -> Int]
  OBVIOUS
<1>2. PICK g : Sums(g, f, U)
  <2> HIDE DEF f
  <2> QED
    BY <1>1, SumsExist
<1>3. ASSUME NEW T \in SUBSET U PROVE NightsOf(T) = g[T]
  <2> DEFINE Rec(r) == r = [s \in SUBSET T |-> IF s = {} THEN 0
                             ELSE (CHOOSE x \in s : TRUE).nights + r[s \ {CHOOSE x \in s : TRUE}]]
             sums == CHOOSE r : Rec(r)
  <2>1. NightsOf(T) = sums[T]
    BY DEF NightsOf, MapThenSumSet, MapThenFoldSet
  <2>2. ASSUME NEW r PROVE Rec(r) <=> Folded(r, f, T)
    <3>1. \A s \in SUBSET T : s # {} => f[Taken(s)] = (CHOOSE x \in s : TRUE).nights
      BY OneFewer DEF Taken
    <3> QED
      BY <3>1 DEF Folded, Taken
  <2>3. Rec(sums)
    <3>1. \E r : Folded(r, f, T)
      <4> HIDE DEF f
      <4> QED
        BY <1>1, <1>2, FoldExists
    <3>2. \E r : Rec(r)
      <4> HIDE DEF Rec, f
      <4> QED
        BY <2>2, <3>1
    <3> HIDE DEF Rec, f
    <3> QED
      BY <3>2
  <2>4. Folded(sums, f, T)
    <3> HIDE DEF sums, Rec, f
    <3> QED
      BY <2>2, <2>3
  <2>5. sums[T] = g[T]
    <3> HIDE DEF sums, Rec, f
    <3> QED
      BY <1>1, <1>2, <2>4, FoldIsSum
  <2> QED
    BY <2>1, <2>5
<1> QED
  BY <1>2, <1>3

EodTypeOK ==
    /\ day \in 1 .. MaxDays /\ late \in BOOLEAN /\ opened \in [Held -> Int] /\ held \subseteq Held
    /\ IsFiniteSet(swaps) /\ \A s \in swaps : s.nights \in Nat /\ s.posted \in 1 .. day
    /\ daily \in [1 .. MaxDays -> Int]
    /\ audit.date \in Int /\ report.date \in Int

\* A snapshot counted no more than was posted on its day.
DaysCovered == \A d \in 1 .. MaxDays : daily[d] # None => daily[d] <= NightsOf(PostedIn(swaps, d))

\* An audit looks at every position that was open at the end of its day.
Looking ==
    audit # NoAudit =>
        /\ audit.date < day
        /\ \A p \in held : opened[p] <= 2 * audit.date + 1 => p \in audit.held
Vouched ==
    report.swap = "OK" =>
        /\ report.date < day
        /\ \A p \in held : opened[p] <= 2 * report.date + 1 => p \in PaidFor(report.date)

EodInv == EodTypeOK /\ OneChargePerNight /\ DaysCovered /\ Looking /\ Vouched

LEMMA NightsIn == \A p, d : Nights(p, d) \in {0, 1, 3}
  BY DEF Nights

LEMMA PostedTyped ==
    ASSUME NEW old, IsFiniteSet(old), \A x \in old : x.nights \in Nat, NEW d
    PROVE  NightsOf(PostedIn(old, d)) \in Nat
<1> DEFINE f == [x \in old |-> x.nights]
<1>1. PICK g : Sums(g, f, old) /\ \A T \in SUBSET old : NightsOf(T) = g[T]
  BY NightsAre
<1>2. f \in [old -> Int] /\ \A x \in old : f[x] >= 0
  OBVIOUS
<1>3. PICK t \in SUBSET old : t = PostedIn(old, d)
  BY DEF PostedIn
<1>4. g[t] \in Nat
  <2> HIDE DEF f
  <2> QED
    BY <1>1, <1>2, <1>3, SumsNotNegative
<1> QED
  BY <1>1, <1>3, <1>4

\* What was posted on a day only grows.
LEMMA PostedGrows ==
    ASSUME NEW old, IsFiniteSet(old), NEW s, \A x \in old \cup {s} : x.nights \in Nat, NEW d
    PROVE  NightsOf(PostedIn(old, d)) <= NightsOf(PostedIn(old \cup {s}, d))
<1>1. IsFiniteSet(old \cup {s})
  BY FS_AddElement
<1>2. PICK U : U = old \cup {s} /\ IsFiniteSet(U)
  BY <1>1
<1>3. \A x \in U : x.nights \in Nat
  BY <1>2
<1> DEFINE f == [x \in U |-> x.nights]
<1>4. PICK g : Sums(g, f, U) /\ \A T \in SUBSET U : NightsOf(T) = g[T]
  <2>1. \A x \in U : x.nights \in Int
    BY <1>3
  <2>2. \E g : Sums(g, [x \in U |-> x.nights], U) /\ \A T \in SUBSET U : NightsOf(T) = g[T]
    BY <1>2, <2>1, NightsAre
  <2> QED
    BY <2>2
<1>5. f \in [U -> Int] /\ \A x \in U : f[x] >= 0
  BY <1>3
<1>6. PICK t \in SUBSET U : t = PostedIn(old \cup {s}, d)
  BY <1>2 DEF PostedIn
<1>7. PICK r \in SUBSET t : r = PostedIn(old, d) /\ r \in SUBSET U
  <2>1. PostedIn(old, d) \in SUBSET t /\ PostedIn(old, d) \in SUBSET U
    BY <1>2, <1>6 DEF PostedIn
  <2> QED
    BY <2>1
<1>8. g[r] <= g[t]
  <2> HIDE DEF f
  <2> QED
    BY <1>2, <1>4, <1>5, <1>6, <1>7, SumsGrow
<1>9. NightsOf(r) = g[r] /\ NightsOf(t) = g[t]
  BY <1>4, <1>6, <1>7
<1> QED
  BY <1>6, <1>7, <1>8, <1>9

LEMMA EodInitially == EodInit => EodInv
<1> SUFFICES ASSUME EodInit PROVE EodInv
  OBVIOUS
<1>1. IsFiniteSet(swaps) /\ day \in 1 .. MaxDays
  BY FS_EmptySet, EodAssumption DEF EodInit
<1>2. opened \in [Held -> Int] /\ daily \in [1 .. MaxDays -> Int]
  BY DEF EodInit, Never, None
<1>3. audit = NoAudit /\ audit.date = 0 /\ report.date = 0 /\ report.swap = "SKIPPED"
  BY DEF EodInit, NoAudit, NoReport
<1>4. day = 1 /\ late = FALSE /\ held = {} /\ swaps = {}
  BY DEF EodInit
<1>5. EodTypeOK
  <2>1. held \subseteq Held /\ \A s \in swaps : FALSE
    BY <1>4
  <2>2. audit.date \in Int /\ report.date \in Int
    BY <1>3
  <2> QED
    BY <1>1, <1>2, <1>4, <2>1, <2>2 DEF EodTypeOK
<1>6. DaysCovered
  BY DEF EodInit, DaysCovered
<1> QED
  BY <1>3, <1>4, <1>5, <1>6 DEF EodInv, OneChargePerNight, Looking, Vouched

LEMMA EodStep == EodInv /\ [EodNext]_eodVars => EodInv'
<1> SUFFICES ASSUME EodInv, [EodNext]_eodVars PROVE EodInv'
  OBVIOUS
<1> USE DEF clock, book, runs
<1>1. CASE UNCHANGED <<day, late, opened, held, swaps, daily, audit, report>>
  BY <1>1 DEF EodInv, EodTypeOK, OneChargePerNight, DaysCovered, PostedIn, Looking,
              Vouched, PaidFor
<1>t. EodTypeOK
  BY DEF EodInv
<1>2. ASSUME NEW p \in Held, Open(p) PROVE EodInv'
  <2>1. PICK m \in Int : m = Moment /\ m >= 2 * day
    BY <1>t DEF EodTypeOK, Moment
  <2>2. /\ opened' = [opened EXCEPT ![p] = m] /\ held' = held \cup {p}
        /\ UNCHANGED <<day, late, swaps, daily, audit, report>>
    BY <1>2, <2>1 DEF Open
  <2>3. EodTypeOK'
    BY <1>t, <2>2 DEF EodTypeOK
  <2>4. \A q \in held' : opened'[q] = (IF q = p THEN m ELSE opened[q]) /\ (q # p => q \in held)
    BY <1>t, <2>2 DEF EodTypeOK
  <2>5. Looking' /\ Vouched'
    <3>1. PICK t \in Int, a \in Int, r \in Int : t = day /\ a = audit.date /\ r = report.date
      BY <1>t DEF EodTypeOK
    <3>2. a < t => ~(m <= 2 * a + 1)
      BY <2>1, <3>1
    <3>3. r < t => ~(m <= 2 * r + 1)
      BY <2>1, <3>1
    <3>4. audit # NoAudit => /\ a < t
                             /\ \A q \in held : opened[q] <= 2 * a + 1 => q \in audit.held
      BY <3>1 DEF EodInv, Looking
    <3>5. report.swap = "OK" => /\ r < t
                                /\ \A q \in held : opened[q] <= 2 * r + 1 => q \in PaidFor(r)
      BY <3>1 DEF EodInv, Vouched
    <3>6. Looking'
      BY <2>2, <2>4, <3>1, <3>2, <3>4 DEF Looking
    <3>7. Vouched'
      BY <2>2, <2>4, <3>1, <3>3, <3>5 DEF Vouched, PaidFor
    <3> QED
      BY <3>6, <3>7
  <2>6. OneChargePerNight' /\ DaysCovered'
    BY <2>2 DEF EodInv, OneChargePerNight, DaysCovered, PostedIn
  <2> QED
    BY <2>3, <2>5, <2>6 DEF EodInv
<1>3. ASSUME NEW p \in Held, Close(p) PROVE EodInv'
  <2>1. held' = held \ {p} /\ UNCHANGED <<day, late, opened, swaps, daily, audit, report>>
    BY <1>3 DEF Close
  <2> QED
    BY <2>1 DEF EodInv, EodTypeOK, OneChargePerNight, DaysCovered, PostedIn, Looking,
                Vouched, PaidFor
<1>4. CASE Rollover \/ Midnight
  <2>1. /\ day' \in 1 .. MaxDays /\ day' >= day /\ late' \in BOOLEAN
        /\ UNCHANGED <<opened, held, swaps, daily, audit, report>>
    <3>1. MaxDays \in Nat /\ day \in 1 .. MaxDays
      BY <1>t, EodAssumption DEF EodTypeOK
    <3>2. CASE Rollover
      BY <3>1, <3>2 DEF Rollover
    <3>3. CASE Midnight
      <4>1. day < MaxDays /\ day' = day + 1 /\ late' = FALSE
        BY <3>3 DEF Midnight
      <4>2. UNCHANGED <<opened, held, swaps, daily, audit, report>>
        BY <3>3 DEF Midnight
      <4>3. day + 1 \in 1 .. MaxDays /\ day + 1 >= day
        BY <3>1, <4>1
      <4> QED
        BY <4>1, <4>2, <4>3
    <3> QED
      BY <1>4, <3>2, <3>3
  <2>2. EodTypeOK'
    BY <1>t, <2>1 DEF EodTypeOK
  <2>3. Looking' /\ Vouched'
    <3>1. PICK t \in Int, u \in Int, a \in Int, r \in Int :
             t = day /\ u = day' /\ a = audit.date /\ r = report.date /\ t <= u
      BY <1>t, <2>1 DEF EodTypeOK
    <3>2. (a < t => a < u) /\ (r < t => r < u)
      BY <3>1
    <3> QED
      BY <2>1, <3>1, <3>2 DEF EodInv, Looking, Vouched, PaidFor
  <2> QED
    BY <2>1, <2>2, <2>3 DEF EodInv, OneChargePerNight, DaysCovered, PostedIn
<1>5. ASSUME NEW w \in EodWorkers, StartAccrual(w) \/ EndAccrual(w) \/ CrashEod(w) PROVE EodInv'
  BY <1>1, <1>5 DEF StartAccrual, EndAccrual, CrashEod
<1>6. ASSUME NEW w \in EodWorkers, NEW p \in Held, Accrue(w, p) PROVE EodInv'
  <2>1. PICK d : d = accrual[w].date
    OBVIOUS
  <2>2. UNCHANGED <<day, late, opened, held, daily, audit, report>>
    BY <1>6 DEF Accrue
  <2>3. CASE UNCHANGED swaps
    BY <1>1, <2>2, <2>3
  <2>4. CASE swaps' # swaps
    <3>1. PICK n \in Nat : n = Nights(p, d)
      BY NightsIn
    <3>2. PICK s : s = [position |-> p, date |-> d, nights |-> n, posted |-> day, by |-> w]
      OBVIOUS
    <3>3. ~Charged(w, p, d) /\ swaps' = swaps \cup {s}
      BY <1>6, <2>1, <2>4, <3>1, <3>2 DEF Accrue
    <3>4. s.position = p /\ s.date = d /\ s.nights = n /\ s.posted = day
      BY <3>2
    <3>5. IsFiniteSet(swaps')
      BY <1>t, <3>3, FS_AddElement DEF EodTypeOK
    <3>6. EodTypeOK'
      BY <1>t, <2>2, <3>3, <3>4, <3>5 DEF EodTypeOK
    <3>7. OneChargePerNight'
      BY <3>3, <3>4 DEF EodInv, OneChargePerNight, Charged
    <3>8. DaysCovered'
      <4> SUFFICES ASSUME NEW c \in 1 .. MaxDays, daily[c] # None
                   PROVE  daily[c] <= NightsOf(PostedIn(swaps', c))
        BY <2>2 DEF DaysCovered
      <4>1. PICK old : /\ old = swaps /\ IsFiniteSet(old) /\ IsFiniteSet(old \cup {s})
                       /\ \A x \in old \cup {s} : x.nights \in Nat
        BY <1>t, <3>3, <3>4, <3>5 DEF EodTypeOK
      <4>2. PICK a \in Int, b \in Int : /\ a = daily[c] /\ a <= b
                                        /\ b = NightsOf(PostedIn(old, c))
        <5>1. NightsOf(PostedIn(old, c)) \in Nat
          BY <4>1, PostedTyped
        <5>2. daily[c] \in Int /\ daily[c] <= NightsOf(PostedIn(old, c))
          BY <1>t, <4>1 DEF EodInv, EodTypeOK, DaysCovered
        <5>3. PICK b \in Int : b = NightsOf(PostedIn(old, c))
          BY <5>1
        <5> QED
          BY <5>2, <5>3
      <4>3. NightsOf(PostedIn(old \cup {s}, c)) \in Nat
        BY <4>1, PostedTyped
      <4>4. NightsOf(PostedIn(old, c)) <= NightsOf(PostedIn(old \cup {s}, c))
        BY <4>1, PostedGrows
      <4>5. PICK e \in Int : e = NightsOf(PostedIn(old \cup {s}, c))
        BY <4>3
      <4>6. b <= e
        BY <4>2, <4>4, <4>5
      <4> QED
        BY <3>3, <4>1, <4>2, <4>5, <4>6
    <3>9. Looking' /\ Vouched'
      <4>1. PaidFor(report.date) \subseteq PaidFor(report.date)'
        BY <2>2, <3>3 DEF PaidFor
      <4> QED
        BY <2>2, <4>1 DEF EodInv, Looking, Vouched
    <3> QED
      BY <3>6, <3>7, <3>8, <3>9 DEF EodInv
  <2> QED
    BY <2>3, <2>4
<1>7. ASSUME NEW d \in 1 .. MaxDays, SnapshotAccount(d) PROVE EodInv'
  <2>1. UNCHANGED <<day, late, opened, held, swaps, audit, report>>
    BY <1>7 DEF SnapshotAccount
  <2>2. CASE UNCHANGED daily
    BY <1>1, <2>1, <2>2
  <2>3. CASE daily' = [daily EXCEPT ![d] = SwapsOfDay(d)]
    <3>1. PICK old : old = swaps /\ IsFiniteSet(old) /\ \A x \in old : x.nights \in Nat
      BY <1>t DEF EodTypeOK
    <3>2. PICK n \in Nat : n = NightsOf(PostedIn(old, d)) /\ n = SwapsOfDay(d)
      <4>1. NightsOf(PostedIn(old, d)) \in Nat
        BY <3>1, PostedTyped
      <4>2. SwapsOfDay(d) = NightsOf(PostedIn(old, d))
        BY <3>1 DEF SwapsOfDay, PostedOn, PostedIn, NightsOf
      <4> QED
        BY <4>1, <4>2
    <3>3. daily' = [daily EXCEPT ![d] = n]
      BY <2>3, <3>2
    <3>4. EodTypeOK'
      BY <1>t, <2>1, <3>3 DEF EodTypeOK
    <3>5. \A c \in 1 .. MaxDays : daily'[c] = IF c = d THEN n ELSE daily[c]
      BY <1>t, <3>3 DEF EodTypeOK
    <3>7. DaysCovered'
      <4> SUFFICES ASSUME NEW c \in 1 .. MaxDays, daily'[c] # None
                   PROVE  daily'[c] <= NightsOf(PostedIn(old, c))
        BY <2>1, <3>1 DEF DaysCovered
      <4>1. CASE c = d
        <5>1. daily'[c] = n /\ NightsOf(PostedIn(old, c)) = n
          BY <3>2, <3>5, <4>1
        <5> QED
          BY <5>1
      <4>2. CASE c # d
        BY <3>1, <3>5, <4>2 DEF EodInv, DaysCovered
      <4> QED
        BY <4>1, <4>2
    <3> QED
      BY <2>1, <3>4, <3>7 DEF EodInv, OneChargePerNight, Looking, Vouched, PaidFor
  <2> QED
    BY <1>7, <2>2, <2>3 DEF SnapshotAccount
<1>8. CASE StartAudit
  <2>1. PICK t \in Int, a \in Int : t = day /\ a = day - 1 /\ a < t
    BY <1>t DEF EodTypeOK
  <2>2. PICK looked : looked = {p \in held : OpenedByEndOf(p, a)}
    OBVIOUS
  <2>3. /\ audit' = [date |-> a, held |-> looked]
        /\ UNCHANGED <<day, late, opened, held, swaps, daily, report>>
    BY <1>8, <2>1, <2>2 DEF StartAudit
  <2>4. audit'.date = a /\ audit'.held = looked
    BY <2>3
  <2>5. EodTypeOK'
    BY <1>t, <2>3, <2>4 DEF EodTypeOK
  <2>6. Looking'
    BY <2>1, <2>2, <2>3, <2>4 DEF Looking, OpenedByEndOf
  <2> QED
    BY <2>3, <2>5, <2>6
       DEF EodInv, OneChargePerNight, DaysCovered, PostedIn, Vouched, PaidFor
<1>9. CASE EndAudit
  <2>1. /\ audit' = NoAudit /\ audit'.date = 0
        /\ UNCHANGED <<day, late, opened, held, swaps, daily>>
    BY <1>9 DEF EndAudit, NoAudit
  <2>2. PICK a \in Int : a = audit.date
    BY <1>t DEF EodTypeOK
  <2>3. PICK v : /\ report' = [date |-> a, swap |-> v]
                 /\ v = "OK" => audit.held \subseteq PaidFor(a)
    BY <1>9, <2>2 DEF EndAudit, Verdict
  <2>4. report'.date = a /\ report'.swap = v
    BY <2>3
  <2>5. EodTypeOK'
    BY <1>t, <2>1, <2>4 DEF EodTypeOK
  <2>6. Vouched'
    <3>1. /\ a < day
          /\ \A p \in held : opened[p] <= 2 * a + 1 => p \in audit.held
      BY <1>9, <2>2 DEF EodInv, Looking, EndAudit
    <3>2. PaidFor(a)' = PaidFor(a)
      BY <2>1 DEF PaidFor
    <3> QED
      BY <2>1, <2>3, <2>4, <3>1, <3>2 DEF Vouched
  <2> QED
    BY <2>1, <2>5, <2>6
       DEF EodInv, OneChargePerNight, DaysCovered, PostedIn, Looking
<1>10. CASE UNCHANGED eodVars
  BY <1>1, <1>10 DEF eodVars
<1> QED
  BY <1>2, <1>3, <1>4, <1>5, <1>6, <1>7, <1>8, <1>9, <1>10 DEF EodNext

\* What the snapshots counted, as a sum.
Counted == [d \in 1 .. MaxDays |-> IF daily[d] = None THEN 0 ELSE daily[d]]
CountedInAll == MapThenSumSet(LAMBDA d : IF daily[d] = None THEN 0 ELSE daily[d], DOMAIN daily)

LEMMA CountedIs ==
    ASSUME EodTypeOK
    PROVE  /\ Counted \in [1 .. MaxDays -> Int] /\ IsFiniteSet(1 .. MaxDays)
           /\ \E h : Sums(h, Counted, 1 .. MaxDays) /\ CountedInAll = h[1 .. MaxDays]
<1> DEFINE T == 1 .. MaxDays
<1>1. IsFiniteSet(T) /\ DOMAIN daily = T /\ \A d \in T : daily[d] \in Int
  BY FS_Interval, EodAssumption DEF EodTypeOK
<1>2. PICK f \in [T -> Int] : /\ f = Counted
                              /\ \A d \in T : f[d] = IF daily[d] = None THEN 0 ELSE daily[d]
  <2>1. Counted \in [T -> Int]
    BY <1>1 DEF Counted
  <2>2. \A d \in T : Counted[d] = IF daily[d] = None THEN 0 ELSE daily[d]
    BY DEF Counted
  <2> QED
    BY <2>1, <2>2
<1> HIDE DEF T
<1>3. PICK h : Sums(h, f, T)
  BY <1>1, <1>2, SumsExist
<1> DEFINE Rec(r) == r = [s \in SUBSET T |-> IF s = {} THEN 0
                ELSE (IF daily[CHOOSE x \in s : TRUE] = None THEN 0
                      ELSE daily[CHOOSE x \in s : TRUE]) + r[s \ {CHOOSE x \in s : TRUE}]]
           sums == CHOOSE r : Rec(r)
<1>4. CountedInAll = sums[T]
  BY <1>1 DEF CountedInAll, MapThenSumSet, MapThenFoldSet
<1>5. ASSUME NEW r PROVE Rec(r) <=> Folded(r, f, T)
  <2>1. \A s \in SUBSET T : s # {} => Taken(s) \in T
    BY <1>1, OneFewer
  <2>2. \A s \in SUBSET T : s # {} =>
           f[Taken(s)] = IF daily[CHOOSE x \in s : TRUE] = None THEN 0
                         ELSE daily[CHOOSE x \in s : TRUE]
    BY <1>2, <2>1 DEF Taken
  <2> QED
    BY <2>2 DEF Folded, Taken
<1>6. \E r : Folded(r, f, T)
  BY <1>1, <1>2, <1>3, FoldExists
<1> HIDE DEF Rec
<1>7. \E r : Rec(r)
  BY <1>5, <1>6
<1>8. Rec(sums)
  BY <1>7
<1> HIDE DEF sums
<1>9. sums[T] = h[T]
  BY <1>1, <1>2, <1>3, <1>5, <1>8, FoldIsSum
<1> QED
  BY <1>1, <1>2, <1>3, <1>4, <1>9 DEF T

LEMMA EodFollows == EodInv => EodSound
<1> SUFFICES ASSUME EodInv PROVE EodSound
  OBVIOUS
<1>t. EodTypeOK
  BY DEF EodInv
<1>1. PICK old : old = swaps /\ IsFiniteSet(old) /\ \A s \in old : s.nights \in Nat /\ s.posted \in 1 .. day
  BY <1>t DEF EodTypeOK
<1> DEFINE f == [s \in old |-> s.nights]
<1>2. PICK g : Sums(g, f, old) /\ \A T \in SUBSET old : NightsOf(T) = g[T]
  <2>1. \A s \in old : s.nights \in Int
    BY <1>1
  <2>2. \E g : Sums(g, [x \in old |-> x.nights], old) /\ \A T \in SUBSET old : NightsOf(T) = g[T]
    BY <1>1, <2>1, NightsAre
  <2> QED
    BY <2>2
<1>3. f \in [old -> Int] /\ \A s \in old : f[s] >= 0
  BY <1>1
<1> HIDE DEF f
<1>4. PICK N \in Nat : N = MaxDays /\ day \in 1 .. N
  BY <1>t, EodAssumption DEF EodTypeOK
<1>5. PICK c, h :
         /\ c \in [1 .. N -> Int] /\ c = Counted /\ Sums(h, c, 1 .. N) /\ IsFiniteSet(1 .. N) /\ CountedInAll = h[1 .. N]
  BY <1>t, <1>4, CountedIs
<1> DEFINE B == {m \in 0 .. N : ~ (h[1 .. m] <= g[UpTo(old, m)])}
<1>6. ASSUME NEW m \in 0 .. N PROVE h[1 .. m] \in Int /\ g[UpTo(old, m)] \in Int
  <2>1. 1 .. m \in SUBSET (1 .. N) /\ UpTo(old, m) \in SUBSET old
    BY <1>4 DEF UpTo
  <2> QED
    BY <1>2, <1>5, <2>1 DEF Sums
<1>7. B = {}
  <2>1. SUFFICES ASSUME B # {} PROVE FALSE
    OBVIOUS
  <2>2. PICK m \in B : \A y \in B : m <= y
    <3>1. B \subseteq Nat
      OBVIOUS
    <3> HIDE DEF B
    <3> QED
      BY <2>1, <3>1, LeastMember
  <2>3. m \in 0 .. N /\ ~ (h[1 .. m] <= g[UpTo(old, m)])
    BY <2>2
  <2>4. CASE m = 0
    <3>1. 1 .. 0 = {} /\ UpTo(old, 0) = {}
      BY <1>1 DEF UpTo
    <3>2. h[{}] = 0 /\ g[{}] = 0
      BY <1>2, <1>5 DEF Sums
    <3>3. h[1 .. m] = 0 /\ g[UpTo(old, m)] = 0
      BY <2>4, <3>1, <3>2
    <3> QED
      BY <2>3, <3>3
  <2>5. CASE m # 0
    <3>1. PICK k \in 0 .. N : k = m - 1 /\ m \in 1 .. N
      BY <1>4, <2>3, <2>5
    <3>2. h[1 .. k] <= g[UpTo(old, k)]
      <4>1. k \notin B
        <5> HIDE DEF B
        <5>1. ~(m <= k)
          BY <3>1
        <5> QED
          BY <2>2, <5>1
      <4> QED
        BY <4>1
    <3>3. h[1 .. m] = h[1 .. k] + c[m] /\ c[m] \in Int
      <4>1. m \notin 1 .. k /\ m \in 1 .. N /\ 1 .. k \in SUBSET (1 .. N) /\ 1 .. m = (1 .. k) \cup {m}
        BY <1>4, <3>1
      <4>2. PICK D, a : D = 1 .. N /\ a = 1 .. k /\ a \in SUBSET D /\ m \notin a /\ m \in D
        BY <4>1
      <4>3. IsFiniteSet(D) /\ c \in [D -> Int] /\ Sums(h, c, D)
        BY <1>5, <4>2
      <4>4. PICK u : u = a \cup {m} /\ u = 1 .. m
        BY <4>1, <4>2
      <4>6. PICK x : x = m
        OBVIOUS
      <4>7. IsFiniteSet(D) /\ a \in SUBSET D /\ x \in D /\ x \notin a /\ u = a \cup {x}
        BY <4>2, <4>3, <4>4, <4>6
      <4>8. h[u] = h[a] + c[x]
        BY <4>3, <4>7, SumOfOneMore
      <4>5. h[u] = h[a] + c[m]
        BY <4>6, <4>8
      <4> QED
        BY <1>5, <4>1, <4>2, <4>4, <4>5
    <3>4. g[UpTo(old, m)] = g[UpTo(old, k)] + g[PostedIn(old, m)] /\ g[PostedIn(old, m)] \in Nat
      <4>1. /\ UpTo(old, k) \in SUBSET old /\ PostedIn(old, m) \in SUBSET old
            /\ UpTo(old, k) \cap PostedIn(old, m) = {} /\ UpTo(old, m) = UpTo(old, k) \cup PostedIn(old, m)
        BY <1>1, <1>4, <3>1 DEF PostedIn, UpTo
      <4>2. PICK a \in SUBSET old, b \in SUBSET old : a = UpTo(old, k) /\ b = PostedIn(old, m) /\ a \cap b = {}
        BY <4>1
      <4>5. PICK u : u = a \cup b /\ u = UpTo(old, m)
        BY <4>1, <4>2
      <4>3. g[u] = g[a] + g[b]
        <5>1. IsFiniteSet(old) /\ f \in [old -> Int] /\ Sums(g, f, old)
          BY <1>1, <1>2, <1>3 DEF f
        <5> QED
          BY <4>2, <4>5, <5>1, SumOfTwo
      <4>4. g[b] \in Nat
        BY <1>1, <1>2, <1>3, SumsNotNegative
      <4> QED
        BY <4>1, <4>2, <4>3, <4>4, <4>5
    <3>5. c[m] <= g[PostedIn(old, m)]
      <4>1. PostedIn(old, m) \in SUBSET old
        BY DEF PostedIn
      <4>2. NightsOf(PostedIn(old, m)) = g[PostedIn(old, m)]
        BY <1>2, <4>1
      <4>3. c[m] = IF daily[m] = None THEN 0 ELSE daily[m]
        BY <1>4, <1>5, <3>1 DEF Counted
      <4>4. daily[m] # None => daily[m] <= NightsOf(PostedIn(old, m))
        BY <1>1, <1>4, <3>1 DEF EodInv, DaysCovered
      <4> QED
        BY <3>4, <4>2, <4>3, <4>4
    <3>6. PICK x \in Int, y \in Int, z \in Int, w \in Int :
             x = h[1 .. k] /\ y = g[UpTo(old, k)] /\ z = c[m] /\ w = g[PostedIn(old, m)]
      <4>1. h[1 .. k] \in Int /\ g[UpTo(old, k)] \in Int
        BY <1>6, <3>1
      <4> QED
        BY <3>3, <3>4, <4>1
    <3>7. x + z <= y + w
      BY <3>2, <3>5, <3>6
    <3> QED
      BY <2>3, <3>3, <3>4, <3>6, <3>7
  <2> QED
    BY <2>4, <2>5
<1>8. h[1 .. N] <= g[UpTo(old, N)]
  <2>1. N \in 0 .. N /\ N \notin B
    BY <1>7
  <2> QED
    BY <2>1
<1>9. UpTo(old, N) = old
  BY <1>1, <1>4 DEF UpTo
<1>10. CountedInAll <= NightsOf(old)
  <2>1. old \in SUBSET old
    OBVIOUS
  <2> QED
    BY <1>2, <1>5, <1>8, <1>9, <2>1
<1>11. SnapshotsCountOnce
  BY <1>1, <1>10 DEF SnapshotsCountOnce, CountedInAll, NightsOf
<1>12. CleanAuditMeansCharged
  <2> SUFFICES ASSUME report.swap = "OK", NEW p \in Held, p \in held, opened[p] <= 2 * report.date
               PROVE  \E s \in swaps : s.position = p /\ s.date = report.date
    BY DEF CleanAuditMeansCharged
  <2>1. opened[p] \in Int /\ report.date \in Int
    BY <1>t DEF EodTypeOK
  <2>2. opened[p] <= 2 * report.date + 1
    BY <2>1
  <2>3. p \in PaidFor(report.date)
    BY <2>2 DEF EodInv, Vouched
  <2> QED
    BY <2>3 DEF PaidFor
<1> QED
  BY <1>11, <1>12 DEF EodInv, EodSound

\* The end of the day: a position is charged once for a night, the daily
\* figures count a charge no more than once, and an audit that reports the swaps
\* in order has every position that was open charged.
THEOREM EodIsSound == Spec => []EodSound
<1>1. EodInv => EodSound
  BY EodFollows
<1>2. Init => EodInv
  BY PartInit, EodInitially
<1>3. EodInv /\ [Next]_vars => EodInv'
  BY PartStep, EodStep
<1> QED
  BY <1>1, <1>2, <1>3, PTL DEF Spec
---------------------------------------------------------------------------
(* The limits on what is open.                                             *)

\* The notionals of positions, as a sum.
LEMMA SumIs ==
    ASSUME NEW U, IsFiniteSet(U), \A p \in U : p.notional \in Int
    PROVE  \E g : Sums(g, [p \in U |-> p.notional], U) /\ \A T \in SUBSET U : Sum(T) = g[T]
<1> DEFINE f == [p \in U |-> p.notional]
<1>1. f \in [U -> Int]
  OBVIOUS
<1>2. PICK g : Sums(g, f, U)
  <2> HIDE DEF f
  <2> QED
    BY <1>1, SumsExist
<1>3. ASSUME NEW T \in SUBSET U PROVE Sum(T) = g[T]
  <2> DEFINE Rec(r) == r = [s \in SUBSET T |-> IF s = {} THEN 0
                             ELSE (CHOOSE x \in s : TRUE).notional + r[s \ {CHOOSE x \in s : TRUE}]]
             sums == CHOOSE r : Rec(r)
  <2>1. Sum(T) = sums[T]
    BY DEF Sum, FoldSet, MapThenFoldSet
  <2>2. ASSUME NEW r PROVE Rec(r) <=> Folded(r, f, T)
    <3>1. \A s \in SUBSET T : s # {} => f[Taken(s)] = (CHOOSE x \in s : TRUE).notional
      BY OneFewer DEF Taken
    <3> QED
      BY <3>1 DEF Folded, Taken
  <2>3. Rec(sums)
    <3>1. \E r : Folded(r, f, T)
      <4> HIDE DEF f
      <4> QED
        BY <1>1, <1>2, FoldExists
    <3>2. \E r : Rec(r)
      <4> HIDE DEF Rec, f
      <4> QED
        BY <2>2, <3>1
    <3> HIDE DEF Rec, f
    <3> QED
      BY <3>2
  <2>4. Folded(sums, f, T)
    <3> HIDE DEF sums, Rec, f
    <3> QED
      BY <2>2, <2>3
  <2>5. sums[T] = g[T]
    <3> HIDE DEF sums, Rec, f
    <3> QED
      BY <1>1, <1>2, <2>4, FoldIsSum
  <2> QED
    BY <2>1, <2>5
<1> QED
  BY <1>2, <1>3

LEMMA SumIsNat ==
    ASSUME NEW U, IsFiniteSet(U), \A p \in U : p.notional \in Nat
    PROVE  Sum(U) \in Nat
<1> DEFINE f == [p \in U |-> p.notional]
<1>1. PICK g : Sums(g, f, U) /\ \A T \in SUBSET U : Sum(T) = g[T]
  BY SumIs
<1>2. f \in [U -> Int] /\ \A p \in U : f[p] >= 0
  OBVIOUS
<1>3. PICK t \in SUBSET U : t = U
  OBVIOUS
<1>4. g[t] \in Nat
  <2> HIDE DEF f
  <2> QED
    BY <1>1, <1>2, <1>3, SumsNotNegative
<1> QED
  BY <1>1, <1>3, <1>4

LEMMA SumIsMore ==
    ASSUME NEW U, IsFiniteSet(U), \A p \in U : p.notional \in Nat, NEW T \in SUBSET U
    PROVE  Sum(T) <= Sum(U)
<1> DEFINE f == [p \in U |-> p.notional]
<1>0. \A p \in U : p.notional \in Int
  OBVIOUS
<1>1. PICK g : Sums(g, f, U) /\ \A A \in SUBSET U : Sum(A) = g[A]
  BY <1>0, SumIs
<1>2. f \in [U -> Int] /\ \A p \in U : f[p] >= 0
  OBVIOUS
<1>3. PICK t \in SUBSET U : t = U /\ T \in SUBSET t
  OBVIOUS
<1>4. g[T] <= g[t]
  <2> HIDE DEF f
  <2> QED
    BY <1>1, <1>2, <1>3, SumsGrow
<1> QED
  BY <1>1, <1>3, <1>4

LEMMA SumIsBoth ==
    ASSUME NEW U, IsFiniteSet(U), \A p \in U : p.notional \in Nat,
           NEW s \in SUBSET U, NEW t \in SUBSET U, s \cap t = {}, U = s \cup t
    PROVE  Sum(U) = Sum(s) + Sum(t)
<1> DEFINE f == [p \in U |-> p.notional]
<1>0. \A p \in U : p.notional \in Int
  OBVIOUS
<1>1. PICK g : Sums(g, f, U) /\ \A A \in SUBSET U : Sum(A) = g[A]
  BY <1>0, SumIs
<1>2. f \in [U -> Int]
  OBVIOUS
<1>3. PICK u \in SUBSET U : u = U /\ u = s \cup t
  OBVIOUS
<1>4. g[u] = g[s] + g[t]
  <2> HIDE DEF f
  <2> QED
    BY <1>1, <1>2, <1>3, SumOfTwo
<1> QED
  BY <1>1, <1>3, <1>4

LEMMA SumIsOneMore ==
    ASSUME NEW U, IsFiniteSet(U), \A p \in U : p.notional \in Nat,
           NEW s \in SUBSET U, NEW q \in U, q \notin s, U = s \cup {q}
    PROVE  Sum(U) = Sum(s) + q.notional
<1> DEFINE f == [p \in U |-> p.notional]
<1>0. \A p \in U : p.notional \in Int
  OBVIOUS
<1>1. PICK g : Sums(g, f, U) /\ \A A \in SUBSET U : Sum(A) = g[A]
  BY <1>0, SumIs
<1>2. f \in [U -> Int] /\ f[q] = q.notional
  OBVIOUS
<1>3. PICK u \in SUBSET U : u = U /\ u = s \cup {q}
  OBVIOUS
<1>4. g[u] = g[s] + f[q]
  <2> HIDE DEF f
  <2> QED
    BY <1>1, <1>2, <1>3, SumOfOneMore
<1> QED
  BY <1>1, <1>2, <1>3, <1>4

(* The steps of ExposureLimits, by what they do to an order, to the locks and  *)
(* to what is open.                                                        *)
Position == [order : Orders, notional : Nat]
DealPhases == {"new", "queued", "begun", "rejected", "filled"} \cup InTransaction
Deal == [pc : DealPhases, on : Servants \cup {NoDeal}, snap : SUBSET Position, notional : Nat]

ExposureTypeOK ==
    /\ cap \in Nat
    /\ positions \subseteq Position /\ IsFiniteSet(positions)
    /\ deal \in [Orders -> Deal]
    /\ rows \in [Clients -> Orders \cup {NoDeal}]
    /\ advisory \in [Symbols \cup Clients -> Orders \cup {NoDeal}]
    /\ lateReaders \subseteq Orders

\* From here to the end of the transaction an order holds its instrument's lock.
HoldsSymbol == {"symbol", "clientAsked", "client"}

Becomes(o, d) == d \in Deal /\ deal' = [deal EXCEPT ![o] = d]

\* Outside the transaction.
KeepsOut(o, d) ==
    /\ Becomes(o, d) /\ deal[o].pc \in {"new", "queued"} /\ d.pc \in {"queued", "rejected", "begun"}
    /\ UNCHANGED <<cap, positions, rows, advisory, lateReaders, lopsided>>
Begins(o, d) ==
    /\ Becomes(o, d) /\ deal[o].pc = "begun" /\ d.pc = "margin"
    /\ rows[Asked[o].user] = NoDeal /\ rows' = [rows EXCEPT ![Asked[o].user] = o]
    /\ UNCHANGED <<cap, positions, advisory, lateReaders, lopsided>>
Asks(o, d) ==
    /\ Becomes(o, d) /\ d.snap = positions /\ d.notional = deal[o].notional
    /\ \/ deal[o].pc = "margin" /\ d.pc = "symbolAsked"
       \/ deal[o].pc = "symbol" /\ d.pc = "clientAsked"
    /\ UNCHANGED <<cap, positions, rows, advisory, lateReaders, lopsided>>
TakesSymbol(o, d) ==
    /\ Becomes(o, d) /\ deal[o].pc = "symbolAsked" /\ d.pc = "symbol" /\ d.notional = deal[o].notional
    /\ advisory[Asked[o].symbol] = NoDeal /\ advisory' = [advisory EXCEPT ![Asked[o].symbol] = o]
    /\ \/ o \in lateReaders'
       \/ /\ \A side \in Sides : OfSymbol(deal[o].snap, Asked[o].symbol, side)
                                     = OfSymbol(positions, Asked[o].symbol, side)
          /\ CanOpen(Asked[o].side, deal[o].notional,
                     Sum(OfSymbol(deal[o].snap, Asked[o].symbol, "BUY")),
                     Sum(OfSymbol(deal[o].snap, Asked[o].symbol, "SELL")))
    /\ lateReaders \subseteq lateReaders' /\ lateReaders' \subseteq lateReaders \cup {o}
    /\ UNCHANGED <<cap, positions, rows, lopsided>>
TakesClient(o, d) ==
    /\ Becomes(o, d) /\ deal[o].pc = "clientAsked" /\ d.pc = "client" /\ d.notional = deal[o].notional
    /\ advisory[Asked[o].user] = NoDeal /\ advisory' = [advisory EXCEPT ![Asked[o].user] = o]
    /\ ClientMayOpen(o, deal[o].snap, deal[o].notional)
    /\ UNCHANGED <<cap, positions, rows, lateReaders, lopsided>>
GivesUp(o, d) ==
    /\ Becomes(o, d) /\ deal[o].pc \in InTransaction \cup {"begun"} /\ d.pc = "rejected" /\ Unlock(o)
    /\ lateReaders \subseteq lateReaders' /\ lateReaders' \subseteq lateReaders \cup {o}
    /\ UNCHANGED <<cap, positions, lopsided>>
Fills(o, d) ==
    /\ Becomes(o, d) /\ deal[o].pc = "client" /\ d.pc = "filled" /\ Unlock(o)
    /\ positions' = positions \cup {[order |-> o, notional |-> deal[o].notional]}
    /\ lopsided' = (lopsided \/ Concentrated(OfClient(positions', Asked[o].user)))
    /\ UNCHANGED <<cap, lateReaders>>
Settles(o) ==
    /\ \E p \in positions : p.order = o /\ positions' = positions \ {p}
    /\ rows[Asked[o].user] = NoDeal
    /\ UNCHANGED <<cap, deal, rows, advisory, lateReaders, lopsided>>
DropsAll(gone) ==
    /\ gone \subseteq Orders /\ deal' \in [Orders -> Deal]
    /\ \A o \in Orders : IF o \in gone THEN deal'[o].pc = "rejected" ELSE deal'[o] = deal[o]
    /\ rows' = [u \in Clients |-> IF rows[u] \in gone THEN NoDeal ELSE rows[u]]
    /\ advisory' = [k \in Symbols \cup Clients |-> IF advisory[k] \in gone THEN NoDeal ELSE advisory[k]]
    /\ UNCHANGED <<cap, positions, lateReaders, lopsided>>
Rests == UNCHANGED <<cap, positions, deal, rows, advisory, lateReaders, lopsided>>

LEMMA NewDeal ==
    ASSUME NEW c \in DealPhases
    PROVE  /\ [NewOrder EXCEPT !.pc = c] \in Deal /\ [NewOrder EXCEPT !.pc = c].pc = c
           /\ \A w \in Servants, n \in Nat :
                  /\ [NewOrder EXCEPT !.pc = c, !.on = w, !.notional = n] \in Deal
                  /\ [NewOrder EXCEPT !.pc = c, !.on = w, !.notional = n].pc = c
  BY DEF NewOrder, Deal

LEMMA DealMoved ==
    ASSUME NEW d \in Deal, NEW c \in DealPhases
    PROVE  /\ [d EXCEPT !.pc = c] \in Deal /\ [d EXCEPT !.pc = c].pc = c
           /\ [d EXCEPT !.pc = c].notional = d.notional
  BY DEF Deal

LEMMA DealPriced ==
    ASSUME NEW d \in Deal, NEW c \in DealPhases, NEW n \in Nat
    PROVE  /\ [d EXCEPT !.pc = c, !.notional = n] \in Deal
           /\ [d EXCEPT !.pc = c, !.notional = n].pc = c
  BY DEF Deal

\* What a step is.
ExposureKinds ==
    \/ \E o \in Orders, d \in Deal :
          \/ KeepsOut(o, d) \/ Begins(o, d) \/ Asks(o, d) \/ TakesSymbol(o, d) \/ TakesClient(o, d)
          \/ GivesUp(o, d) \/ Fills(o, d)
    \/ \E o \in Orders : Settles(o)
    \/ \E gone \in SUBSET Orders : DropsAll(gone)
    \/ Rests

LEMMA ExposureKindsAre == ExposureTypeOK /\ [ExposureNext]_exposureVars => ExposureKinds
<1> SUFFICES ASSUME ExposureTypeOK, [ExposureNext]_exposureVars PROVE ExposureKinds
  OBVIOUS
<1>1. CASE UNCHANGED exposureVars
  BY <1>1 DEF exposureVars, ExposureKinds, Rests
<1>2. ASSUME NEW o \in Orders, OrderStep(o), UNCHANGED cap PROVE ExposureKinds
  <2>1. deal[o] \in Deal /\ deal[o].pc \in DealPhases /\ deal[o].notional \in Nat
    BY DEF ExposureTypeOK, Deal
  <2>2. "rejected" \in DealPhases /\ "queued" \in DealPhases /\ "begun" \in DealPhases
        /\ "filled" \in DealPhases /\ \A c \in InTransaction : c \in DealPhases
    BY DEF DealPhases, InTransaction
  <2> DEFINE no == [NewOrder EXCEPT !.pc = "rejected"]
  <2>3. no \in Deal /\ no.pc = "rejected"
    BY <2>2, NewDeal
  <2>4. ASSUME NEW cost \in Prices, NEW w \in Servants, NEW known \in BOOLEAN,
               PreTradeCheck(o, w, cost, known)
        PROVE  ExposureKinds
    <3> DEFINE yes == [NewOrder EXCEPT !.pc = "queued", !.on = w, !.notional = cost]
    <3>1. yes \in Deal /\ yes.pc = "queued"
      BY <2>2, NewDeal, ExposureAssumption
    <3>2. deal[o].pc = "new" /\ UNCHANGED <<cap, positions, rows, advisory, lateReaders, lopsided>>
      BY <1>2, <2>4 DEF PreTradeCheck
    <3>3. deal' = [deal EXCEPT ![o] = yes] \/ deal' = [deal EXCEPT ![o] = no]
      BY <2>4 DEF PreTradeCheck, Refused
    <3>4. KeepsOut(o, yes) \/ KeepsOut(o, no)
      <4> HIDE DEF yes, no
      <4> QED
        BY <2>3, <3>1, <3>2, <3>3 DEF KeepsOut, Becomes
    <3> HIDE DEF yes, no
    <3> QED
      BY <2>3, <3>1, <3>4 DEF ExposureKinds
  <2>5. ASSUME NEW cost \in Prices, NEW w \in Servants, Settle(o, w, cost) PROVE ExposureKinds
    <3>1. Settles(o)
      BY <1>2, <2>5 DEF Settle, Settles, RowFree
    <3> QED
      BY <3>1 DEF ExposureKinds
  <2>6. ASSUME NEW cost \in Prices, Execute(o, cost) PROVE ExposureKinds
    <3> DEFINE yes == [deal[o] EXCEPT !.pc = "begun", !.notional = cost]
    <3>1. yes \in Deal /\ yes.pc = "begun"
      BY <2>1, <2>2, DealPriced, ExposureAssumption
    <3>2. deal[o].pc = "queued" /\ UNCHANGED <<cap, positions, rows, advisory, lateReaders, lopsided>>
      BY <1>2, <2>6 DEF Execute
    <3>3. deal' = [deal EXCEPT ![o] = yes] \/ deal' = [deal EXCEPT ![o] = no]
      BY <2>6 DEF Execute, Refused
    <3>4. KeepsOut(o, yes) \/ KeepsOut(o, no)
      <4> HIDE DEF yes, no
      <4> QED
        BY <2>3, <3>1, <3>2, <3>3 DEF KeepsOut, Becomes
    <3> HIDE DEF yes, no
    <3> QED
      BY <2>3, <3>1, <3>4 DEF ExposureKinds
  <2>7. CASE LockMargin(o)
    <3> DEFINE d == [deal[o] EXCEPT !.pc = "margin"]
    <3>1. d \in Deal /\ d.pc = "margin"
      BY <2>1, <2>2, DealMoved DEF InTransaction
    <3>2. deal[o].pc = "begun" /\ deal' = [deal EXCEPT ![o] = d]
          /\ rows[Asked[o].user] = NoDeal /\ rows' = [rows EXCEPT ![Asked[o].user] = o]
          /\ UNCHANGED <<cap, positions, advisory, lateReaders, lopsided>>
      BY <1>2, <2>7 DEF LockMargin, RowFree
    <3> HIDE DEF d
    <3>3. Begins(o, d)
      BY <3>1, <3>2 DEF Begins, Becomes
    <3> QED
      BY <3>1, <3>3 DEF ExposureKinds
  <2>8. ASSUME NEW from, NEW to \in InTransaction, Ask(o, from, to),
               \/ from = "margin" /\ to = "symbolAsked"
               \/ from = "symbol" /\ to = "clientAsked"
        PROVE  ExposureKinds
    <3> DEFINE d == [deal[o] EXCEPT !.pc = to, !.snap = positions]
    <3>1. d \in Deal /\ d.pc = to /\ d.snap = positions /\ d.notional = deal[o].notional
      <4>1. PICK old \in Deal, c \in DealPhases, now \in SUBSET Position :
                 old = deal[o] /\ c = to /\ now = positions
        BY <2>1, <2>2 DEF ExposureTypeOK
      <4> QED
        BY <4>1 DEF Deal
    <3>2. deal[o].pc = from /\ deal' = [deal EXCEPT ![o] = d]
          /\ UNCHANGED <<cap, positions, rows, advisory, lateReaders, lopsided>>
      BY <1>2, <2>8 DEF Ask
    <3> HIDE DEF d
    <3>3. Asks(o, d)
      BY <2>8, <3>1, <3>2 DEF Asks, Becomes
    <3> QED
      BY <3>1, <3>3 DEF ExposureKinds
  <2>9. CASE CountSymbol(o)
    <3> DEFINE s == Asked[o].symbol
               d == [deal[o] EXCEPT !.pc = "symbol", !.snap = {}]
               same == \A side \in Sides : OfSymbol(deal[o].snap, s, side) = OfSymbol(positions, s, side)
               passes == CanOpen(Asked[o].side, deal[o].notional, Sum(OfSymbol(deal[o].snap, s, "BUY")),
                                 Sum(OfSymbol(deal[o].snap, s, "SELL")))
    <3>1. d \in Deal /\ d.pc = "symbol" /\ d.notional = deal[o].notional
      <4>1. PICK old \in Deal, c \in DealPhases, now \in SUBSET Position :
                 old = deal[o] /\ c = "symbol" /\ now = {}
        BY <2>1, <2>2 DEF InTransaction
      <4> QED
        BY <4>1 DEF Deal
    <3>2. /\ deal[o].pc = "symbolAsked" /\ advisory[s] = NoDeal
          /\ \/ /\ passes /\ advisory' = [advisory EXCEPT ![s] = o] /\ deal' = [deal EXCEPT ![o] = d]
                /\ UNCHANGED rows
             \/ deal' = [deal EXCEPT ![o] = no] /\ Unlock(o)
          /\ UNCHANGED <<cap, positions, lopsided>>
      BY <1>2, <2>9 DEF CountSymbol, Counts, Refused
    <3>3. \/ lateReaders' = lateReaders \cup {o}
          \/ lateReaders' = lateReaders /\ same
      BY <2>9 DEF CountSymbol
    <3>4. lateReaders \subseteq lateReaders' /\ lateReaders' \subseteq lateReaders \cup {o}
          /\ (o \in lateReaders' \/ same)
      <4> HIDE DEF same
      <4> QED
        BY <3>3
    <3>5. CASE passes /\ advisory' = [advisory EXCEPT ![s] = o] /\ deal' = [deal EXCEPT ![o] = d]
               /\ UNCHANGED rows
      <4>1. TakesSymbol(o, d)
        <5> HIDE DEF d
        <5> QED
          BY <3>1, <3>2, <3>4, <3>5 DEF TakesSymbol, Becomes
      <4> HIDE DEF d
      <4> QED
        BY <3>1, <4>1 DEF ExposureKinds
    <3>6. CASE deal' = [deal EXCEPT ![o] = no] /\ Unlock(o)
      <4>1. GivesUp(o, no)
        <5> HIDE DEF no
        <5> QED
          BY <2>3, <3>2, <3>4, <3>6 DEF GivesUp, Becomes, InTransaction
      <4> HIDE DEF no
      <4> QED
        BY <2>3, <4>1 DEF ExposureKinds
    <3> HIDE DEF d, passes, no, s
    <3> QED
      BY <3>2, <3>5, <3>6
  <2>10. CASE CountClient(o)
    <3> DEFINE d == [deal[o] EXCEPT !.pc = "client", !.snap = {}]
               passes == ClientMayOpen(o, deal[o].snap, deal[o].notional)
    <3>1. d \in Deal /\ d.pc = "client" /\ d.notional = deal[o].notional
      <4>1. PICK old \in Deal, c \in DealPhases, now \in SUBSET Position :
                 old = deal[o] /\ c = "client" /\ now = {}
        BY <2>1, <2>2 DEF InTransaction
      <4> QED
        BY <4>1 DEF Deal
    <3>2. /\ deal[o].pc = "clientAsked" /\ advisory[Asked[o].user] = NoDeal
          /\ \/ /\ passes /\ advisory' = [advisory EXCEPT ![Asked[o].user] = o]
                /\ deal' = [deal EXCEPT ![o] = d] /\ UNCHANGED rows
             \/ deal' = [deal EXCEPT ![o] = no] /\ Unlock(o)
          /\ UNCHANGED <<cap, positions, lopsided, lateReaders>>
      BY <1>2, <2>10 DEF CountClient, Counts, Refused
    <3>5. CASE passes /\ advisory' = [advisory EXCEPT ![Asked[o].user] = o]
               /\ deal' = [deal EXCEPT ![o] = d] /\ UNCHANGED rows
      <4>1. TakesClient(o, d)
        <5> HIDE DEF d
        <5> QED
          BY <3>1, <3>2, <3>5 DEF TakesClient, Becomes
      <4> HIDE DEF d
      <4> QED
        BY <3>1, <4>1 DEF ExposureKinds
    <3>6. CASE deal' = [deal EXCEPT ![o] = no] /\ Unlock(o)
      <4>1. GivesUp(o, no)
        <5> HIDE DEF no
        <5> QED
          BY <2>3, <3>2, <3>6 DEF GivesUp, Becomes, InTransaction
      <4> HIDE DEF no
      <4> QED
        BY <2>3, <4>1 DEF ExposureKinds
    <3> HIDE DEF d, passes, no
    <3> QED
      BY <3>2, <3>5, <3>6
  <2>11. CASE FillOrder(o)
    <3> DEFINE d == [NewOrder EXCEPT !.pc = "filled"]
    <3>1. d \in Deal /\ d.pc = "filled"
      BY <2>2, NewDeal
    <3>2. /\ deal[o].pc = "client" /\ deal' = [deal EXCEPT ![o] = d] /\ Unlock(o)
          /\ positions' = positions \cup {[order |-> o, notional |-> deal[o].notional]}
          /\ lopsided' = (lopsided \/ Concentrated(OfClient(positions', Asked[o].user)))
          /\ UNCHANGED <<cap, lateReaders>>
      BY <1>2, <2>11 DEF FillOrder
    <3> HIDE DEF d
    <3>3. Fills(o, d)
      BY <3>1, <3>2 DEF Fills, Becomes
    <3> QED
      BY <3>1, <3>3 DEF ExposureKinds
  <2>12. CASE RollBack(o)
    <3>1. GivesUp(o, no)
      <4>1. /\ deal[o].pc \in InTransaction \cup {"begun"} /\ deal' = [deal EXCEPT ![o] = no] /\ Unlock(o)
            /\ UNCHANGED <<cap, positions, lopsided, lateReaders>>
        BY <1>2, <2>12 DEF RollBack, Refused
      <4> HIDE DEF no
      <4> QED
        BY <2>3, <4>1 DEF GivesUp, Becomes
    <3> HIDE DEF no
    <3> QED
      BY <2>3, <3>1 DEF ExposureKinds
  <2>13. AskSymbol(o) => ExposureKinds
    <3>1. PICK c, d \in InTransaction : c = "margin" /\ d = "symbolAsked"
      BY DEF InTransaction
    <3>2. AskSymbol(o) => Ask(o, c, d)
      BY <3>1 DEF AskSymbol
    <3> QED
      BY <2>8, <3>1, <3>2
  <2>14. AskClient(o) => ExposureKinds
    BY <2>8 DEF AskClient, InTransaction
  <2> QED
    BY <1>2, <2>4, <2>5, <2>6, <2>7, <2>9, <2>10, <2>11, <2>12, <2>13, <2>14 DEF OrderStep
<1>3. ASSUME NEW w \in Servants, NEW loaded \in BOOLEAN, WorkerRestarts(w, loaded), UNCHANGED cap
      PROVE  ExposureKinds
  <2> DEFINE gone == {o \in Orders : deal[o].on = w}
             no == [NewOrder EXCEPT !.pc = "rejected"]
  <2>1. no \in Deal /\ no.pc = "rejected"
    BY NewDeal DEF DealPhases
  <2>2. deal' = [o \in Orders |-> IF o \in gone THEN no ELSE deal[o]]
    BY <1>3 DEF WorkerRestarts
  <2>3. /\ rows' = [u \in Clients |-> IF rows[u] \in gone THEN NoDeal ELSE rows[u]]
        /\ advisory' = [k \in Symbols \cup Clients |-> IF advisory[k] \in gone THEN NoDeal ELSE advisory[k]]
        /\ UNCHANGED <<cap, positions, lateReaders, lopsided>>
    BY <1>3 DEF WorkerRestarts
  <2>4. gone \in SUBSET Orders
    OBVIOUS
  <2>5. \A o \in Orders : deal[o] \in Deal
    BY DEF ExposureTypeOK
  <2> HIDE DEF gone, no
  <2>6. DropsAll(gone)
    <3>1. deal' \in [Orders -> Deal]
      BY <2>1, <2>2, <2>5
    <3>2. \A o \in Orders : IF o \in gone THEN deal'[o].pc = "rejected" ELSE deal'[o] = deal[o]
      BY <2>1, <2>2
    <3> QED
      BY <2>3, <2>4, <3>1, <3>2 DEF DropsAll
  <2> QED
    BY <2>4, <2>6 DEF ExposureKinds
<1>4. ASSUME NEW w \in Servants, LookUp(w) \/ LookUpAnswered(w), UNCHANGED cap PROVE ExposureKinds
  BY <1>4 DEF LookUp, LookUpAnswered, ExposureKinds, Rests
<1>5. ASSUME RevokeApproval \/ MinutePasses, UNCHANGED cap PROVE ExposureKinds
  BY <1>5 DEF RevokeApproval, MinutePasses, ExposureKinds, Rests
<1> QED
  BY <1>1, <1>2, <1>3, <1>4, <1>5 DEF ExposureNext

RowsHeld == \A o \in Orders : deal[o].pc \in InTransaction => rows[Asked[o].user] = o
SymbolHeld == \A o \in Orders : deal[o].pc \in HoldsSymbol => advisory[Asked[o].symbol] = o
FilledOnce == \A p \in positions : deal[p.order].pc \in {"filled", "rejected"}

LocksInv == ExposureTypeOK /\ RowsHeld /\ SymbolHeld /\ FilledOnce

\* What a step makes of the orders.
LEMMA DealsAfter ==
    ASSUME ExposureTypeOK, NEW o \in Orders, NEW d \in Deal, Becomes(o, d)
    PROVE  /\ deal' \in [Orders -> Deal] /\ deal'[o] = d
           /\ \A q \in Orders : q # o => deal'[q] = deal[q]
  BY DEF Becomes, ExposureTypeOK

LEMMA AskedTyped ==
    ASSUME NEW o \in Orders
    PROVE  /\ Asked[o].user \in Clients /\ Asked[o].symbol \in Symbols
           /\ Asked[o].symbol \in Symbols \cup Clients /\ Asked[o].user \in Symbols \cup Clients
           /\ o # NoDeal
  BY ExposureAssumption DEF Clients, Symbols

\* A lock of somebody else survives an order that ends.
LEMMA OthersKeep ==
    ASSUME ExposureTypeOK, NEW o \in Orders, Unlock(o)
    PROVE  /\ rows' \in [Clients -> Orders \cup {NoDeal}]
           /\ advisory' \in [Symbols \cup Clients -> Orders \cup {NoDeal}]
           /\ \A u \in Clients, q \in Orders : q # o /\ rows[u] = q => rows'[u] = q
           /\ \A k \in Symbols \cup Clients, q \in Orders : q # o /\ advisory[k] = q => advisory'[k] = q
  BY DEF Unlock, ExposureTypeOK

LEMMA LocksInitially == ExposureInit => LocksInv
<1> SUFFICES ASSUME ExposureInit PROVE LocksInv
  OBVIOUS
<1>1. NewOrder \in Deal /\ NewOrder.pc = "new"
  BY DEF NewOrder, Deal, DealPhases
<1>2. deal = [o \in Orders |-> NewOrder]
  BY DEF ExposureInit
<1>3. deal \in [Orders -> Deal] /\ \A o \in Orders : deal[o].pc = "new"
  BY <1>1, <1>2
<1>4. cap \in Nat
  BY ExposureAssumption DEF ExposureInit
<1>5. IsFiniteSet(positions) /\ positions = {} /\ lateReaders = {}
  BY FS_EmptySet DEF ExposureInit
<1>6. /\ rows \in [Clients -> Orders \cup {NoDeal}]
      /\ advisory \in [Symbols \cup Clients -> Orders \cup {NoDeal}]
  BY DEF ExposureInit
<1>7. ExposureTypeOK
  BY <1>3, <1>4, <1>5, <1>6 DEF ExposureTypeOK
<1> QED
  BY <1>3, <1>5, <1>7 DEF LocksInv, RowsHeld, SymbolHeld, FilledOnce, InTransaction, HoldsSymbol

LEMMA LocksStep == LocksInv /\ [ExposureNext]_exposureVars => LocksInv'
<1> SUFFICES ASSUME LocksInv, [ExposureNext]_exposureVars PROVE LocksInv'
  OBVIOUS
<1>t. ExposureTypeOK
  BY DEF LocksInv
<1>k. ExposureKinds
  BY <1>t, ExposureKindsAre
<1>1. ASSUME NEW o \in Orders, NEW d \in Deal, KeepsOut(o, d) PROVE LocksInv'
  <2>1. Becomes(o, d) /\ deal[o].pc \notin {"filled", "rejected"}
        /\ d.pc \notin InTransaction /\ d.pc \notin HoldsSymbol
        /\ UNCHANGED <<cap, positions, rows, advisory, lateReaders, lopsided>>
    BY <1>1 DEF KeepsOut, InTransaction, HoldsSymbol
  <2>2. deal' \in [Orders -> Deal] /\ deal'[o] = d /\ \A q \in Orders : q # o => deal'[q] = deal[q]
    BY <1>t, <2>1, DealsAfter
  <2>3. ExposureTypeOK'
    BY <1>t, <2>1, <2>2 DEF ExposureTypeOK
  <2>4. RowsHeld' /\ SymbolHeld'
    BY <2>1, <2>2 DEF LocksInv, RowsHeld, SymbolHeld
  <2>5. \A p \in positions : p.order \in Orders /\ p.order # o
    BY <1>t, <2>1 DEF ExposureTypeOK, Position, LocksInv, FilledOnce
  <2>6. FilledOnce'
    BY <2>1, <2>2, <2>5 DEF LocksInv, FilledOnce
  <2> QED
    BY <2>3, <2>4, <2>6 DEF LocksInv
<1>2. ASSUME NEW o \in Orders, NEW d \in Deal, Begins(o, d) PROVE LocksInv'
  <2> DEFINE u == Asked[o].user
  <2>1. Becomes(o, d) /\ deal[o].pc \notin {"filled", "rejected"} /\ d.pc \notin HoldsSymbol
        /\ rows[u] = NoDeal /\ rows' = [rows EXCEPT ![u] = o]
        /\ UNCHANGED <<cap, positions, advisory, lateReaders, lopsided>>
    BY <1>2 DEF Begins, InTransaction, HoldsSymbol
  <2>2. deal' \in [Orders -> Deal] /\ deal'[o] = d /\ \A q \in Orders : q # o => deal'[q] = deal[q]
    BY <1>t, <2>1, DealsAfter
  <2>3. /\ rows' \in [Clients -> Orders \cup {NoDeal}] /\ rows'[u] = o
        /\ \A v \in Clients : v # u => rows'[v] = rows[v]
    BY <1>t, <2>1, AskedTyped DEF ExposureTypeOK
  <2>4. ExposureTypeOK'
    BY <1>t, <2>1, <2>2, <2>3 DEF ExposureTypeOK
  <2>5. RowsHeld'
    <3>1. ASSUME NEW q \in Orders, q # o, deal[q].pc \in InTransaction PROVE rows'[Asked[q].user] = q
      <4>1. rows[Asked[q].user] = q /\ q # NoDeal /\ Asked[q].user \in Clients
        BY <3>1, AskedTyped DEF LocksInv, RowsHeld
      <4> QED
        BY <2>1, <2>3, <4>1
    <3> QED
      BY <2>2, <2>3, <3>1 DEF RowsHeld
  <2>6. SymbolHeld'
    BY <2>1, <2>2 DEF LocksInv, SymbolHeld
  <2>7. \A p \in positions : p.order \in Orders /\ p.order # o
    BY <1>t, <2>1 DEF ExposureTypeOK, Position, LocksInv, FilledOnce
  <2>8. FilledOnce'
    BY <2>1, <2>2, <2>7 DEF LocksInv, FilledOnce
  <2> QED
    BY <2>4, <2>5, <2>6, <2>8 DEF LocksInv
<1>3. ASSUME NEW o \in Orders, NEW d \in Deal, Asks(o, d) PROVE LocksInv'
  <2>1. Becomes(o, d) /\ deal[o].pc \notin {"filled", "rejected"}
        /\ deal[o].pc \in InTransaction /\ (d.pc \in HoldsSymbol => deal[o].pc \in HoldsSymbol)
        /\ UNCHANGED <<cap, positions, rows, advisory, lateReaders, lopsided>>
    BY <1>3 DEF Asks, InTransaction, HoldsSymbol
  <2>2. deal' \in [Orders -> Deal] /\ deal'[o] = d /\ \A q \in Orders : q # o => deal'[q] = deal[q]
    BY <1>t, <2>1, DealsAfter
  <2>3. ExposureTypeOK'
    BY <1>t, <2>1, <2>2 DEF ExposureTypeOK
  <2>4. RowsHeld' /\ SymbolHeld'
    BY <2>1, <2>2 DEF LocksInv, RowsHeld, SymbolHeld
  <2>5. \A p \in positions : p.order \in Orders /\ p.order # o
    BY <1>t, <2>1 DEF ExposureTypeOK, Position, LocksInv, FilledOnce
  <2>6. FilledOnce'
    BY <2>1, <2>2, <2>5 DEF LocksInv, FilledOnce
  <2> QED
    BY <2>3, <2>4, <2>6 DEF LocksInv
<1>4. ASSUME NEW o \in Orders, NEW d \in Deal, NEW k \in Symbols \cup Clients,
             /\ Becomes(o, d) /\ deal[o].pc \notin {"filled", "rejected"}
             /\ deal[o].pc \in InTransaction
             /\ (deal[o].pc \in HoldsSymbol \/ k = Asked[o].symbol)
             /\ advisory[k] = NoDeal /\ advisory' = [advisory EXCEPT ![k] = o]
             /\ lateReaders' \subseteq lateReaders \cup {o}
             /\ UNCHANGED <<cap, positions, rows, lopsided>>
      PROVE  LocksInv'
  <2>2. deal' \in [Orders -> Deal] /\ deal'[o] = d /\ \A q \in Orders : q # o => deal'[q] = deal[q]
    BY <1>t, <1>4, DealsAfter
  <2>3. /\ advisory' \in [Symbols \cup Clients -> Orders \cup {NoDeal}] /\ advisory'[k] = o
        /\ \A j \in Symbols \cup Clients : j # k => advisory'[j] = advisory[j]
    BY <1>t, <1>4 DEF ExposureTypeOK
  <2>4. ExposureTypeOK'
    BY <1>t, <1>4, <2>2, <2>3 DEF ExposureTypeOK
  <2>5. RowsHeld'
    BY <1>4, <2>2 DEF LocksInv, RowsHeld
  <2>6. SymbolHeld'
    <3>1. ASSUME NEW q \in Orders, deal[q].pc \in HoldsSymbol PROVE advisory'[Asked[q].symbol] = q
      <4>1. advisory[Asked[q].symbol] = q /\ q # NoDeal /\ Asked[q].symbol \in Symbols \cup Clients
        BY <3>1, AskedTyped DEF LocksInv, SymbolHeld
      <4> QED
        BY <1>4, <2>3, <4>1
    <3>2. deal[o].pc \notin HoldsSymbol => advisory'[Asked[o].symbol] = o
      BY <1>4, <2>3
    <3> QED
      BY <2>2, <3>1, <3>2 DEF SymbolHeld
  <2>7. \A p \in positions : p.order \in Orders /\ p.order # o
    BY <1>t, <1>4 DEF ExposureTypeOK, Position, LocksInv, FilledOnce
  <2>8. FilledOnce'
    BY <1>4, <2>2, <2>7 DEF LocksInv, FilledOnce
  <2> QED
    BY <2>4, <2>5, <2>6, <2>8 DEF LocksInv
<1>5. ASSUME NEW o \in Orders, NEW d \in Deal, TakesSymbol(o, d) PROVE LocksInv'
  <2>1. /\ Becomes(o, d) /\ deal[o].pc \notin {"filled", "rejected"} /\ deal[o].pc \in InTransaction
        /\ advisory[Asked[o].symbol] = NoDeal /\ advisory' = [advisory EXCEPT ![Asked[o].symbol] = o]
        /\ lateReaders' \subseteq lateReaders \cup {o}
        /\ UNCHANGED <<cap, positions, rows, lopsided>>
    BY <1>5 DEF TakesSymbol, InTransaction
  <2> QED
    BY <1>4, <2>1, AskedTyped
<1>6. ASSUME NEW o \in Orders, NEW d \in Deal, TakesClient(o, d) PROVE LocksInv'
  <2>1. /\ Becomes(o, d) /\ deal[o].pc \notin {"filled", "rejected"} /\ deal[o].pc \in InTransaction
        /\ deal[o].pc \in HoldsSymbol
        /\ advisory[Asked[o].user] = NoDeal /\ advisory' = [advisory EXCEPT ![Asked[o].user] = o]
        /\ lateReaders' \subseteq lateReaders \cup {o}
        /\ UNCHANGED <<cap, positions, rows, lopsided>>
    BY <1>6 DEF TakesClient, InTransaction, HoldsSymbol
  <2> QED
    BY <1>4, <2>1, AskedTyped
<1>7. ASSUME NEW o \in Orders, NEW d \in Deal,
             /\ Becomes(o, d) /\ d.pc \in {"rejected", "filled"} /\ Unlock(o)
             /\ positions' \subseteq Position /\ IsFiniteSet(positions')
             /\ \A p \in positions' : p \in positions \/ p.order = o
             /\ lateReaders' \subseteq lateReaders \cup {o}
             /\ UNCHANGED cap
      PROVE  LocksInv'
  <2>1. d.pc \notin InTransaction /\ d.pc \notin HoldsSymbol
    BY <1>7 DEF InTransaction, HoldsSymbol
  <2>2. deal' \in [Orders -> Deal] /\ deal'[o] = d /\ \A q \in Orders : q # o => deal'[q] = deal[q]
    BY <1>t, <1>7, DealsAfter
  <2>3. /\ rows' \in [Clients -> Orders \cup {NoDeal}]
        /\ advisory' \in [Symbols \cup Clients -> Orders \cup {NoDeal}]
        /\ \A u \in Clients, q \in Orders : q # o /\ rows[u] = q => rows'[u] = q
        /\ \A k \in Symbols \cup Clients, q \in Orders : q # o /\ advisory[k] = q => advisory'[k] = q
    BY <1>t, <1>7, OthersKeep
  <2>4. ExposureTypeOK'
    BY <1>t, <1>7, <2>2, <2>3 DEF ExposureTypeOK
  <2>5. RowsHeld' /\ SymbolHeld'
    BY <2>1, <2>2, <2>3, AskedTyped DEF LocksInv, RowsHeld, SymbolHeld
  <2>6. \A p \in positions' : p.order \in Orders
    BY <1>7 DEF Position
  <2>7. FilledOnce'
    BY <1>7, <2>2, <2>6 DEF LocksInv, FilledOnce
  <2> QED
    BY <2>4, <2>5, <2>7 DEF LocksInv
<1>8. ASSUME NEW o \in Orders, NEW d \in Deal, GivesUp(o, d) PROVE LocksInv'
  <2>1. /\ Becomes(o, d) /\ d.pc \in {"rejected", "filled"} /\ Unlock(o)
        /\ lateReaders' \subseteq lateReaders \cup {o}
        /\ UNCHANGED <<cap, positions>>
    BY <1>8 DEF GivesUp
  <2>2. positions' \subseteq Position /\ IsFiniteSet(positions')
    BY <1>t, <2>1 DEF ExposureTypeOK
  <2>3. \A p \in positions' : p \in positions \/ p.order = o
    BY <2>1
  <2> QED
    BY <1>7, <2>1, <2>2, <2>3
<1>9. ASSUME NEW o \in Orders, NEW d \in Deal, Fills(o, d) PROVE LocksInv'
  <2> DEFINE p == [order |-> o, notional |-> deal[o].notional]
  <2>1. /\ Becomes(o, d) /\ d.pc \in {"rejected", "filled"} /\ Unlock(o)
        /\ positions' = positions \cup {p} /\ UNCHANGED <<cap, lateReaders>>
    BY <1>9 DEF Fills
  <2>2. deal[o].notional \in Nat
    BY <1>t DEF ExposureTypeOK, Deal
  <2>3. p \in Position /\ p.order = o
    BY <2>2 DEF Position
  <2> HIDE DEF p
  <2>4. positions' \subseteq Position /\ IsFiniteSet(positions')
    BY <1>t, <2>1, <2>3, FS_AddElement DEF ExposureTypeOK
  <2>5. \A x \in positions' : x \in positions \/ x.order = o
    BY <2>1, <2>3
  <2>6. lateReaders' \subseteq lateReaders \cup {o}
    BY <2>1
  <2> QED
    BY <1>7, <2>1, <2>4, <2>5, <2>6
<1>10. ASSUME NEW o \in Orders, Settles(o) PROVE LocksInv'
  <2>1. PICK p \in positions : positions' = positions \ {p}
    BY <1>10 DEF Settles
  <2>2. UNCHANGED <<cap, deal, rows, advisory, lateReaders>>
    BY <1>10 DEF Settles
  <2>3. positions' \subseteq Position /\ IsFiniteSet(positions')
    BY <1>t, <2>1, FS_RemoveElement DEF ExposureTypeOK
  <2>4. ExposureTypeOK'
    BY <1>t, <2>2, <2>3 DEF ExposureTypeOK
  <2> QED
    BY <2>1, <2>2, <2>4 DEF LocksInv, RowsHeld, SymbolHeld, FilledOnce
<1>11. ASSUME NEW gone \in SUBSET Orders, DropsAll(gone) PROVE LocksInv'
  <2>1. /\ deal' \in [Orders -> Deal]
        /\ \A o \in Orders : IF o \in gone THEN deal'[o].pc = "rejected" ELSE deal'[o] = deal[o]
        /\ rows' = [u \in Clients |-> IF rows[u] \in gone THEN NoDeal ELSE rows[u]]
        /\ advisory' = [k \in Symbols \cup Clients |-> IF advisory[k] \in gone THEN NoDeal ELSE advisory[k]]
        /\ UNCHANGED <<cap, positions, lateReaders>>
    BY <1>11 DEF DropsAll
  <2>2. /\ rows' \in [Clients -> Orders \cup {NoDeal}]
        /\ advisory' \in [Symbols \cup Clients -> Orders \cup {NoDeal}]
        /\ \A u \in Clients, q \in Orders : q \notin gone /\ rows[u] = q => rows'[u] = q
        /\ \A k \in Symbols \cup Clients, q \in Orders :
               q \notin gone /\ advisory[k] = q => advisory'[k] = q
    BY <1>t, <2>1 DEF ExposureTypeOK
  <2>3. ExposureTypeOK'
    BY <1>t, <2>1, <2>2 DEF ExposureTypeOK
  <2>4. "rejected" \notin InTransaction /\ "rejected" \notin HoldsSymbol
    BY DEF InTransaction, HoldsSymbol
  <2>5. RowsHeld' /\ SymbolHeld'
    BY <2>1, <2>2, <2>4, AskedTyped DEF LocksInv, RowsHeld, SymbolHeld
  <2>6. \A p \in positions : p.order \in Orders
    BY <1>t DEF ExposureTypeOK, Position
  <2>7. FilledOnce'
    BY <2>1, <2>6 DEF LocksInv, FilledOnce
  <2> QED
    BY <2>3, <2>5, <2>7 DEF LocksInv
<1>12. CASE Rests
  BY <1>12 DEF Rests, LocksInv, ExposureTypeOK, RowsHeld, SymbolHeld, FilledOnce
<1> QED
  BY <1>k, <1>1, <1>2, <1>3, <1>5, <1>6, <1>8, <1>9, <1>10, <1>11, <1>12 DEF ExposureKinds

\* What the client's order has counted still is what its client has open.
SnapCurrent ==
    \A o \in Orders : deal[o].pc = "clientAsked" =>
        OfClient(deal[o].snap, Asked[o].user) = OfClient(positions, Asked[o].user)
MayStillOpen ==
    \A o \in Orders : deal[o].pc = "client" => ClientMayOpen(o, positions, deal[o].notional)
ClientInv == SnapCurrent /\ MayStillOpen /\ ClientsWithinCaps

LEMMA SameForClient ==
    ASSUME NEW o, NEW ps, NEW others, NEW n,
           OfClient(ps, Asked[o].user) = OfClient(others, Asked[o].user)
    PROVE  ClientMayOpen(o, ps, n) <=> ClientMayOpen(o, others, n)
  BY DEF ClientMayOpen

\* Two orders of one client are not in a transaction at the same time.
LEMMA OneOrderAtATime ==
    ASSUME LocksInv, NEW o \in Orders, NEW q \in Orders, deal[q].pc \in InTransaction,
           \/ rows[Asked[o].user] = NoDeal
           \/ deal[o].pc \in InTransaction /\ q # o
    PROVE  Asked[q].user # Asked[o].user
  BY AskedTyped DEF LocksInv, RowsHeld

LEMMA ClientInitially == ExposureInit => ClientInv
<1> SUFFICES ASSUME ExposureInit PROVE ClientInv
  OBVIOUS
<1>1. NewOrder.pc = "new"
  BY DEF NewOrder
<1>2. \A o \in Orders : deal[o].pc = "new"
  BY <1>1 DEF ExposureInit
<1>3. cap \in Nat /\ ~lopsided /\ positions = {}
  BY ExposureAssumption DEF ExposureInit
<1>4. \A u \in Clients : OfClient(positions, u) = {}
  BY <1>3 DEF OfClient
<1>5. Cardinality({}) = 0
  BY FS_EmptySet
<1>6. ClientsWithinCaps
  BY <1>3, <1>4, <1>5 DEF ClientsWithinCaps
<1> QED
  BY <1>2, <1>6 DEF ClientInv, SnapCurrent, MayStillOpen

LEMMA ClientStep == LocksInv /\ ClientInv /\ [ExposureNext]_exposureVars => ClientInv'
<1> SUFFICES ASSUME LocksInv, ClientInv, [ExposureNext]_exposureVars PROVE ClientInv'
  OBVIOUS
<1>t. ExposureTypeOK
  BY DEF LocksInv
<1>k. ExposureKinds
  BY <1>t, ExposureKindsAre
<1>0. ASSUME UNCHANGED <<cap, positions, lopsided>>,
             \A q \in Orders : deal'[q].pc = "clientAsked" =>
                 OfClient(deal'[q].snap, Asked[q].user) = OfClient(positions, Asked[q].user),
             \A q \in Orders : deal'[q].pc = "client" => ClientMayOpen(q, positions, deal'[q].notional)
      PROVE  ClientInv'
  <2>1. SnapCurrent'
    BY <1>0 DEF SnapCurrent
  <2>2. MayStillOpen'
    <3> SUFFICES ASSUME NEW q \in Orders, (deal[q].pc = "client")'
                 PROVE  ClientMayOpen(q, positions, deal[q].notional)'
      BY DEF MayStillOpen
    <3>1. ClientMayOpen(q, positions, deal'[q].notional)
      BY <1>0
    <3> QED
      BY <1>0, <3>1 DEF ClientMayOpen, WithinCap
  <2>3. ClientsWithinCaps'
    BY <1>0 DEF ClientInv, ClientsWithinCaps
  <2> QED
    BY <2>1, <2>2, <2>3 DEF ClientInv
<1>1. ASSUME NEW o \in Orders, NEW d \in Deal, Becomes(o, d), UNCHANGED <<cap, positions, lopsided>>,
             d.pc = "clientAsked" =>
                 OfClient(d.snap, Asked[o].user) = OfClient(positions, Asked[o].user),
             d.pc = "client" => ClientMayOpen(o, positions, d.notional)
      PROVE  ClientInv'
  <2>1. deal'[o] = d /\ \A q \in Orders : q # o => deal'[q] = deal[q]
    BY <1>t, <1>1, DealsAfter
  <2>2. \A q \in Orders : deal'[q].pc = "clientAsked" =>
            OfClient(deal'[q].snap, Asked[q].user) = OfClient(positions, Asked[q].user)
    BY <1>1, <2>1 DEF ClientInv, SnapCurrent
  <2>3. \A q \in Orders : deal'[q].pc = "client" => ClientMayOpen(q, positions, deal'[q].notional)
    BY <1>1, <2>1 DEF ClientInv, MayStillOpen
  <2> QED
    BY <1>0, <1>1, <2>2, <2>3
<1>2. ASSUME NEW o \in Orders, NEW d \in Deal,
             KeepsOut(o, d) \/ Begins(o, d) \/ TakesSymbol(o, d) \/ GivesUp(o, d)
      PROVE  ClientInv'
  <2>1. Becomes(o, d) /\ UNCHANGED <<cap, positions, lopsided>> /\ d.pc # "clientAsked" /\ d.pc # "client"
    BY <1>2 DEF KeepsOut, Begins, TakesSymbol, GivesUp
  <2> QED
    BY <1>1, <2>1
<1>3. ASSUME NEW o \in Orders, NEW d \in Deal, Asks(o, d) PROVE ClientInv'
  <2>1. Becomes(o, d) /\ UNCHANGED <<cap, positions, lopsided>> /\ d.snap = positions /\ d.pc # "client"
    BY <1>3 DEF Asks
  <2> QED
    BY <1>1, <2>1
<1>4. ASSUME NEW o \in Orders, NEW d \in Deal, TakesClient(o, d) PROVE ClientInv'
  <2>1. /\ Becomes(o, d) /\ UNCHANGED <<cap, positions, lopsided>> /\ d.pc = "client"
        /\ deal[o].pc = "clientAsked" /\ d.notional = deal[o].notional
        /\ ClientMayOpen(o, deal[o].snap, deal[o].notional)
    BY <1>4 DEF TakesClient
  <2>2. OfClient(deal[o].snap, Asked[o].user) = OfClient(positions, Asked[o].user)
    BY <2>1 DEF ClientInv, SnapCurrent
  <2>3. ClientMayOpen(o, positions, d.notional)
    BY <2>1, <2>2, SameForClient
  <2> QED
    BY <1>1, <2>1, <2>3
<1>5. ASSUME NEW o \in Orders, NEW open, positions' = open, UNCHANGED cap,
             \A u \in Clients : u # Asked[o].user => OfClient(open, u) = OfClient(positions, u),
             \A q \in Orders : deal'[q].pc \in {"clientAsked", "client"} =>
                 /\ deal'[q] = deal[q] /\ Asked[q].user # Asked[o].user
      PROVE  SnapCurrent' /\ MayStillOpen'
  <2>1. ASSUME NEW q \in Orders, deal'[q].pc \in {"clientAsked", "client"}
        PROVE  deal'[q] = deal[q] /\ OfClient(open, Asked[q].user) = OfClient(positions, Asked[q].user)
    BY <1>5, <2>1, AskedTyped
  <2>2. SnapCurrent'
    BY <1>5, <2>1 DEF ClientInv, SnapCurrent
  <2>3. MayStillOpen'
    <3> SUFFICES ASSUME NEW q \in Orders, (deal[q].pc = "client")'
                 PROVE  ClientMayOpen(q, positions, deal[q].notional)'
      BY DEF MayStillOpen
    <3>1. deal'[q] = deal[q] /\ OfClient(open, Asked[q].user) = OfClient(positions, Asked[q].user)
      BY <2>1
    <3>2. ClientMayOpen(q, positions, deal[q].notional)
      BY <3>1 DEF ClientInv, MayStillOpen
    <3>3. ClientMayOpen(q, open, deal[q].notional)
      BY <3>1, <3>2, SameForClient
    <3> QED
      BY <1>5, <3>1, <3>3 DEF ClientMayOpen, WithinCap
  <2> QED
    BY <2>2, <2>3
<1>6. ASSUME NEW o \in Orders, NEW d \in Deal, Fills(o, d) PROVE ClientInv'
  <2> DEFINE u == Asked[o].user
             mine == OfClient(positions, u)
             p == [order |-> o, notional |-> deal[o].notional]
  <2>1. PICK open : open = positions'
    OBVIOUS
  <2>2. /\ Becomes(o, d) /\ deal[o].pc = "client" /\ d.pc = "filled" /\ open = positions \cup {p}
        /\ lopsided' = (lopsided \/ Concentrated(OfClient(open, u))) /\ UNCHANGED cap
    BY <1>6, <2>1 DEF Fills
  <2>3. deal'[o] = d /\ \A q \in Orders : q # o => deal'[q] = deal[q]
    BY <1>t, <2>2, DealsAfter
  <2>4. p.order = o
    OBVIOUS
  <2>5. OfClient(open, u) = mine \cup {p} /\ \A v \in Clients : v # u => OfClient(open, v) = OfClient(positions, v)
    BY <2>2, <2>4 DEF OfClient
  <2>6. ClientMayOpen(o, positions, deal[o].notional)
    BY <2>2 DEF ClientInv, MayStillOpen
  <2>7. Cardinality(mine) + 1 <= cap /\ ~Concentrated(OfClient(open, u))
    BY <2>5, <2>6 DEF ClientMayOpen, WithinCap
  <2>8. Cardinality(mine \cup {p}) <= cap
    <3>1. IsFiniteSet(mine)
      BY <1>t, FS_Subset DEF ExposureTypeOK, OfClient
    <3>2. PICK c \in Nat, e \in Nat : c = Cardinality(mine) /\ e = Cardinality(mine \cup {p})
      <4> HIDE DEF mine, p
      <4> QED
        BY <3>1, FS_CardinalityType, FS_AddElement
    <3>3. e = c \/ e = c + 1
      <4> HIDE DEF mine, p
      <4> QED
        BY <3>1, <3>2, FS_AddElement
    <3>4. cap \in Nat
      BY <1>t DEF ExposureTypeOK
    <3> HIDE DEF mine, p
    <3> QED
      BY <2>7, <3>2, <3>3, <3>4
  <2>9. ClientsWithinCaps'
    <3> HIDE DEF mine, p
    <3> QED
      BY <2>1, <2>2, <2>5, <2>7, <2>8 DEF ClientInv, ClientsWithinCaps
  <2>10. \A q \in Orders : deal'[q].pc \in {"clientAsked", "client"} =>
             /\ deal'[q] = deal[q] /\ Asked[q].user # Asked[o].user
    BY <2>2, <2>3, OneOrderAtATime DEF InTransaction
  <2>11. SnapCurrent' /\ MayStillOpen'
    <3> HIDE DEF p, mine
    <3> QED
      BY <1>5, <2>1, <2>2, <2>5, <2>10
  <2> QED
    BY <2>9, <2>11 DEF ClientInv
<1>7. ASSUME NEW o \in Orders, Settles(o) PROVE ClientInv'
  <2>0. PICK open : open = positions'
    OBVIOUS
  <2>1. PICK p \in positions : p.order = o /\ open = positions \ {p} /\ positions' = open
    BY <1>7, <2>0 DEF Settles
  <2>2. UNCHANGED <<cap, deal, lopsided>> /\ rows[Asked[o].user] = NoDeal
    BY <1>7 DEF Settles
  <2>3. \A v \in Clients : v # Asked[o].user => OfClient(open, v) = OfClient(positions, v)
    BY <2>1 DEF OfClient
  <2>4. \A q \in Orders : deal'[q].pc \in {"clientAsked", "client"} =>
            /\ deal'[q] = deal[q] /\ Asked[q].user # Asked[o].user
    BY <2>2, OneOrderAtATime DEF InTransaction
  <2>5. SnapCurrent' /\ MayStillOpen'
    BY <1>5, <2>1, <2>2, <2>3, <2>4
  <2>6. ASSUME NEW v \in Clients PROVE Cardinality(OfClient(open, v)) <= cap
    <3>1. IsFiniteSet(OfClient(positions, v)) /\ OfClient(open, v) \subseteq OfClient(positions, v)
      BY <1>t, <2>1, FS_Subset DEF ExposureTypeOK, OfClient
    <3>2. PICK c \in Nat, e \in Nat :
               c = Cardinality(OfClient(positions, v)) /\ e = Cardinality(OfClient(open, v)) /\ e <= c
      BY <3>1, FS_Subset, FS_CardinalityType
    <3>3. c <= cap /\ cap \in Nat
      BY <1>t, <3>2 DEF ClientInv, ClientsWithinCaps, ExposureTypeOK
    <3> QED
      BY <3>2, <3>3
  <2>7. ClientsWithinCaps'
    BY <2>1, <2>2, <2>6 DEF ClientInv, ClientsWithinCaps
  <2> QED
    BY <2>5, <2>7 DEF ClientInv
<1>8. ASSUME NEW gone \in SUBSET Orders, DropsAll(gone) PROVE ClientInv'
  <2>1. /\ \A q \in Orders : deal'[q].pc = "rejected" \/ deal'[q] = deal[q]
        /\ UNCHANGED <<cap, positions, lopsided>>
    BY <1>8 DEF DropsAll
  <2>2. \A q \in Orders : deal'[q].pc = "clientAsked" =>
            OfClient(deal'[q].snap, Asked[q].user) = OfClient(positions, Asked[q].user)
    BY <2>1 DEF ClientInv, SnapCurrent
  <2>3. \A q \in Orders : deal'[q].pc = "client" => ClientMayOpen(q, positions, deal'[q].notional)
    BY <2>1 DEF ClientInv, MayStillOpen
  <2> QED
    BY <1>0, <2>1, <2>2, <2>3
<1>9. CASE Rests
  <2>1. UNCHANGED <<cap, positions, lopsided>> /\ deal' = deal
    BY <1>9 DEF Rests
  <2> QED
    BY <1>0, <2>1 DEF ClientInv, SnapCurrent, MayStillOpen
<1> QED
  BY <1>k, <1>2, <1>3, <1>4, <1>6, <1>7, <1>8, <1>9 DEF ExposureKinds

OpenIn(ps, s) == {p \in ps : Asked[p.order].symbol = s}
LateIn(ps, readers, s) == {p \in ps : p.order \in readers /\ Asked[p.order].symbol = s}

\* An order that read in time still fits under the limit of its instrument.
RoomLeft ==
    \A o \in Orders \ lateReaders : deal[o].pc \in HoldsSymbol =>
        Sum(OpenIn(positions, Asked[o].symbol)) + deal[o].notional <= GrossLimit
LateOverrun ==
    \A s \in Symbols :
        Sum(OpenIn(positions, s)) <= GrossLimit + Sum(LateIn(positions, lateReaders, s))
GrossInv == RoomLeft /\ LateOverrun

LEMMA OpenTyped ==
    ASSUME NEW ps, ps \subseteq Position, IsFiniteSet(ps), NEW T, T \subseteq ps
    PROVE  IsFiniteSet(T) /\ (\A p \in T : p.notional \in Nat) /\ Sum(T) \in Nat
<1>1. IsFiniteSet(T)
  BY FS_Subset
<1>2. \A p \in T : p.notional \in Nat
  BY DEF Position
<1> QED
  BY <1>1, <1>2, SumIsNat

\* Both sides of an instrument are all that is open in it.
LEMMA BothSides ==
    ASSUME NEW ps, ps \subseteq Position, IsFiniteSet(ps), NEW s
    PROVE  /\ Sum(OfSymbol(ps, s, "BUY")) \in Nat /\ Sum(OfSymbol(ps, s, "SELL")) \in Nat
           /\ Sum(OpenIn(ps, s)) = Sum(OfSymbol(ps, s, "BUY")) + Sum(OfSymbol(ps, s, "SELL"))
<1>1. PICK U, a, b : U = OpenIn(ps, s) /\ a = OfSymbol(ps, s, "BUY") /\ b = OfSymbol(ps, s, "SELL")
  OBVIOUS
<1>2. U \subseteq ps /\ a \subseteq ps /\ b \subseteq ps
  BY <1>1 DEF OpenIn, OfSymbol
<1>3. IsFiniteSet(U) /\ (\A p \in U : p.notional \in Nat) /\ Sum(a) \in Nat /\ Sum(b) \in Nat
  BY <1>2, OpenTyped
<1>4. \A p \in ps : Asked[p.order].side \in {"BUY", "SELL"}
  BY ExposureAssumption DEF Position, Sides
<1>5. a \in SUBSET U /\ b \in SUBSET U /\ a \cap b = {} /\ U = a \cup b
  BY <1>1, <1>4 DEF OpenIn, OfSymbol
<1>6. Sum(U) = Sum(a) + Sum(b)
  BY <1>3, <1>5, SumIsBoth
<1> QED
  BY <1>1, <1>3, <1>6

LEMMA GrossInitially == ExposureInit => GrossInv
<1> SUFFICES ASSUME ExposureInit PROVE GrossInv
  OBVIOUS
<1>1. NewOrder.pc = "new"
  BY DEF NewOrder
<1>2. \A o \in Orders : deal[o].pc = "new"
  BY <1>1 DEF ExposureInit
<1>3. positions = {}
  BY DEF ExposureInit
<1>4. IsFiniteSet({}) /\ {} \subseteq Position
  BY FS_EmptySet
<1>5. Sum({}) \in Nat
  BY <1>4, OpenTyped
<1>6. GrossLimit \in Nat
  BY ExposureAssumption
<1>7. ASSUME NEW s PROVE OpenIn(positions, s) = {} /\ LateIn(positions, lateReaders, s) = {}
  BY <1>3 DEF OpenIn, LateIn
<1>8. LateOverrun
  BY <1>5, <1>6, <1>7 DEF LateOverrun
<1> QED
  BY <1>2, <1>8 DEF GrossInv, RoomLeft, HoldsSymbol

LEMMA GrossStep == LocksInv /\ GrossInv /\ [ExposureNext]_exposureVars => GrossInv'
<1> SUFFICES ASSUME LocksInv, GrossInv, [ExposureNext]_exposureVars PROVE GrossInv'
  OBVIOUS
<1>t. ExposureTypeOK
  BY DEF LocksInv
<1>n. positions \subseteq Position /\ IsFiniteSet(positions) /\ GrossLimit \in Nat
      /\ lateReaders \subseteq Orders
  BY <1>t, ExposureAssumption DEF ExposureTypeOK
<1>k. ExposureKinds
  BY <1>t, ExposureKindsAre
<1>0. ASSUME positions' = positions, lateReaders \subseteq lateReaders',
             \A q \in Orders \ lateReaders' : deal'[q].pc \in HoldsSymbol =>
                 Sum(OpenIn(positions, Asked[q].symbol)) + deal'[q].notional <= GrossLimit
      PROVE  GrossInv'
  <2>1. RoomLeft'
    BY <1>0 DEF RoomLeft
  <2>2. ASSUME NEW s \in Symbols
        PROVE  Sum(OpenIn(positions, s)) <= GrossLimit + Sum(LateIn(positions, lateReaders', s))
    <3>1. PICK A, B, C : /\ A = OpenIn(positions, s) /\ B = LateIn(positions, lateReaders, s)
                         /\ C = LateIn(positions, lateReaders', s)
      OBVIOUS
    <3>2. A \subseteq positions /\ C \subseteq positions /\ B \subseteq C
      BY <1>0, <3>1 DEF OpenIn, LateIn
    <3>3. IsFiniteSet(C) /\ (\A p \in C : p.notional \in Nat) /\ B \in SUBSET C /\ B \subseteq positions
      BY <1>n, <3>2, OpenTyped
    <3>4. Sum(B) <= Sum(C)
      BY <3>3, SumIsMore
    <3>5. PICK a \in Nat, b \in Nat, c \in Nat : a = Sum(A) /\ b = Sum(B) /\ c = Sum(C)
      BY <1>n, <3>2, <3>3, OpenTyped
    <3>6. a <= GrossLimit + b
      BY <3>1, <3>5 DEF GrossInv, LateOverrun
    <3> QED
      BY <1>n, <3>1, <3>4, <3>5, <3>6
  <2>3. LateOverrun'
    BY <1>0, <2>2 DEF LateOverrun
  <2> QED
    BY <2>1, <2>3 DEF GrossInv
<1>1. ASSUME NEW o \in Orders, NEW d \in Deal, Becomes(o, d), positions' = positions,
             lateReaders \subseteq lateReaders',
             o \in lateReaders' \/ d.pc \notin HoldsSymbol
                 \/ Sum(OpenIn(positions, Asked[o].symbol)) + d.notional <= GrossLimit
      PROVE  GrossInv'
  <2>1. deal'[o] = d /\ \A q \in Orders : q # o => deal'[q] = deal[q]
    BY <1>t, <1>1, DealsAfter
  <2>2. \A q \in Orders \ lateReaders' : deal'[q].pc \in HoldsSymbol =>
            Sum(OpenIn(positions, Asked[q].symbol)) + deal'[q].notional <= GrossLimit
    <3> SUFFICES ASSUME NEW q \in Orders \ lateReaders', deal'[q].pc \in HoldsSymbol
                 PROVE  Sum(OpenIn(positions, Asked[q].symbol)) + deal'[q].notional <= GrossLimit
      OBVIOUS
    <3>1. q \in Orders \ lateReaders
      BY <1>1
    <3>2. CASE q = o
      BY <1>1, <2>1, <3>2
    <3>3. CASE q # o
      BY <2>1, <3>1, <3>3 DEF GrossInv, RoomLeft
    <3> QED
      BY <3>2, <3>3
  <2> QED
    BY <1>0, <1>1, <2>2
<1>2. ASSUME NEW o \in Orders, NEW d \in Deal, KeepsOut(o, d) \/ Begins(o, d) \/ GivesUp(o, d)
      PROVE  GrossInv'
  <2>1. Becomes(o, d) /\ positions' = positions /\ lateReaders \subseteq lateReaders'
        /\ d.pc \notin HoldsSymbol
    BY <1>2 DEF KeepsOut, Begins, GivesUp, HoldsSymbol
  <2> QED
    BY <1>1, <2>1
<1>3. ASSUME NEW o \in Orders, NEW d \in Deal, Asks(o, d) \/ TakesClient(o, d) PROVE GrossInv'
  <2>1. Becomes(o, d) /\ positions' = positions /\ lateReaders' = lateReaders
        /\ d.notional = deal[o].notional
        /\ (d.pc \in HoldsSymbol => deal[o].pc \in HoldsSymbol)
    BY <1>3 DEF Asks, TakesClient, HoldsSymbol
  <2>2. o \in lateReaders' \/ d.pc \notin HoldsSymbol
            \/ Sum(OpenIn(positions, Asked[o].symbol)) + d.notional <= GrossLimit
    BY <2>1 DEF GrossInv, RoomLeft
  <2> QED
    BY <1>1, <2>1, <2>2
<1>4. ASSUME NEW o \in Orders, NEW d \in Deal, TakesSymbol(o, d) PROVE GrossInv'
  <2> DEFINE s == Asked[o].symbol
  <2>1. Becomes(o, d) /\ positions' = positions /\ lateReaders \subseteq lateReaders'
        /\ d.notional = deal[o].notional
    BY <1>4 DEF TakesSymbol
  <2>2. ASSUME o \notin lateReaders'
        PROVE  Sum(OpenIn(positions, s)) + d.notional <= GrossLimit
    <3>1. CanOpen(Asked[o].side, deal[o].notional, Sum(OfSymbol(positions, s, "BUY")),
                  Sum(OfSymbol(positions, s, "SELL")))
      <4>1. /\ \A side \in Sides : OfSymbol(deal[o].snap, s, side) = OfSymbol(positions, s, side)
            /\ CanOpen(Asked[o].side, deal[o].notional, Sum(OfSymbol(deal[o].snap, s, "BUY")),
                       Sum(OfSymbol(deal[o].snap, s, "SELL")))
        BY <1>4, <2>2 DEF TakesSymbol
      <4>2. "BUY" \in Sides /\ "SELL" \in Sides
        BY DEF Sides
      <4> QED
        BY <4>1, <4>2
    <3>2. PICK n \in Nat, a \in Nat, b \in Nat :
               /\ n = deal[o].notional
               /\ a = Sum(OfSymbol(positions, s, "BUY")) /\ b = Sum(OfSymbol(positions, s, "SELL"))
      BY <1>t, <1>n, BothSides DEF ExposureTypeOK, Deal
    <3>3. Sum(OpenIn(positions, s)) = a + b
      BY <1>n, <3>2, BothSides
    <3>4. Asked[o].side = "BUY" \/ Asked[o].side = "SELL"
      BY ExposureAssumption DEF Sides
    <3>5. CanOpen(Asked[o].side, n, a, b)
      BY <3>1, <3>2
    <3>6. a + b + n <= GrossLimit
      <4>1. CASE Asked[o].side = "BUY"
        BY <1>n, <3>2, <3>5, <4>1 DEF CanOpen
      <4>2. CASE Asked[o].side = "SELL"
        BY <1>n, <3>2, <3>5, <4>2 DEF CanOpen
      <4> QED
        BY <3>4, <4>1, <4>2
    <3> QED
      BY <2>1, <3>2, <3>3, <3>6
  <2> QED
    BY <1>1, <2>1, <2>2
<1>5. ASSUME NEW o \in Orders, NEW d \in Deal, Fills(o, d) PROVE GrossInv'
  <2>0. PICK s \in Symbols, n \in Nat : s = Asked[o].symbol /\ n = deal[o].notional
    BY <1>t, AskedTyped DEF ExposureTypeOK, Deal
  <2>1. PICK p, open : p = [order |-> o, notional |-> n] /\ open = positions'
    OBVIOUS
  <2>2. /\ Becomes(o, d) /\ deal[o].pc = "client" /\ d.pc = "filled" /\ open = positions \cup {p}
        /\ lateReaders' = lateReaders
    BY <1>5, <2>0, <2>1 DEF Fills
  <2>3. deal'[o] = d /\ \A q \in Orders : q # o => deal'[q] = deal[q]
    BY <1>t, <2>2, DealsAfter
  <2>4. p \in Position /\ p.order = o /\ p.notional = n
    BY <2>1 DEF Position
  <2>5. p \notin positions
    BY <2>2, <2>4 DEF LocksInv, FilledOnce
  <2>6. open \subseteq Position /\ IsFiniteSet(open)
    BY <1>n, <2>2, <2>4, FS_AddElement
  <2>7. \A t \in Symbols : t # s => OpenIn(open, t) = OpenIn(positions, t)
    BY <2>0, <2>2, <2>4 DEF OpenIn
  <2>8. \A t \in Symbols : t # s => LateIn(open, lateReaders, t) = LateIn(positions, lateReaders, t)
    BY <2>0, <2>2, <2>4 DEF LateIn
  <2>9. Sum(OpenIn(open, s)) = Sum(OpenIn(positions, s)) + n
    <3>1. PICK U, a : U = OpenIn(open, s) /\ a = OpenIn(positions, s)
      OBVIOUS
    <3>2. U \subseteq open /\ a \in SUBSET U /\ p \in U /\ p \notin a /\ U = a \cup {p}
      BY <2>0, <2>2, <2>4, <2>5, <3>1 DEF OpenIn
    <3>3. IsFiniteSet(U) /\ \A x \in U : x.notional \in Nat
      BY <2>6, <3>2, OpenTyped
    <3>4. Sum(U) = Sum(a) + p.notional
      BY <3>2, <3>3, SumIsOneMore
    <3> QED
      BY <2>4, <3>1, <3>4
  <2>10. o \in lateReaders =>
             Sum(LateIn(open, lateReaders, s)) = Sum(LateIn(positions, lateReaders, s)) + n
    <3> SUFFICES ASSUME o \in lateReaders
                 PROVE  Sum(LateIn(open, lateReaders, s)) = Sum(LateIn(positions, lateReaders, s)) + n
      OBVIOUS
    <3>1. PICK U, a : U = LateIn(open, lateReaders, s) /\ a = LateIn(positions, lateReaders, s)
      OBVIOUS
    <3>2. U \subseteq open /\ a \in SUBSET U /\ p \in U /\ p \notin a /\ U = a \cup {p}
      BY <2>0, <2>2, <2>4, <2>5, <3>1 DEF LateIn
    <3>3. IsFiniteSet(U) /\ \A x \in U : x.notional \in Nat
      BY <2>6, <3>2, OpenTyped
    <3>4. Sum(U) = Sum(a) + p.notional
      BY <3>2, <3>3, SumIsOneMore
    <3> QED
      BY <2>4, <3>1, <3>4
  <2>11. RoomLeft'
    <3>1. ASSUME NEW q \in Orders \ lateReaders, deal'[q].pc \in HoldsSymbol
          PROVE  Sum(OpenIn(open, Asked[q].symbol)) + deal'[q].notional <= GrossLimit
      <4>1. q # o /\ deal'[q] = deal[q]
        BY <2>2, <2>3, <3>1 DEF HoldsSymbol
      <4>2. advisory[Asked[q].symbol] = q /\ advisory[s] = o /\ Asked[q].symbol \in Symbols
        BY <2>0, <2>2, <3>1, <4>1, AskedTyped DEF LocksInv, SymbolHeld, HoldsSymbol
      <4>3. OpenIn(open, Asked[q].symbol) = OpenIn(positions, Asked[q].symbol)
        BY <2>7, <4>1, <4>2
      <4> QED
        BY <3>1, <4>1, <4>3 DEF GrossInv, RoomLeft
    <3> QED
      BY <2>1, <2>2, <3>1 DEF RoomLeft
  <2>12. ASSUME NEW t \in Symbols
         PROVE  Sum(OpenIn(open, t)) <= GrossLimit + Sum(LateIn(open, lateReaders, t))
    <3>1. CASE t # s
      BY <2>7, <2>8, <3>1 DEF GrossInv, LateOverrun
    <3>2. CASE t = s
      <4>1. OpenIn(positions, s) \subseteq positions /\ LateIn(positions, lateReaders, s) \subseteq positions
            /\ LateIn(open, lateReaders, s) \subseteq open
        BY DEF OpenIn, LateIn
      <4>2. PICK a \in Nat, b \in Nat, c \in Nat :
                 /\ a = Sum(OpenIn(positions, s)) /\ b = Sum(LateIn(positions, lateReaders, s))
                 /\ c = Sum(LateIn(open, lateReaders, s))
        BY <1>n, <2>6, <4>1, OpenTyped
      <4>3. a <= GrossLimit + b
        BY <4>2 DEF GrossInv, LateOverrun
      <4>4. o \in lateReaders => a + n <= GrossLimit + c
        BY <1>n, <2>10, <4>2, <4>3
      <4>5. o \notin lateReaders => a + n <= GrossLimit
        BY <2>0, <2>2, <4>2 DEF GrossInv, RoomLeft, HoldsSymbol
      <4>6. a + n <= GrossLimit + c
        BY <1>n, <4>2, <4>4, <4>5
      <4> QED
        BY <2>9, <3>2, <4>2, <4>6
    <3> QED
      BY <3>1, <3>2
  <2>13. LateOverrun'
    BY <2>1, <2>2, <2>12 DEF LateOverrun
  <2> QED
    BY <2>11, <2>13 DEF GrossInv
<1>6. ASSUME NEW o \in Orders, Settles(o) PROVE GrossInv'
  <2>0. PICK open : open = positions'
    OBVIOUS
  <2>1. PICK p \in positions : open = positions \ {p}
    BY <1>6, <2>0 DEF Settles
  <2>2. lateReaders' = lateReaders /\ deal' = deal
    BY <1>6 DEF Settles
  <2>3. open \subseteq positions /\ open \subseteq Position /\ IsFiniteSet(open)
    BY <1>n, <2>1, FS_Subset
  <2>4. ASSUME NEW t PROVE Sum(OpenIn(open, t)) <= Sum(OpenIn(positions, t))
    <3>1. PICK U, a : U = OpenIn(positions, t) /\ a = OpenIn(open, t)
      OBVIOUS
    <3>2. U \subseteq positions /\ a \in SUBSET U
      BY <2>1, <3>1 DEF OpenIn
    <3>3. IsFiniteSet(U) /\ \A x \in U : x.notional \in Nat
      BY <1>n, <3>2, OpenTyped
    <3> QED
      BY <3>1, <3>2, <3>3, SumIsMore
  <2>5. RoomLeft'
    <3>1. ASSUME NEW q \in Orders \ lateReaders, deal[q].pc \in HoldsSymbol
          PROVE  Sum(OpenIn(open, Asked[q].symbol)) + deal[q].notional <= GrossLimit
      <4>1. OpenIn(positions, Asked[q].symbol) \subseteq positions /\ OpenIn(open, Asked[q].symbol) \subseteq open
        BY DEF OpenIn
      <4>2. PICK a \in Nat, b \in Nat, n \in Nat :
                 /\ a = Sum(OpenIn(positions, Asked[q].symbol)) /\ b = Sum(OpenIn(open, Asked[q].symbol))
                 /\ n = deal[q].notional
        BY <1>t, <1>n, <2>3, <4>1, OpenTyped DEF ExposureTypeOK, Deal
      <4>3. a + n <= GrossLimit
        BY <3>1, <4>2 DEF GrossInv, RoomLeft
      <4>4. b <= a
        BY <2>4, <4>2
      <4> QED
        BY <1>n, <4>2, <4>3, <4>4
    <3> QED
      BY <2>0, <2>2, <3>1 DEF RoomLeft
  <2>6. ASSUME NEW t \in Symbols
        PROVE  Sum(OpenIn(open, t)) <= GrossLimit + Sum(LateIn(open, lateReaders, t))
    <3>0. PICK U, a, V, b : /\ U = OpenIn(positions, t) /\ a = OpenIn(open, t)
                            /\ V = LateIn(positions, lateReaders, t) /\ b = LateIn(open, lateReaders, t)
      OBVIOUS
    <3>1. /\ U \subseteq positions /\ V \subseteq positions /\ a \subseteq open /\ b \subseteq open
          /\ V \subseteq U
      BY <3>0 DEF OpenIn, LateIn
    <3>2. PICK x \in Nat, y \in Nat, v \in Nat, w \in Nat :
               x = Sum(U) /\ y = Sum(a) /\ v = Sum(V) /\ w = Sum(b)
      BY <1>n, <2>3, <3>1, OpenTyped
    <3>3. x <= GrossLimit + v /\ y <= x
      BY <2>4, <3>0, <3>2 DEF GrossInv, LateOverrun
    <3>4. CASE p \notin V
      <4>1. b = V
        BY <2>1, <3>0, <3>4 DEF LateIn
      <4> QED
        BY <1>n, <3>0, <3>2, <3>3, <4>1
    <3>5. CASE p \in V
      <4>1. /\ U = a \cup {p} /\ p \notin a /\ p \in U /\ a \in SUBSET U
            /\ V = b \cup {p} /\ p \notin b /\ b \in SUBSET V
        BY <2>1, <3>0, <3>5 DEF OpenIn, LateIn
      <4>2. /\ IsFiniteSet(U) /\ \A z \in U : z.notional \in Nat
            /\ IsFiniteSet(V) /\ \A z \in V : z.notional \in Nat
        BY <1>n, <3>1, OpenTyped
      <4>3. Sum(U) = Sum(a) + p.notional
        BY <4>1, <4>2, SumIsOneMore
      <4>4. Sum(V) = Sum(b) + p.notional
        BY <3>5, <4>1, <4>2, SumIsOneMore
      <4>5. PICK n \in Nat : n = p.notional
        BY <4>1, <4>2
      <4>6. x = y + n /\ v = w + n
        BY <3>2, <4>3, <4>4, <4>5
      <4>7. y <= GrossLimit + w
        BY <1>n, <3>3, <4>6
      <4> QED
        BY <3>0, <3>2, <4>7
    <3> QED
      BY <3>4, <3>5
  <2>7. LateOverrun'
    BY <2>0, <2>2, <2>6 DEF LateOverrun
  <2> QED
    BY <2>5, <2>7 DEF GrossInv
<1>7. ASSUME NEW gone \in SUBSET Orders, DropsAll(gone) PROVE GrossInv'
  <2>1. /\ \A q \in Orders : deal'[q].pc = "rejected" \/ deal'[q] = deal[q]
        /\ positions' = positions /\ lateReaders' = lateReaders
    BY <1>7 DEF DropsAll
  <2>2. \A q \in Orders \ lateReaders' : deal'[q].pc \in HoldsSymbol =>
            Sum(OpenIn(positions, Asked[q].symbol)) + deal'[q].notional <= GrossLimit
    BY <2>1 DEF GrossInv, RoomLeft, HoldsSymbol
  <2> QED
    BY <1>0, <2>1, <2>2
<1>8. CASE Rests
  <2>1. positions' = positions /\ lateReaders' = lateReaders /\ deal' = deal
    BY <1>8 DEF Rests
  <2> QED
    BY <1>0, <2>1 DEF GrossInv, RoomLeft
<1> QED
  BY <1>k, <1>2, <1>3, <1>4, <1>5, <1>6, <1>7, <1>8 DEF ExposureKinds

Entry == [ok : BOOLEAN, ttl : 0 .. UserTtl]
StatusRead == [ok : BOOLEAN, age : Nat]

\* What a worker still takes for approved it read before the revocation, and the
\* entry has no more left to live than that leaves it.
AnswersAreOld ==
    ~approved => \A w \in Servants : \A l \in lookup[w] : l.ok => l.age >= revokedFor
EntriesRunOut ==
    ~approved => \A w \in Servants :
        cached[w].ok => cached[w].ttl = 0 \/ cached[w].ttl + revokedFor <= UserTtl
StatusInv ==
    /\ approved \in BOOLEAN /\ revokedFor \in Nat /\ (approved => revokedFor = 0)
    /\ cached \in [Servants -> Entry] /\ lookup \in [Servants -> SUBSET StatusRead]
    /\ AnswersAreOld /\ EntriesRunOut

LEMMA StatusInitially == ExposureInit => StatusInv
<1> SUFFICES ASSUME ExposureInit PROVE StatusInv
  OBVIOUS
<1>1. UserTtl \in Nat
  BY ExposureAssumption
<1>2. [ok |-> FALSE, ttl |-> 0] \in Entry
  BY <1>1 DEF Entry
<1>3. cached \in [Servants -> Entry] /\ lookup \in [Servants -> SUBSET StatusRead]
  BY <1>2 DEF ExposureInit
<1> QED
  BY <1>3 DEF ExposureInit, StatusInv, AnswersAreOld, EntriesRunOut

LEMMA StatusStep == StatusInv /\ [ExposureNext]_exposureVars => StatusInv'
<1> SUFFICES ASSUME StatusInv, [ExposureNext]_exposureVars PROVE StatusInv'
  OBVIOUS
<1>u. UserTtl \in Nat
  BY ExposureAssumption
<1>t. /\ approved \in BOOLEAN /\ revokedFor \in Nat /\ (approved => revokedFor = 0)
      /\ cached \in [Servants -> Entry] /\ lookup \in [Servants -> SUBSET StatusRead]
  BY DEF StatusInv
<1>e. ASSUME NEW w \in Servants
      PROVE  cached[w] \in Entry /\ cached[w].ok \in BOOLEAN /\ cached[w].ttl \in 0 .. UserTtl
  BY <1>t DEF Entry
<1>0. UNCHANGED <<approved, cached, lookup, revokedFor>> => StatusInv'
  BY DEF StatusInv, AnswersAreOld, EntriesRunOut
<1>1. ASSUME NEW o \in Orders, OrderStep(o) PROVE StatusInv'
  <2>1. UNCHANGED userVars
    BY <1>1 DEF OrderStep, PreTradeCheck, Settle, Execute, LockMargin, AskSymbol, Ask, CountSymbol,
                Counts, AskClient, CountClient, FillOrder, RollBack
  <2> QED
    BY <1>0, <2>1 DEF userVars
<1>2. ASSUME NEW w \in Servants, LookUp(w) PROVE StatusInv'
  <2> DEFINE l == [ok |-> approved, age |-> 0]
  <2>1. l \in StatusRead /\ l.ok = approved
    BY <1>t DEF StatusRead
  <2>2. lookup' = [lookup EXCEPT ![w] = {l}] /\ UNCHANGED <<approved, cached, revokedFor>>
    BY <1>2 DEF LookUp
  <2> HIDE DEF l
  <2>3. /\ lookup' \in [Servants -> SUBSET StatusRead] /\ lookup'[w] = {l}
        /\ \A v \in Servants : v # w => lookup'[v] = lookup[v]
    BY <1>t, <2>1, <2>2
  <2>4. AnswersAreOld'
    BY <2>1, <2>2, <2>3 DEF StatusInv, AnswersAreOld
  <2>5. EntriesRunOut'
    BY <2>2 DEF StatusInv, EntriesRunOut
  <2> QED
    BY <1>t, <2>2, <2>3, <2>4, <2>5 DEF StatusInv
<1>3. ASSUME NEW w \in Servants, LookUpAnswered(w) PROVE StatusInv'
  <2>1. PICK l \in lookup[w] : cached' = [cached EXCEPT ![w] = [ok |-> l.ok, ttl |-> LifeLeft(l.age)]]
    BY <1>3 DEF LookUpAnswered
  <2>2. lookup' = [lookup EXCEPT ![w] = {}] /\ UNCHANGED <<approved, revokedFor>>
    BY <1>3 DEF LookUpAnswered
  <2>3. l \in StatusRead
    BY <1>t, <2>1
  <2>4. l.ok \in BOOLEAN /\ l.age \in Nat
    BY <2>3 DEF StatusRead
  <2>5. PICK e : e = [ok |-> l.ok, ttl |-> LifeLeft(l.age)]
    OBVIOUS
  <2>6. e.ok = l.ok /\ e.ttl = LifeLeft(l.age)
    BY <2>5
  <2>7. LifeLeft(l.age) \in 0 .. UserTtl
    BY <1>u, <2>4 DEF LifeLeft
  <2>8. e \in Entry
    BY <2>4, <2>5, <2>7 DEF Entry
  <2>9. /\ cached' \in [Servants -> Entry] /\ cached'[w] = e
        /\ \A v \in Servants : v # w => cached'[v] = cached[v]
    BY <1>t, <2>1, <2>5, <2>8
  <2>10. /\ lookup' \in [Servants -> SUBSET StatusRead] /\ lookup'[w] = {}
         /\ \A v \in Servants : v # w => lookup'[v] = lookup[v]
    BY <1>t, <2>2
  <2>11. AnswersAreOld'
    BY <2>2, <2>10 DEF StatusInv, AnswersAreOld
  <2>12. ~approved /\ l.ok => e.ttl = 0 \/ e.ttl + revokedFor <= UserTtl
    <3>1. ~approved /\ l.ok => l.age >= revokedFor
      BY <2>1 DEF StatusInv, AnswersAreOld
    <3> QED
      BY <1>t, <1>u, <2>4, <2>6, <3>1 DEF LifeLeft
  <2>13. EntriesRunOut'
    BY <2>2, <2>6, <2>9, <2>12 DEF StatusInv, EntriesRunOut
  <2> QED
    BY <1>t, <2>2, <2>9, <2>10, <2>11, <2>13 DEF StatusInv
<1>4. ASSUME NEW w \in Servants, NEW loaded \in BOOLEAN, WorkerRestarts(w, loaded) PROVE StatusInv'
  <2> DEFINE e == [ok |-> FALSE, ttl |-> 0]
  <2>1. e \in Entry /\ ~e.ok
    BY <1>u DEF Entry
  <2>2. cached' = [cached EXCEPT ![w] = e] /\ lookup' = [lookup EXCEPT ![w] = {}]
        /\ UNCHANGED <<approved, revokedFor>>
    BY <1>4 DEF WorkerRestarts
  <2> HIDE DEF e
  <2>3. /\ cached' \in [Servants -> Entry] /\ cached'[w] = e
        /\ \A v \in Servants : v # w => cached'[v] = cached[v]
    BY <1>t, <2>1, <2>2
  <2>4. /\ lookup' \in [Servants -> SUBSET StatusRead] /\ lookup'[w] = {}
        /\ \A v \in Servants : v # w => lookup'[v] = lookup[v]
    BY <1>t, <2>2
  <2>5. AnswersAreOld'
    BY <2>2, <2>4 DEF StatusInv, AnswersAreOld
  <2>6. EntriesRunOut'
    BY <2>1, <2>2, <2>3 DEF StatusInv, EntriesRunOut
  <2> QED
    BY <1>t, <2>2, <2>3, <2>4, <2>5, <2>6 DEF StatusInv
<1>5. CASE RevokeApproval
  <2>1. approved /\ ~approved' /\ approved' \in BOOLEAN /\ UNCHANGED <<cached, lookup, revokedFor>>
        /\ revokedFor = 0
    BY <1>5, <1>t DEF RevokeApproval
  <2>2. AnswersAreOld'
    <3>1. ASSUME NEW w \in Servants, NEW l \in lookup[w] PROVE l.age >= revokedFor
      <4>1. l \in StatusRead
        BY <1>t
      <4>2. l.age \in Nat
        BY <4>1 DEF StatusRead
      <4> QED
        BY <2>1, <4>2
    <3> QED
      BY <2>1, <3>1 DEF AnswersAreOld
  <2>3. EntriesRunOut'
    <3>1. ASSUME NEW w \in Servants PROVE cached[w].ttl + revokedFor <= UserTtl
      BY <1>e, <1>u, <2>1
    <3> QED
      BY <2>1, <3>1 DEF EntriesRunOut
  <2> QED
    BY <1>t, <2>1, <2>2, <2>3 DEF StatusInv
<1>6. CASE MinutePasses
  <2>1. /\ ~approved /\ UNCHANGED approved /\ revokedFor' = revokedFor + 1 /\ revokedFor' \in Nat
        /\ cached' = [w \in Servants |-> [cached[w] EXCEPT !.ttl = IF @ > 0 THEN @ - 1 ELSE 0]]
        /\ lookup' = [w \in Servants |-> {[l EXCEPT !.age = @ + 1] : l \in lookup[w]}]
    BY <1>6, <1>t DEF MinutePasses
  <2>2. ASSUME NEW w \in Servants
        PROVE  /\ cached'[w] \in Entry /\ cached'[w].ok = cached[w].ok
               /\ cached'[w].ttl = IF cached[w].ttl > 0 THEN cached[w].ttl - 1 ELSE 0
    <3>1. PICK e \in Entry, n \in Nat :
               e = cached[w] /\ n = IF e.ttl > 0 THEN e.ttl - 1 ELSE 0
      BY <1>e, <1>u
    <3>2. n \in 0 .. UserTtl
      BY <1>e, <1>u, <3>1
    <3>3. cached'[w] = [e EXCEPT !.ttl = n]
      BY <2>1, <3>1
    <3>4. [e EXCEPT !.ttl = n] \in Entry /\ [e EXCEPT !.ttl = n].ok = e.ok /\ [e EXCEPT !.ttl = n].ttl = n
      BY <3>2 DEF Entry
    <3> QED
      BY <3>1, <3>3, <3>4
  <2>3. ASSUME NEW w \in Servants, NEW k \in lookup'[w]
        PROVE  k \in StatusRead /\ \E l \in lookup[w] : k.ok = l.ok /\ k.age = l.age + 1 /\ l.age \in Nat
    <3>1. PICK l \in lookup[w] : k = [l EXCEPT !.age = @ + 1]
      BY <2>1, <2>3
    <3>2. l \in StatusRead
      BY <1>t
    <3>3. PICK n \in Nat : n = l.age
      BY <3>2 DEF StatusRead
    <3>4. k = [l EXCEPT !.age = n + 1]
      BY <3>1, <3>3
    <3>5. n + 1 \in Nat
      OBVIOUS
    <3>6. k \in StatusRead /\ k.ok = l.ok /\ k.age = n + 1
      BY <3>2, <3>4, <3>5 DEF StatusRead
    <3> QED
      BY <3>3, <3>6
  <2>4. cached' \in [Servants -> Entry]
    BY <2>1, <2>2
  <2>5. lookup' \in [Servants -> SUBSET StatusRead]
    BY <2>1, <2>3
  <2>6. AnswersAreOld'
    <3>1. ASSUME NEW w \in Servants, NEW k \in lookup'[w], k.ok PROVE k.age >= revokedFor'
      <4>1. PICK l \in lookup[w] : k.ok = l.ok /\ k.age = l.age + 1 /\ l.age \in Nat
        BY <2>3
      <4>2. l.age >= revokedFor
        BY <2>1, <3>1, <4>1 DEF StatusInv, AnswersAreOld
      <4> QED
        BY <1>t, <2>1, <4>1, <4>2
    <3> QED
      BY <3>1 DEF AnswersAreOld
  <2>7. EntriesRunOut'
    <3>1. ASSUME NEW w \in Servants, cached'[w].ok
          PROVE  cached'[w].ttl = 0 \/ cached'[w].ttl + revokedFor' <= UserTtl
      <4>1. PICK n \in 0 .. UserTtl : n = cached[w].ttl /\ cached'[w].ttl = IF n > 0 THEN n - 1 ELSE 0
        BY <1>e, <2>2
      <4>2. n = 0 \/ n + revokedFor <= UserTtl
        BY <2>1, <2>2, <3>1, <4>1 DEF StatusInv, EntriesRunOut
      <4> QED
        BY <1>t, <1>u, <2>1, <4>1, <4>2
    <3> QED
      BY <3>1 DEF EntriesRunOut
  <2> QED
    BY <2>1, <2>4, <2>5, <2>6, <2>7 DEF StatusInv
<1>7. CASE UNCHANGED exposureVars
  BY <1>0, <1>7 DEF exposureVars
<1> QED
  BY <1>1, <1>2, <1>3, <1>4, <1>5, <1>6, <1>7 DEF ExposureNext

LEMMA ExposureFollows == LocksInv /\ ClientInv /\ GrossInv /\ StatusInv => ExposureSound
<1> SUFFICES ASSUME LocksInv, ClientInv, GrossInv, StatusInv PROVE ExposureSound
  OBVIOUS
<1>1. ClientsWithinCaps
  BY DEF ClientInv
<1>2. OverrunByLateReaders
  <2> SUFFICES ASSUME NEW s \in Symbols
               PROVE  Gross(s) <= GrossLimit + Sum({p \in positions : /\ p.order \in lateReaders
                                                                      /\ Asked[p.order].symbol = s})
    BY DEF OverrunByLateReaders
  <2>1. Gross(s) = Sum(OpenIn(positions, s))
    BY BothSides DEF Gross, LocksInv, ExposureTypeOK
  <2>2. LateIn(positions, lateReaders, s)
            = {p \in positions : p.order \in lateReaders /\ Asked[p.order].symbol = s}
    BY DEF LateIn
  <2>3. Sum(OpenIn(positions, s)) <= GrossLimit + Sum(LateIn(positions, lateReaders, s))
    BY DEF GrossInv, LateOverrun
  <2> QED
    BY <2>1, <2>2, <2>3
<1>3. RevocationTakesHold
  <2> SUFFICES ASSUME ~approved, revokedFor >= UserTtl, NEW w \in Servants,
                      cached[w].ok, cached[w].ttl > 0
               PROVE  FALSE
    BY DEF RevocationTakesHold
  <2>1. cached[w] \in Entry
    BY DEF StatusInv
  <2>2. cached[w].ttl \in 0 .. UserTtl
    BY <2>1 DEF Entry
  <2>3. cached[w].ttl = 0 \/ cached[w].ttl + revokedFor <= UserTtl
    BY DEF StatusInv, EntriesRunOut
  <2> QED
    BY <2>2, <2>3, ExposureAssumption DEF StatusInv
<1> QED
  BY <1>1, <1>2, <1>3 DEF ExposureSound

\* The limits on what is open: however orders race, no client is over its cap or
\* left over-concentrated, an instrument is over its limit by no more than what
\* late readers filled, and a revoked approval is gone from every cache in time.
THEOREM ExposureIsSound == Spec => []ExposureSound
<1>1. LocksInv /\ ClientInv /\ GrossInv /\ StatusInv => ExposureSound
  BY ExposureFollows
<1>2. Init => LocksInv /\ ClientInv /\ GrossInv /\ StatusInv
  BY PartInit, LocksInitially, ClientInitially, GrossInitially, StatusInitially
<1>3. LocksInv /\ ClientInv /\ GrossInv /\ StatusInv /\ [Next]_vars
          => LocksInv' /\ ClientInv' /\ GrossInv' /\ StatusInv'
  BY PartStep, LocksStep, ClientStep, GrossStep, StatusStep
<1> QED
  BY <1>1, <1>2, <1>3, PTL DEF Spec

---------------------------------------------------------------------------
(* The settings and records every process has a copy of.                   *)

\* A table of the records, whatever is in it.
Table(t) == t = [r \in Records |-> t[r]]

\* A record that changed in order has one write under way at most, and that write
\* carries the last change.
SettingsInOrder(r) ==
    /\ WritesOf(r) = {} => stored[r] = newest[r]
    /\ \A m \in WritesOf(r) : m.value = newest[r]
    /\ \A m, k \in WritesOf(r) : m = k
Hydrates(p) ==
    \A r \in Records \ (unsettled \cup {"featureFlags", "amlAlert"}) : copy[p][r] = newest[r]

SettingsInv ==
    /\ copy = [p \in Processes |-> copy[p]] /\ \A p \in Processes : Table(copy[p])
    /\ Table(stored) /\ Table(newest) /\ hydrated \subseteq Processes
    /\ \A r \in Records \ unsettled : SettingsInOrder(r)
    /\ \A p \in hydrated : Hydrates(p)

LEMMA RecordsAre ==
    Records = {"riskPolicy", "olosGovernance", "liquidityControls", "featureFlags", "user", "amlAlert"}
  BY DEF Records, FieldsOf

LEMMA HydratedKeeps ==
    ASSUME NEW t, Table(t)
    PROVE  /\ Table(Hydrated(t))
           /\ \A r \in Records \ {"featureFlags", "amlAlert"} : Hydrated(t)[r] = t[r]
<1>1. "featureFlags" \in Records /\ "amlAlert" \in Records
  BY RecordsAre
<1>2. DOMAIN t = Records
  BY DEF Table
<1>3. PICK a, b : Hydrated(t) = [[t EXCEPT !["featureFlags"] = a] EXCEPT !["amlAlert"] = b]
  BY DEF Hydrated
<1>4. Hydrated(t) = [r \in Records |-> IF r = "amlAlert" THEN b ELSE IF r = "featureFlags" THEN a ELSE t[r]]
  BY <1>1, <1>2, <1>3
<1> QED
  BY <1>4 DEF Table

LEMMA SettingsInitially == StateInit => SettingsInv
<1> SUFFICES ASSUME StateInit PROVE SettingsInv
  OBVIOUS
<1>1. stored = Seed /\ newest = Seed /\ copy = [p \in Processes |-> Hydrated(Seed)] /\ writes = {}
      /\ hydrated = Processes
  BY DEF StateInit
<1>2. Table(Seed)
  BY DEF Table, Seed
<1>3. PICK h : h = Hydrated(Seed) /\ Table(h) /\ \A r \in Records \ {"featureFlags", "amlAlert"} : h[r] = Seed[r]
  BY <1>2, HydratedKeeps
<1>4. copy = [p \in Processes |-> h]
  BY <1>1, <1>3
<1>5. \A r \in Records : SettingsInOrder(r)
  BY <1>1 DEF SettingsInOrder, WritesOf
<1>6. \A p \in hydrated : Hydrates(p)
  BY <1>1, <1>3, <1>4 DEF Hydrates
<1> QED
  BY <1>1, <1>2, <1>3, <1>4, <1>5, <1>6 DEF SettingsInv

LEMMA ChangeKeeps ==
    ASSUME SettingsInv, NEW p \in Processes, NEW r \in Records, NEW f, Change(p, r, f)
    PROVE  SettingsInv'
<1> DEFINE n == changes + 1
           changed == [copy[p][r] EXCEPT ![f] = n]
           m == [n |-> n, record |-> r, value |-> changed]
<1>1. /\ copy' = [copy EXCEPT ![p][r] = changed] /\ writes' = writes \cup {m}
      /\ newest' = [newest EXCEPT ![r][f] = n]
      /\ unsettled' = IF copy[p][r] # newest[r] \/ WritesOf(r) # {}
                      THEN unsettled \cup {r} ELSE unsettled
      /\ hydrated' = {} /\ stored' = stored
  BY DEF Change
<1>2. m.record = r /\ m.value = changed
  OBVIOUS
<1>3. DOMAIN newest = Records /\ DOMAIN copy = Processes /\ \A q \in Processes : DOMAIN copy[q] = Records
  BY DEF SettingsInv, Table
<1>4. newest' = [s \in Records |-> IF s = r THEN [newest[r] EXCEPT ![f] = n] ELSE newest[s]]
  <2> HIDE DEF n
  <2> QED
    BY <1>1, <1>3 DEF SettingsInv, Table
<1>5. Table(newest') /\ newest'[r] = [newest[r] EXCEPT ![f] = n]
      /\ \A s \in Records : s # r => newest'[s] = newest[s]
  <2> HIDE DEF n
  <2> QED
    BY <1>4 DEF Table
<1>6. copy' = [q \in Processes |-> IF q = p THEN [copy[p] EXCEPT ![r] = changed] ELSE copy[q]]
  <2> HIDE DEF changed
  <2> QED
    BY <1>1, <1>3 DEF SettingsInv
<1>7. copy' = [q \in Processes |-> copy'[q]] /\ \A q \in Processes : Table(copy'[q])
  <2>1. Table([copy[p] EXCEPT ![r] = changed])
    <3> HIDE DEF changed
    <3> QED
      BY <1>3 DEF SettingsInv, Table
  <2>2. \A q \in Processes : Table(copy[q])
    BY DEF SettingsInv
  <2> HIDE DEF changed
  <2> QED
    BY <1>6, <2>1, <2>2
<1>8. ASSUME NEW s \in Records \ unsettled' PROVE SettingsInOrder(s)'
  <2>1. s \in Records \ unsettled
    BY <1>1
  <2>2. SettingsInOrder(s)
    BY <2>1 DEF SettingsInv
  <2>3. CASE s = r
    <3>1. copy[p][r] = newest[r] /\ WritesOf(r) = {}
      BY <1>1, <1>8, <2>3
    <3>2. changed = newest'[r]
      BY <1>5, <3>1
    <3>3. \A k \in writes' : k.record = r => k = m
      <4> HIDE DEF m
      <4> QED
        BY <1>1, <3>1 DEF WritesOf
    <3>4. m \in writes'
      <4> HIDE DEF m
      <4> QED
        BY <1>1
    <3> HIDE DEF m, changed
    <3> QED
      BY <1>2, <2>3, <3>2, <3>3, <3>4 DEF SettingsInOrder, WritesOf
  <2>4. CASE s # r
    <3>1. WritesOf(s)' = WritesOf(s)
      <4> HIDE DEF m
      <4> QED
        BY <1>1, <1>2, <2>4 DEF WritesOf
    <3> QED
      BY <1>1, <1>5, <2>2, <2>4, <3>1 DEF SettingsInOrder
  <2> QED
    BY <2>3, <2>4
<1> HIDE DEF n, changed, m
<1>9. Table(stored)' /\ Table(newest)'
  BY <1>1, <1>5 DEF SettingsInv, Table
<1>10. (\A q \in Processes : Table(copy[q]))'
  BY <1>7 DEF Table
<1> QED
  BY <1>1, <1>7, <1>8, <1>9, <1>10 DEF SettingsInv

LEMMA SettingsStep == SettingsInv /\ [StateNext]_stateVars => SettingsInv'
<1> SUFFICES ASSUME SettingsInv, [StateNext]_stateVars PROVE SettingsInv'
  OBVIOUS
<1>t. /\ Table(stored) /\ Table(newest) /\ DOMAIN stored = Records /\ DOMAIN newest = Records
      /\ DOMAIN copy = Processes /\ \A q \in Processes : Table(copy[q]) /\ DOMAIN copy[q] = Records
  BY DEF SettingsInv, Table
<1>r. "user" \in Records /\ "amlAlert" \in Records /\ "featureFlags" \in Records
  BY RecordsAre
<1>1. CASE UNCHANGED stateVars
  BY <1>1 DEF stateVars, SettingsInv, Table, SettingsInOrder, WritesOf, Hydrates
<1>2. ASSUME NEW p \in Processes,
             \/ AdminUpdateRiskPolicy(p) \/ AdminKillSwitch(p)
             \/ AdminUpdateOlosGovernance(p) \/ AdminUpdateLiquidity(p)
             \/ UpdateFeatureFlags(p) \/ AdminUpdateTier(p) \/ AdminSetKycStatus(p)
             \/ AdminReviewDocument(p) \/ ReviewAmlAlert(p)
      PROVE  SettingsInv'
  <2>1. PICK r, f : r \in Records /\ Change(p, r, f)
    BY <1>2, RecordsAre
       DEF AdminUpdateRiskPolicy, AdminKillSwitch, AdminUpdateOlosGovernance, AdminUpdateLiquidity,
           UpdateFeatureFlags, AdminUpdateTier, AdminSetKycStatus, AdminReviewDocument, ReviewAmlAlert
  <2> QED
    BY <2>1, ChangeKeeps
<1>3. ASSUME NEW p \in Processes, GetAmlAlerts(p) PROVE SettingsInv'
  <2>1. /\ copy' = [copy EXCEPT ![p]["amlAlert"] = stored.amlAlert]
        /\ UNCHANGED <<stored, writes, newest, unsettled, hydrated>>
    BY <1>3 DEF GetAmlAlerts
  <2>2. PICK v : v = stored.amlAlert
    OBVIOUS
  <2>3. copy' = [q \in Processes |-> IF q = p THEN [r \in Records |-> IF r = "amlAlert" THEN v ELSE copy[p][r]]
                                     ELSE copy[q]]
    BY <1>t, <1>r, <2>1, <2>2 DEF SettingsInv
  <2>4. /\ copy' = [q \in Processes |-> copy'[q]] /\ \A q \in Processes : Table(copy'[q])
        /\ \A q \in Processes, r \in Records : r # "amlAlert" => copy'[q][r] = copy[q][r]
    BY <1>t, <2>3 DEF Table
  <2>5. (\A q \in Processes : Table(copy[q]))' /\ Table(stored)' /\ Table(newest)'
    BY <1>t, <2>1, <2>4 DEF Table
  <2>6. (\A r \in Records \ unsettled : SettingsInOrder(r))'
    BY <2>1 DEF SettingsInv, SettingsInOrder, WritesOf
  <2>7. (\A q \in hydrated : Hydrates(q))'
    BY <2>1, <2>4 DEF SettingsInv, Hydrates
  <2> QED
    BY <2>1, <2>4, <2>5, <2>6, <2>7 DEF SettingsInv
<1>4. ASSUME NEW p \in Processes, Restart(p) PROVE SettingsInv'
  <2>1. PICK h : h = Hydrated(stored) /\ Table(h)
                 /\ \A r \in Records \ {"featureFlags", "amlAlert"} : h[r] = stored[r]
    BY <1>t, HydratedKeeps
  <2>2. /\ copy' = [copy EXCEPT ![p] = h] /\ UNCHANGED <<stored, writes, newest, unsettled>>
        /\ hydrated' = IF writes = {} THEN hydrated \cup {p} ELSE hydrated \ {p}
    BY <1>4, <2>1 DEF Restart
  <2>3. copy' = [q \in Processes |-> IF q = p THEN h ELSE copy[q]]
    BY <1>t, <2>2 DEF SettingsInv
  <2>4. /\ copy' = [q \in Processes |-> copy'[q]] /\ (\A q \in Processes : Table(copy'[q]))
        /\ copy'[p] = h /\ \A q \in Processes : q # p => copy'[q] = copy[q]
    BY <1>t, <2>1, <2>3
  <2>5. (\A q \in Processes : Table(copy[q]))' /\ Table(stored)' /\ Table(newest)'
    BY <1>t, <2>2, <2>4 DEF Table
  <2>6. (\A r \in Records \ unsettled : SettingsInOrder(r))'
    BY <2>2 DEF SettingsInv, SettingsInOrder, WritesOf
  <2>7. ASSUME NEW q \in hydrated' PROVE Hydrates(q)'
    <3>1. CASE q = p
      <4>1. writes = {}
        BY <2>2, <2>7, <3>1
      <4>2. \A r \in Records \ unsettled : stored[r] = newest[r]
        BY <4>1 DEF SettingsInv, SettingsInOrder, WritesOf
      <4> QED
        BY <2>1, <2>2, <2>4, <3>1, <4>2 DEF Hydrates
    <3>2. CASE q # p
      <4>1. q \in hydrated /\ q \in Processes
        BY <2>2, <2>7, <3>2 DEF SettingsInv
      <4> QED
        BY <2>2, <2>4, <3>2, <4>1 DEF SettingsInv, Hydrates
    <3> QED
      BY <3>1, <3>2
  <2>8. hydrated' \subseteq Processes
    BY <2>2 DEF SettingsInv
  <2> QED
    BY <2>4, <2>5, <2>6, <2>7, <2>8 DEF SettingsInv
<1>5. CASE DecideKyc
  <2>1. /\ stored' = [stored EXCEPT !["user"]["kycStatus"] = changes + 1]
        /\ newest' = [newest EXCEPT !["user"]["kycStatus"] = changes + 1]
        /\ unsettled' = IF WritesOf("user") # {} THEN unsettled \cup {"user"} ELSE unsettled
        /\ hydrated' = {} /\ UNCHANGED <<copy, writes>>
    BY <1>5 DEF DecideKyc
  <2>2. PICK n : n = changes + 1
    OBVIOUS
  <2>3. /\ stored' = [r \in Records |-> IF r = "user" THEN [stored["user"] EXCEPT !["kycStatus"] = n] ELSE stored[r]]
        /\ newest' = [r \in Records |-> IF r = "user" THEN [newest["user"] EXCEPT !["kycStatus"] = n] ELSE newest[r]]
    BY <1>t, <2>1, <2>2 DEF Table
  <2>4. Table(stored)' /\ Table(newest)' /\ (\A q \in Processes : Table(copy[q]))'
    <3>1. PICK a, b : a = [stored["user"] EXCEPT !["kycStatus"] = n]
                      /\ b = [newest["user"] EXCEPT !["kycStatus"] = n]
      OBVIOUS
    <3>2. /\ stored' = [r \in Records |-> IF r = "user" THEN a ELSE stored[r]]
          /\ newest' = [r \in Records |-> IF r = "user" THEN b ELSE newest[r]]
      BY <2>3, <3>1
    <3>3. Table(stored') /\ Table(newest')
      BY <3>2 DEF Table
    <3>4. \A q \in Processes : Table(copy'[q])
      BY <1>t, <2>1
    <3> QED
      BY <3>3, <3>4 DEF Table
  <2>5. ASSUME NEW r \in Records \ unsettled' PROVE SettingsInOrder(r)'
    <3>1. r \in Records \ unsettled /\ SettingsInOrder(r)
      BY <2>1 DEF SettingsInv
    <3>2. WritesOf(r)' = WritesOf(r)
      BY <2>1 DEF WritesOf
    <3>3. CASE r # "user"
      <4>1. stored'[r] = stored[r] /\ newest'[r] = newest[r]
        BY <2>3, <3>3
      <4> QED
        BY <3>1, <3>2, <4>1 DEF SettingsInOrder
    <3>4. CASE r = "user"
      <4>1. WritesOf("user") = {}
        BY <2>1, <2>5, <3>4
      <4>2. stored["user"] = newest["user"]
        BY <3>1, <3>4, <4>1 DEF SettingsInOrder
      <4>3. stored'["user"] = newest'["user"]
        BY <1>r, <2>3, <4>2
      <4> QED
        BY <3>2, <3>4, <4>1, <4>3 DEF SettingsInOrder
    <3> QED
      BY <3>3, <3>4
  <2> QED
    BY <2>1, <2>4, <2>5 DEF SettingsInv
<1>6. ASSUME NEW m \in writes, Persist(m) PROVE SettingsInv'
  <2>1. /\ stored' = [stored EXCEPT ![m.record] = m.value] /\ writes' = writes \ {m} /\ hydrated' = {}
        /\ UNCHANGED <<copy, newest, unsettled>>
    BY <1>6 DEF Persist
  <2>2. stored' = [r \in Records |-> IF r = m.record THEN m.value ELSE stored[r]]
    BY <1>t, <2>1 DEF Table
  <2>3. Table(stored)' /\ Table(newest)' /\ (\A q \in Processes : Table(copy[q]))'
    BY <1>t, <2>1, <2>2 DEF Table
  <2>4. ASSUME NEW r \in Records \ unsettled' PROVE SettingsInOrder(r)'
    <3>1. r \in Records \ unsettled /\ SettingsInOrder(r)
      BY <2>1, <2>4 DEF SettingsInv
    <3>2. CASE r = m.record
      <4>1. stored'[r] = newest[r]
        BY <2>2, <3>1, <3>2 DEF SettingsInOrder, WritesOf
      <4>2. WritesOf(r)' = {}
        BY <2>1, <3>1, <3>2 DEF SettingsInOrder, WritesOf
      <4> QED
        BY <2>1, <4>1, <4>2 DEF SettingsInOrder
    <3>3. CASE r # m.record
      <4>1. WritesOf(r)' = WritesOf(r) /\ stored'[r] = stored[r]
        BY <2>1, <2>2, <3>3 DEF WritesOf
      <4> QED
        BY <2>1, <3>1, <4>1 DEF SettingsInOrder
    <3> QED
      BY <3>2, <3>3
  <2> QED
    BY <2>1, <2>3, <2>4 DEF SettingsInv
<1>7. ASSUME NEW m \in writes, PersistFails(m) PROVE SettingsInv'
  <2>1. /\ writes' = writes \ {m} /\ unsettled' = unsettled \cup {m.record}
        /\ UNCHANGED <<copy, stored, newest, hydrated>>
    BY <1>7 DEF PersistFails
  <2>2. Table(stored)' /\ Table(newest)' /\ (\A q \in Processes : Table(copy[q]))'
    BY <1>t, <2>1 DEF Table
  <2>3. ASSUME NEW r \in Records \ unsettled' PROVE SettingsInOrder(r)'
    <3>1. r \in Records \ unsettled /\ SettingsInOrder(r) /\ r # m.record
      BY <2>1, <2>3 DEF SettingsInv
    <3>2. WritesOf(r)' = WritesOf(r)
      BY <2>1, <3>1 DEF WritesOf
    <3> QED
      BY <2>1, <3>1, <3>2 DEF SettingsInOrder
  <2>4. (\A q \in hydrated : Hydrates(q))'
    BY <2>1 DEF SettingsInv, Hydrates
  <2> QED
    BY <2>1, <2>2, <2>3, <2>4 DEF SettingsInv
<1> QED
  BY <1>1, <1>2, <1>3, <1>4, <1>5, <1>6, <1>7 DEF StateNext

LEMMA SettingsFollow == SettingsInv => SettingsSound
  BY DEF SettingsInv, SettingsSound, ChangesKept, StartsCurrent, SettingsInOrder, Hydrates

---------------------------------------------------------------------------
(* The process without a database.                                         *)

Capital(S) == MapThenSumSet(LAMBDA e : e.amount, S)
Margins(S) == MapThenSumSet(LAMBDA t : t.margin, S)
Profits(S) == MapThenSumSet(Pnl, S)

LEMMA CapitalAre ==
    ASSUME NEW U, IsFiniteSet(U), \A t \in U : t.amount \in Int
    PROVE  \E g : Sums(g, [t \in U |-> t.amount], U) /\ \A T \in SUBSET U : Capital(T) = g[T]
<1> DEFINE f == [t \in U |-> t.amount]
<1>1. f \in [U -> Int]
  OBVIOUS
<1>2. PICK g : Sums(g, f, U)
  <2> HIDE DEF f
  <2> QED
    BY <1>1, SumsExist
<1>3. ASSUME NEW T \in SUBSET U PROVE Capital(T) = g[T]
  <2> DEFINE Rec(r) == r = [s \in SUBSET T |-> IF s = {} THEN 0
                             ELSE (CHOOSE x \in s : TRUE).amount + r[s \ {CHOOSE x \in s : TRUE}]]
             sums == CHOOSE r : Rec(r)
  <2>1. Capital(T) = sums[T]
    BY DEF Capital, MapThenSumSet, MapThenFoldSet
  <2>2. ASSUME NEW r PROVE Rec(r) <=> Folded(r, f, T)
    <3>1. \A s \in SUBSET T : s # {} => f[Taken(s)] = (CHOOSE x \in s : TRUE).amount
      BY OneFewer DEF Taken
    <3> QED
      BY <3>1 DEF Folded, Taken
  <2>3. \E r : Rec(r)
    <3>1. \E r : Folded(r, f, T)
      <4> HIDE DEF f
      <4> QED
        BY <1>1, <1>2, FoldExists
    <3> HIDE DEF Rec, f
    <3> QED
      BY <2>2, <3>1
  <2>4. Rec(sums)
    <3> HIDE DEF Rec, f
    <3> QED
      BY <2>3
  <2>5. Folded(sums, f, T)
    <3> HIDE DEF sums, Rec, f
    <3> QED
      BY <2>2, <2>4
  <2> HIDE DEF sums, Rec, f
  <2>6. sums[T] = g[T]
    BY <1>1, <1>2, <2>5, FoldIsSum
  <2> QED
    BY <2>1, <2>6
<1> QED
  BY <1>2, <1>3

LEMMA MarginsAre ==
    ASSUME NEW U, IsFiniteSet(U), \A t \in U : t.margin \in Int
    PROVE  \E g : Sums(g, [t \in U |-> t.margin], U) /\ \A T \in SUBSET U : Margins(T) = g[T]
<1> DEFINE f == [t \in U |-> t.margin]
<1>1. f \in [U -> Int]
  OBVIOUS
<1>2. PICK g : Sums(g, f, U)
  <2> HIDE DEF f
  <2> QED
    BY <1>1, SumsExist
<1>3. ASSUME NEW T \in SUBSET U PROVE Margins(T) = g[T]
  <2> DEFINE Rec(r) == r = [s \in SUBSET T |-> IF s = {} THEN 0
                             ELSE (CHOOSE x \in s : TRUE).margin + r[s \ {CHOOSE x \in s : TRUE}]]
             sums == CHOOSE r : Rec(r)
  <2>1. Margins(T) = sums[T]
    BY DEF Margins, MapThenSumSet, MapThenFoldSet
  <2>2. ASSUME NEW r PROVE Rec(r) <=> Folded(r, f, T)
    <3>1. \A s \in SUBSET T : s # {} => f[Taken(s)] = (CHOOSE x \in s : TRUE).margin
      BY OneFewer DEF Taken
    <3> QED
      BY <3>1 DEF Folded, Taken
  <2>3. \E r : Rec(r)
    <3>1. \E r : Folded(r, f, T)
      <4> HIDE DEF f
      <4> QED
        BY <1>1, <1>2, FoldExists
    <3> HIDE DEF Rec, f
    <3> QED
      BY <2>2, <3>1
  <2>4. Rec(sums)
    <3> HIDE DEF Rec, f
    <3> QED
      BY <2>3
  <2>5. Folded(sums, f, T)
    <3> HIDE DEF sums, Rec, f
    <3> QED
      BY <2>2, <2>4
  <2> HIDE DEF sums, Rec, f
  <2>6. sums[T] = g[T]
    BY <1>1, <1>2, <2>5, FoldIsSum
  <2> QED
    BY <2>1, <2>6
<1> QED
  BY <1>2, <1>3

LEMMA ProfitsAre ==
    ASSUME NEW U, IsFiniteSet(U), \A t \in U : Pnl(t) \in Int
    PROVE  \E g : Sums(g, [t \in U |-> Pnl(t)], U) /\ \A T \in SUBSET U : Profits(T) = g[T]
<1> DEFINE f == [t \in U |-> Pnl(t)]
<1>1. f \in [U -> Int]
  OBVIOUS
<1>2. PICK g : Sums(g, f, U)
  <2> HIDE DEF f
  <2> QED
    BY <1>1, SumsExist
<1>3. ASSUME NEW T \in SUBSET U PROVE Profits(T) = g[T]
  <2> DEFINE Rec(r) == r = [s \in SUBSET T |-> IF s = {} THEN 0
                             ELSE Pnl(CHOOSE x \in s : TRUE) + r[s \ {CHOOSE x \in s : TRUE}]]
             sums == CHOOSE r : Rec(r)
  <2>1. Profits(T) = sums[T]
    BY DEF Profits, MapThenSumSet, MapThenFoldSet
  <2>2. ASSUME NEW r PROVE Rec(r) <=> Folded(r, f, T)
    <3>1. \A s \in SUBSET T : s # {} => f[Taken(s)] = Pnl(CHOOSE x \in s : TRUE)
      BY OneFewer DEF Taken
    <3> QED
      BY <3>1 DEF Folded, Taken
  <2>3. \E r : Rec(r)
    <3>1. \E r : Folded(r, f, T)
      <4> HIDE DEF f
      <4> QED
        BY <1>1, <1>2, FoldExists
    <3> HIDE DEF Rec, f
    <3> QED
      BY <2>2, <3>1
  <2>4. Rec(sums)
    <3> HIDE DEF Rec, f
    <3> QED
      BY <2>3
  <2>5. Folded(sums, f, T)
    <3> HIDE DEF sums, Rec, f
    <3> QED
      BY <2>2, <2>4
  <2> HIDE DEF sums, Rec, f
  <2>6. sums[T] = g[T]
    BY <1>1, <1>2, <2>5, FoldIsSum
  <2> QED
    BY <2>1, <2>6
<1> QED
  BY <1>2, <1>3

LEMMA CapitalIs ==
    ASSUME NEW U, IsFiniteSet(U), \A e \in U : e.amount \in Int
    PROVE  Capital(U) \in Int
<1>1. PICK g : Sums(g, [e \in U |-> e.amount], U) /\ \A T \in SUBSET U : Capital(T) = g[T]
  BY CapitalAre
<1>2. U \in SUBSET U
  OBVIOUS
<1> QED
  BY <1>1, <1>2 DEF Sums

LEMMA CapitalIsMore ==
    ASSUME NEW U, IsFiniteSet(U), \A e \in U : e.amount \in Int,
           NEW s \in SUBSET U, NEW q \in U, q \notin s, U = s \cup {q}
    PROVE  Capital(U) = Capital(s) + q.amount
<1> DEFINE f == [e \in U |-> e.amount]
<1>1. PICK g : Sums(g, f, U) /\ \A A \in SUBSET U : Capital(A) = g[A]
  BY CapitalAre
<1>2. f \in [U -> Int] /\ f[q] = q.amount
  OBVIOUS
<1>3. PICK u \in SUBSET U : u = U /\ u = s \cup {q}
  OBVIOUS
<1>4. g[u] = g[s] + f[q]
  <2> HIDE DEF f
  <2> QED
    BY <1>1, <1>2, <1>3, SumOfOneMore
<1> QED
  BY <1>1, <1>2, <1>3, <1>4

LEMMA MarginsAreNat ==
    ASSUME NEW U, IsFiniteSet(U), \A t \in U : t.margin \in Nat
    PROVE  Margins(U) \in Nat
<1> DEFINE f == [t \in U |-> t.margin]
<1>0. \A t \in U : t.margin \in Int
  OBVIOUS
<1>1. PICK g : Sums(g, f, U) /\ \A T \in SUBSET U : Margins(T) = g[T]
  BY <1>0, MarginsAre
<1>2. f \in [U -> Int] /\ \A t \in U : f[t] >= 0
  OBVIOUS
<1>3. PICK u \in SUBSET U : u = U
  OBVIOUS
<1>4. g[u] \in Nat
  <2> HIDE DEF f
  <2> QED
    BY <1>1, <1>2, <1>3, SumsNotNegative
<1> QED
  BY <1>1, <1>3, <1>4

LEMMA MarginsAreMore ==
    ASSUME NEW U, IsFiniteSet(U), \A t \in U : t.margin \in Nat,
           NEW s \in SUBSET U, NEW q \in U, q \notin s, U = s \cup {q}
    PROVE  Margins(U) = Margins(s) + q.margin
<1> DEFINE f == [t \in U |-> t.margin]
<1>0. \A t \in U : t.margin \in Int
  OBVIOUS
<1>1. PICK g : Sums(g, f, U) /\ \A A \in SUBSET U : Margins(A) = g[A]
  BY <1>0, MarginsAre
<1>2. f \in [U -> Int] /\ f[q] = q.margin
  OBVIOUS
<1>3. PICK u \in SUBSET U : u = U /\ u = s \cup {q}
  OBVIOUS
<1>4. g[u] = g[s] + f[q]
  <2> HIDE DEF f
  <2> QED
    BY <1>1, <1>2, <1>3, SumOfOneMore
<1> QED
  BY <1>1, <1>2, <1>3, <1>4

LEMMA NoProfit ==
    ASSUME NEW U, IsFiniteSet(U), \A t \in U : Pnl(t) \in Int /\ Pnl(t) <= 0
    PROVE  Profits(U) \in Int /\ Profits(U) <= 0
<1> DEFINE f == [t \in U |-> Pnl(t)]
<1>0. \A t \in U : Pnl(t) \in Int
  OBVIOUS
<1>1. PICK g : Sums(g, f, U) /\ \A T \in SUBSET U : Profits(T) = g[T]
  BY <1>0, ProfitsAre
<1>2. f \in [U -> Int] /\ \A t \in U : f[t] <= 0
  OBVIOUS
<1>3. g[U] \in Int /\ g[U] <= 0
  <2> HIDE DEF f
  <2> QED
    BY <1>1, <1>2, SumsNotPositive
<1>4. U \in SUBSET U
  OBVIOUS
<1> QED
  BY <1>1, <1>3, <1>4

\* What is more than the larger of nothing and x is more than x; and a positive
\* amount within it is within x.
LEMMA WithinMax ==
    ASSUME NEW x \in Int, NEW m \in Int, m > 0, m <= Max({0, x})
    PROVE  m <= x
<1>1. PICK y : y = Max({0, x})
  OBVIOUS
<1>2. \E z \in {0, x} : \A w \in {0, x} : z >= w
  OBVIOUS
<1>3. y \in {0, x}
  BY <1>1, <1>2 DEF Max
<1> QED
  BY <1>1, <1>3

Trade == [id : Nat, side : {"BUY", "SELL"}, quantity : Nat, entry : Int, margin : Nat, sl : Nat, tp : Nat]
LedgerEntry == [id : Nat, amount : Int, status : {"APPROVED", "REJECTED", "PENDING_ADMIN"}]
Approved(S) == {e \in S : e.status = "APPROVED"}

SandboxTypeOK ==
    /\ mid \in Mids /\ tickets \in Nat /\ drifted \in BOOLEAN
    /\ trades \subseteq Trade /\ IsFiniteSet(trades)
    /\ entries \subseteq LedgerEntry /\ IsFiniteSet(entries)
TicketsAreNew ==
    /\ \A t \in trades : t.id <= tickets
    /\ \A e \in entries : e.id <= tickets
    /\ \A t, u \in trades : t.id = u.id => t = u

\* Until something drifts an open trade is worth its spread less than it cost.
EnteredHere == ~drifted => \A t \in trades : t.entry = Fill(t.side)
SandboxInv == SandboxTypeOK /\ TicketsAreNew /\ EnteredHere /\ TradesWithinMeans

LEMMA InSets == MarginUsed = Margins(trades) /\ Allocated = Capital(Approved(entries))
                /\ UnrealizedPnl = Profits(trades)
  BY DEF MarginUsed, Margins, Allocated, Capital, Approved, UnrealizedPnl, Profits

LEMMA MidTyped ==
    ASSUME SandboxTypeOK
    PROVE  mid \in Nat /\ \A side \in {"BUY", "SELL"} : Fill(side) \in Int
  BY SandboxAssumption DEF SandboxTypeOK, Fill

\* What counts, and that no trade has won anything.
LEMMA SandboxSums ==
    ASSUME SandboxTypeOK
    PROVE  /\ Margins(trades) \in Nat /\ Capital(Approved(entries)) \in Int
           /\ EnteredHere /\ ~drifted => Profits(trades) \in Int /\ Profits(trades) <= 0
<1>1. \A t \in trades : t.margin \in Nat
  BY DEF SandboxTypeOK, Trade
<1>2. Margins(trades) \in Nat
  BY <1>1, MarginsAreNat DEF SandboxTypeOK
<1>3. IsFiniteSet(Approved(entries)) /\ \A e \in Approved(entries) : e.amount \in Int
  BY FS_Subset DEF SandboxTypeOK, Approved, LedgerEntry
<1>4. Capital(Approved(entries)) \in Int
  BY <1>3, CapitalIs
<1>5. ASSUME EnteredHere, ~drifted, NEW t \in trades PROVE Pnl(t) \in Int /\ Pnl(t) <= 0
  <2>1. t \in Trade
    BY DEF SandboxTypeOK
  <2>2. t.side \in {"BUY", "SELL"} /\ t.quantity \in Nat
    BY <2>1 DEF Trade
  <2>3. PICK q \in Nat, m \in Nat : q = t.quantity /\ m = mid
    BY <2>2, MidTyped
  <2>4. t.entry = Fill(t.side)
    BY <1>5 DEF EnteredHere
  <2>5. CASE t.side = "BUY"
    <3>1. t.entry = m + 1
      BY <2>3, <2>4, <2>5 DEF Fill
    <3>2. Pnl(t) = (m - (m + 1)) * q * 1
      BY <2>3, <2>5, <3>1 DEF Pnl
    <3>3. (m - (m + 1)) * q * 1 = -q
      OBVIOUS
    <3> QED
      BY <2>3, <3>2, <3>3
  <2>6. CASE t.side = "SELL"
    <3>1. t.entry = m - 1
      BY <2>3, <2>4, <2>6 DEF Fill
    <3>2. Pnl(t) = (m - (m - 1)) * q * (-1)
      BY <2>3, <2>6, <3>1 DEF Pnl
    <3>3. (m - (m - 1)) * q * (-1) = -q
      OBVIOUS
    <3> QED
      BY <2>3, <3>2, <3>3
  <2> QED
    BY <2>2, <2>5, <2>6
<1>6. EnteredHere /\ ~drifted => Profits(trades) \in Int /\ Profits(trades) <= 0
  BY <1>5, NoProfit DEF SandboxTypeOK
<1> QED
  BY <1>2, <1>4, <1>6

LEMMA MarginRequiredIs ==
    ASSUME SandboxTypeOK, NEW side \in {"BUY", "SELL"}, NEW quantity \in Quantities
    PROVE  MarginRequired(side, quantity) \in Nat /\ MarginRequired(side, quantity) > 0
<1>1. PICK m \in Nat, q \in Nat, k \in Nat : m = mid /\ q = quantity /\ k = Leverage /\ k > 0
  BY SandboxAssumption, MidTyped
<1>2. k <= (m - 1) * q
  BY <1>1, SandboxAssumption DEF SandboxTypeOK
<1>3. PICK b \in Int : b = (m - 1) * q
  OBVIOUS
<1>4. (m + 1) * q = b + 2 * q
  BY <1>3
<1>5. PICK x \in Int : x = Fill(side) * quantity /\ k <= x
  <2>1. CASE side = "BUY"
    <3>1. Fill(side) * quantity = (m + 1) * q
      BY <1>1, <2>1 DEF Fill
    <3> QED
      BY <1>2, <1>3, <1>4, <3>1
  <2>2. CASE side = "SELL"
    <3>1. Fill(side) * quantity = (m - 1) * q
      BY <1>1, <2>2 DEF Fill
    <3> QED
      BY <1>2, <1>3, <3>1
  <2> QED
    BY <2>1, <2>2
<1>6. x \div k \in Int /\ x \div k > 0
  BY <1>1, <1>5
<1> QED
  BY <1>1, <1>5, <1>6 DEF MarginRequired

LEMMA SandboxInitially == SandboxInit => SandboxInv
<1> SUFFICES ASSUME SandboxInit PROVE SandboxInv
  OBVIOUS
<1>1. [id |-> 0, amount |-> SeedCapital, status |-> "APPROVED"] \in LedgerEntry
      /\ [id |-> 0, amount |-> SeedCapital, status |-> "APPROVED"].id = 0
  BY SandboxAssumption DEF LedgerEntry
<1>2. IsFiniteSet(trades) /\ IsFiniteSet(entries) /\ entries \subseteq LedgerEntry
  BY <1>1, FS_EmptySet, FS_Singleton DEF SandboxInit
<1>3. SandboxTypeOK
  BY <1>2 DEF SandboxInit, SandboxTypeOK
<1>4. TicketsAreNew
  BY <1>1 DEF SandboxInit, TicketsAreNew
<1> QED
  BY <1>3, <1>4 DEF SandboxInit, SandboxInv, EnteredHere, TradesWithinMeans

LEMMA SandboxStep == SandboxInv /\ [SandboxNext]_sandboxVars => SandboxInv'
<1> SUFFICES ASSUME SandboxInv, [SandboxNext]_sandboxVars PROVE SandboxInv'
  OBVIOUS
<1>t. SandboxTypeOK
  BY DEF SandboxInv
<1>n. mid \in Nat /\ tickets \in Nat /\ drifted \in BOOLEAN
  BY <1>t, MidTyped DEF SandboxTypeOK
<1>s. /\ Margins(trades) \in Nat /\ Capital(Approved(entries)) \in Int
      /\ ~drifted => Profits(trades) \in Int /\ Profits(trades) <= 0
      /\ ~drifted /\ trades # {} => Margins(trades) <= Capital(Approved(entries))
  BY <1>t, SandboxSums, InSets DEF SandboxInv, TradesWithinMeans
<1>w. (~drifted' /\ trades' # {} => Margins(trades') <= Capital(Approved(entries'))) => TradesWithinMeans'
  <2>1. MarginUsed' = Margins(trades')
    BY DEF MarginUsed, Margins, MapThenSumSet, MapThenFoldSet
  <2>2. Allocated' = Capital(Approved(entries'))
    BY DEF Allocated, Capital, Approved, MapThenSumSet, MapThenFoldSet
  <2> QED
    BY <2>1, <2>2 DEF TradesWithinMeans
<1>1. CASE UNCHANGED <<mid, trades, entries, tickets, drifted>>
  <2>1. TradesWithinMeans'
    BY <1>1, <1>s, <1>w
  <2> QED
    BY <1>1, <2>1 DEF SandboxInv, SandboxTypeOK, TicketsAreNew, EnteredHere, Fill
<1>2. ASSUME NEW side \in {"BUY", "SELL"}, NEW quantity \in Quantities, PlaceOrder(side, quantity)
      PROVE  SandboxInv'
  <2>1. PICK m \in Nat : m = MarginRequired(side, quantity) /\ m > 0
    BY <1>t, MarginRequiredIs
  <2>2. PICK t : t = [id |-> tickets + 1, side |-> side, quantity |-> quantity, entry |-> Fill(side),
                      margin |-> m, sl |-> 0, tp |-> 0]
    OBVIOUS
  <2>3. /\ t \in Trade /\ t.id = tickets + 1 /\ t.margin = m /\ t.side = side /\ t.entry = Fill(side)
    <3>1. quantity \in Nat /\ Fill(side) \in Int /\ tickets + 1 \in Nat
      BY <1>t, <1>n, MidTyped, SandboxAssumption
    <3> QED
      BY <2>2, <3>1 DEF Trade
  <2>4. /\ UNCHANGED <<mid, entries, drifted>> /\ tickets' = tickets + 1
        /\ \/ trades' = trades
           \/ trades' = trades \cup {t} /\ Acceptable(side, quantity)
    BY <1>2, <2>1, <2>2 DEF PlaceOrder, Ticket
  <2>5. CASE trades' = trades
    <3>1. TradesWithinMeans'
      BY <1>s, <1>w, <2>4, <2>5
    <3>2. SandboxTypeOK'
      BY <1>t, <1>n, <2>4, <2>5 DEF SandboxTypeOK
    <3>3. TicketsAreNew'
      <4>1. \A x \in trades : x.id \in Nat
        BY <1>t DEF SandboxTypeOK, Trade
      <4>2. \A x \in entries : x.id \in Nat
        BY <1>t DEF SandboxTypeOK, LedgerEntry
      <4> QED
        BY <1>n, <2>4, <2>5, <4>1, <4>2 DEF SandboxInv, TicketsAreNew
    <3> QED
      BY <2>4, <2>5, <3>1, <3>2, <3>3 DEF SandboxInv, EnteredHere, Fill
  <2>6. CASE trades' = trades \cup {t} /\ Acceptable(side, quantity)
    <3>1. \A x \in trades : x.id \in Nat /\ x.id <= tickets /\ x.margin \in Nat
      BY <1>t DEF SandboxTypeOK, Trade, SandboxInv, TicketsAreNew
    <3>2. \A x \in entries : x.id \in Nat /\ x.id <= tickets
      BY <1>t DEF SandboxTypeOK, LedgerEntry, SandboxInv, TicketsAreNew
    <3>3. t \notin trades /\ \A x \in trades : x.id # t.id
      BY <1>n, <2>3, <3>1
    <3>4. PICK U : U = trades' /\ U = trades \cup {t}
      BY <2>6
    <3>5. U \subseteq Trade /\ IsFiniteSet(U)
      BY <1>t, <2>3, <3>4, FS_AddElement DEF SandboxTypeOK
    <3>6. SandboxTypeOK'
      BY <1>t, <1>n, <2>4, <3>4, <3>5 DEF SandboxTypeOK
    <3>7. TicketsAreNew'
      <4>1. \A x \in U : x.id <= tickets + 1
        BY <1>n, <2>3, <3>1, <3>4
      <4>2. \A x \in entries : x.id <= tickets + 1
        BY <1>n, <3>2
      <4>3. \A x, y \in U : x.id = y.id => x = y
        BY <3>3, <3>4 DEF SandboxInv, TicketsAreNew
      <4> QED
        BY <2>4, <3>4, <4>1, <4>2, <4>3 DEF TicketsAreNew
    <3>8. EnteredHere'
      <4>1. ~drifted => \A x \in U : x.entry = Fill(x.side)
        BY <2>3, <3>4 DEF SandboxInv, EnteredHere
      <4> QED
        BY <2>4, <3>4, <4>1 DEF EnteredHere, Fill
    <3>9. ASSUME ~drifted PROVE Margins(U) <= Capital(Approved(entries))
      <4>1. PICK a \in Int, b \in Nat, c \in Int :
                 a = Capital(Approved(entries)) /\ b = Margins(trades) /\ c = Profits(trades) /\ c <= 0
        BY <1>s, <3>9
      <4>2. a + c - b \in Int /\ m <= Max({0, a + c - b})
        BY <2>1, <2>6, <4>1, InSets DEF Acceptable, FreeMargin, Equity
      <4>3. m <= a + c - b
        BY <2>1, <4>2, WithinMax
      <4>4. Margins(U) = b + m
        <5>1. \A x \in U : x.margin \in Nat
          BY <2>3, <3>1, <3>4
        <5>2. trades \in SUBSET U /\ t \in U
          BY <3>4
        <5> QED
          BY <2>3, <3>3, <3>4, <3>5, <4>1, <5>1, <5>2, MarginsAreMore
      <4> QED
        BY <4>1, <4>3, <4>4
    <3>10. TradesWithinMeans'
      BY <1>w, <2>4, <3>4, <3>9
    <3> QED
      BY <3>6, <3>7, <3>8, <3>10 DEF SandboxInv
  <2> QED
    BY <2>4, <2>5, <2>6
<1>3. ASSUME NEW t \in trades, ClosePosition(t) PROVE SandboxInv'
  <2>1. PICK U : U = trades' /\ U = trades \ {t}
    BY <1>3 DEF ClosePosition
  <2>2. UNCHANGED <<mid, entries, tickets, drifted>>
    BY <1>3 DEF ClosePosition
  <2>3. U \subseteq Trade /\ IsFiniteSet(U) /\ \A x \in trades : x.margin \in Nat
    BY <1>t, <2>1, FS_Subset DEF SandboxTypeOK, Trade
  <2>4. SandboxTypeOK'
    BY <1>t, <2>1, <2>2, <2>3 DEF SandboxTypeOK
  <2>5. TicketsAreNew' /\ EnteredHere'
    BY <2>1, <2>2 DEF SandboxInv, TicketsAreNew, EnteredHere, Fill
  <2>6. Margins(trades) = Margins(U) + t.margin
    <3>1. U \in SUBSET trades /\ t \notin U /\ trades = U \cup {t}
      BY <2>1
    <3>2. IsFiniteSet(trades)
      BY <1>t DEF SandboxTypeOK
    <3> QED
      BY <2>3, <3>1, <3>2, MarginsAreMore
  <2>7. Margins(U) \in Nat /\ t.margin \in Nat
    BY <2>1, <2>3, MarginsAreNat
  <2>8. Margins(U) <= Margins(trades)
    BY <2>6, <2>7
  <2>9. ~drifted /\ U # {} => Margins(U) <= Capital(Approved(entries))
    BY <1>s, <2>1, <2>7, <2>8
  <2>10. TradesWithinMeans'
    BY <1>w, <2>1, <2>2, <2>9
  <2> QED
    BY <2>4, <2>5, <2>10 DEF SandboxInv
<1>4. ASSUME NEW t \in trades, NEW sl \in Mids, NEW tp \in Mids, ModifySlTp(t, sl, tp)
      PROVE  SandboxInv'
  <2>1. PICK u : u = [t EXCEPT !.sl = sl, !.tp = tp]
    OBVIOUS
  <2>2. /\ u \in Trade /\ u.id = t.id /\ u.margin = t.margin /\ u.side = t.side /\ u.entry = t.entry
    <3>1. t \in Trade /\ sl \in Nat /\ tp \in Nat
      BY <1>t, SandboxAssumption DEF SandboxTypeOK
    <3> QED
      BY <2>1, <3>1 DEF Trade
  <2>3. PICK U, V : U = trades' /\ V = trades \ {t} /\ U = V \cup {u}
    BY <1>4, <2>1 DEF ModifySlTp
  <2>4. UNCHANGED <<mid, entries, tickets, drifted>>
    BY <1>4 DEF ModifySlTp
  <2>5. /\ V \subseteq Trade /\ IsFiniteSet(V) /\ U \subseteq Trade /\ IsFiniteSet(U)
        /\ (\A x \in trades : x.margin \in Nat) /\ \A x \in U : x.margin \in Nat
    <3>1. V \subseteq Trade /\ IsFiniteSet(V) /\ \A x \in trades : x.margin \in Nat
      BY <1>t, <2>3, FS_Subset DEF SandboxTypeOK, Trade
    <3>2. U \subseteq Trade /\ IsFiniteSet(U)
      <4>1. IsFiniteSet(V \cup {u})
        BY <3>1, FS_AddElement
      <4> QED
        BY <2>2, <2>3, <3>1, <4>1
    <3> QED
      BY <3>1, <3>2 DEF Trade
  <2>6. SandboxTypeOK'
    BY <1>t, <2>3, <2>4, <2>5 DEF SandboxTypeOK
  <2>7. TicketsAreNew' /\ EnteredHere'
    <3>1. \A x \in U : x.id <= tickets
      BY <2>2, <2>3 DEF SandboxInv, TicketsAreNew
    <3>2. \A x, y \in U : x.id = y.id => x = y
      BY <2>2, <2>3 DEF SandboxInv, TicketsAreNew
    <3>3. ~drifted => \A x \in U : x.entry = Fill(x.side)
      BY <2>2, <2>3 DEF SandboxInv, EnteredHere
    <3> QED
      BY <2>3, <2>4, <3>1, <3>2, <3>3 DEF SandboxInv, TicketsAreNew, EnteredHere, Fill
  <2>8. u \notin V
    BY <2>2, <2>3 DEF SandboxInv, TicketsAreNew
  <2>9. Margins(trades) = Margins(V) + t.margin
    <3>1. V \in SUBSET trades /\ t \notin V /\ trades = V \cup {t}
      BY <2>3
    <3>2. IsFiniteSet(trades)
      BY <1>t DEF SandboxTypeOK
    <3> QED
      BY <2>5, <3>1, <3>2, MarginsAreMore
  <2>10. Margins(U) = Margins(V) + u.margin
    <3>1. V \in SUBSET U /\ u \in U
      BY <2>3
    <3> QED
      BY <2>3, <2>5, <2>8, <3>1, MarginsAreMore
  <2>11. Margins(U) = Margins(trades)
    BY <2>2, <2>9, <2>10
  <2>12. TradesWithinMeans'
    BY <1>s, <1>w, <2>3, <2>4, <2>11
  <2> QED
    BY <2>6, <2>7, <2>12 DEF SandboxInv
<1>5. ASSUME NEW E, E = entries', IsFiniteSet(E), E \subseteq LedgerEntry,
             \A e \in E : e.id <= tickets + 1, tickets' = tickets + 1, UNCHANGED <<mid, trades>>,
             drifted' \in BOOLEAN, drifted => drifted',
             ~drifted' /\ trades # {} => Capital(Approved(entries)) <= Capital(Approved(E))
      PROVE  SandboxInv'
  <2>1. SandboxTypeOK'
    BY <1>t, <1>n, <1>5 DEF SandboxTypeOK
  <2>2. TicketsAreNew'
    <3>1. \A x \in trades : x.id \in Nat /\ x.id <= tickets
      BY <1>t DEF SandboxTypeOK, Trade, SandboxInv, TicketsAreNew
    <3>2. \A x \in trades : x.id <= tickets + 1
      BY <1>n, <3>1
    <3> QED
      BY <1>5, <3>2 DEF SandboxInv, TicketsAreNew
  <2>3. EnteredHere'
    BY <1>5 DEF SandboxInv, EnteredHere, Fill
  <2>4. TradesWithinMeans'
    <3>1. ASSUME ~drifted', trades # {} PROVE Margins(trades) <= Capital(Approved(E))
      <4>1. Capital(Approved(E)) \in Int
        <5>1. IsFiniteSet(Approved(E)) /\ \A e \in Approved(E) : e.amount \in Int
          BY <1>5, FS_Subset DEF Approved, LedgerEntry
        <5> QED
          BY <5>1, CapitalIs
      <4>2. Margins(trades) <= Capital(Approved(entries))
        BY <1>s, <1>5, <3>1
      <4> QED
        BY <1>s, <1>5, <3>1, <4>1, <4>2
    <3> QED
      BY <1>w, <1>5, <3>1
  <2> QED
    BY <2>1, <2>2, <2>3, <2>4 DEF SandboxInv
<1>e. /\ entries \subseteq LedgerEntry /\ IsFiniteSet(entries)
      /\ \A e \in entries : e.id \in Nat /\ e.id <= tickets /\ e.id <= tickets + 1
  <2>1. \A e \in entries : e.id \in Nat /\ e.id <= tickets
    BY <1>t DEF SandboxTypeOK, LedgerEntry, SandboxInv, TicketsAreNew
  <2> QED
    BY <1>t, <1>n, <2>1 DEF SandboxTypeOK
<1>6. ASSUME NEW amount \in Int, RequestCapital(amount) PROVE SandboxInv'
  <2>0. PICK st \in {"REJECTED", "PENDING_ADMIN"} :
             entries' = entries \cup {[id |-> tickets + 1, amount |-> amount, status |-> st]}
    BY <1>6 DEF RequestCapital
  <2>1. PICK e : /\ e = [id |-> tickets + 1, amount |-> amount, status |-> st]
                 /\ entries' = entries \cup {e}
    BY <2>0
  <2>2. tickets' = tickets + 1 /\ UNCHANGED <<mid, trades, drifted>>
    BY <1>6 DEF RequestCapital, Ticket
  <2>3. e \in LedgerEntry /\ e.id = tickets + 1 /\ e.status # "APPROVED"
    BY <1>n, <2>1 DEF LedgerEntry
  <2>4. PICK E : E = entries'
    OBVIOUS
  <2>5. /\ IsFiniteSet(E) /\ E \subseteq LedgerEntry /\ \A x \in E : x.id <= tickets + 1
    BY <1>n, <1>e, <2>1, <2>3, <2>4, FS_AddElement
  <2>6. Approved(E) = Approved(entries)
    BY <2>1, <2>3, <2>4 DEF Approved
  <2> QED
    BY <1>n, <1>s, <1>5, <2>2, <2>4, <2>5, <2>6
<1>7. ASSUME NEW amount \in Int, AllocateCapital(amount) PROVE SandboxInv'
  <2>1. PICK e : e = [id |-> tickets + 1, amount |-> amount, status |-> "APPROVED"]
    OBVIOUS
  <2>2. /\ entries' = entries \cup {e} /\ tickets' = tickets + 1 /\ UNCHANGED <<mid, trades>>
        /\ drifted' = (drifted \/ (amount < 0 /\ trades # {}))
    BY <1>7, <2>1 DEF AllocateCapital, Ticket
  <2>3. e \in LedgerEntry /\ e.id = tickets + 1 /\ e.status = "APPROVED" /\ e.amount = amount
    BY <1>n, <2>1 DEF LedgerEntry
  <2>4. PICK E : E = entries'
    OBVIOUS
  <2>5. /\ IsFiniteSet(E) /\ E \subseteq LedgerEntry /\ \A x \in E : x.id <= tickets + 1
    BY <1>n, <1>e, <2>2, <2>3, <2>4, FS_AddElement
  <2>6. Capital(Approved(E)) = Capital(Approved(entries)) + amount
    <3>1. PICK A, B : A = Approved(E) /\ B = Approved(entries)
      OBVIOUS
    <3>2. e \notin entries
      BY <1>n, <1>e, <2>3
    <3>3. B \in SUBSET A /\ e \in A /\ e \notin B /\ A = B \cup {e} /\ A \subseteq E
      BY <2>2, <2>3, <2>4, <3>1, <3>2 DEF Approved
    <3>4. IsFiniteSet(A) /\ \A x \in A : x.amount \in Int
      BY <2>5, <3>3, FS_Subset DEF LedgerEntry
    <3>5. Capital(A) = Capital(B) + e.amount
      BY <3>3, <3>4, CapitalIsMore
    <3> QED
      BY <2>3, <3>1, <3>5
  <2>7. ~drifted' /\ trades # {} => Capital(Approved(entries)) <= Capital(Approved(E))
    <3>1. PICK a \in Int : a = Capital(Approved(entries)) /\ Capital(Approved(E)) = a + amount
      BY <1>s, <2>6
    <3>2. ~drifted' /\ trades # {} => ~(amount < 0)
      BY <2>2
    <3>3. ~(amount < 0) => a <= a + amount
      OBVIOUS
    <3> QED
      BY <3>1, <3>2, <3>3
  <2>8. drifted' \in BOOLEAN /\ (drifted => drifted')
    BY <1>n, <2>2
  <2> QED
    BY <1>5, <2>2, <2>4, <2>5, <2>7, <2>8
<1>8. ASSUME NEW e \in entries, NEW status \in {"APPROVED", "REJECTED"}, ReviewLedger(e, status)
      PROVE  SandboxInv'
  <2>1. PICK a, b : /\ a = [e EXCEPT !.status = status]
                    /\ b = [id |-> tickets + 1, amount |-> e.amount, status |-> "APPROVED"]
    OBVIOUS
  <2>2. /\ entries' = (entries \ {e}) \cup {a} \cup (IF status = "APPROVED" THEN {b} ELSE {})
        /\ tickets' = tickets + 1 /\ UNCHANGED <<mid, trades>>
        /\ drifted' = (drifted \/ trades # {})
    BY <1>8, <2>1 DEF ReviewLedger, Ticket
  <2>3. a \in LedgerEntry /\ a.id = e.id /\ b \in LedgerEntry /\ b.id = tickets + 1
    <3>1. e \in LedgerEntry
      BY <1>e
    <3> QED
      BY <1>n, <2>1, <3>1 DEF LedgerEntry
  <2>4. PICK E, D : E = entries' /\ D = (entries \ {e}) \cup {a} /\ (E = D \/ E = D \cup {b})
    BY <2>2
  <2>5. IsFiniteSet(D)
    <3>1. IsFiniteSet(entries \ {e})
      BY <1>e, FS_RemoveElement
    <3> QED
      BY <2>4, <3>1, FS_AddElement
  <2>6. IsFiniteSet(E)
    BY <2>4, <2>5, FS_AddElement
  <2>7. E \subseteq LedgerEntry /\ \A x \in E : x.id <= tickets + 1
    BY <1>n, <1>e, <2>3, <2>4
  <2>8. drifted' \in BOOLEAN /\ (drifted => drifted') /\ ~(~drifted' /\ trades # {})
    BY <1>n, <2>2
  <2> QED
    BY <1>5, <2>2, <2>4, <2>6, <2>7, <2>8
<1>9. CASE PriceMoves
  <2>1. mid' \in Mids /\ drifted' = (drifted \/ trades # {}) /\ UNCHANGED <<trades, entries, tickets>>
    BY <1>9 DEF PriceMoves
  <2>2. SandboxTypeOK' /\ TicketsAreNew'
    BY <1>t, <1>n, <2>1 DEF SandboxTypeOK, SandboxInv, TicketsAreNew
  <2>3. ~drifted' => trades' = {}
    BY <2>1
  <2> QED
    BY <2>2, <2>3 DEF SandboxInv, EnteredHere, TradesWithinMeans
<1>10. CASE SwitchTrading
  BY <1>1, <1>10 DEF SwitchTrading
<1>11. \A amount \in Amounts : amount \in Int /\ -amount \in Int
  BY SandboxAssumption
<1> QED
  BY <1>1, <1>2, <1>3, <1>4, <1>6, <1>7, <1>8, <1>9, <1>10, <1>11 DEF SandboxNext, sandboxVars

---------------------------------------------------------------------------
(* The simulated account.                                                  *)

PaperPhases == {"idle", "reading", "open", "close", "reset", "saving", "settling", "removing"}
PaperWallet == [balance : Int, margin : Int, total : Int]
Holding == [id : Nat, direction : {-1, 1}, entry : Int, margin : Nat]
PaperRequest == [pc : PaperPhases, kind : {"none", "open", "close", "reset"}, price : Nat,
                 direction : {-1, 1}, wallet : PaperWallet, rows : SUBSET Holding, alone : BOOLEAN]

PaperTypeOK ==
    /\ paper \in PaperWallet /\ holdings \subseteq Holding /\ IsFiniteSet(holdings)
    /\ paperCall \in [PaperCalls -> PaperRequest]
    /\ paperIds \in Nat /\ (\A p \in holdings : p.id < paperIds)
    /\ realized \in Int /\ muddled \in BOOLEAN

\* How far a request is says what it is for; and a close is of one position.
Sense(k) ==
    /\ k.pc # "idle" => k.kind \in {"open", "close", "reset"}
    /\ k.pc \in {"open", "saving"} => k.kind = "open"
    /\ k.pc \in {"close", "settling"} => k.kind = "close"
    /\ k.pc = "reset" => k.kind = "reset"
    /\ k.pc = "removing" => k.kind \in {"close", "reset"}
    /\ k.kind = "close" => \E p \in Holding : k.rows = {p}

\* A request that has met no other is the only one; and where nothing is muddled
\* no request has met another.
TurnsKept ==
    /\ \A c \in PaperCalls : paperCall[c].alone =>
           paperCall[c].pc # "idle" /\ \A d \in PaperCalls : d # c => paperCall[d].pc = "idle"
    /\ ~muddled => \A c \in PaperCalls : paperCall[c].pc # "idle" => paperCall[c].alone

ClearsAll(k, hs) == k.alone /\ k.pc = "removing" /\ k.kind = "reset" => hs \subseteq k.rows

\* The wallet adds up; and so it does at every step of a request, but for what
\* that request has written already.
Balanced(w, hs, profit) == w.margin = Margins(hs) /\ w.total = profit
Books(k, w, hs, profit) ==
    /\ k.pc \in {"reading", "open", "close", "settling"} => Balanced(w, hs, profit)
    /\ k.pc \in {"open", "close", "settling"} => k.wallet = w
    /\ k.pc = "saving" => w.margin = Margins(hs) + k.price \div PaperLeverage /\ w.total = profit
    /\ k.pc = "settling" => k.rows \subseteq hs
    /\ k.pc = "removing" /\ k.kind = "close" =>
           \A p \in k.rows : p \in hs /\ w.margin = Margins(hs) - p.margin /\ w.total = profit

PaperInv ==
    /\ PaperTypeOK /\ TurnsKept
    /\ \A c \in PaperCalls : Sense(paperCall[c]) /\ ClearsAll(paperCall[c], holdings)
    /\ ~muddled /\ AtWork = {} => Balanced(paper, holdings, realized)
    /\ ~muddled => \A c \in PaperCalls : Books(paperCall[c], paper, holdings, realized)

LEMMA NoCallIs ==
    /\ NoCall \in PaperRequest /\ NoCall.pc = "idle" /\ NoCall.alone = FALSE /\ NoCall.kind = "none"
    /\ Sense(NoCall) /\ FreshWallet \in PaperWallet /\ FreshWallet.margin = 0 /\ FreshWallet.total = 0
<1>1. FreshWallet \in PaperWallet /\ FreshWallet.margin = 0 /\ FreshWallet.total = 0
  BY PaperAssumption DEF FreshWallet, PaperWallet
<1>2. NoCall.pc = "idle" /\ NoCall.alone = FALSE /\ NoCall.kind = "none"
  BY DEF NoCall
<1>3. NoCall \in PaperRequest
  <2>1. "idle" \in PaperPhases /\ {} \in SUBSET Holding /\ 0 \in Nat /\ 1 \in {-1, 1}
    BY DEF PaperPhases
  <2> QED
    BY <1>1, <2>1 DEF NoCall, PaperRequest
<1> QED
  BY <1>1, <1>2, <1>3 DEF Sense

LEMMA NoMargins == Margins({}) = 0
<1>1. IsFiniteSet({}) /\ \A t \in {} : t.margin \in Int
  BY FS_EmptySet
<1>2. PICK U : U = {} /\ IsFiniteSet(U) /\ \A t \in U : t.margin \in Int
  BY <1>1
<1>3. PICK g : Sums(g, [t \in U |-> t.margin], U) /\ \A T \in SUBSET U : Margins(T) = g[T]
  BY <1>2, MarginsAre
<1>4. g[{}] = 0
  BY <1>3 DEF Sums
<1> QED
  BY <1>2, <1>3, <1>4

LEMMA PaperInitially == PaperInit => PaperInv
<1> SUFFICES ASSUME PaperInit PROVE PaperInv
  OBVIOUS
<1>1. /\ paper = FreshWallet /\ holdings = {} /\ paperCall = [c \in PaperCalls |-> NoCall]
      /\ paperIds = 0 /\ realized = 0 /\ muddled = FALSE
  BY DEF PaperInit
<1>2. PaperTypeOK
  <2>1. IsFiniteSet(holdings)
    BY <1>1, FS_EmptySet
  <2>2. paperCall \in [PaperCalls -> PaperRequest]
    BY <1>1, NoCallIs
  <2>3. paper \in PaperWallet
    BY <1>1, NoCallIs
  <2>4. holdings \subseteq Holding /\ (\A p \in holdings : p.id < paperIds)
    BY <1>1
  <2>5. paperIds \in Nat /\ realized \in Int
    BY <1>1
  <2>6. muddled \in BOOLEAN
    BY <1>1
  <2> QED
    BY <2>1, <2>2, <2>3, <2>4, <2>5, <2>6 DEF PaperTypeOK
<1>3. \A c \in PaperCalls : paperCall[c] = NoCall
  BY <1>1
<1>4. Balanced(paper, holdings, realized)
  BY <1>1, NoCallIs, NoMargins DEF Balanced
<1>5. TurnsKept
  BY <1>3, NoCallIs DEF TurnsKept
<1>6. \A c \in PaperCalls : Sense(paperCall[c]) /\ ClearsAll(paperCall[c], holdings)
  BY <1>3, NoCallIs DEF ClearsAll
<1>7. \A c \in PaperCalls : Books(paperCall[c], paper, holdings, realized)
  BY <1>3, NoCallIs DEF Books
<1> QED
  BY <1>2, <1>4, <1>5, <1>6, <1>7 DEF PaperInv

\* What is left to show of a step of one request.
LEMMA PaperAfter ==
    ASSUME PaperInv, NEW c \in PaperCalls, NEW k \in PaperRequest, Sense(k), paperCall[c].pc # "idle",
           paperCall' = [paperCall EXCEPT ![c] = k],
           \/ k.pc = "idle" /\ ~k.alone
           \/ k.pc # "idle" /\ k.alone = paperCall[c].alone,
           muddled' \in BOOLEAN,
           ~muddled' => ~muddled \/ (paperCall[c].alone /\ k.pc = "idle"),
           paper' \in PaperWallet, holdings' \subseteq Holding, IsFiniteSet(holdings'),
           paperIds' \in Nat, \A p \in holdings' : p.id < paperIds', realized' \in Int,
           ClearsAll(k, holdings'),
           ~muddled' => Books(k, paper', holdings', realized'),
           ~muddled' /\ k.pc = "idle" => Balanced(paper', holdings', realized')
    PROVE  PaperInv'
<1>1. /\ paperCall' \in [PaperCalls -> PaperRequest] /\ paperCall'[c] = k
      /\ \A d \in PaperCalls : d # c => paperCall'[d] = paperCall[d]
  BY DEF PaperInv, PaperTypeOK
<1>2. PaperTypeOK'
  BY <1>1 DEF PaperTypeOK
<1>3. \A d \in PaperCalls : d # c => ~paperCall[d].alone
  BY DEF PaperInv, TurnsKept
<1>4. paperCall[c].alone => \A d \in PaperCalls : d # c => paperCall[d].pc = "idle"
  BY DEF PaperInv, TurnsKept
<1>5. ~muddled => paperCall[c].alone
  BY DEF PaperInv, TurnsKept
<1>6. TurnsKept'
  BY <1>1, <1>3, <1>4, <1>5 DEF TurnsKept
<1>7. (\A d \in PaperCalls : Sense(paperCall[d]) /\ ClearsAll(paperCall[d], holdings))'
  <2>1. \A d \in PaperCalls : Sense(paperCall'[d])
    BY <1>1 DEF PaperInv
  <2>2. \A d \in PaperCalls : ClearsAll(paperCall'[d], holdings')
    BY <1>1, <1>3 DEF ClearsAll
  <2> QED
    BY <2>1, <2>2 DEF Sense, ClearsAll
<1>8. ASSUME ~muddled', NEW d \in PaperCalls PROVE Books(paperCall'[d], paper', holdings', realized')
  <2>1. d # c => paperCall'[d].pc = "idle"
    BY <1>1, <1>4, <1>5, <1>8
  <2> QED
    BY <1>1, <1>8, <2>1 DEF Books
<1>9. ASSUME ~muddled', AtWork' = {} PROVE Balanced(paper', holdings', realized')
  <2>1. k.pc = "idle"
    BY <1>1, <1>9 DEF AtWork
  <2> QED
    BY <1>9, <2>1
<1>10. (~muddled => \A d \in PaperCalls : Books(paperCall[d], paper, holdings, realized))'
  BY <1>8 DEF Books, Balanced, Margins, MapThenSumSet, MapThenFoldSet
<1>11. (~muddled /\ AtWork = {} => Balanced(paper, holdings, realized))'
  BY <1>9 DEF Balanced, Margins, MapThenSumSet, MapThenFoldSet
<1> QED
  BY <1>2, <1>6, <1>7, <1>10, <1>11 DEF PaperInv

LEMMA RequestMoved ==
    ASSUME NEW k \in PaperRequest, NEW pc \in PaperPhases
    PROVE  /\ [k EXCEPT !.pc = pc] \in PaperRequest /\ [k EXCEPT !.pc = pc].pc = pc
           /\ [k EXCEPT !.pc = pc].kind = k.kind /\ [k EXCEPT !.pc = pc].rows = k.rows
           /\ [k EXCEPT !.pc = pc].alone = k.alone /\ [k EXCEPT !.pc = pc].wallet = k.wallet
           /\ [k EXCEPT !.pc = pc].price = k.price
  BY DEF PaperRequest

LEMMA ArriveKeeps ==
    ASSUME PaperInv, NEW c \in PaperCalls, NEW kind \in {"open", "close", "reset"}, NEW cost \in Nat,
           NEW direction \in {-1, 1}, NEW set \in SUBSET Holding,
           kind = "close" => \E p \in Holding : set = {p},
           Arrive(c, kind, cost, direction, set)
    PROVE  PaperInv'
<1>1. PICK k : k = [NoCall EXCEPT !.pc = "reading", !.kind = kind, !.price = cost,
                        !.direction = direction, !.rows = set, !.alone = AtWork = {}]
  OBVIOUS
<1>2. /\ k \in PaperRequest /\ k.pc = "reading" /\ k.kind = kind /\ k.rows = set
      /\ k.alone = (AtWork = {})
  <2>1. "reading" \in PaperPhases /\ NoCall \in PaperRequest /\ (AtWork = {}) \in BOOLEAN
    BY NoCallIs DEF PaperPhases
  <2>2. PICK free \in BOOLEAN : free = (AtWork = {})
    BY <2>1
  <2>3. k = [NoCall EXCEPT !.pc = "reading", !.kind = kind, !.price = cost,
                 !.direction = direction, !.rows = set, !.alone = free]
    BY <1>1, <2>2
  <2>4. /\ k \in PaperRequest /\ k.pc = "reading" /\ k.kind = kind /\ k.rows = set /\ k.alone = free
    BY <2>1, <2>3 DEF PaperRequest
  <2> QED
    BY <2>2, <2>4
<1>3. /\ paperCall[c].pc = "idle" /\ muddled' = (muddled \/ AtWork # {})
      /\ paperCall' = [d \in PaperCalls |-> IF d = c THEN k ELSE [paperCall[d] EXCEPT !.alone = FALSE]]
      /\ UNCHANGED <<paper, holdings, paperIds, realized>>
  BY <1>1 DEF Arrive
<1>4. ASSUME NEW d \in PaperCalls, d # c
      PROVE  /\ paperCall'[d] \in PaperRequest /\ ~paperCall'[d].alone
             /\ paperCall'[d].pc = paperCall[d].pc /\ paperCall'[d].kind = paperCall[d].kind
             /\ paperCall'[d].rows = paperCall[d].rows
  <2>1. PICK q \in PaperRequest : q = paperCall[d]
    BY DEF PaperInv, PaperTypeOK
  <2>2. paperCall'[d] = [q EXCEPT !.alone = FALSE]
    BY <1>3, <1>4, <2>1
  <2>3. [q EXCEPT !.alone = FALSE] \in PaperRequest /\ ~[q EXCEPT !.alone = FALSE].alone
        /\ [q EXCEPT !.alone = FALSE].pc = q.pc /\ [q EXCEPT !.alone = FALSE].kind = q.kind
        /\ [q EXCEPT !.alone = FALSE].rows = q.rows
    BY DEF PaperRequest
  <2> QED
    BY <2>1, <2>2, <2>3
<1>5. paperCall' \in [PaperCalls -> PaperRequest] /\ paperCall'[c] = k
  <2>1. \A d \in PaperCalls : paperCall'[d] \in PaperRequest
    BY <1>2, <1>3, <1>4
  <2> QED
    BY <1>3, <2>1
<1>6. PaperTypeOK'
  BY <1>3, <1>5 DEF PaperInv, PaperTypeOK
<1>7. AtWork = {} => \A d \in PaperCalls : paperCall[d].pc = "idle"
  BY DEF AtWork
<1>8. TurnsKept'
  <2>1. ASSUME NEW d \in PaperCalls, paperCall'[d].alone
        PROVE  paperCall'[d].pc # "idle" /\ \A e \in PaperCalls : e # d => paperCall'[e].pc = "idle"
    <3>1. d = c /\ AtWork = {}
      BY <1>2, <1>4, <1>5, <2>1
    <3> QED
      BY <1>2, <1>4, <1>5, <1>7, <3>1
  <2>2. ASSUME ~muddled', NEW d \in PaperCalls, paperCall'[d].pc # "idle" PROVE paperCall'[d].alone
    <3>1. AtWork = {}
      BY <1>3, <2>2
    <3>2. d = c
      BY <1>4, <1>7, <2>2, <3>1
    <3> QED
      BY <1>2, <1>5, <3>1, <3>2
  <2>3. (\A d \in PaperCalls : paperCall[d].alone =>
           paperCall[d].pc # "idle" /\ \A e \in PaperCalls : e # d => paperCall[e].pc = "idle")'
    BY <2>1
  <2>4. (~muddled => \A d \in PaperCalls : paperCall[d].pc # "idle" => paperCall[d].alone)'
    BY <2>2
  <2> QED
    BY <2>3, <2>4 DEF TurnsKept
<1>9. (\A d \in PaperCalls : Sense(paperCall[d]) /\ ClearsAll(paperCall[d], holdings))'
  <2>1. Sense(k)
    BY <1>2 DEF Sense
  <2>2. ASSUME NEW d \in PaperCalls PROVE Sense(paperCall'[d])
    <3>1. CASE d = c
      BY <1>5, <2>1, <3>1
    <3>2. CASE d # c
      <4>1. Sense(paperCall[d])
        BY DEF PaperInv
      <4> QED
        BY <1>4, <3>2, <4>1 DEF Sense
    <3> QED
      BY <3>1, <3>2
  <2>3. \A d \in PaperCalls : ClearsAll(paperCall'[d], holdings')
    BY <1>2, <1>4, <1>5 DEF ClearsAll
  <2> QED
    BY <2>2, <2>3 DEF Sense, ClearsAll
<1>10. ASSUME ~muddled' PROVE \A d \in PaperCalls : Books(paperCall'[d], paper, holdings, realized)
  <2>1. ~muddled /\ AtWork = {}
    BY <1>3, <1>10
  <2>2. Balanced(paper, holdings, realized)
    BY <2>1 DEF PaperInv
  <2>3. \A d \in PaperCalls : d # c => paperCall'[d].pc = "idle"
    BY <1>4, <1>7, <2>1
  <2> QED
    BY <1>2, <1>5, <2>2, <2>3 DEF Books
<1>11. AtWork' # {}
  BY <1>2, <1>5 DEF AtWork
<1>12. (~muddled => \A d \in PaperCalls : Books(paperCall[d], paper, holdings, realized))'
  <2>1. ASSUME ~muddled', NEW d \in PaperCalls PROVE Books(paperCall'[d], paper', holdings', realized')
    <3>1. UNCHANGED <<paper, holdings, realized>>
      BY <1>3
    <3>2. Books(paperCall'[d], paper, holdings, realized)
      BY <1>10, <2>1
    <3> QED
      BY <3>1, <3>2
  <2> QED
    BY <2>1 DEF Books, Balanced, Margins, MapThenSumSet, MapThenFoldSet
<1> QED
  BY <1>6, <1>8, <1>9, <1>11, <1>12 DEF PaperInv

LEMMA PaperStep == PaperInv /\ [PaperNext]_paperVars => PaperInv'
<1> SUFFICES ASSUME PaperInv, [PaperNext]_paperVars PROVE PaperInv'
  OBVIOUS
<1>t. /\ paper \in PaperWallet /\ holdings \subseteq Holding /\ IsFiniteSet(holdings)
      /\ paperIds \in Nat /\ (\A p \in holdings : p.id < paperIds)
      /\ realized \in Int /\ muddled \in BOOLEAN
  BY DEF PaperInv, PaperTypeOK
<1>w. paper.margin \in Int /\ paper.total \in Int /\ paper.balance \in Int
  BY <1>t DEF PaperWallet
<1>m. (\A p \in holdings : p.margin \in Nat) /\ Margins(holdings) \in Nat
  BY <1>t, MarginsAreNat DEF Holding
<1>c. ASSUME NEW c \in PaperCalls
      PROVE  /\ paperCall[c] \in PaperRequest /\ paperCall[c].pc \in PaperPhases
             /\ paperCall[c].kind \in {"none", "open", "close", "reset"} /\ paperCall[c].price \in Nat
             /\ paperCall[c].rows \subseteq Holding /\ paperCall[c].wallet \in PaperWallet
             /\ paperCall[c].direction \in {-1, 1}
             /\ Sense(paperCall[c]) /\ ClearsAll(paperCall[c], holdings)
             /\ ~muddled => Books(paperCall[c], paper, holdings, realized)
  <2>1. paperCall[c] \in PaperRequest
    BY DEF PaperInv, PaperTypeOK
  <2> QED
    BY <2>1 DEF PaperInv, PaperRequest
<1>p. \A pc \in {"saving", "settling", "removing", "reading"} : pc \in PaperPhases /\ pc # "idle"
  BY DEF PaperPhases
<1>1. CASE UNCHANGED paperVars
  <2>1. UNCHANGED <<paper, holdings, paperCall, paperIds, realized, muddled>>
    BY <1>1 DEF paperVars
  <2>2. AtWork' = AtWork
    BY <2>1 DEF AtWork
  <2>3. PaperTypeOK' /\ TurnsKept'
    BY <2>1 DEF PaperInv, PaperTypeOK, TurnsKept
  <2>4. (\A c \in PaperCalls : Sense(paperCall[c]) /\ ClearsAll(paperCall[c], holdings))'
    BY <2>1 DEF PaperInv, Sense, ClearsAll
  <2>5. (~muddled => \A c \in PaperCalls : Books(paperCall[c], paper, holdings, realized))'
    BY <2>1 DEF PaperInv, Books, Balanced, Margins, MapThenSumSet, MapThenFoldSet
  <2>6. (~muddled /\ AtWork = {} => Balanced(paper, holdings, realized))'
    BY <2>1, <2>2 DEF PaperInv, Balanced, Margins, MapThenSumSet, MapThenFoldSet
  <2> QED
    BY <2>3, <2>4, <2>5, <2>6 DEF PaperInv
<1>2. ASSUME NEW c \in PaperCalls, NEW cost \in PaperPrices, NEW direction \in {-1, 1},
             Arrive(c, "open", cost, direction, {})
      PROVE  PaperInv'
  BY <1>2, ArriveKeeps, PaperAssumption
<1>3. ASSUME NEW c \in PaperCalls, NEW cost \in PaperPrices, NEW p \in holdings,
             Arrive(c, "close", cost, 1, {p})
      PROVE  PaperInv'
  <2>1. PICK set \in SUBSET Holding : set = {p} /\ \E q \in Holding : set = {q}
    BY <1>t
  <2> QED
    BY <1>3, <2>1, ArriveKeeps, PaperAssumption
<1>4. ASSUME NEW c \in PaperCalls, Arrive(c, "reset", 0, 1, {}) PROVE PaperInv'
  BY <1>4, ArriveKeeps
\* Every other step is one of a request at work, which becomes k or ends.
<1>5. ASSUME NEW c \in PaperCalls, NEW k \in PaperRequest, Sense(k), paperCall[c].pc # "idle", k.pc # "idle",
             paperCall' = [paperCall EXCEPT ![c] = k], k.alone = paperCall[c].alone,
             UNCHANGED <<paper, holdings, paperIds, realized, muddled>>,
             ClearsAll(k, holdings), ~muddled => Books(k, paper, holdings, realized)
      PROVE  PaperInv'
  BY <1>5, <1>t, PaperAfter
<1>6. ASSUME NEW c \in PaperCalls, paperCall[c].pc # "idle", Ended(c),
             muddled' \in BOOLEAN, ~muddled' => ~muddled \/ paperCall[c].alone,
             paper' \in PaperWallet, holdings' \subseteq Holding, IsFiniteSet(holdings'),
             paperIds' \in Nat, \A p \in holdings' : p.id < paperIds', realized' \in Int,
             ~muddled' => Balanced(paper', holdings', realized')
      PROVE  PaperInv'
  <2>1. PICK k \in PaperRequest : k = NoCall /\ k.pc = "idle" /\ ~k.alone /\ Sense(k) /\ k.kind = "none"
    BY NoCallIs
  <2>2. paperCall' = [paperCall EXCEPT ![c] = k]
    BY <1>6, <2>1 DEF Ended
  <2>3. ClearsAll(k, holdings') /\ Books(k, paper', holdings', realized')
    BY <2>1 DEF ClearsAll, Books
  <2> QED
    BY <1>6, <2>1, <2>2, <2>3, PaperAfter
<1>7. ASSUME NEW c \in PaperCalls, ReadWallet(c) PROVE PaperInv'
  <2>0. PICK q \in PaperRequest, kind \in PaperPhases :
             q = paperCall[c] /\ kind = q.kind /\ q.pc = "reading" /\ kind \in {"open", "close", "reset"}
    <3>1. paperCall[c].pc = "reading" /\ paperCall[c].kind \in {"open", "close", "reset"}
      BY <1>7, <1>c DEF ReadWallet, Sense
    <3>2. paperCall[c].kind \in PaperPhases
      BY <3>1 DEF PaperPhases
    <3> QED
      BY <1>c, <3>1, <3>2
  <2>1. PICK k : k = [q EXCEPT !.wallet = paper, !.pc = kind]
    OBVIOUS
  <2>2. /\ k \in PaperRequest /\ k.pc = kind /\ k.kind = q.kind /\ k.rows = q.rows /\ k.alone = q.alone
        /\ k.wallet = paper
    BY <1>t, <2>0, <2>1 DEF PaperRequest
  <2>3. /\ paperCall' = [paperCall EXCEPT ![c] = k]
        /\ UNCHANGED <<paper, holdings, paperIds, realized, muddled>>
    BY <1>7, <2>0, <2>1 DEF ReadWallet
  <2>4. Sense(k)
    BY <1>c, <2>0, <2>2 DEF Sense
  <2>5. ~muddled => Balanced(paper, holdings, realized)
    BY <1>c, <2>0 DEF Books
  <2>6. ClearsAll(k, holdings) /\ (~muddled => Books(k, paper, holdings, realized))
    BY <2>0, <2>2, <2>5 DEF ClearsAll, Books
  <2> QED
    BY <1>5, <2>0, <2>2, <2>3, <2>4, <2>6
<1>8. ASSUME NEW c \in PaperCalls, PlacePaper(c) PROVE PaperInv'
  <2>0. PICK q \in PaperRequest : q = paperCall[c] /\ q.pc = "open" /\ q.kind = "open" /\ q.wallet \in PaperWallet
    BY <1>8, <1>c DEF PlacePaper, Sense
  <2>1. PICK m \in Nat : m = MarginOf(c) /\ m = q.price \div PaperLeverage
    <3>1. PICK x \in Nat, l \in Nat \ {0} : x = q.price /\ l = PaperLeverage
      BY <1>c, <2>0, PaperAssumption
    <3>2. x \div l \in Nat
      OBVIOUS
    <3> QED
      BY <2>0, <3>1, <3>2 DEF MarginOf
  <2>2. ~muddled => Balanced(paper, holdings, realized) /\ q.wallet = paper
    BY <1>c, <2>0 DEF Books
  <2>3. UNCHANGED <<holdings, paperIds, realized, muddled>>
    BY <1>8 DEF PlacePaper
  <2>4. CASE Ended(c) /\ UNCHANGED paper
    BY <1>6, <1>t, <2>0, <2>2, <2>3, <2>4
  <2>5. CASE paper' = [q.wallet EXCEPT !.margin = @ + m] /\ Goes(c, "saving")
    <3>1. PICK k : k = [q EXCEPT !.pc = "saving"]
      OBVIOUS
    <3>2. /\ k \in PaperRequest /\ k.pc = "saving" /\ k.kind = "open" /\ k.rows = q.rows
          /\ k.alone = q.alone /\ k.price = q.price
      BY <1>p, <2>0, <3>1, RequestMoved
    <3>3. paperCall' = [paperCall EXCEPT ![c] = k]
      BY <2>0, <2>5, <3>1 DEF Goes
    <3>4. PICK w, v : w \in PaperWallet /\ w = q.wallet /\ v = paper'
      BY <2>0
    <3>5. PICK a \in Int : a = w.margin
      BY <3>4 DEF PaperWallet
    <3>6. v = [w EXCEPT !.margin = a + m]
      BY <2>5, <3>4, <3>5
    <3>7. v \in PaperWallet /\ v.margin = a + m /\ v.total = w.total
      <4>1. a + m \in Int
        OBVIOUS
      <4> QED
        BY <3>4, <3>6, <4>1 DEF PaperWallet
    <3>8. Sense(k) /\ ClearsAll(k, holdings')
      BY <1>c, <2>0, <3>2 DEF Sense, ClearsAll
    <3>9. ~muddled' => Books(k, paper', holdings', realized')
      <4> SUFFICES ASSUME ~muddled' PROVE Books(k, paper', holdings', realized')
        OBVIOUS
      <4>1. Balanced(paper, holdings, realized) /\ w = paper
        BY <2>2, <2>3, <3>4
      <4>2. v.margin = Margins(holdings) + m /\ v.total = realized
        BY <3>5, <3>7, <4>1 DEF Balanced
      <4>3. PICK hs : hs = holdings /\ hs = holdings'
        BY <2>3
      <4>4. Books(k, v, hs, realized)
        BY <2>1, <3>2, <4>2, <4>3 DEF Books
      <4> QED
        BY <2>3, <3>4, <4>3, <4>4
    <3>10. holdings' \subseteq Holding /\ IsFiniteSet(holdings') /\ muddled' \in BOOLEAN
           /\ paperIds' \in Nat /\ (\A p \in holdings' : p.id < paperIds') /\ realized' \in Int
      BY <1>t, <2>3
    <3>11. (~muddled' => ~muddled) /\ paper' \in PaperWallet /\ k.pc # "idle"
           /\ k.alone = paperCall[c].alone /\ paperCall[c].pc # "idle"
      BY <2>0, <2>3, <3>2, <3>4, <3>7
    <3> QED
      BY <3>2, <3>3, <3>8, <3>9, <3>10, <3>11, PaperAfter
  <2> QED
    BY <1>8, <2>0, <2>1, <2>4, <2>5 DEF PlacePaper
<1>9. ASSUME NEW c \in PaperCalls, SavePosition(c) PROVE PaperInv'
  <2>0. PICK q \in PaperRequest : q = paperCall[c] /\ q.pc = "saving" /\ q.price \in Nat /\ q.direction \in {-1, 1}
    BY <1>9, <1>c DEF SavePosition
  <2>1. PICK m \in Nat : m = MarginOf(c) /\ m = q.price \div PaperLeverage
    <3>1. PICK x \in Nat, l \in Nat \ {0} : x = q.price /\ l = PaperLeverage
      BY <2>0, PaperAssumption
    <3>2. x \div l \in Nat
      OBVIOUS
    <3> QED
      BY <2>0, <3>1, <3>2 DEF MarginOf
  <2>2. EntryOf(c) \in Int
    <3>1. PICK x \in Nat, h \in Nat : x = q.price /\ h = HalfSpreadOfPaper
      BY <2>0, PaperAssumption
    <3>2. EntryOf(c) = x + q.direction * h
      BY <2>0, <3>1 DEF EntryOf
    <3>3. q.direction = 1 \/ q.direction = -1
      BY <2>0
    <3> QED
      BY <3>2, <3>3
  <2>3. PICK p : p = [id |-> paperIds, direction |-> q.direction, entry |-> EntryOf(c), margin |-> m]
    OBVIOUS
  <2>4. p \in Holding /\ p.id = paperIds /\ p.margin = m
    BY <1>t, <2>0, <2>1, <2>2, <2>3 DEF Holding
  <2>5. /\ holdings' = holdings \cup {p} /\ paperIds' = paperIds + 1 /\ Ended(c)
        /\ UNCHANGED <<paper, realized, muddled>>
    BY <1>9, <2>0, <2>1, <2>3 DEF SavePosition
  <2>6. PICK hs : hs = holdings' /\ hs = holdings \cup {p}
    BY <2>5
  <2>7. hs \subseteq Holding /\ IsFiniteSet(hs) /\ paperIds' \in Nat /\ \A x \in hs : x.id < paperIds'
    <3>1. IsFiniteSet(holdings \cup {p})
      BY <1>t, FS_AddElement
    <3>2. \A x \in holdings : x.id \in Nat /\ x.id < paperIds
      BY <1>t DEF Holding
    <3> QED
      BY <1>t, <2>4, <2>5, <2>6, <3>1, <3>2
  <2>8. Margins(hs) = Margins(holdings) + m
    <3>1. p \notin holdings
      BY <1>t, <2>4
    <3>2. \A x \in hs : x.margin \in Nat
      BY <2>7 DEF Holding
    <3>3. holdings \in SUBSET hs /\ p \in hs
      BY <2>6
    <3> QED
      BY <2>4, <2>6, <2>7, <3>1, <3>2, <3>3, MarginsAreMore
  <2>9. ~muddled => Balanced(paper, hs, realized)
    BY <1>c, <2>0, <2>1, <2>8 DEF Books, Balanced
  <2> QED
    BY <1>6, <1>t, <2>0, <2>5, <2>6, <2>7, <2>9
<1>10. ASSUME NEW c \in PaperCalls, LookUpPosition(c) PROVE PaperInv'
  <2>0. PICK q \in PaperRequest : q = paperCall[c] /\ q.pc = "close" /\ q.kind = "close"
    BY <1>10, <1>c DEF LookUpPosition, Sense
  <2>1. UNCHANGED <<paper, holdings, paperIds, realized, muddled>>
    BY <1>10 DEF LookUpPosition
  <2>2. ~muddled => Balanced(paper, holdings, realized) /\ q.wallet = paper
    BY <1>c, <2>0 DEF Books
  <2>3. CASE Ended(c)
    BY <1>6, <1>t, <2>0, <2>1, <2>2, <2>3
  <2>4. CASE q.rows \subseteq holdings /\ Goes(c, "settling")
    <3>1. PICK k : k = [q EXCEPT !.pc = "settling"]
      OBVIOUS
    <3>2. /\ k \in PaperRequest /\ k.pc = "settling" /\ k.kind = "close" /\ k.rows = q.rows
          /\ k.alone = q.alone /\ k.wallet = q.wallet
      BY <1>p, <2>0, <3>1, RequestMoved
    <3>3. paperCall' = [paperCall EXCEPT ![c] = k]
      BY <2>0, <2>4, <3>1 DEF Goes
    <3>4. Sense(k)
      BY <1>c, <2>0, <3>2 DEF Sense
    <3>5. ClearsAll(k, holdings) /\ (~muddled => Books(k, paper, holdings, realized))
      BY <2>2, <2>4, <3>2 DEF ClearsAll, Books
    <3> QED
      BY <1>5, <2>0, <2>1, <3>2, <3>3, <3>4, <3>5
  <2> QED
    BY <1>10, <2>0, <2>3, <2>4 DEF LookUpPosition
<1>11. ASSUME NEW c \in PaperCalls, SettlePaper(c) PROVE PaperInv'
  <2>0. PICK q \in PaperRequest : q = paperCall[c] /\ q.pc = "settling" /\ q.kind = "close"
                                  /\ q.price \in Nat /\ q.wallet \in PaperWallet /\ q.rows \subseteq Holding
    BY <1>11, <1>c DEF SettlePaper, Sense
  <2>1. PICK p \in q.rows : /\ paper' = Settled(q.wallet, p, CalculatePnl(p, q.price))
                            /\ realized' = realized + CalculatePnl(p, q.price)
    BY <1>11, <2>0 DEF SettlePaper
  <2>2. q.rows = {p} /\ p \in Holding
    BY <1>c, <2>0, <2>1 DEF Sense
  <2>3. p.margin \in Nat /\ p.direction \in {-1, 1} /\ p.entry \in Int
    BY <2>2 DEF Holding
  <2>4. PICK gain \in Int : gain = CalculatePnl(p, q.price)
    <3>1. PICK x \in Nat, h \in Nat, y \in Int : x = q.price /\ h = HalfSpreadOfPaper /\ y = p.entry
      BY <2>0, <2>3, PaperAssumption
    <3>2. p.direction = 1 \/ p.direction = -1
      BY <2>3
    <3>3. CalculatePnl(p, q.price) = p.direction * (x - p.direction * h - y)
      BY <3>1 DEF CalculatePnl
    <3>4. CalculatePnl(p, q.price) \in Int
      BY <3>2, <3>3
    <3> QED
      BY <3>4
  <2>5. PICK w, v : w \in PaperWallet /\ w = q.wallet /\ v = paper'
    BY <2>0
  <2>6. PICK a \in Int, b \in Int, t \in Int, m \in Nat :
             a = w.balance /\ b = w.margin /\ t = w.total /\ m = p.margin
    BY <2>3, <2>5 DEF PaperWallet
  <2>7. v = [balance |-> a + m + gain, total |-> t + gain, margin |-> IF b > m THEN b - m ELSE 0]
    BY <2>1, <2>4, <2>5, <2>6 DEF Settled
  <2>8. v \in PaperWallet /\ v.total = t + gain /\ v.margin = IF b > m THEN b - m ELSE 0
    <3>1. a + m + gain \in Int /\ t + gain \in Int /\ (IF b > m THEN b - m ELSE 0) \in Int
      OBVIOUS
    <3> QED
      BY <2>7, <3>1 DEF PaperWallet
  <2>9. UNCHANGED <<holdings, paperIds, muddled>> /\ realized' = realized + gain /\ Goes(c, "removing")
    BY <1>11, <2>1, <2>4 DEF SettlePaper
  <2>10. PICK k : k = [q EXCEPT !.pc = "removing"]
    OBVIOUS
  <2>11. /\ k \in PaperRequest /\ k.pc = "removing" /\ k.kind = "close" /\ k.rows = q.rows
         /\ k.alone = q.alone
    BY <1>p, <2>0, <2>10, RequestMoved
  <2>12. paperCall' = [paperCall EXCEPT ![c] = k]
    BY <2>0, <2>9, <2>10 DEF Goes
  <2>13. Sense(k)
    BY <1>c, <2>0, <2>11 DEF Sense
  <2>14. ASSUME ~muddled PROVE Books(k, v, holdings, realized + gain)
    <3>1. Balanced(paper, holdings, realized) /\ w = paper /\ p \in holdings
      BY <1>c, <2>0, <2>1, <2>5, <2>14 DEF Books
    <3>2. b = Margins(holdings) /\ t = realized
      BY <2>6, <3>1 DEF Balanced
    <3>3. m <= Margins(holdings)
      <4>1. PICK V : V = holdings \ {p}
        OBVIOUS
      <4>2. V \in SUBSET holdings /\ p \notin V /\ holdings = V \cup {p} /\ IsFiniteSet(V)
        BY <1>t, <3>1, <4>1, FS_RemoveElement
      <4>3. Margins(holdings) = Margins(V) + p.margin
        BY <1>t, <1>m, <3>1, <4>2, MarginsAreMore
      <4>4. Margins(V) \in Nat
        BY <1>m, <4>2, MarginsAreNat
      <4> QED
        BY <2>6, <4>3, <4>4
    <3>4. v.margin = Margins(holdings) - p.margin
      BY <1>m, <2>6, <2>8, <3>2, <3>3
    <3>5. v.total = realized + gain
      BY <2>8, <3>2
    <3> QED
      BY <2>2, <2>11, <3>1, <3>4, <3>5 DEF Books
  <2>15. ~muddled' => Books(k, paper', holdings', realized')
    BY <2>5, <2>9, <2>14
  <2>16. holdings' \subseteq Holding /\ IsFiniteSet(holdings') /\ muddled' \in BOOLEAN
         /\ paperIds' \in Nat /\ (\A x \in holdings' : x.id < paperIds') /\ realized' \in Int
    BY <1>t, <2>9
  <2>17. (~muddled' => ~muddled) /\ paper' \in PaperWallet /\ k.pc # "idle"
         /\ k.alone = paperCall[c].alone /\ paperCall[c].pc # "idle" /\ ClearsAll(k, holdings')
    BY <2>0, <2>5, <2>8, <2>9, <2>11 DEF ClearsAll
  <2> QED
    BY <2>11, <2>12, <2>13, <2>15, <2>16, <2>17, PaperAfter
<1>12. ASSUME NEW c \in PaperCalls, RemoveClosed(c) PROVE PaperInv'
  <2>0. PICK q \in PaperRequest : q = paperCall[c] /\ q.pc = "removing" /\ q.kind = "close"
    BY <1>12, <1>c DEF RemoveClosed
  <2>1. PICK hs : hs = holdings' /\ hs = holdings \ q.rows
    BY <1>12, <2>0 DEF RemoveClosed
  <2>2. Ended(c) /\ UNCHANGED <<paper, paperIds, realized, muddled>>
    BY <1>12 DEF RemoveClosed
  <2>3. hs \subseteq Holding /\ IsFiniteSet(hs) /\ \A x \in hs : x.id < paperIds
    BY <1>t, <2>1, FS_Subset
  <2>4. PICK p \in Holding : q.rows = {p}
    BY <1>c, <2>0 DEF Sense
  <2>5. ASSUME ~muddled PROVE Balanced(paper, hs, realized)
    <3>1. p \in holdings /\ paper.margin = Margins(holdings) - p.margin /\ paper.total = realized
      BY <1>c, <2>0, <2>4, <2>5 DEF Books
    <3>2. hs \in SUBSET holdings /\ p \notin hs /\ holdings = hs \cup {p}
      BY <2>1, <2>4, <3>1
    <3>3. Margins(holdings) = Margins(hs) + p.margin
      BY <1>t, <1>m, <3>1, <3>2, MarginsAreMore
    <3>4. Margins(hs) \in Nat /\ p.margin \in Nat
      BY <1>m, <2>3, <3>1, <3>2, MarginsAreNat
    <3>5. paper.margin = Margins(hs)
      BY <3>1, <3>3, <3>4
    <3> QED
      BY <3>1, <3>5 DEF Balanced
  <2> QED
    BY <1>6, <1>t, <2>0, <2>1, <2>2, <2>3, <2>5
<1>13. ASSUME NEW c \in PaperCalls, ListPositions(c) PROVE PaperInv'
  <2>0. PICK q \in PaperRequest : q = paperCall[c] /\ q.pc = "reset" /\ q.kind = "reset"
    BY <1>13, <1>c DEF ListPositions, Sense
  <2>1. PICK k : k = [q EXCEPT !.rows = holdings, !.pc = "removing"]
    OBVIOUS
  <2>2. /\ k \in PaperRequest /\ k.pc = "removing" /\ k.kind = "reset" /\ k.rows = holdings
        /\ k.alone = q.alone
    BY <1>t, <1>p, <2>0, <2>1 DEF PaperRequest
  <2>3. /\ paperCall' = [paperCall EXCEPT ![c] = k]
        /\ UNCHANGED <<paper, holdings, paperIds, realized, muddled>>
    BY <1>13, <2>0, <2>1 DEF ListPositions
  <2>4. Sense(k) /\ ClearsAll(k, holdings) /\ Books(k, paper, holdings, realized)
    BY <2>2 DEF Sense, ClearsAll, Books
  <2> QED
    BY <1>5, <2>0, <2>2, <2>3, <2>4
<1>14. ASSUME NEW c \in PaperCalls, RemoveNext(c) PROVE PaperInv'
  <2>0. PICK q \in PaperRequest : q = paperCall[c] /\ q.pc = "removing" /\ q.kind = "reset" /\ q.rows \subseteq Holding
    BY <1>14, <1>c DEF RemoveNext
  <2>1. PICK p \in q.rows : /\ holdings' = holdings \ {p}
                            /\ paperCall' = [paperCall EXCEPT ![c].rows = @ \ {p}]
    BY <1>14, <2>0 DEF RemoveNext
  <2>2. PICK k, hs, kept : /\ kept = q.rows \ {p} /\ k = [q EXCEPT !.rows = kept]
                           /\ hs = holdings \ {p} /\ hs = holdings'
    BY <2>1
  <2>3. /\ k \in PaperRequest /\ k.pc = "removing" /\ k.kind = "reset" /\ k.rows = kept
        /\ k.alone = q.alone
    <3>1. kept \subseteq Holding
      BY <2>0, <2>2
    <3> QED
      BY <2>0, <2>2, <3>1 DEF PaperRequest
  <2>4. paperCall' = [paperCall EXCEPT ![c] = k]
    BY <2>0, <2>1, <2>2
  <2>5. UNCHANGED <<paper, paperIds, realized, muddled>>
    BY <1>14 DEF RemoveNext
  <2>6. hs \subseteq Holding /\ IsFiniteSet(hs) /\ \A x \in hs : x.id < paperIds
    BY <1>t, <2>2, FS_Subset
  <2>7. Sense(k) /\ Books(k, paper', holdings', realized')
    BY <2>3 DEF Sense, Books
  <2>8. ClearsAll(k, hs)
    <3>1. ClearsAll(q, holdings)
      BY <1>c, <2>0
    <3> QED
      BY <2>0, <2>2, <2>3, <3>1 DEF ClearsAll
  <2>9. holdings' \subseteq Holding /\ IsFiniteSet(holdings') /\ muddled' \in BOOLEAN
        /\ paperIds' \in Nat /\ (\A x \in holdings' : x.id < paperIds') /\ realized' \in Int
        /\ paper' \in PaperWallet /\ ClearsAll(k, holdings')
    BY <1>t, <2>2, <2>5, <2>6, <2>8
  <2>10. (~muddled' => ~muddled) /\ k.pc # "idle"
         /\ k.alone = paperCall[c].alone /\ paperCall[c].pc # "idle"
    BY <2>0, <2>3, <2>5
  <2> QED
    BY <2>3, <2>4, <2>7, <2>9, <2>10, PaperAfter
<1>15. ASSUME NEW c \in PaperCalls, SaveReset(c) PROVE PaperInv'
  <2>0. PICK q \in PaperRequest : q = paperCall[c] /\ q.pc = "removing" /\ q.kind = "reset" /\ q.rows = {}
                                  /\ q.alone \in BOOLEAN
    BY <1>15, <1>c DEF SaveReset, PaperRequest
  <2>1. /\ paper' = FreshWallet /\ realized' = 0 /\ muddled' = (muddled /\ ~q.alone) /\ Ended(c)
        /\ UNCHANGED <<holdings, paperIds>>
    BY <1>15, <2>0 DEF SaveReset
  <2>2. ~muddled => q.alone
    BY <2>0 DEF PaperInv, TurnsKept
  <2>3. q.alone => holdings = {}
    BY <1>c, <2>0 DEF ClearsAll
  <2>4. muddled' \in BOOLEAN /\ (~muddled' => q.alone)
    BY <1>t, <2>0, <2>1, <2>2
  <2>5. ~muddled' => Balanced(paper', holdings, realized')
    BY <2>1, <2>3, <2>4, NoCallIs, NoMargins DEF Balanced
  <2>6. paper' \in PaperWallet /\ realized' \in Int
    BY <2>1, NoCallIs
  <2> QED
    BY <1>6, <1>t, <2>0, <2>1, <2>4, <2>5, <2>6
<1>16. ASSUME NEW c \in PaperCalls, BreaksOff(c) PROVE PaperInv'
  <2>1. paperCall[c].pc # "idle" /\ muddled' = TRUE /\ Ended(c)
        /\ UNCHANGED <<paper, holdings, paperIds, realized>>
    BY <1>16 DEF BreaksOff
  <2> QED
    BY <1>6, <1>t, <2>1
<1> QED
  BY <1>1, <1>2, <1>3, <1>4, <1>7, <1>8, <1>9, <1>10, <1>11, <1>12, <1>13, <1>14, <1>15, <1>16
     DEF PaperNext

LEMMA PaperFollows == PaperInv => PaperAddsUp
  BY DEF PaperInv, PaperAddsUp, Balanced, Margins

\* What the broker keeps of itself: a setting is neither lost nor stale but as
\* stated, the account without a database never holds more margin than capital,
\* and a simulated account adds up.
THEOREM BrokerStateIsSound == Spec => []BrokerStateSound
<1>1. SettingsInv /\ SandboxInv /\ PaperInv => BrokerStateSound
  BY SettingsFollow, PaperFollows DEF BrokerStateSound, SandboxInv
<1>2. Init => SettingsInv /\ SandboxInv /\ PaperInv
  BY PartInit, SettingsInitially, SandboxInitially, PaperInitially
<1>3. SettingsInv /\ SandboxInv /\ PaperInv /\ [Next]_vars => SettingsInv' /\ SandboxInv' /\ PaperInv'
  BY PartStep, SettingsStep, SandboxStep, PaperStep
<1> QED
  BY <1>1, <1>2, <1>3, PTL DEF Spec
=============================================================================
