----------------------- MODULE PendingOrderBookProofs -----------------------
(* Proofs about PendingOrderBook, for any number of workers and orders.       *)
EXTENDS PendingOrderBook, TLAPS

------------------------------------------------------------------------------
(* The shape of the calls in flight.                                          *)

(* Only an OCO leg may be asked for before it is placed; a call that writes   *)
(* the whole order carries a status.                                          *)
CallsPlaced ==
    /\ \A c \in calls : c.op \in {"add", "place", "trail"} => c.arg \in Statuses
    /\ \A c \in calls : c.op \notin {"place", "cancelClaim"} => c.order \in placed
    /\ \A c \in calls : c.op = "trail" => c.order \in Trailing
    /\ \A o \in Orders : row[o] # "none" => o \in placed

AllBounds == bounds \in [DOMAIN Bounds -> Nat] /\ \A b \in DOMAIN Bounds : bounds[b] <= Bounds[b]

(* Spending a bound keeps all of them in range.                               *)
LEMMA SpendOne ==
  ASSUME AllBounds, NEW b \in {"trails", "cancels", "faults", "lost", "restarts"}, Spend(b)
  PROVE  AllBounds'
<1>1. b \in DOMAIN Bounds /\ Bounds[b] \in Nat
  BY BookAssumption DEF Bounds
<1>2. bounds' = [bounds EXCEPT ![b] = @ + 1] /\ bounds[b] < Bounds[b]
  BY DEF Spend
<1>3. bounds' \in [DOMAIN Bounds -> Nat]
  BY <1>1, <1>2 DEF AllBounds
<1>4. ASSUME NEW x \in DOMAIN Bounds PROVE bounds'[x] <= Bounds[x]
  <2>1. CASE x = b
    BY <1>1, <1>2, <2>1 DEF AllBounds
  <2>2. CASE x # b
    BY <1>2, <2>2 DEF AllBounds
  <2>. QED BY <2>1, <2>2
<1>. QED BY <1>3, <1>4 DEF AllBounds

(* A step that spends nothing keeps them.                                     *)
LEMMA KeepBounds == ASSUME AllBounds, UNCHANGED bounds PROVE AllBounds'
  BY DEF AllBounds

CallRecords == [op : Operations, at : Workers, order : Orders, arg : Reasons \cup Statuses]
MessageRecords ==
    [type : {"add", "remove"}, to : Workers, order : placed, status : Statuses]

(* The variables but the bounds.                                              *)
Shape ==
    /\ row \in [Orders -> Statuses]
    /\ book \in [Workers -> SUBSET placed]
    /\ copy \in [Workers -> [Orders -> Statuses]]
    /\ terminal \in [Workers -> SUBSET placed]
    /\ calls \subseteq CallRecords /\ channel \subseteq MessageRecords
    /\ placed \subseteq Orders /\ expired \subseteq placed /\ pulled \subseteq placed
    /\ executed \in [Orders -> Nat] /\ released \in [Orders -> Nat]

(* The type invariant is the shape of the state and the bounds in range.      *)
LEMMA SplitType == TypeOK <=> Shape /\ AllBounds
  BY DEF TypeOK, Shape, AllBounds, CallRecords, MessageRecords

(* An awaited call that returns keeps the shape.                              *)
LEMMA ShapeStep ==
  ASSUME Shape, CallsPlaced, NEW c \in calls, Step(c)
  PROVE  Shape' /\ CallsPlaced'
<1>. USE BookAssumption
<1>. USE DEF Shape, CallsPlaced, CallRecords, MessageRecords, Operations, Reasons, Statuses,
             Call, Message, memory, history, SetRow, SetCopy, Await, Resume, Live, Forget,
             Publish, Pull, Legs, LegsHere, CancelLegs, Count, Executed, Insert
<1>1. CASE Persist(c)
  <2>. USE <1>1 DEF Persist
  <2>1. row' \in [Orders -> Statuses] /\ placed' \subseteq Orders /\ placed \subseteq placed'
    OBVIOUS
  <2>2. book' \in [Workers -> SUBSET placed']
    BY <2>1
  <2>3. copy' \in [Workers -> [Orders -> Statuses]]
    OBVIOUS
  <2>4. terminal' \in [Workers -> SUBSET placed']
    BY <2>1
  <2>5. calls' \subseteq CallRecords
    OBVIOUS
  <2>6. channel' \subseteq MessageRecords'
    BY <2>1
  <2>7. /\ expired' \subseteq placed' /\ pulled' \subseteq placed'
        /\ executed' \in [Orders -> Nat] /\ released' \in [Orders -> Nat]
    BY <2>1
  <2>8. CallsPlaced'
    BY <2>1
  <2>. QED BY <2>1, <2>2, <2>3, <2>4, <2>5, <2>6, <2>7, <2>8
<1>2. CASE AddSecond(c)
  BY <1>2 DEF AddSecond
<1>3. CASE PersistTrail(c)
  BY <1>3 DEF PersistTrail
<1>4. CASE ClaimWon(c)
  <2>. USE <1>4 DEF ClaimWon, Claimable
  <2>1. row' \in [Orders -> Statuses] /\ placed' \subseteq Orders /\ placed \subseteq placed'
    OBVIOUS
  <2>2. book' \in [Workers -> SUBSET placed']
    BY <2>1
  <2>3. copy' \in [Workers -> [Orders -> Statuses]]
    <3>1. copy[c.at] \in [Orders -> Statuses]
      OBVIOUS
    <3>2. PICK own \in [Orders -> Statuses] : copy' = [copy EXCEPT ![c.at] = own]
      BY <3>1
    <3>. QED BY <3>2
  <2>4. terminal' \in [Workers -> SUBSET placed']
    BY <2>1
  <2>5. calls' \subseteq CallRecords
    OBVIOUS
  <2>6. channel' \subseteq MessageRecords'
    BY <2>1
  <2>7. /\ expired' \subseteq placed' /\ pulled' \subseteq placed'
        /\ executed' \in [Orders -> Nat] /\ released' \in [Orders -> Nat]
    <3>1. expired' = expired /\ released' = released /\ c.order \in Orders
      OBVIOUS
    <3>2. pulled' \subseteq placed'
      BY <2>1
    <3>3. \/ executed' = executed
          \/ executed' = [executed EXCEPT ![c.order] = executed[c.order] + 1]
      OBVIOUS
    <3>4. executed' \in [Orders -> Nat]
      BY <3>1, <3>3
    <3>. QED BY <2>1, <3>1, <3>2, <3>4
  <2>8. CallsPlaced'
    BY <2>1
  <2>. QED BY <2>1, <2>2, <2>3, <2>4, <2>5, <2>6, <2>7, <2>8
<1>5. CASE ClaimWonExpiry(c)
  <2>. USE <1>5 DEF ClaimWonExpiry, Claimable
  <2>1. row' \in [Orders -> Statuses] /\ placed' \subseteq Orders /\ placed \subseteq placed'
    OBVIOUS
  <2>2. book' \in [Workers -> SUBSET placed']
    BY <2>1
  <2>3. copy' \in [Workers -> [Orders -> Statuses]]
    <3>1. CASE c.op = "claim"
      <4>1. c.at \in Workers /\ c.order \in Orders /\ copy[c.at] \in [Orders -> Statuses]
        OBVIOUS
      <4>2. [copy[c.at] EXCEPT ![c.order] = "TRIGGERED"] \in [Orders -> Statuses]
        BY <4>1
      <4>3. copy' = [copy EXCEPT ![c.at] = [copy[c.at] EXCEPT ![c.order] = "TRIGGERED"]]
        BY <3>1
      <4>. QED BY <4>1, <4>2, <4>3
    <3>2. CASE c.op # "claim"
      BY <3>2
    <3>. QED BY <3>1, <3>2
  <2>4. terminal' \in [Workers -> SUBSET placed']
    BY <2>1
  <2>5. calls' \subseteq CallRecords
    OBVIOUS
  <2>6. channel' \subseteq MessageRecords'
    BY <2>1
  <2>7. /\ expired' \subseteq placed' /\ pulled' \subseteq placed'
        /\ executed' \in [Orders -> Nat] /\ released' \in [Orders -> Nat]
    BY <2>1
  <2>8. CallsPlaced'
    BY <2>1
  <2>. QED BY <2>1, <2>2, <2>3, <2>4, <2>5, <2>6, <2>7, <2>8
<1>6. CASE ClaimLost(c)
  <2>. USE <1>6 DEF ClaimLost
  <2>1. row' \in [Orders -> Statuses] /\ placed' \subseteq Orders /\ placed \subseteq placed'
    OBVIOUS
  <2>2. book' \in [Workers -> SUBSET placed']
    BY <2>1
  <2>3. copy' \in [Workers -> [Orders -> Statuses]]
    OBVIOUS
  <2>4. terminal' \in [Workers -> SUBSET placed']
    BY <2>1
  <2>5. calls' \subseteq CallRecords
    OBVIOUS
  <2>6. channel' \subseteq MessageRecords'
    BY <2>1
  <2>7. /\ expired' \subseteq placed' /\ pulled' \subseteq placed'
        /\ executed' \in [Orders -> Nat] /\ released' \in [Orders -> Nat]
    BY <2>1
  <2>8. CallsPlaced'
    BY <2>1
  <2>. QED BY <2>1, <2>2, <2>3, <2>4, <2>5, <2>6, <2>7, <2>8
<1>7. CASE ReleaseExpired(c)
  BY <1>7 DEF ReleaseExpired
<1>8. CASE CancelRow(c)
  BY <1>8 DEF CancelRow
<1>9. CASE CancelClaimWon(c)
  BY <1>9 DEF CancelClaimWon, Claimable
<1>10. CASE CancelClaimLost(c)
  <2>. USE <1>10 DEF CancelClaimLost
  <2>1. executed' \in [Orders -> Nat]
    OBVIOUS
  <2>2. calls' \subseteq CallRecords /\ CallsPlaced'
    OBVIOUS
  <2>. QED BY <2>1, <2>2
<1>11. CASE ReleaseCancelled(c)
  <2>. USE <1>11 DEF ReleaseCancelled
  <2>1. row' \in [Orders -> Statuses] /\ placed' \subseteq Orders /\ placed \subseteq placed'
    OBVIOUS
  <2>2. book' \in [Workers -> SUBSET placed']
    BY <2>1
  <2>3. copy' \in [Workers -> [Orders -> Statuses]]
    OBVIOUS
  <2>4. terminal' \in [Workers -> SUBSET placed']
    BY <2>1
  <2>5. calls' \subseteq CallRecords
    OBVIOUS
  <2>6. channel' \subseteq MessageRecords'
    BY <2>1
  <2>7. /\ expired' \subseteq placed' /\ pulled' \subseteq placed'
        /\ executed' \in [Orders -> Nat] /\ released' \in [Orders -> Nat]
    BY <2>1
  <2>8. CallsPlaced'
    BY <2>1
  <2>. QED BY <2>1, <2>2, <2>3, <2>4, <2>5, <2>6, <2>7, <2>8
<1>. QED BY <1>1, <1>2, <1>3, <1>4, <1>5, <1>6, <1>7, <1>8, <1>9, <1>10, <1>11 DEF Step

(* A failed call keeps it.                                                    *)
LEMMA ShapeFailure ==
  ASSUME Shape, CallsPlaced, NEW c \in calls, Failure(c)
  PROVE  Shape' /\ CallsPlaced'
<1>. USE BookAssumption
<1>. USE DEF Shape, CallsPlaced, CallRecords, MessageRecords, Operations, Reasons, Statuses,
             Call, Message, memory, history, SetRow, SetCopy, Await, Resume, Live, Forget,
             Publish, Pull, Legs, LegsHere, CancelLegs, Count, Executed, Insert
<1>1. CASE RefuseSecond(c)
  BY <1>1 DEF RefuseSecond, RollBack
<1>2. CASE PersistRetry(c)
  BY <1>2 DEF PersistRetry
<1>3. CASE PersistGivesUp(c)
  BY <1>3 DEF PersistGivesUp, RollBack
<1>4. CASE TrailGivesUp(c)
  BY <1>4 DEF TrailGivesUp
<1>. QED BY <1>1, <1>2, <1>3, <1>4 DEF Failure

(* So does what a client, a tick or the expiry sweep asks for.                *)
LEMMA ShapeRequest ==
  ASSUME Shape, CallsPlaced, NEW w \in Workers, NEW o \in Orders, Request(w, o)
  PROVE  Shape' /\ CallsPlaced'
<1>. USE BookAssumption
<1>. USE DEF Shape, CallsPlaced, CallRecords, MessageRecords, Operations, Reasons, Statuses,
             Call, Message, memory, history, SetRow, SetCopy, Await, Resume, Live, Forget,
             Publish, Pull, Legs, LegsHere, CancelLegs, Count, Executed, Insert
<1>1. CASE Add(w, o)
  BY <1>1 DEF Add
<1>2. CASE TrailUpdate(w, o)
  BY <1>2 DEF TrailUpdate
<1>3. CASE Trigger(w, o)
  BY <1>3 DEF Trigger
<1>4. CASE ExpiryScan(w, o)
  BY <1>4 DEF ExpiryScan
<1>5. CASE CancelHere(w, o)
  BY <1>5 DEF CancelHere
<1>6. CASE CancelElsewhere(w, o)
  BY <1>6 DEF CancelElsewhere
<1>. QED BY <1>1, <1>2, <1>3, <1>4, <1>5, <1>6 DEF Request

(* And the channel, the time and a restart.                                   *)
LEMMA ShapeRest ==
  ASSUME Shape, CallsPlaced,
         \/ \E o \in Orders : PassExpiry(o)
         \/ \E m \in channel : Deliver(m) \/ Lose(m)
         \/ \E w \in Workers : Restart(w)
  PROVE  Shape' /\ CallsPlaced'
<1>. USE BookAssumption
<1>. USE DEF Shape, CallsPlaced, CallRecords, MessageRecords, Operations, Reasons, Statuses,
             Call, Message, memory, history, SetRow, SetCopy, Await, Resume, Live, Forget,
             Publish, Pull, Legs, LegsHere, CancelLegs, Count, Executed, Insert
<1>1. ASSUME NEW o \in Orders, PassExpiry(o) PROVE Shape' /\ CallsPlaced'
  BY <1>1 DEF PassExpiry
<1>2. ASSUME NEW m \in channel, Deliver(m) PROVE Shape' /\ CallsPlaced'
  <2>1. /\ m.to \in Workers /\ m.order \in placed /\ m.status \in Statuses
        /\ copy[m.to] \in [Orders -> Statuses]
    OBVIOUS
  <2>2. channel' \subseteq channel /\ UNCHANGED <<row, calls, placed, expired, history>>
    BY <1>2 DEF Deliver
  <2>3. book' \in [Workers -> SUBSET placed] /\ terminal' \in [Workers -> SUBSET placed]
    <3>1. CASE m.type = "add" /\ AcceptsAdd(m.to, m.order)
      BY <1>2, <2>1, <3>1 DEF Deliver
    <3>2. CASE m.type = "remove"
      <4>1. /\ book' = [book EXCEPT ![m.to] = book[m.to] \ {m.order}]
            /\ terminal' = [terminal EXCEPT ![m.to] = terminal[m.to] \cup {m.order}]
        BY <1>2, <3>2 DEF Deliver
      <4>. QED BY <2>1, <4>1
    <3>3. CASE m.type = "add" /\ ~AcceptsAdd(m.to, m.order)
      BY <1>2, <3>3 DEF Deliver
    <3>. QED BY <3>1, <3>2, <3>3
  <2>4. [copy[m.to] EXCEPT ![m.order] = m.status] \in [Orders -> Statuses]
    BY <2>1
  <2>5. \/ UNCHANGED copy
        \/ copy' = [copy EXCEPT ![m.to] = [copy[m.to] EXCEPT ![m.order] = m.status]]
    BY <1>2 DEF Deliver
  <2>6. copy' \in [Workers -> [Orders -> Statuses]]
    <3>1. CASE UNCHANGED copy
      BY <3>1
    <3>2. CASE copy' = [copy EXCEPT ![m.to] = [copy[m.to] EXCEPT ![m.order] = m.status]]
      <4> DEFINE own == [copy[m.to] EXCEPT ![m.order] = m.status]
      <4>1. own \in [Orders -> Statuses] /\ copy' = [copy EXCEPT ![m.to] = own]
        BY <2>4, <3>2
      <4> HIDE DEF own
      <4>. QED BY <4>1
    <3>. QED BY <2>5, <3>1, <3>2
  <2>. QED BY <2>2, <2>3, <2>6
<1>3. ASSUME NEW m \in channel, Lose(m) PROVE Shape' /\ CallsPlaced'
  BY <1>3 DEF Lose
<1>4. ASSUME NEW w \in Workers, Restart(w) PROVE Shape' /\ CallsPlaced'
  BY <1>4 DEF Restart
<1>. QED BY <1>1, <1>2, <1>3, <1>4

(* No step of the model spends a bound that is used up.                       *)
LEMMA BoundsStep == ASSUME AllBounds, [Next]_vars PROVE AllBounds'
<1>. USE SpendOne, KeepBounds DEF Insert, RollBack, Executed, Pull, Forget, Publish
<1>1. ASSUME NEW c \in calls, Step(c) PROVE AllBounds'
  BY <1>1 DEF Step, Persist, AddSecond, PersistTrail, ClaimWon, ClaimWonExpiry, ClaimLost,
              ReleaseExpired, CancelRow, CancelClaimWon, CancelClaimLost, ReleaseCancelled
<1>2. ASSUME NEW c \in calls, Failure(c) PROVE AllBounds'
  BY <1>2 DEF Failure, RefuseSecond, PersistRetry, PersistGivesUp, TrailGivesUp
<1>3. ASSUME NEW w \in Workers, NEW o \in Orders, Request(w, o) PROVE AllBounds'
  BY <1>3 DEF Request, Add, TrailUpdate, Trigger, ExpiryScan, CancelHere, CancelElsewhere
<1>4. ASSUME NEW o \in Orders, PassExpiry(o) PROVE AllBounds'
  BY <1>4 DEF PassExpiry
<1>5. ASSUME NEW m \in channel, Deliver(m) \/ Lose(m) PROVE AllBounds'
  BY <1>5 DEF Deliver, Lose
<1>6. ASSUME NEW w \in Workers, Restart(w) PROVE AllBounds'
  BY <1>6 DEF Restart
<1>7. CASE UNCHANGED vars
  BY <1>7 DEF vars
<1>. QED BY <1>1, <1>2, <1>3, <1>4, <1>5, <1>6, <1>7 DEF Next

(* Every behaviour keeps the types: a Map and a set of remembered ids hold    *)
(* orders that were placed, a row and a copy a status, a call its arguments.  *)
LEMMA Shapes == Spec => [](TypeOK /\ Shape /\ CallsPlaced)
<1>1. Init => Shape /\ AllBounds /\ CallsPlaced
  BY BookAssumption DEF Init, Shape, AllBounds, CallsPlaced, CallRecords, MessageRecords,
                        Statuses, Bounds
<1>2. Shape /\ AllBounds /\ CallsPlaced /\ [Next]_vars
      => (Shape /\ AllBounds /\ CallsPlaced)'
  <2>. SUFFICES ASSUME Shape, AllBounds, CallsPlaced, [Next]_vars
                PROVE  (Shape /\ AllBounds /\ CallsPlaced)'
    OBVIOUS
  <2>1. CASE UNCHANGED vars
    BY <2>1, KeepBounds DEF vars, memory, history, Shape, CallsPlaced, MessageRecords
  <2>2. CASE Next
    BY <2>2, BoundsStep, ShapeStep, ShapeFailure, ShapeRequest, ShapeRest DEF Next
  <2>. QED BY <2>1, <2>2
<1>. QED BY <1>1, <1>2, SplitType, PTL DEF Spec

(* Every behaviour keeps the types of rows, Maps, calls and messages.         *)
THEOREM BookTypeCorrect == Spec => []TypeOK
  BY Shapes, PTL

------------------------------------------------------------------------------
(* An order enters the book once.                                             *)

Entering == {c \in calls : c.op \in {"add", "place"}}
Early(o) == o \notin placed \/ \E c \in calls : c.op = "add" /\ c.order = o

EntersOnce ==
    /\ \A c, d \in Entering : c.order = d.order => c = d
    /\ \A c \in calls : c.op = "place" => c.order \in SecondLegs \ placed
    /\ \A o \in Orders \ SecondLegs : Early(o) =>
            \A s \in Legs(o) \cap SecondLegs :
                s \notin placed /\ \A c \in calls : c.op = "place" => c.order # s
    /\ \A o \in Orders \ Trailing : Early(o) => row[o] # "PENDING"

(* Nobody has claimed the order yet.                                          *)
Fresh(o) == Early(o) \/ row[o] = "PENDING"
FreshFades == \A o \in Orders \ Trailing : Fresh(o)' => Fresh(o)

(* Steps that let no order in.                                                *)
LEMMA QuietEntry ==
  ASSUME EntersOnce, placed' = placed, Entering' \subseteq Entering,
         \A o \in Orders \ Trailing : row'[o] = "PENDING" => row[o] = "PENDING"
  PROVE  EntersOnce' /\ FreshFades
<1>1. \A o \in Orders : Early(o)' => Early(o)
  BY DEF Early, Entering
<1>2. FreshFades
  BY <1>1 DEF Fresh, FreshFades
<1>3. \A c \in calls' : c.op = "place" => c \in calls
  BY DEF Entering
<1>. QED BY <1>1, <1>2, <1>3 DEF EntersOnce

(* A call that returns: an order enters once, by its first persisted write.   *)
LEMMA EntryStep ==
  ASSUME Shape, CallsPlaced, EntersOnce, NEW c \in calls, Step(c)
  PROVE  EntersOnce' /\ FreshFades
<1>. USE BookAssumption
<1>. USE DEF Shape, CallsPlaced, CallRecords, Operations, Statuses, Call, memory, history,
             SetRow, Await, Resume, Entering, Insert
<1>1. CASE Persist(c)
  <2> DEFINE o == c.order
             seconds == Legs(o) \cap SecondLegs
  <2>1. /\ o \in placed /\ c.op = "add" /\ placed' = placed
        /\ row' = [row EXCEPT ![o] = c.arg]
        /\ calls' = (calls \ {c}) \cup {Call("place", c.at, s, "PENDING") : s \in seconds}
    BY <1>1 DEF Persist
  <2>2. seconds # {} => o \in Orders \ SecondLegs
    BY <2>1 DEF Legs
  <2>3. \A s \in seconds : s \notin placed /\ \A d \in Entering : d.order # s
    BY <2>1, <2>2 DEF EntersOnce, Early
  <2>4. \A d \in Entering' : d \in Entering \ {c} \/ (d.op = "place" /\ d.order \in seconds)
    BY <2>1
  <2>5. \A d, e \in Entering' : d.order = e.order => d = e
    <3>1. \A d \in Entering' \ Entering : d = Call("place", c.at, d.order, "PENDING")
      BY <2>1
    <3>. QED BY <2>3, <2>4, <3>1 DEF EntersOnce
  <2>6. \A d \in calls' : d.op = "place" => d.order \in SecondLegs \ placed'
    BY <2>1, <2>3 DEF EntersOnce
  <2>7. \A p \in Orders : Early(p)' => Early(p) /\ p # o
    BY <2>1 DEF Early, EntersOnce
  <2>8. ASSUME NEW p \in Orders \ SecondLegs, Early(p)', NEW s \in Legs(p) \cap SecondLegs
        PROVE  s \notin placed' /\ \A d \in calls' : d.op = "place" => d.order # s
    <3>1. s \notin placed /\ \A d \in calls : d.op = "place" => d.order # s
      BY <2>7, <2>8 DEF EntersOnce
    <3>2. s \notin seconds
      BY <2>1, <2>7, <2>8 DEF Legs
    <3>. QED BY <2>1, <3>1, <3>2
  <2>9. \A p \in Orders \ Trailing : Early(p)' => row'[p] # "PENDING"
    BY <2>1, <2>7 DEF EntersOnce
  <2>10. FreshFades
    BY <2>1, <2>7 DEF FreshFades, Fresh, Early
  <2>. QED BY <2>5, <2>6, <2>8, <2>9, <2>10 DEF EntersOnce
<1>2. CASE AddSecond(c)
  <2> DEFINE o == c.order
  <2>1. /\ c.op = "place" /\ o \in SecondLegs \ placed /\ placed' = placed \cup {o}
        /\ row' = row /\ calls' = (calls \ {c}) \cup {Call("add", c.at, o, "PENDING")}
    BY <1>2 DEF AddSecond, EntersOnce
  <2>2. \A d \in Entering' : d \in Entering \ {c} \/ d = Call("add", c.at, o, "PENDING")
    BY <2>1
  <2>3. \A d \in Entering \ {c} : d.order # o
    BY <2>1 DEF EntersOnce
  <2>4. \A d, e \in Entering' : d.order = e.order => d = e
    BY <2>2, <2>3 DEF EntersOnce
  <2>5. \A d \in calls' : d.op = "place" => d \in calls /\ d.order \in SecondLegs \ placed'
    BY <2>1, <2>3 DEF EntersOnce
  <2>6. \A p \in Orders : Early(p)' => Early(p)
    BY <2>1 DEF Early
  <2>7. ASSUME NEW p \in Orders \ SecondLegs, Early(p)', NEW s \in Legs(p) \cap SecondLegs
        PROVE  s \notin placed' /\ \A d \in calls' : d.op = "place" => d.order # s
    <3>1. s \notin placed /\ \A d \in calls : d.op = "place" => d.order # s
      BY <2>6, <2>7 DEF EntersOnce
    <3>. QED BY <2>1, <2>5, <3>1
  <2>8. FreshFades
    BY <2>1, <2>6 DEF FreshFades, Fresh
  <2>. QED BY <2>1, <2>4, <2>5, <2>6, <2>7, <2>8 DEF EntersOnce
<1>3. CASE PersistTrail(c)
  BY <1>3, QuietEntry DEF PersistTrail, CancelLegs
<1>4. CASE ClaimWon(c)
  BY <1>4, QuietEntry DEF ClaimWon, CancelLegs
<1>5. CASE ClaimWonExpiry(c)
  BY <1>5, QuietEntry DEF ClaimWonExpiry, CancelLegs
<1>6. CASE ClaimLost(c)
  BY <1>6, QuietEntry DEF ClaimLost, CancelLegs
<1>7. CASE ReleaseExpired(c)
  BY <1>7, QuietEntry DEF ReleaseExpired, CancelLegs
<1>8. CASE CancelRow(c)
  BY <1>8, QuietEntry DEF CancelRow, CancelLegs
<1>9. CASE CancelClaimWon(c)
  BY <1>9, QuietEntry DEF CancelClaimWon, CancelLegs
<1>10. CASE CancelClaimLost(c)
  BY <1>10, QuietEntry DEF CancelClaimLost, CancelLegs
<1>11. CASE ReleaseCancelled(c)
  BY <1>11, QuietEntry DEF ReleaseCancelled, CancelLegs
<1>. QED BY <1>1, <1>2, <1>3, <1>4, <1>5, <1>6, <1>7, <1>8, <1>9, <1>10, <1>11 DEF Step

(* A call that fails lets no order in a second time.                          *)
LEMMA EntryFailure ==
  ASSUME Shape, CallsPlaced, EntersOnce, NEW c \in calls, Failure(c)
  PROVE  EntersOnce' /\ FreshFades
<1>. USE BookAssumption
<1>. USE DEF Shape, CallsPlaced, CallRecords, Operations, Statuses, Call, memory, history,
             SetRow, Await, Resume, Entering, Insert
<1>1. CASE RefuseSecond(c)
  BY <1>1, QuietEntry DEF RefuseSecond, RollBack
<1>2. CASE PersistRetry(c)
  <2> DEFINE new == Call(c.op, c.at, c.order, copy[c.at][c.order])
  <2>1. /\ calls' = (calls \ {c}) \cup {new} /\ new.op = c.op /\ new.order = c.order
        /\ placed' = placed /\ row' = row /\ c.op \in {"add", "trail"}
    BY <1>2 DEF PersistRetry
  <2> HIDE DEF new
  <2>2. \A o \in Orders : Early(o)' => Early(o)
    BY <2>1 DEF Early
  <2>3. \A d \in calls' : d.op = "place" => d \in calls
    BY <2>1
  <2>4. \A d, e \in Entering' : d.order = e.order => d = e
    BY <2>1 DEF EntersOnce
  <2>. QED BY <2>1, <2>2, <2>3, <2>4 DEF EntersOnce, FreshFades, Fresh
<1>3. CASE PersistGivesUp(c)
  BY <1>3, QuietEntry DEF PersistGivesUp, RollBack
<1>4. CASE TrailGivesUp(c)
  BY <1>4, QuietEntry DEF TrailGivesUp
<1>. QED BY <1>1, <1>2, <1>3, <1>4 DEF Failure

(* add() is called once for an order.                                         *)
LEMMA EntryRequest ==
  ASSUME Shape, CallsPlaced, EntersOnce, NEW w \in Workers, NEW o \in Orders, Request(w, o)
  PROVE  EntersOnce' /\ FreshFades
<1>. USE BookAssumption
<1>. USE DEF Shape, CallsPlaced, CallRecords, Operations, Statuses, Call, memory, history,
             SetRow, Await, Resume, Entering, Insert
<1>1. CASE Add(w, o)
  <2>1. /\ o \notin placed /\ o \notin SecondLegs /\ placed' = placed \cup {o}
        /\ row' = row /\ calls' = calls \cup {Call("add", w, o, "PENDING")}
    BY <1>1 DEF Add
  <2>2. \A d \in Entering : d.order # o
    BY <2>1 DEF EntersOnce
  <2>3. \A d, e \in Entering' : d.order = e.order => d = e
    BY <2>1, <2>2 DEF EntersOnce
  <2>4. \A d \in calls' : d.op = "place" => d \in calls /\ d.order \in SecondLegs \ placed'
    BY <2>1 DEF EntersOnce
  <2>5. \A p \in Orders : Early(p)' => Early(p)
    BY <2>1 DEF Early
  <2>6. ASSUME NEW p \in Orders \ SecondLegs, Early(p)', NEW s \in Legs(p) \cap SecondLegs
        PROVE  s \notin placed' /\ \A d \in calls' : d.op = "place" => d.order # s
    BY <2>1, <2>4, <2>5, <2>6 DEF EntersOnce
  <2>. QED BY <2>1, <2>3, <2>4, <2>5, <2>6 DEF EntersOnce, FreshFades, Fresh
<1>2. CASE TrailUpdate(w, o)
  BY <1>2, QuietEntry DEF TrailUpdate
<1>3. CASE Trigger(w, o)
  BY <1>3, QuietEntry DEF Trigger
<1>4. CASE ExpiryScan(w, o)
  BY <1>4, QuietEntry DEF ExpiryScan
<1>5. CASE CancelHere(w, o)
  BY <1>5, QuietEntry DEF CancelHere
<1>6. CASE CancelElsewhere(w, o)
  BY <1>6, QuietEntry DEF CancelElsewhere
<1>. QED BY <1>1, <1>2, <1>3, <1>4, <1>5, <1>6 DEF Request

(* Expiry, messages and restarts let no order in.                             *)
LEMMA EntryRest ==
  ASSUME Shape, CallsPlaced, EntersOnce,
         \/ \E o \in Orders : PassExpiry(o)
         \/ \E m \in channel : Deliver(m) \/ Lose(m)
         \/ \E w \in Workers : Restart(w)
         \/ UNCHANGED vars
  PROVE  EntersOnce' /\ FreshFades
<1>. USE BookAssumption
<1>. USE DEF Shape, CallsPlaced, CallRecords, Operations, Statuses, Call, memory, history,
             SetRow, Await, Resume, Entering, Insert
<1>1. ASSUME NEW o \in Orders, PassExpiry(o) PROVE EntersOnce' /\ FreshFades
  BY <1>1, QuietEntry DEF PassExpiry
<1>2. ASSUME NEW m \in channel, Deliver(m) \/ Lose(m) PROVE EntersOnce' /\ FreshFades
  BY <1>2, QuietEntry DEF Deliver, Lose
<1>3. ASSUME NEW w \in Workers, Restart(w) PROVE EntersOnce' /\ FreshFades
  BY <1>3, QuietEntry DEF Restart
<1>4. CASE UNCHANGED vars
  BY <1>4, QuietEntry DEF vars
<1>. QED BY <1>1, <1>2, <1>3, <1>4

------------------------------------------------------------------------------
(* Once claimed by a trigger, an order is executed by the winner only.        *)

(* What the winner awaits before it executes the order.                       *)
Finishing(o) ==
    {c \in calls : /\ c.op \in {"cancelRow", "cancelClaim", "release"}
                   /\ c.arg = "triggered" /\ c.order \in Legs(o)}

OneWinner ==
    /\ \A c \in calls : c.arg = "triggered" =>
            c.op \in {"cancelRow", "cancelClaim", "release"} /\ Legs(c.order) # {}
    /\ \A o \in Orders \ Trailing :
        /\ Early(o) \/ row[o] = "PENDING" => executed[o] = 0 /\ Finishing(o) = {}
        /\ executed[o] \in {0, 1}
        /\ executed[o] = 1 => Finishing(o) = {}
        /\ \A c, d \in Finishing(o) : c = d

(* The order a finishing call executes: legs belong to one pair.              *)
LEMMA OwnLeg ==
  ASSUME NEW s \in Orders, Legs(s) # {}
  PROVE  /\ Sibling[s] \in Orders /\ s \in Legs(Sibling[s])
         /\ \A o \in Orders : s \in Legs(o) => o = Sibling[s]
  BY BookAssumption DEF Legs

(* Steps that neither win nor finish.                                         *)
LEMMA QuietWin ==
  ASSUME OneWinner, FreshFades, executed' = executed,
         \A c \in calls' : c.arg = "triggered" => c \in calls
  PROVE  OneWinner'
<1>1. \A o \in Orders : Finishing(o)' \subseteq Finishing(o)
  BY DEF Finishing
<1>2. \A c \in calls' : c.arg = "triggered" =>
        c.op \in {"cancelRow", "cancelClaim", "release"} /\ Legs(c.order) # {}
  BY DEF OneWinner
<1>. QED BY <1>1, <1>2 DEF OneWinner, FreshFades, Fresh

(* The winner awaits the next step.                                           *)
LEMMA WinnerGoesOn ==
  ASSUME OneWinner, FreshFades, NEW c \in calls, NEW r, executed' = executed,
         calls' = (calls \ {c}) \cup {r}, r.order = c.order, r.arg = c.arg,
         {c.op, r.op} \subseteq {"cancelRow", "cancelClaim", "release"}
  PROVE  OneWinner'
<1>1. \A o \in Orders : c \in Finishing(o) <=> r \in Finishing(o)'
  BY DEF Finishing
<1>2. \A o \in Orders : \A d \in Finishing(o)' : d = r \/ d \in Finishing(o) \ {c}
  BY DEF Finishing
<1>3. \A d \in calls' : d.arg = "triggered" =>
        d.op \in {"cancelRow", "cancelClaim", "release"} /\ Legs(d.order) # {}
  BY DEF OneWinner
<1>4. ASSUME NEW o \in Orders \ Trailing
      PROVE  /\ Fresh(o)' => executed[o] = 0 /\ Finishing(o)' = {}
             /\ executed[o] = 1 => Finishing(o)' = {}
             /\ \A d, e \in Finishing(o)' : d = e
  <2>1. Finishing(o) = {} => Finishing(o)' = {}
    BY <1>1, <1>2
  <2>2. Fresh(o)' => executed[o] = 0 /\ Finishing(o) = {}
    BY DEF OneWinner, FreshFades, Fresh
  <2>3. \A d, e \in Finishing(o)' : d = e
    BY <1>1, <1>2 DEF OneWinner
  <2>. QED BY <2>1, <2>2, <2>3 DEF OneWinner
<1>. QED BY <1>3, <1>4 DEF OneWinner, Fresh

(* The winner executes its order.                                             *)
LEMMA WinnerFinishes ==
  ASSUME Shape, OneWinner, FreshFades, NEW c \in calls, c.arg = "triggered",
         calls' = calls \ {c}, executed' = Count(executed, Sibling[c.order])
  PROVE  OneWinner'
<1> DEFINE w == Sibling[c.order]
<1>1. /\ c.order \in Orders /\ c.op \in {"cancelRow", "cancelClaim", "release"}
      /\ Legs(c.order) # {}
  BY DEF Shape, CallRecords, OneWinner
<1>2. w \in Orders /\ c \in Finishing(w)
  BY <1>1, OwnLeg DEF Finishing
<1>3. \A o \in Orders : Finishing(o)' \subseteq Finishing(o) \ {c}
  BY DEF Finishing
<1>4. \A d \in calls' : d.arg = "triggered" =>
        d.op \in {"cancelRow", "cancelClaim", "release"} /\ Legs(d.order) # {}
  BY DEF OneWinner
<1>5. ASSUME NEW o \in Orders \ Trailing
      PROVE  /\ Fresh(o)' => executed'[o] = 0 /\ Finishing(o)' = {}
             /\ executed'[o] \in {0, 1}
             /\ executed'[o] = 1 => Finishing(o)' = {}
             /\ \A d, e \in Finishing(o)' : d = e
  <2>1. CASE o = w
    <3>1. executed[o] = 0 /\ ~Fresh(o)
      BY <1>2, <2>1 DEF OneWinner, Fresh
    <3>2. executed'[o] = 1
      BY <1>2, <2>1, <3>1 DEF Count, Shape
    <3>3. Finishing(o)' = {}
      BY <1>2, <1>3, <2>1 DEF OneWinner
    <3>. QED BY <3>1, <3>2, <3>3 DEF FreshFades
  <2>2. CASE o # w
    <3>1. executed'[o] = executed[o]
      BY <1>2, <2>2 DEF Count, Shape
    <3>. QED BY <1>3, <3>1 DEF OneWinner, Fresh, FreshFades
  <2>. QED BY <2>1, <2>2
<1>. QED BY <1>4, <1>5 DEF OneWinner, Fresh

(* A trigger wins the claim: nobody executed the order before.                *)
LEMMA WinnerClaims ==
  ASSUME Shape, EntersOnce, OneWinner, FreshFades, NEW c \in calls, ClaimWon(c)
  PROVE  OneWinner'
<1>. USE BookAssumption
<1>. USE DEF Shape, CallRecords, Call, memory, history, Await, Resume
<1> DEFINE o == c.order
<1>1. /\ o \in Orders /\ c.at \in Workers /\ row[o] = "PENDING" /\ row'[o] = "TRIGGERED"
      /\ calls' = (calls \ {c}) \cup CancelLegs(c.at, o, "triggered") /\ placed' = placed
      /\ IF Legs(o) = {} THEN executed' = Count(executed, o) ELSE executed' = executed
  BY DEF ClaimWon, Claimable, SetRow, Executed
<1>2. \A d \in CancelLegs(c.at, o, "triggered") :
        d.op \in {"cancelRow", "cancelClaim"} /\ d.order \in Legs(o)
  BY DEF CancelLegs
<1>3. \A d, e \in CancelLegs(c.at, o, "triggered") : d = e
  BY DEF CancelLegs, Legs
<1>4. \A p \in Orders : p # o => Finishing(p)' \subseteq Finishing(p)
  BY <1>1, <1>2 DEF Finishing, Legs
<1>5. Finishing(o)' \subseteq Finishing(o) \cup CancelLegs(c.at, o, "triggered")
  BY <1>1 DEF Finishing
<1>6. \A d \in calls' : d.arg = "triggered" =>
        d.op \in {"cancelRow", "cancelClaim", "release"} /\ Legs(d.order) # {}
  BY <1>1, <1>2 DEF OneWinner, Legs
<1>7. o \notin Trailing => ~Fresh(o)'
  BY <1>1 DEF EntersOnce, Fresh, Early, CancelLegs
<1>8. ASSUME NEW p \in Orders \ Trailing
      PROVE  /\ Fresh(p)' => executed'[p] = 0 /\ Finishing(p)' = {}
             /\ executed'[p] \in {0, 1}
             /\ executed'[p] = 1 => Finishing(p)' = {}
             /\ \A d, e \in Finishing(p)' : d = e
  <2>1. CASE p # o
    <3>1. executed'[p] = executed[p]
      BY <1>1, <2>1 DEF Count
    <3>. QED BY <1>4, <2>1, <3>1 DEF OneWinner, Fresh, FreshFades
  <2>2. CASE p = o
    <3>1. executed[o] = 0 /\ Finishing(o) = {}
      BY <1>1, <2>2 DEF OneWinner
    <3>2. CASE Legs(o) = {}
      <4>1. executed'[o] = 1 /\ CancelLegs(c.at, o, "triggered") = {}
        BY <1>1, <3>1, <3>2 DEF Count, CancelLegs
      <4>. QED BY <1>5, <1>7, <2>2, <3>1, <4>1
    <3>3. CASE Legs(o) # {}
      BY <1>1, <1>3, <1>5, <1>7, <2>2, <3>1, <3>3
    <3>. QED BY <3>2, <3>3
  <2>. QED BY <2>1, <2>2
<1>. QED BY <1>6, <1>8 DEF OneWinner, Fresh

(* Of the calls that return only a won claim makes a winner.                  *)
LEMMA WinnerStep ==
  ASSUME Shape, EntersOnce, OneWinner, FreshFades, NEW c \in calls, Step(c)
  PROVE  OneWinner'
<1>. USE BookAssumption
<1>. USE DEF Shape, CallRecords, Statuses, Call, memory, history, Await, Resume
<1>1. CASE Persist(c)
  BY <1>1, QuietWin DEF Persist
<1>2. CASE AddSecond(c)
  BY <1>2, QuietWin DEF AddSecond, Insert
<1>3. CASE PersistTrail(c)
  BY <1>3, QuietWin DEF PersistTrail
<1>4. CASE ClaimWonExpiry(c)
  BY <1>4, QuietWin DEF ClaimWonExpiry
<1>5. CASE ClaimLost(c)
  BY <1>5, QuietWin DEF ClaimLost
<1>6. CASE ReleaseExpired(c)
  BY <1>6, QuietWin DEF ReleaseExpired
<1>7. CASE ClaimWon(c)
  BY <1>7, WinnerClaims
<1>8. CASE CancelRow(c)
  <2>1. /\ c.op = "cancelRow" /\ executed' = executed
        /\ calls' = (calls \ {c}) \cup {Call("release", c.at, c.order, c.arg)}
    BY <1>8 DEF CancelRow
  <2> DEFINE r == Call("release", c.at, c.order, c.arg)
  <2>2. r.op = "release" /\ r.order = c.order /\ r.arg = c.arg
    OBVIOUS
  <2>3. calls' = (calls \ {c}) \cup {r}
    BY <2>1
  <2> HIDE DEF r
  <2>. QED BY <2>1, <2>2, <2>3, WinnerGoesOn
<1>9. CASE CancelClaimWon(c)
  <2>1. /\ c.op = "cancelClaim" /\ executed' = executed
        /\ calls' = (calls \ {c}) \cup {Call("release", c.at, c.order, c.arg)}
    BY <1>9 DEF CancelClaimWon
  <2> DEFINE r == Call("release", c.at, c.order, c.arg)
  <2>2. r.op = "release" /\ r.order = c.order /\ r.arg = c.arg
    OBVIOUS
  <2>3. calls' = (calls \ {c}) \cup {r}
    BY <2>1
  <2> HIDE DEF r
  <2>. QED BY <2>1, <2>2, <2>3, WinnerGoesOn
<1>10. CASE CancelClaimLost(c)
  <2>1. CASE c.arg = "triggered"
    BY <1>10, <2>1, WinnerFinishes DEF CancelClaimLost, Executed
  <2>2. CASE c.arg # "triggered"
    BY <1>10, <2>2, QuietWin DEF CancelClaimLost
  <2>. QED BY <2>1, <2>2
<1>11. CASE ReleaseCancelled(c)
  <2>1. CASE c.arg = "triggered"
    BY <1>11, <2>1, WinnerFinishes DEF ReleaseCancelled, Executed
  <2>2. CASE c.arg # "triggered"
    BY <1>11, <2>2, QuietWin DEF ReleaseCancelled, CancelLegs
  <2>. QED BY <2>1, <2>2
<1>. QED BY <1>1, <1>2, <1>3, <1>4, <1>5, <1>6, <1>7, <1>8, <1>9, <1>10, <1>11 DEF Step

(* Every step keeps the winner unique.                                        *)
LEMMA WinnerNext ==
  ASSUME Shape, EntersOnce, OneWinner, FreshFades, [Next]_vars
  PROVE  OneWinner'
<1>. USE BookAssumption
<1>. USE DEF Shape, CallRecords, Statuses, Call, memory, history, Await, Resume
<1>1. ASSUME NEW c \in calls, Step(c) PROVE OneWinner'
  BY <1>1, WinnerStep
<1>2. ASSUME NEW c \in calls, Failure(c) PROVE OneWinner'
  <2>1. CASE RefuseSecond(c)
    BY <2>1, QuietWin DEF RefuseSecond, RollBack
  <2>2. CASE PersistRetry(c)
    BY <2>2, QuietWin DEF PersistRetry
  <2>3. CASE PersistGivesUp(c)
    BY <2>3, QuietWin DEF PersistGivesUp, RollBack
  <2>4. CASE TrailGivesUp(c)
    BY <2>4, QuietWin DEF TrailGivesUp
  <2>. QED BY <1>2, <2>1, <2>2, <2>3, <2>4 DEF Failure
<1>3. ASSUME NEW w \in Workers, NEW o \in Orders, Request(w, o) PROVE OneWinner'
  <2>1. CASE Add(w, o)
    BY <2>1, QuietWin DEF Add, Insert
  <2>2. CASE TrailUpdate(w, o)
    BY <2>2, QuietWin DEF TrailUpdate
  <2>3. CASE Trigger(w, o)
    BY <2>3, QuietWin DEF Trigger
  <2>4. CASE ExpiryScan(w, o)
    BY <2>4, QuietWin DEF ExpiryScan
  <2>5. CASE CancelHere(w, o)
    BY <2>5, QuietWin DEF CancelHere
  <2>6. CASE CancelElsewhere(w, o)
    BY <2>6, QuietWin DEF CancelElsewhere
  <2>. QED BY <1>3, <2>1, <2>2, <2>3, <2>4, <2>5, <2>6 DEF Request
<1>4. ASSUME NEW o \in Orders, PassExpiry(o) PROVE OneWinner'
  BY <1>4, QuietWin DEF PassExpiry
<1>5. ASSUME NEW m \in channel, Deliver(m) \/ Lose(m) PROVE OneWinner'
  BY <1>5, QuietWin DEF Deliver, Lose
<1>6. ASSUME NEW w \in Workers, Restart(w) PROVE OneWinner'
  BY <1>6, QuietWin DEF Restart
<1>7. CASE UNCHANGED vars
  BY <1>7, QuietWin DEF vars
<1>. QED BY <1>1, <1>2, <1>3, <1>4, <1>5, <1>6, <1>7 DEF Next

(* The inductive invariant behind ExecutedOnce.                               *)
LEMMA Winners == Spec => [](Shape /\ CallsPlaced /\ EntersOnce /\ OneWinner)
<1>1. Init => EntersOnce /\ OneWinner
  BY BookAssumption DEF Init, EntersOnce, OneWinner, Entering, Early, Finishing, Legs
<1>2. Shape /\ CallsPlaced /\ EntersOnce /\ [Next]_vars => EntersOnce' /\ FreshFades
  BY EntryStep, EntryFailure, EntryRequest, EntryRest DEF Next
<1>3. Shape /\ CallsPlaced /\ EntersOnce /\ OneWinner /\ [Next]_vars
      => (EntersOnce /\ OneWinner)'
  BY <1>2, WinnerNext
<1>. QED BY <1>1, <1>3, Shapes, PTL DEF Spec

(* However many workers hold an order and see the tick, however calls fail    *)
(* and workers restart, the conditional update of its row lets one of them    *)
(* execute it, and once.                                                      *)
THEOREM ExecutedAtMostOnce == Spec => []ExecutedOnce
<1>1. OneWinner => ExecutedOnce
  BY DEF OneWinner, ExecutedOnce
<1>. QED BY <1>1, Winners, PTL

------------------------------------------------------------------------------
(* An order that no worker cancelled in its own Map has one outcome.          *)

(* The calls that are going to execute the order or to release its margin.    *)
Settles(c, o) ==
    \/ c.op \in {"release", "expire"} /\ c.order = o
    \/ c.op \in {"cancelRow", "cancelClaim", "release"} /\ c.arg = "triggered" /\ c.order \in Legs(o)
Resolving(o) == {c \in calls : Settles(c, o)}
Outcomes(o) == executed[o] + released[o]

OutcomeOf(o) ==
    /\ Fresh(o) => Outcomes(o) = 0 /\ Resolving(o) = {}
    /\ Outcomes(o) \in {0, 1}
    /\ Outcomes(o) = 1 => Resolving(o) = {}
    /\ \A c, d \in Resolving(o) : c = d

PulledCalls == \A c \in calls : c.op = "cancelRow" => c.order \in pulled
OneOutcome == \A o \in Orders \ (Trailing \cup pulled) : OutcomeOf(o)

(* What a step may do to an order: nothing, await the next step of resolving  *)
(* it, resolve it, or, if it is fresh, begin to resolve it or resolve it.     *)
Waits(o) == Outcomes(o)' = Outcomes(o) /\ Resolving(o)' \subseteq Resolving(o)
Moves(o) ==
    /\ Outcomes(o)' = Outcomes(o)
    /\ \E c \in Resolving(o) : \E r : Resolving(o)' \subseteq (Resolving(o) \ {c}) \cup {r}
Resolves(o) ==
    /\ Outcomes(o)' = Outcomes(o) + 1
    /\ \E c \in Resolving(o) : Resolving(o)' \subseteq Resolving(o) \ {c}
Begins(o) ==
    /\ Fresh(o) /\ ~Fresh(o)'
    /\ \/ Outcomes(o)' = Outcomes(o) /\ \E r : Resolving(o)' \subseteq Resolving(o) \cup {r}
       \/ Outcomes(o)' = Outcomes(o) + 1 /\ Resolving(o)' \subseteq Resolving(o)
Advances(o) == Waits(o) \/ Moves(o) \/ Resolves(o) \/ Begins(o)
Progress == PulledCalls' /\ \A o \in Orders \ (Trailing \cup pulled') : Advances(o)

(* Each of them leaves the order with one outcome at most.                    *)
LEMMA OutcomeKept ==
  ASSUME NEW o \in Orders, OutcomeOf(o), Fresh(o)' => Fresh(o), Advances(o)
  PROVE  OutcomeOf(o)'
<1>1. CASE Waits(o)
  BY <1>1 DEF Waits, OutcomeOf
<1>2. CASE Moves(o)
  BY <1>2 DEF Moves, OutcomeOf
<1>3. CASE Resolves(o)
  BY <1>3 DEF Resolves, OutcomeOf
<1>4. CASE Begins(o)
  BY <1>4 DEF Begins, OutcomeOf
<1>. QED BY <1>1, <1>2, <1>3, <1>4 DEF Advances

(* A step that only ends calls, or begins calls that resolve nothing.         *)
LEMMA QuietOutcome ==
  ASSUME PulledCalls, executed' = executed, released' = released, pulled \subseteq pulled',
         \A c \in calls' \ calls :
            /\ c.op \notin {"release", "expire"} /\ c.arg # "triggered"
            /\ c.op = "cancelRow" => c.order \in pulled'
  PROVE  Progress
<1>1. PulledCalls'
  BY DEF PulledCalls
<1>2. ASSUME NEW o \in Orders PROVE Waits(o)
  BY DEF Waits, Outcomes, Resolving, Settles
<1>. QED BY <1>1, <1>2 DEF Advances, Progress

(* Whoever claims an order finds it fresh and leaves it claimed.              *)
LEMMA ClaimedNotFresh ==
  ASSUME EntersOnce, NEW o \in Orders \ Trailing, row[o] = "PENDING", row'[o] # "PENDING",
         placed' = placed, \A d \in calls' \ calls : d.op # "add"
  PROVE  Fresh(o) /\ ~Fresh(o)'
  BY DEF EntersOnce, Fresh, Early

(* The calls that resolve an order when one call gives way to others.         *)
LEMMA ReplaceCall ==
  ASSUME NEW c \in calls, NEW new, calls' = (calls \ {c}) \cup new, NEW p
  PROVE  /\ Resolving(p)' \subseteq (Resolving(p) \ {c}) \cup {d \in new : Settles(d, p)}
         /\ Settles(c, p) => c \in Resolving(p)
  BY DEF Resolving

(* A cancellation that goes on to the release moves the winner on.            *)
LEMMA SiblingMoves ==
  ASSUME NEW c \in calls, NEW r, calls' = (calls \ {c}) \cup {r}, r.op = "release",
         c.op \in {"cancelRow", "cancelClaim"}, r.order = c.order, r.arg = c.arg,
         executed' = executed, released' = released, NEW p, p # c.order
  PROVE  Waits(p) \/ Moves(p)
<1>1. Outcomes(p)' = Outcomes(p)
  BY DEF Outcomes
<1>2. Settles(r, p) <=> Settles(c, p)
  BY DEF Settles
<1>3. Resolving(p)' \subseteq (Resolving(p) \ {c}) \cup {d \in {r} : Settles(d, p)}
  BY ReplaceCall
<1>4. CASE Settles(c, p)
  <2>1. c \in Resolving(p) /\ Resolving(p)' \subseteq (Resolving(p) \ {c}) \cup {r}
    BY <1>3, <1>4 DEF Resolving
  <2>. QED BY <1>1, <2>1 DEF Moves
<1>5. CASE ~Settles(c, p)
  BY <1>1, <1>2, <1>3, <1>5 DEF Waits
<1>. QED BY <1>4, <1>5

(* A trigger that wins begins to resolve its own order only.                  *)
LEMMA OutcomeClaimWon ==
  ASSUME Shape, EntersOnce, PulledCalls, NEW c \in calls, ClaimWon(c)
  PROVE  Progress
<1> DEFINE o == c.order
<1>0. PICK legs : legs = CancelLegs(c.at, o, "triggered")
  OBVIOUS
<1>1. /\ o \in Orders /\ row[o] = "PENDING" /\ row'[o] = "TRIGGERED"
      /\ calls' = (calls \ {c}) \cup legs /\ placed' = placed
      /\ pulled' = pulled \cup LegsHere(c.at, o) /\ released' = released
      /\ IF Legs(o) = {} THEN executed' = Count(executed, o) ELSE executed' = executed
  BY <1>0 DEF ClaimWon, Claimable, SetRow, Executed, Resume, Shape, CallRecords
<1>2. \A d \in legs : /\ d.op \in {"cancelRow", "cancelClaim"} /\ d.order \in Legs(o)
                      /\ d.op = "cancelRow" => d.order \in LegsHere(c.at, o)
  BY <1>0 DEF CancelLegs, LegsHere, Call
<1>3. Legs(o) = {} => legs = {}
  BY <1>0 DEF CancelLegs
<1>4. Legs(o) # {} => \E r : legs = {r}
  <2>1. Legs(o) # {} => Legs(o) = {Sibling[o]}
    BY DEF Legs
  <2>2. Legs(o) # {} =>
          legs = {Call(IF Live(c.at, Sibling[o]) THEN "cancelRow" ELSE "cancelClaim",
                       c.at, Sibling[o], "triggered")}
    BY <1>0, <2>1 DEF CancelLegs
  <2>. QED BY <2>2
<1>5. executed' \in [Orders -> Nat] /\ \A p \in Orders : executed[p] \in Nat /\ released[p] \in Nat
  BY <1>1 DEF Count, Shape
<1>6. PulledCalls'
  BY <1>1, <1>2 DEF PulledCalls
<1>7. ASSUME NEW p \in Orders, p # o PROVE Waits(p)
  <2>1. \A d \in legs : ~Settles(d, p)
    BY <1>1, <1>2, <1>7, OwnLeg, BookAssumption DEF Settles, Legs
  <2>2. Resolving(p)' \subseteq Resolving(p)
    BY <1>1, <2>1, ReplaceCall
  <2>3. Outcomes(p)' = Outcomes(p)
    BY <1>1, <1>5, <1>7 DEF Outcomes, Count, Shape
  <2>. QED BY <2>2, <2>3 DEF Waits
<1>8. ASSUME o \notin Trailing PROVE Begins(o)
  <2>1. Fresh(o) /\ ~Fresh(o)'
    BY <1>1, <1>2, <1>8, ClaimedNotFresh
  <2>2. Resolving(o)' \subseteq Resolving(o) \cup legs
    BY <1>1, ReplaceCall
  <2>3. CASE Legs(o) = {}
    <3>1. Outcomes(o)' = Outcomes(o) + 1
      BY <1>1, <1>5, <2>3 DEF Outcomes, Count, Shape
    <3>. QED BY <1>3, <2>1, <2>2, <2>3, <3>1 DEF Begins
  <2>4. CASE Legs(o) # {}
    <3>1. Outcomes(o)' = Outcomes(o)
      BY <1>1, <2>4 DEF Outcomes
    <3>. QED BY <1>4, <2>1, <2>2, <2>4, <3>1 DEF Begins
  <2>. QED BY <2>3, <2>4
<1>. QED BY <1>6, <1>7, <1>8 DEF Advances, Progress

(* So does an expiry.                                                         *)
LEMMA OutcomeExpiry ==
  ASSUME Shape, EntersOnce, PulledCalls, NEW c \in calls, ClaimWonExpiry(c)
  PROVE  Progress
<1> DEFINE o == c.order
           r == Call("expire", c.at, o, c.arg)
<1>1. /\ o \in Orders /\ row[o] = "PENDING" /\ row'[o] = "TRIGGERED"
      /\ calls' = (calls \ {c}) \cup {r} /\ placed' = placed /\ pulled' = pulled
      /\ released' = released /\ executed' = executed
      /\ r.op = "expire" /\ r.order = o
  BY DEF ClaimWonExpiry, Claimable, SetRow, history, Resume, Call, Shape, CallRecords
<1> HIDE DEF r
<1>2. PulledCalls'
  BY <1>1 DEF PulledCalls
<1>3. ASSUME NEW p \in Orders, p # o PROVE Waits(p)
  <2>1. ~Settles(r, p)
    BY <1>1, <1>3 DEF Settles
  <2>2. Resolving(p)' \subseteq Resolving(p)
    BY <1>1, <2>1 DEF Resolving
  <2>3. Outcomes(p)' = Outcomes(p)
    BY <1>1 DEF Outcomes
  <2>. QED BY <2>2, <2>3 DEF Waits
<1>4. ASSUME o \notin Trailing PROVE Begins(o)
  <2>1. Fresh(o) /\ ~Fresh(o)'
    BY <1>1, <1>4, ClaimedNotFresh
  <2>2. Resolving(o)' \subseteq Resolving(o) \cup {r} /\ Outcomes(o)' = Outcomes(o)
    BY <1>1, ReplaceCall DEF Outcomes
  <2>. QED BY <2>1, <2>2 DEF Begins
<1>. QED BY <1>2, <1>3, <1>4 DEF Advances, Progress

(* The margin of an expired order comes back.                                 *)
LEMMA OutcomeExpired ==
  ASSUME Shape, PulledCalls, NEW c \in calls, ReleaseExpired(c)
  PROVE  Progress
<1> DEFINE o == c.order
<1>1. /\ o \in Orders /\ c.op = "expire" /\ calls' = (calls \ {c}) \cup {} /\ pulled' = pulled
      /\ executed' = executed /\ released' = [released EXCEPT ![o] = released[o] + 1]
  BY DEF ReleaseExpired, Count, Resume, Shape, CallRecords
<1>2. PulledCalls'
  BY <1>1 DEF PulledCalls
<1>3. \A p : Resolving(p)' \subseteq Resolving(p) \ {c}
  BY <1>1 DEF Resolving
<1>4. ASSUME NEW p \in Orders, p # o PROVE Waits(p)
  BY <1>1, <1>3, <1>4 DEF Waits, Outcomes
<1>5. Resolves(o)
  <2>1. c \in Resolving(o)
    BY <1>1 DEF Resolving, Settles
  <2>2. Outcomes(o)' = Outcomes(o) + 1
    BY <1>1 DEF Outcomes, Shape
  <2>. QED BY <1>3, <2>1, <2>2 DEF Resolves
<1>. QED BY <1>2, <1>4, <1>5 DEF Advances, Progress

(* A leg cancelled in the Map is pulled: the step moves its trigger on.       *)
LEMMA OutcomeCancelRow ==
  ASSUME Shape, PulledCalls, NEW c \in calls, CancelRow(c)
  PROVE  Progress
<1> DEFINE r == Call("release", c.at, c.order, c.arg)
<1>1. /\ c.op = "cancelRow" /\ calls' = (calls \ {c}) \cup {r} /\ pulled' = pulled
      /\ released' = released /\ executed' = executed
      /\ r.op = "release" /\ r.order = c.order /\ r.arg = c.arg
  BY DEF CancelRow, history, Resume, Call
<1> HIDE DEF r
<1>2. PulledCalls' /\ c.order \in pulled'
  BY <1>1 DEF PulledCalls
<1>3. \A p : p # c.order => Waits(p) \/ Moves(p)
  BY <1>1, SiblingMoves
<1>. QED BY <1>2, <1>3 DEF Advances, Progress

(* A cancellation that claims the row begins to resolve the order.            *)
LEMMA OutcomeCancelClaimWon ==
  ASSUME Shape, EntersOnce, PulledCalls, NEW c \in calls, CancelClaimWon(c)
  PROVE  Progress
<1> DEFINE o == c.order
           r == Call("release", c.at, o, c.arg)
<1>1. /\ o \in Orders /\ row[o] = "PENDING" /\ row'[o] = "CANCELLED"
      /\ c.op = "cancelClaim" /\ calls' = (calls \ {c}) \cup {r} /\ pulled' = pulled
      /\ placed' = placed /\ released' = released /\ executed' = executed
      /\ r.op = "release" /\ r.order = o /\ r.arg = c.arg
  BY DEF CancelClaimWon, Claimable, SetRow, history, Resume, Call, Shape, CallRecords
<1> HIDE DEF r
<1>2. PulledCalls'
  BY <1>1 DEF PulledCalls
<1>3. \A p : p # o => Waits(p) \/ Moves(p)
  BY <1>1, SiblingMoves
<1>4. ASSUME o \notin Trailing PROVE Begins(o)
  <2>1. Fresh(o) /\ ~Fresh(o)'
    BY <1>1, <1>4, ClaimedNotFresh
  <2>2. Resolving(o)' \subseteq Resolving(o) \cup {r} /\ Outcomes(o)' = Outcomes(o)
    BY <1>1, ReplaceCall DEF Outcomes
  <2>. QED BY <2>1, <2>2 DEF Begins
<1>. QED BY <1>2, <1>3, <1>4 DEF Advances, Progress

(* A trigger with no leg left to cancel executes its order.                   *)
LEMMA OutcomeCancelClaimLost ==
  ASSUME Shape, OneWinner, PulledCalls, NEW c \in calls, CancelClaimLost(c)
  PROVE  Progress
<1>1. /\ c.op = "cancelClaim" /\ calls' = (calls \ {c}) \cup {} /\ pulled' = pulled
      /\ released' = released /\ c.order \in Orders
      /\ IF c.arg = "triggered" THEN executed' = Count(executed, Sibling[c.order])
         ELSE executed' = executed
  BY DEF CancelClaimLost, Executed, Resume, Shape, CallRecords
<1>2. CASE c.arg # "triggered"
  BY <1>1, <1>2, QuietOutcome
<1>3. CASE c.arg = "triggered"
  <2> DEFINE w == Sibling[c.order]
  <2>1. w \in Orders /\ c.order \in Legs(w)
    BY <1>1, <1>3, OwnLeg DEF OneWinner
  <2>2. executed' = [executed EXCEPT ![w] = executed[w] + 1]
    BY <1>1, <1>3 DEF Count
  <2> HIDE DEF w
  <2>3. PulledCalls'
    BY <1>1 DEF PulledCalls
  <2>4. \A p : Resolving(p)' \subseteq Resolving(p) \ {c}
    BY <1>1 DEF Resolving
  <2>5. ASSUME NEW p \in Orders, p # w PROVE Waits(p)
    BY <1>1, <2>2, <2>4, <2>5 DEF Waits, Outcomes, Shape
  <2>6. c \in Resolving(w)
    BY <1>1, <1>3, <2>1 DEF Resolving, Settles
  <2>7. Outcomes(w)' = Outcomes(w) + 1
    BY <1>1, <2>1, <2>2 DEF Outcomes, Shape
  <2>. QED BY <2>3, <2>4, <2>5, <2>6, <2>7 DEF Resolves, Advances, Progress
<1>. QED BY <1>2, <1>3

(* The release resolves the order cancelled and the one whose trigger waited. *)
LEMMA OutcomeReleaseCancelled ==
  ASSUME Shape, OneWinner, PulledCalls, NEW c \in calls, ReleaseCancelled(c)
  PROVE  Progress
<1> DEFINE o == c.order
<1>0. PICK new, here :
        /\ new = IF c.arg = "client" THEN CancelLegs(c.at, o, "cancelled") ELSE {}
        /\ here = IF c.arg = "client" THEN LegsHere(c.at, o) ELSE {}
  OBVIOUS
<1>1. /\ c.op = "release" /\ calls' = (calls \ {c}) \cup new /\ pulled' = pulled \cup here
      /\ o \in Orders /\ released' = [released EXCEPT ![o] = released[o] + 1]
      /\ IF c.arg = "triggered" THEN executed' = Count(executed, Sibling[o])
         ELSE executed' = executed
  BY <1>0 DEF ReleaseCancelled, Pull, Count, Executed, Resume, Shape, CallRecords
<1>2. \A d \in new : /\ d.op \in {"cancelRow", "cancelClaim"} /\ d.arg = "cancelled"
                     /\ d.op = "cancelRow" => d.order \in here
  BY <1>0 DEF CancelLegs, LegsHere, Call
<1>3. PulledCalls'
  BY <1>1, <1>2 DEF PulledCalls
<1>4. \A p : Resolving(p)' \subseteq Resolving(p) \ {c}
  BY <1>1, <1>2, ReplaceCall DEF Settles
<1>5. c \in Resolving(o)
  BY <1>1 DEF Resolving, Settles
<1>6. CASE c.arg # "triggered"
  <2>1. ASSUME NEW p \in Orders, p # o PROVE Waits(p)
    BY <1>1, <1>4, <1>6, <2>1 DEF Waits, Outcomes, Shape
  <2>2. Outcomes(o)' = Outcomes(o) + 1
    BY <1>1, <1>6 DEF Outcomes, Shape
  <2>. QED BY <1>3, <1>4, <1>5, <2>1, <2>2 DEF Resolves, Advances, Progress
<1>7. CASE c.arg = "triggered"
  <2> DEFINE w == Sibling[o]
  <2>1. w \in Orders /\ o \in Legs(w) /\ w # o
    BY <1>1, <1>7, OwnLeg, BookAssumption DEF OneWinner, Legs
  <2>2. executed' = [executed EXCEPT ![w] = executed[w] + 1]
    BY <1>1, <1>7 DEF Count
  <2> HIDE DEF w
  <2>3. c \in Resolving(w)
    BY <1>1, <1>7, <2>1 DEF Resolving, Settles
  <2>4. ASSUME NEW p \in Orders, p # o, p # w PROVE Waits(p)
    BY <1>1, <1>4, <2>2, <2>4 DEF Waits, Outcomes, Shape
  <2>5. Outcomes(w)' = Outcomes(w) + 1
    BY <1>1, <2>1, <2>2 DEF Outcomes, Shape
  <2>6. Outcomes(o)' = Outcomes(o) + 1
    BY <1>1, <2>1, <2>2 DEF Outcomes, Shape
  <2>7. Resolves(o) /\ Resolves(w)
    BY <1>4, <1>5, <2>3, <2>5, <2>6 DEF Resolves
  <2>. QED BY <1>3, <2>4, <2>7 DEF Advances, Progress
<1>. QED BY <1>6, <1>7

(* An order whose row could not be written is resolved before anybody can     *)
(* claim it.                                                                  *)
LEMMA OutcomeGivesUp ==
  ASSUME Shape, CallsPlaced, EntersOnce, PulledCalls, NEW c \in calls, PersistGivesUp(c)
  PROVE  Progress
<1> DEFINE o == c.order
<1>0. PICK new, first :
        /\ first = IF o \in SecondLegs THEN LegsHere(c.at, o) ELSE {}
        /\ new = {Call("cancelRow", c.at, s, "client") : s \in first}
  OBVIOUS
<1>1. /\ c.op = "add" /\ calls' = (calls \ {c}) \cup new /\ pulled' = pulled \cup first
      /\ o \in Orders /\ released' = [released EXCEPT ![o] = released[o] + 1]
      /\ executed' = executed /\ row' = row /\ placed' = placed
  BY <1>0 DEF PersistGivesUp, RollBack, Pull, Count, Resume, Shape, CallRecords
<1>2. \A d \in new : d.op = "cancelRow" /\ d.arg = "client" /\ d.order \in first
  BY <1>0 DEF Call
<1>3. PulledCalls'
  BY <1>1, <1>2 DEF PulledCalls
<1>4. \A p : Resolving(p)' \subseteq Resolving(p) \ {c}
  BY <1>1, <1>2, ReplaceCall DEF Settles
<1>5. ASSUME NEW p \in Orders, p # o PROVE Waits(p)
  BY <1>1, <1>4, <1>5 DEF Waits, Outcomes, Shape
<1>6. ASSUME o \notin Trailing PROVE Begins(o)
  <2>1. Early(o) /\ row[o] # "PENDING"
    BY <1>1, <1>6 DEF Early, EntersOnce
  <2>2. \A d \in calls' : d.op = "add" => d.order # o
    BY <1>1, <1>2 DEF EntersOnce, Entering
  <2>3. ~Early(o)'
    BY <1>1, <2>2 DEF Early, CallsPlaced
  <2>4. Outcomes(o)' = Outcomes(o) + 1
    BY <1>1 DEF Outcomes, Shape
  <2>. QED BY <1>1, <1>4, <2>1, <2>3, <2>4 DEF Begins, Fresh
<1>. QED BY <1>3, <1>5, <1>6 DEF Advances, Progress

(* Every step advances every order.                                           *)
LEMMA OutcomeNext ==
  ASSUME Shape, CallsPlaced, EntersOnce, OneWinner, PulledCalls, [Next]_vars
  PROVE  Progress
<1>. USE DEF memory, history, Await, Resume, Call
<1>1. ASSUME NEW c \in calls, Step(c) PROVE Progress
  <2>1. CASE Persist(c)
    BY <2>1, QuietOutcome DEF Persist
  <2>2. CASE AddSecond(c)
    BY <2>2, QuietOutcome DEF AddSecond, Insert
  <2>3. CASE PersistTrail(c)
    BY <2>3, QuietOutcome DEF PersistTrail
  <2>4. CASE ClaimLost(c)
    BY <2>4, QuietOutcome DEF ClaimLost
  <2>. QED BY <1>1, <2>1, <2>2, <2>3, <2>4, OutcomeClaimWon, OutcomeExpiry, OutcomeExpired,
              OutcomeCancelRow, OutcomeCancelClaimWon, OutcomeCancelClaimLost,
              OutcomeReleaseCancelled DEF Step
<1>2. ASSUME NEW c \in calls, Failure(c) PROVE Progress
  <2>1. CASE RefuseSecond(c)
    <3> DEFINE first == IF c.order \in SecondLegs THEN LegsHere(c.at, c.order) ELSE {}
    <3>1. /\ calls' = (calls \ {c}) \cup {Call("cancelRow", c.at, s, "client") : s \in first}
          /\ pulled' = pulled \cup first /\ executed' = executed /\ released' = released
      BY <2>1 DEF RefuseSecond, RollBack, Pull
    <3> HIDE DEF first
    <3>. QED BY <3>1, QuietOutcome
  <2>2. CASE PersistRetry(c)
    <3>1. /\ \A d \in calls' \ calls : d.op = c.op /\ d.arg = copy[c.at][c.order]
          /\ c.op \in {"add", "trail"} /\ c.at \in Workers /\ c.order \in Orders
          /\ executed' = executed /\ released' = released /\ pulled' = pulled
      BY <2>2 DEF PersistRetry, Shape, CallRecords
    <3>2. copy[c.at][c.order] # "triggered"
      BY <3>1 DEF Shape, Statuses
    <3>. QED BY <3>1, <3>2, QuietOutcome
  <2>3. CASE TrailGivesUp(c)
    BY <2>3, QuietOutcome DEF TrailGivesUp
  <2>. QED BY <1>2, <2>1, <2>2, <2>3, OutcomeGivesUp DEF Failure
<1>3. ASSUME NEW w \in Workers, NEW o \in Orders, Request(w, o) PROVE Progress
  <2>1. CASE Add(w, o)
    BY <2>1, QuietOutcome DEF Add, Insert
  <2>2. CASE TrailUpdate(w, o)
    BY <2>2, QuietOutcome DEF TrailUpdate
  <2>3. CASE Trigger(w, o)
    BY <2>3, QuietOutcome DEF Trigger
  <2>4. CASE ExpiryScan(w, o)
    BY <2>4, QuietOutcome DEF ExpiryScan
  <2>5. CASE CancelHere(w, o)
    BY <2>5, QuietOutcome DEF CancelHere, Pull
  <2>6. CASE CancelElsewhere(w, o)
    BY <2>6, QuietOutcome DEF CancelElsewhere
  <2>. QED BY <1>3, <2>1, <2>2, <2>3, <2>4, <2>5, <2>6 DEF Request
<1>4. ASSUME NEW o \in Orders, PassExpiry(o) PROVE Progress
  BY <1>4, QuietOutcome DEF PassExpiry
<1>5. ASSUME NEW m \in channel, Deliver(m) \/ Lose(m) PROVE Progress
  BY <1>5, QuietOutcome DEF Deliver, Lose
<1>6. ASSUME NEW w \in Workers, Restart(w) PROVE Progress
  BY <1>6, QuietOutcome DEF Restart
<1>7. CASE UNCHANGED vars
  BY <1>7, QuietOutcome DEF vars
<1>. QED BY <1>1, <1>2, <1>3, <1>4, <1>5, <1>6, <1>7 DEF Next

(* A pulled order stays pulled.                                               *)
LEMMA PulledGrows == ASSUME [Next]_vars PROVE pulled \subseteq pulled'
  BY DEF Next, vars, memory, history, Step, Failure, Request, Pull, RollBack, Insert,
         Persist, AddSecond, PersistTrail, ClaimWon, ClaimWonExpiry, ClaimLost, ReleaseExpired,
         CancelRow, CancelClaimWon, CancelClaimLost, ReleaseCancelled, RefuseSecond,
         PersistRetry, PersistGivesUp, TrailGivesUp, Add, TrailUpdate, Trigger, ExpiryScan,
         CancelHere, CancelElsewhere, PassExpiry, Deliver, Lose, Restart

(* Executed, rejected, expired or cancelled by its row: of these one happens  *)
(* to an order, however the steps of its trigger, of its cancellation, of its *)
(* expiry and of its sibling's trigger interleave on the workers.             *)
THEOREM ResolvedAtMostOnce == Spec => []ResolvedOnce
<1>1. Init => PulledCalls /\ OneOutcome
  BY BookAssumption
     DEF Init, PulledCalls, OneOutcome, OutcomeOf, Outcomes, Resolving
<1>2. ASSUME Shape, CallsPlaced, EntersOnce, OneWinner, PulledCalls, OneOutcome, [Next]_vars
      PROVE  (PulledCalls /\ OneOutcome)'
  <2>1. FreshFades /\ Progress
    BY <1>2, EntryStep, EntryFailure, EntryRequest, EntryRest, OutcomeNext DEF Next
  <2>2. pulled \subseteq pulled'
    BY <1>2, PulledGrows
  <2>3. ASSUME NEW o \in Orders \ (Trailing \cup pulled') PROVE OutcomeOf(o)'
    BY <1>2, <2>1, <2>2, OutcomeKept DEF OneOutcome, FreshFades, Progress
  <2>. QED BY <2>1, <2>3 DEF OneOutcome, Progress
<1>3. Shape /\ OneOutcome => ResolvedOnce
  BY DEF OneOutcome, OutcomeOf, Outcomes, ResolvedOnce, Shape
<1>. QED BY <1>1, <1>2, <1>3, Winners, PTL DEF Spec

------------------------------------------------------------------------------
(* What comes into a Map.                                                     *)

NoneBack ==
    \A w \in Workers :
        terminal[w] \subseteq terminal'[w] => book'[w] \cap terminal[w] \subseteq book[w]

(* All that puts an order into a Map is its placement, a message, a restart.  *)
LEMMA MapsShrink ==
  ASSUME Shape, [Next]_vars
  PROVE  \/ \A w \in Workers : book'[w] \subseteq book[w]
         \/ \E w \in Workers, o \in Orders : Add(w, o)
         \/ \E c \in calls : AddSecond(c)
         \/ \E m \in channel : Deliver(m)
         \/ \E w \in Workers : Restart(w)
<1>. USE BookAssumption DEF Shape, CallRecords, memory, Forget
<1>1. ASSUME NEW c \in calls, Step(c), ~AddSecond(c)
      PROVE  \A w \in Workers : book'[w] \subseteq book[w]
  BY <1>1 DEF Step, Persist, PersistTrail, ClaimWon, ClaimWonExpiry, ClaimLost, ReleaseExpired,
              CancelRow, CancelClaimWon, CancelClaimLost, ReleaseCancelled
<1>2. ASSUME NEW c \in calls, Failure(c) PROVE \A w \in Workers : book'[w] \subseteq book[w]
  BY <1>2 DEF Failure, RefuseSecond, PersistRetry, PersistGivesUp, TrailGivesUp, RollBack
<1>3. ASSUME NEW v \in Workers, NEW o \in Orders, Request(v, o), ~Add(v, o)
      PROVE  \A w \in Workers : book'[w] \subseteq book[w]
  BY <1>3 DEF Request, TrailUpdate, Trigger, ExpiryScan, CancelHere, CancelElsewhere
<1>4. ASSUME NEW o \in Orders, PassExpiry(o) PROVE \A w \in Workers : book'[w] \subseteq book[w]
  BY <1>4 DEF PassExpiry
<1>5. ASSUME NEW m \in channel, Lose(m) PROVE \A w \in Workers : book'[w] \subseteq book[w]
  BY <1>5 DEF Lose
<1>6. CASE UNCHANGED vars
  BY <1>6 DEF vars
<1>. QED BY <1>1, <1>2, <1>3, <1>4, <1>5, <1>6 DEF Next

(* An order a worker remembers to be over stays out of its Map, however late  *)
(* a message about it arrives.                                                *)
THEOREM NoLateResurrection == Spec => NoResurrection
<1>1. ASSUME Shape, EntersOnce, [Next]_vars PROVE NoneBack
  <2>. USE <1>1 DEF Shape, CallRecords, MessageRecords
  <2>1. CASE \A w \in Workers : book'[w] \subseteq book[w]
    BY <2>1 DEF NoneBack
  <2>2. ASSUME NEW o, o \notin placed, NEW w \in Workers, Insert(w, o) PROVE NoneBack
    <3>1. \A v \in Workers : terminal[v] \subseteq placed /\ book'[v] \subseteq book[v] \cup {o}
      BY <2>2 DEF Insert
    <3>. QED BY <2>2, <3>1 DEF NoneBack
  <2>3. ASSUME NEW m \in channel, Deliver(m) PROVE NoneBack
    <3>1. m.to \in Workers
      OBVIOUS
    <3>2. CASE m.type = "add" /\ AcceptsAdd(m.to, m.order)
      <4>1. book' = [book EXCEPT ![m.to] = book[m.to] \cup {m.order}]
        BY <2>3, <3>2 DEF Deliver
      <4>2. \A v \in Workers : v # m.to => book'[v] = book[v]
        BY <4>1
      <4>3. book'[m.to] = book[m.to] \cup {m.order} /\ m.order \notin terminal[m.to]
        BY <3>1, <3>2, <4>1 DEF AcceptsAdd
      <4>. QED BY <4>2, <4>3 DEF NoneBack
    <3>3. CASE m.type = "add" /\ ~AcceptsAdd(m.to, m.order)
      BY <2>3, <3>3 DEF Deliver, memory, NoneBack
    <3>4. CASE m.type = "remove"
      <4>1. book' = [book EXCEPT ![m.to] = book[m.to] \ {m.order}]
        BY <2>3, <3>4 DEF Deliver, Forget
      <4>2. \A v \in Workers : book'[v] \subseteq book[v]
        BY <4>1
      <4>. QED BY <4>2 DEF NoneBack
    <3>. QED BY <3>2, <3>3, <3>4
  <2>4. ASSUME NEW w \in Workers, Restart(w) PROVE NoneBack
    <3>1. /\ terminal' = [terminal EXCEPT ![w] = {}]
          /\ \E loaded : book' = [book EXCEPT ![w] = loaded]
      BY <2>4 DEF Restart
    <3>2. terminal'[w] = {} /\ \A v \in Workers \ {w} : book'[v] = book[v]
      BY <3>1
    <3>. QED BY <3>2 DEF NoneBack
  <2>5. \A w \in Workers, o \in Orders : Add(w, o) => o \notin placed /\ Insert(w, o)
    BY DEF Add
  <2>6. \A c \in calls : AddSecond(c) =>
            c.at \in Workers /\ c.order \notin placed /\ Insert(c.at, c.order)
    BY DEF AddSecond, EntersOnce
  <2>. QED BY <2>1, <2>2, <2>3, <2>4, <2>5, <2>6, MapsShrink
<1>2. Shape /\ EntersOnce /\ [Next]_vars => [NoneBack]_vars
  BY <1>1
<1>3. Spec => [][NoneBack]_vars
  BY <1>2, Winners, PTL DEF Spec
<1>. QED BY <1>3 DEF NoResurrection, NoneBack
=============================================================================
