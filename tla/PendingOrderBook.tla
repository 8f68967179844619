-------------------------- MODULE PendingOrderBook --------------------------
(* The pending (resting) orders of a cluster of workers.                      *)
(*                                                                            *)
(* Every worker keeps its own Map of pending orders, watches every price      *)
(* tick, and serves the requests that reach it.  An order also has a row in   *)
(* the database, and the workers tell each other of orders added and removed  *)
(* over a channel that may lose or reorder messages.  Whatever a worker       *)
(* awaits is a call in flight: between its steps anything else may happen.    *)
EXTENDS Integers, FiniteSets

CONSTANTS
    Workers,      \* processes serving requests and watching prices
    Orders,       \* pending orders, by pending id
    Trailing,     \* orders of type TRAILING_STOP
    Expiring,     \* orders with an expiry time
    Sibling,      \* the other leg of an OCO pair, or NoOrder
    SecondLegs,   \* legs placed after their sibling
    NoOrder,
    MaxTrails,    \* bound on trailing-stop updates that are persisted
    MaxCancels,   \* bound on cancellations clients ask for
    MaxFaults,    \* bound on database calls that fail
    MaxLost,      \* bound on channel messages that are lost
    MaxRestarts   \* bound on workers that restart

ASSUME BookAssumption ==
    /\ Trailing \subseteq Orders /\ Expiring \subseteq Orders
    /\ NoOrder \notin Orders
    /\ Sibling \in [Orders -> Orders \cup {NoOrder}]
    /\ \A o \in Orders : Sibling[o] # NoOrder => Sibling[o] # o /\ Sibling[Sibling[o]] = o
    /\ SecondLegs \subseteq {o \in Orders : Sibling[o] # NoOrder}
    /\ \A o \in Orders : Sibling[o] # NoOrder =>
            (o \in SecondLegs <=> Sibling[o] \notin SecondLegs)
    /\ {MaxTrails, MaxCancels, MaxFaults, MaxLost, MaxRestarts} \subseteq Nat

VARIABLES
    row,        \* status in the BrokerSetting row of an order
    book,       \* the Map of a worker: ids it holds
    copy,       \* status in the worker's own object of an order
    terminal,   \* recentlyTerminal of a worker
    calls,      \* awaited steps in flight
    channel,    \* messages of the control channel not delivered yet
    placed,     \* orders handed to add()
    expired,    \* orders past their expiry time
    executed,   \* times an order was handed to executePendingOrder()
    released,   \* times its margin was released
    pulled,     \* orders some worker cancelled in its own Map
    bounds      \* how often each bounded event has happened

memory == <<book, copy, terminal>>
history == <<executed, released, pulled>>
vars == <<row, memory, calls, channel, placed, expired, history, bounds>>

Statuses == {"none", "PENDING", "TRIGGERED", "CANCELLED"}
Bounds == [trails |-> MaxTrails, cancels |-> MaxCancels, faults |-> MaxFaults,
           lost |-> MaxLost, restarts |-> MaxRestarts]

(* One awaited step of an asynchronous method: what it does, where, to which  *)
(* order, and the status it writes or the reason it acts for.  What a method  *)
(* does in memory when the step returns is part of the same action: nothing   *)
(* but the database can tell the two apart.                                   *)
Call(op, w, o, arg) == [op |-> op, at |-> w, order |-> o, arg |-> arg]
Operations == {"add", "place", "trail", "claim", "claimRow", "expire", "cancelRow",
               "cancelClaim", "release"}
Reasons == {"tick", "expiry", "client", "cancelled", "triggered"}

Message(type, w, o, status) == [type |-> type, to |-> w, order |-> o, status |-> status]

Init ==
    /\ row = [o \in Orders |-> "none"]
    /\ book = [w \in Workers |-> {}]
    /\ copy = [w \in Workers |-> [o \in Orders |-> "none"]]
    /\ terminal = [w \in Workers |-> {}]
    /\ calls = {} /\ channel = {} /\ placed = {} /\ expired = {} /\ pulled = {}
    /\ executed = [o \in Orders |-> 0]
    /\ released = [o \in Orders |-> 0]
    /\ bounds = [b \in DOMAIN Bounds |-> 0]

------------------------------------------------------------------------------
(* Steps shared by the methods.                                               *)

Spend(b) == bounds[b] < Bounds[b] /\ bounds' = [bounds EXCEPT ![b] = @ + 1]

Await(new) == calls' = calls \cup new
Resume(c, new) == calls' = (calls \ {c}) \cup new

SetRow(o, status) == row' = [row EXCEPT ![o] = status]
SetCopy(w, o, status) == copy' = [copy EXCEPT ![w][o] = status]

(* The worker's Map holds the order, still PENDING as far as it knows.        *)
Live(w, o) == o \in book[w] /\ copy[w][o] = "PENDING"

(* orders.delete() and _markTerminalLocally().                                *)
Forget(w, gone) ==
    /\ book' = [book EXCEPT ![w] = @ \ gone]
    /\ terminal' = [terminal EXCEPT ![w] = @ \cup gone]

(* A worker ignores its own messages: it holds or forgot the order already.   *)
Publish(type, w, o, status) ==
    channel' = channel \cup {Message(type, v, o, status) : v \in Workers \ {w}}

(* The synchronous part of _cancelOne(), for some orders of the Map.          *)
Pull(w, cancelled) ==
    /\ copy' = [copy EXCEPT ![w] = [o \in Orders |->
                    IF o \in cancelled THEN "CANCELLED" ELSE @[o]]]
    /\ pulled' = pulled \cup cancelled

(* _cancelGroupSiblings(): the other leg of an OCO pair is cancelled in the   *)
(* worker's own Map if it is there, and claimed by its row otherwise.         *)
LegsUnchecked(o) == {Sibling[o]}
Legs(o) == {Sibling[o]} \ {NoOrder}
LegsHere(w, o) == {s \in Legs(o) : Live(w, s)}
CancelLegs(w, o, reason) ==
    {Call(IF Live(w, s) THEN "cancelRow" ELSE "cancelClaim", w, s, reason) : s \in Legs(o)}

(* A trigger executes its order once the other leg is cancelled; an order     *)
(* without another leg is executed at once.                                   *)
Count(counter, o) == [counter EXCEPT ![o] = @ + 1]
Executed(o) == executed' = Count(executed, o)

------------------------------------------------------------------------------
(* add() and placeOcoPair()                                                   *)

(* The order is in the Map before its row exists.                             *)
Insert(w, o) ==
    /\ placed' = placed \cup {o}
    /\ book' = [book EXCEPT ![w] = @ \cup {o}]
    /\ SetCopy(w, o, "PENDING")
    /\ UNCHANGED <<row, terminal, channel, expired, history, bounds>>

Add(w, o) ==
    /\ o \notin placed \cup SecondLegs
    /\ Insert(w, o)
    /\ Await({Call("add", w, o, "PENDING")})

(* The leg of an OCO pair that was accepted is followed by the other.         *)
Persist(c) ==
    /\ c.op = "add"
    /\ SetRow(c.order, c.arg)
    /\ Publish("add", c.at, c.order, copy[c.at][c.order])
    /\ Resume(c, {Call("place", c.at, s, "PENDING") : s \in Legs(c.order) \cap SecondLegs})
    /\ UNCHANGED <<memory, placed, expired, history, bounds>>

AddSecond(c) ==
    /\ c.op = "place"
    /\ Insert(c.at, c.order)
    /\ Resume(c, {Call("add", c.at, c.order, "PENDING")})

(* A failed attempt is repeated with the object as it is by then.             *)
PersistRetry(c) ==
    /\ c.op \in {"add", "trail"}
    /\ Spend("faults")
    /\ Resume(c, {Call(c.op, c.at, c.order, copy[c.at][c.order])})
    /\ UNCHANGED <<row, memory, channel, placed, expired, history>>

(* The second leg was not accepted: the first is cancelled if it is here.     *)
RollBack(c, gone) ==
    LET first == IF c.order \in SecondLegs THEN LegsHere(c.at, c.order) ELSE {} IN
    /\ Pull(c.at, first)
    /\ book' = [book EXCEPT ![c.at] = @ \ (gone \cup first)]
    /\ terminal' = [terminal EXCEPT ![c.at] = @ \cup first]
    /\ Resume(c, {Call("cancelRow", c.at, o, "client") : o \in first})
    /\ UNCHANGED <<row, channel, placed, expired, executed>>

RefuseSecond(c) ==
    /\ c.op = "place"
    /\ RollBack(c, {})
    /\ UNCHANGED <<released, bounds>>

(* The last attempt failed: the margin is released, the order rejected.       *)
PersistGivesUp(c) ==
    /\ c.op = "add"
    /\ Spend("faults")
    /\ RollBack(c, {c.order})
    /\ released' = Count(released, c.order)

------------------------------------------------------------------------------
(* Price ticks: updateTrailingStops() and markTriggered().                    *)

TrailUpdate(w, o) ==
    /\ o \in Trailing /\ Live(w, o)
    /\ Spend("trails")
    /\ Await({Call("trail", w, o, "PENDING")})
    /\ UNCHANGED <<row, memory, channel, placed, expired, history>>

(* The whole order is written back, its status included.                      *)
PersistTrail(c) ==
    /\ c.op = "trail"
    /\ SetRow(c.order, c.arg)
    /\ Resume(c, {})
    /\ UNCHANGED <<memory, channel, placed, expired, history, bounds>>

TrailGivesUp(c) ==
    /\ c.op = "trail"
    /\ Spend("faults")
    /\ Resume(c, {})
    /\ UNCHANGED <<row, memory, channel, placed, expired, history>>

Trigger(w, o) ==
    /\ Live(w, o)
    /\ Await({Call("claim", w, o, "tick")})
    /\ UNCHANGED <<row, memory, channel, placed, expired, history, bounds>>

(* The conditional UPDATE ... WHERE value->>'status' = 'PENDING'.             *)
ClaimableUnchecked(o) == row[o] # "none"
Claimable(o) == row[o] = "PENDING"

(* markTriggered() for a tick: the winner cancels the other leg, then         *)
(* executes the order; a loser drops its copy.                                *)
ClaimWon(c) ==
    /\ c.op = "claim" /\ c.arg = "tick" /\ Claimable(c.order)
    /\ SetRow(c.order, "TRIGGERED")
    /\ LET here == LegsHere(c.at, c.order) IN
       /\ Forget(c.at, {c.order} \cup here)
       /\ copy' = [copy EXCEPT ![c.at] = [o \in Orders |->
                       IF o = c.order THEN "TRIGGERED"
                       ELSE IF o \in here THEN "CANCELLED" ELSE @[o]]]
       /\ pulled' = pulled \cup here
    /\ Resume(c, CancelLegs(c.at, c.order, "triggered"))
    /\ IF Legs(c.order) = {} THEN Executed(c.order) ELSE UNCHANGED executed
    /\ UNCHANGED <<channel, placed, expired, released, bounds>>

ClaimWonExpiry(c) ==
    /\ c.op \in {"claim", "claimRow"} /\ c.arg = "expiry" /\ Claimable(c.order)
    /\ SetRow(c.order, "TRIGGERED")
    /\ terminal' = [terminal EXCEPT ![c.at] = @ \cup {c.order}]
    /\ IF c.op = "claim"
       THEN /\ book' = [book EXCEPT ![c.at] = @ \ {c.order}]
            /\ SetCopy(c.at, c.order, "TRIGGERED")
       ELSE UNCHANGED <<book, copy>>
    /\ Resume(c, {Call("expire", c.at, c.order, c.arg)})
    /\ UNCHANGED <<channel, placed, expired, history, bounds>>

(* Lost to another worker, or failed: a failed claim counts as lost.          *)
ClaimLost(c) ==
    /\ c.op \in {"claim", "claimRow"}
    /\ \/ ~Claimable(c.order) /\ UNCHANGED bounds
       \/ Spend("faults")
    /\ IF c.op = "claim" THEN Forget(c.at, {c.order}) ELSE UNCHANGED <<book, terminal>>
    /\ Resume(c, {})
    /\ UNCHANGED <<row, copy, channel, placed, expired, history>>

------------------------------------------------------------------------------
(* Expiry: the sweep of whichever worker leads it, candidates from the rows.  *)

PassExpiry(o) ==
    /\ o \in Expiring \ expired /\ o \in placed
    /\ expired' = expired \cup {o}
    /\ UNCHANGED <<row, memory, calls, channel, placed, history, bounds>>

(* getExpiredFromSource() reads the rows, not the leader's own Map.           *)
DueFromMap(w, o) == Live(w, o)
Due(w, o) == row[o] = "PENDING"

ExpiryScan(w, o) ==
    /\ o \in expired /\ Due(w, o)
    /\ \A c \in calls : c.arg # "expiry"
    /\ o \in book[w] => copy[w][o] = "PENDING"
    /\ Await({Call(IF o \in book[w] THEN "claim" ELSE "claimRow", w, o, "expiry")})
    /\ UNCHANGED <<row, memory, channel, placed, expired, history, bounds>>

ReleaseExpired(c) ==
    /\ c.op = "expire"
    /\ released' = Count(released, c.order)
    /\ Resume(c, {})
    /\ UNCHANGED <<row, memory, channel, placed, expired, executed, pulled, bounds>>

------------------------------------------------------------------------------
(* cancel() and the cancellation of an OCO leg.                               *)

CancelHere(w, o) ==
    /\ Live(w, o)
    /\ Spend("cancels")
    /\ Pull(w, {o}) /\ Forget(w, {o})
    /\ Await({Call("cancelRow", w, o, "client")})
    /\ UNCHANGED <<row, channel, placed, expired, executed, released>>

CancelElsewhere(w, o) ==
    /\ o \in placed \ book[w]
    /\ Spend("cancels")
    /\ Await({Call("cancelClaim", w, o, "client")})
    /\ UNCHANGED <<row, memory, channel, placed, expired, history>>

(* _cancelPersisted(): no claim, and a failure is swallowed.                  *)
CancelRow(c) ==
    /\ c.op = "cancelRow"
    /\ \/ SetRow(c.order, "CANCELLED") /\ UNCHANGED bounds
       \/ Spend("faults") /\ UNCHANGED row
    /\ Resume(c, {Call("release", c.at, c.order, c.arg)})
    /\ UNCHANGED <<memory, channel, placed, expired, history>>

CancelClaimWon(c) ==
    /\ c.op = "cancelClaim" /\ Claimable(c.order)
    /\ SetRow(c.order, "CANCELLED")
    /\ Forget(c.at, {c.order})
    /\ Resume(c, {Call("release", c.at, c.order, c.arg)})
    /\ UNCHANGED <<copy, channel, placed, expired, history, bounds>>

(* Nothing to cancel: a trigger goes on to execute the other leg.             *)
CancelClaimLost(c) ==
    /\ c.op = "cancelClaim"
    /\ \/ ~Claimable(c.order) /\ UNCHANGED bounds
       \/ Spend("faults")
    /\ Resume(c, {})
    /\ IF c.arg = "triggered" THEN Executed(Sibling[c.order]) ELSE UNCHANGED executed
    /\ UNCHANGED <<row, memory, channel, placed, expired, released, pulled>>

(* The margin is back and the channel told; a client's cancellation goes on   *)
(* to the other leg, a trigger to its execution.                              *)
ReleaseCancelled(c) ==
    /\ c.op = "release"
    /\ released' = Count(released, c.order)
    /\ Publish("remove", c.at, c.order, "CANCELLED")
    /\ LET here == IF c.arg = "client" THEN LegsHere(c.at, c.order) ELSE {} IN
       Pull(c.at, here) /\ Forget(c.at, here)
    /\ Resume(c, IF c.arg = "client" THEN CancelLegs(c.at, c.order, "cancelled") ELSE {})
    /\ IF c.arg = "triggered" THEN Executed(Sibling[c.order]) ELSE UNCHANGED executed
    /\ UNCHANGED <<row, placed, expired, bounds>>

------------------------------------------------------------------------------
(* The control channel and restarts.                                          *)

(* A late add must not bring back an order this worker knows to be over.      *)
AcceptsAddUnchecked(w, o) == o \notin book[w]
AcceptsAdd(w, o) == o \notin book[w] /\ o \notin terminal[w]

Deliver(m) ==
    /\ channel' = channel \ {m}
    /\ \/ /\ m.type = "add" /\ AcceptsAdd(m.to, m.order)
          /\ book' = [book EXCEPT ![m.to] = @ \cup {m.order}]
          /\ SetCopy(m.to, m.order, m.status)
          /\ UNCHANGED terminal
       \/ /\ m.type = "add" /\ ~AcceptsAdd(m.to, m.order)
          /\ UNCHANGED memory
       \/ /\ m.type = "remove"
          /\ Forget(m.to, {m.order})
          /\ UNCHANGED copy
    /\ UNCHANGED <<row, calls, placed, expired, history, bounds>>

Lose(m) ==
    /\ Spend("lost")
    /\ channel' = channel \ {m}
    /\ UNCHANGED <<row, memory, calls, placed, expired, history>>

(* The process dies with all it awaited; its successor loads the PENDING rows *)
(* and marks those that expired meanwhile, without releasing their margin.    *)
Restart(w) ==
    /\ Spend("restarts")
    /\ LET pending == {o \in Orders : row[o] = "PENDING"} IN
       /\ row' = [o \in Orders |-> IF o \in pending \cap expired THEN "CANCELLED" ELSE row[o]]
       /\ book' = [book EXCEPT ![w] = pending \ expired]
       /\ copy' = [copy EXCEPT ![w] = [o \in Orders |-> IF o \in pending \ expired
                                                       THEN "PENDING" ELSE "none"]]
    /\ terminal' = [terminal EXCEPT ![w] = {}]
    /\ calls' = {c \in calls : c.at # w}
    /\ channel' = {m \in channel : m.to # w}
    /\ UNCHANGED <<placed, expired, history>>

------------------------------------------------------------------------------
Step(c) ==
    \/ Persist(c) \/ AddSecond(c) \/ PersistTrail(c)
    \/ ClaimWon(c) \/ ClaimWonExpiry(c) \/ ClaimLost(c) \/ ReleaseExpired(c)
    \/ CancelRow(c) \/ CancelClaimWon(c) \/ CancelClaimLost(c) \/ ReleaseCancelled(c)

Failure(c) == RefuseSecond(c) \/ PersistRetry(c) \/ PersistGivesUp(c) \/ TrailGivesUp(c)

Request(w, o) ==
    \/ Add(w, o) \/ TrailUpdate(w, o) \/ Trigger(w, o) \/ ExpiryScan(w, o)
    \/ CancelHere(w, o) \/ CancelElsewhere(w, o)

Next ==
    \/ \E c \in calls : Step(c) \/ Failure(c)
    \/ \E w \in Workers, o \in Orders : Request(w, o)
    \/ \E o \in Orders : PassExpiry(o)
    \/ \E m \in channel : Deliver(m) \/ Lose(m)
    \/ \E w \in Workers : Restart(w)

Spec == Init /\ [][Next]_vars

(* Awaited calls end, time passes, and the expiry sweep runs every thirty     *)
(* seconds on a worker that took its lease and visits every order due.  A     *)
(* sweep is kept from an order only by one in progress, hence the strong      *)
(* fairness.                                                                  *)
Fairness(o) ==
    /\ \A w \in Workers : WF_vars(\E c \in calls : c.at = w /\ c.order = o /\ Step(c))
    /\ WF_vars(PassExpiry(o)) /\ SF_vars(\E w \in Workers : ExpiryScan(w, o))
FairSpec == Spec /\ \A o \in Orders : Fairness(o)

------------------------------------------------------------------------------
(* What holds.                                                                *)

TypeOK ==
    /\ row \in [Orders -> Statuses]
    /\ book \in [Workers -> SUBSET placed]
    /\ copy \in [Workers -> [Orders -> Statuses]]
    /\ terminal \in [Workers -> SUBSET placed]
    /\ calls \subseteq [op : Operations, at : Workers, order : Orders,
                        arg : Reasons \cup Statuses]
    /\ channel \subseteq [type : {"add", "remove"}, to : Workers, order : placed,
                          status : Statuses]
    /\ placed \subseteq Orders /\ expired \subseteq placed /\ pulled \subseteq placed
    /\ executed \in [Orders -> Nat] /\ released \in [Orders -> Nat]
    /\ bounds \in [DOMAIN Bounds -> Nat]
    /\ \A b \in DOMAIN Bounds : bounds[b] <= Bounds[b]

(* However many workers hold the order and see the tick, one executes it.     *)
(* Trailing stops are excepted: see TrailingExecutedOnce.                     *)
ExecutedOnce == \A o \in Orders \ Trailing : executed[o] <= 1

(* An order that no worker cancelled in its own Map is over once: executed    *)
(* and its margin spent, or released and never executed.                      *)
ResolvedOnce ==
    \A o \in Orders \ (Trailing \cup pulled) : executed[o] + released[o] <= 1

(* An order a worker knows to be over does not come back into its Map,        *)
(* however late the message that announced it.                                *)
NoResurrection ==
    [][\A w \in Workers :
        terminal[w] \subseteq terminal'[w] => book'[w] \cap terminal[w] \subseteq book[w]]_vars

(* An order with an expiry time does not stay PENDING for ever, even when no  *)
(* worker holds it in its Map any more.                                       *)
ExpiringResolved ==
    \A o \in Expiring : row[o] = "PENDING" ~> row[o] # "PENDING"

------------------------------------------------------------------------------
(* What the code's comments claim, and the code does not keep.                *)

(* pending.order.book.ts:81-83: exactly one replica wins a trigger.           *)
TrailingExecutedOnce == \A o \in Trailing : executed[o] <= 1

(* pending.order.book.ts:66-68: a cancellation is correct even if a broadcast *)
(* was missed: an order whose margin it released is not executed.             *)
CancelledNotExecuted == \A o \in pulled \ Trailing : released[o] = 0 \/ executed[o] = 0

(* pending.order.book.ts:36-37: whichever leg of an OCO pair resolves first   *)
(* cancels the other, so at most one of them is executed.                     *)
OneLegExecuted ==
    \A o \in Orders \ Trailing :
        \A s \in Legs(o) \ Trailing : executed[o] + executed[s] <= 1
=============================================================================
