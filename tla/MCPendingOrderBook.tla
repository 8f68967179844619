------------------------- MODULE MCPendingOrderBook -------------------------
(* Two workers and the two legs of an OCO pair, or an order that expires.     *)
EXTENDS PendingOrderBook

CONSTANT Pairs  \* OCO pairs, each a set of two orders

MCSibling ==
    [o \in Orders |-> IF \E pair \in Pairs : o \in pair
                      THEN CHOOSE s \in Orders \ {o} : {o, s} \in Pairs
                      ELSE NoOrder]

(* A behaviour is followed from where some orders are over and known to be,   *)
(* cancelled with their margin released, and some mishaps are behind it: with *)
(* the pair over, or with every other order over and one mishap to come.      *)
After(over, mishaps) ==
    /\ row = [o \in Orders |-> IF o \in over THEN "CANCELLED" ELSE "none"]
    /\ book = [w \in Workers |-> {}]
    /\ copy = [w \in Workers |-> [o \in Orders |-> "none"]]
    /\ terminal = [w \in Workers |-> over]
    /\ calls = {} /\ channel = {} /\ pulled = {}
    /\ placed = over /\ expired = over \cap Expiring
    /\ executed = [o \in Orders |-> 0]
    /\ released = [o \in Orders |-> IF o \in over THEN 1 ELSE 0]
    /\ bounds = [b \in DOMAIN Bounds |-> IF b \in mishaps THEN Bounds[b] ELSE 0]

Legged == UNION Pairs
MCInit ==
    \/ After(Legged, {})
    \/ \E last \in {"cancels", "faults"} :
           After(Orders \ Legged, {"trails", "lost", "restarts", last})

(* What an expiring order comes to rests on the calls for it alone.           *)
MCSpec == MCInit /\ [][Next]_vars /\ \A o \in Expiring : Fairness(o)
=============================================================================
