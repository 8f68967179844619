------------------------------- MODULE Payouts -------------------------------
(***************************************************************************)
(* What the review of deposit and withdrawal requests promises: a request  *)
(* moves money at most once, by exactly its amount, and all of them never  *)
(* pay out more than was paid in.  How administrators race for a request,  *)
(* and what its status says, is left to LedgerRequests.                    *)
(***************************************************************************)
EXTENDS Integers

CONSTANTS
    Requests,
    Amount          \* request -> what it adds to the balance

VARIABLES
    money,          \* what the requests have moved so far
    paid            \* request -> how often it has moved money

PayoutsInit == money = 0 /\ paid = [r \in Requests |-> 0]

Payout(r) ==
    /\ paid[r] = 0
    /\ money + Amount[r] >= 0
    /\ money' = money + Amount[r]
    /\ paid' = [paid EXCEPT ![r] = 1]

PayoutsNext == \E r \in Requests : Payout(r)

PayoutsSpec == PayoutsInit /\ [][PayoutsNext]_<<money, paid>>
==============================================================================
