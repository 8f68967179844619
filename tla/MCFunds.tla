------------------------------- MODULE MCFunds -------------------------------
(***************************************************************************)
(* The two ways money enters and leaves a wallet, over one wallet and one  *)
(* ledger: payment providers and administrators.  part says which of the   *)
(* two a behaviour exercises; they meet only in the wallet, where every    *)
(* posting is one serializable transaction.                                *)
(***************************************************************************)
EXTENDS PspDeposits, LedgerRequests

CONSTANTS d1, rd, rw, p1, h1, h2, a1, a2

VARIABLE part

MCAmount == [r \in {rd, rw} |-> IF r = rd THEN 2 ELSE -1]
MCPnls == {-1, 0}

vars == <<depositVars, request, admin, part>>

Init ==
    /\ part \in {"psp", "admin"}
    /\ DepositsInit
    /\ RequestsInit

Next ==
    \/ part = "psp" /\ DepositsNext /\ UNCHANGED <<request, admin, part>>
    \/ part = "admin" /\ RequestsNext /\ UNCHANGED <<affiliateVars, pspVars, part>>

Fairness ==
    /\ \A h \in Handlers : WF_vars(part = "psp" /\ HandlerStep(h) /\ UNCHANGED <<request, admin, part>>)
    /\ \A d \in Deposits, kind \in {"CONFIRMED", "FAILED"} :
           SF_vars(part = "psp" /\ \E h \in Handlers : Deliver(h, d, kind)
                   /\ UNCHANGED <<request, admin, part>>)

Spec == Init /\ [][Next]_vars /\ Fairness
==============================================================================
