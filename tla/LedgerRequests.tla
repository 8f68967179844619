--------------------------- MODULE LedgerRequests ---------------------------
(***************************************************************************)
(* Deposit and withdrawal requests reviewed by administrators              *)
(* (wallet-service/ledger.engine.ts behind the admin routes of the         *)
(* gateway).  A route reads the request, then calls LedgerEngine: an       *)
(* approval is one SERIALIZABLE transaction, a rejection a READ COMMITTED  *)
(* one whose read and write are separate steps.                            *)
(***************************************************************************)
EXTENDS WalletLedger

CONSTANTS
    Requests,
    Amount,         \* request -> amount, negative for a withdrawal
    Admins,         \* admin requests in progress at once
    Pnls,           \* profits the open positions may show when it matters
    MaxLedger       \* bound on the entries after which no margin moves

ASSUME LedgerRequestsAssumption ==
    /\ Amount \in [Requests -> Int]
    /\ Pnls \subseteq Int
    /\ MaxLedger \in Nat
    /\ "position" \notin Requests

VARIABLES
    request,        \* request -> status of its LedgerEntry; "NONE" before
    admin           \* what each administrator's HTTP request is doing

requestVars == <<walletVars, request, admin>>

RequestStatus == {"NONE", "PENDING_ADMIN", "APPROVED", "REJECTED"}
AdminIdle == [pc |-> "idle"]
Withdrawal(r) == Amount[r] < 0

RequestsInit ==
    /\ WalletInit
    /\ request = [r \in Requests |-> "NONE"]
    /\ admin = [a \in Admins |-> AdminIdle]

\* requestDeposit(): unchecked.  requestWithdrawal(): a first look at the free
\* margin; what exceeds it is recorded as REJECTED.
Ask(r) ==
    /\ request[r] = "NONE"
    /\ \E pnl \in Pnls :
           request' = [request EXCEPT ![r] =
               IF Withdrawal(r) /\ -Amount[r] > FreeMargin(pnl)
               THEN "REJECTED" ELSE "PENDING_ADMIN"]
    /\ UNCHANGED <<walletVars, admin>>

\* The approve and reject routes read the entry and check its status first.
Open(a, r, verb) ==
    /\ admin[a].pc = "idle"
    /\ request[r] = "PENDING_ADMIN"
    /\ admin' = [admin EXCEPT ![a] = [pc |-> verb, req |-> r]]
    /\ UNCHANGED <<walletVars, request>>

\* The idempotency check of both approvals: the entry an approval posts.
ApprovedUnchecked(r) == FALSE
Approved(r) == Posted(r) # {}

\* What the request's status becomes: a deposit is set APPROVED whatever it
\* has become since the route read it, a withdrawal only if still pending.
AfterApproval(r) ==
    IF Withdrawal(r) /\ request[r] # "PENDING_ADMIN"
    THEN request ELSE [request EXCEPT ![r] = "APPROVED"]

\* approveDeposit().
ApproveDeposit(a) ==
    LET r == admin[a].req IN
    /\ admin[a].pc = "approve"
    /\ ~Withdrawal(r)
    /\ ~Approved(r)
    /\ Credit("ADMIN_CAPITAL_ALLOCATION", r, Amount[r])
    /\ request' = AfterApproval(r)
    /\ admin' = [admin EXCEPT ![a] = AdminIdle]

\* The checks of approveWithdrawal, made inside its transaction.
Covered(r, pnl) == -Amount[r] <= balance /\ -Amount[r] <= FreeMargin(pnl)

ApproveWithdrawal(a, pnl) ==
    LET r == admin[a].req IN
    /\ admin[a].pc = "approve"
    /\ Withdrawal(r)
    /\ ~Approved(r)
    /\ Covered(r, pnl)
    /\ Debit("WITHDRAW_REQUEST", r, -Amount[r])
    /\ request' = AfterApproval(r)
    /\ admin' = [admin EXCEPT ![a] = AdminIdle]

\* An approval that finds the request approved, or cannot be covered, ends
\* without a change.
ApprovalVoid(a, pnl) ==
    LET r == admin[a].req IN
    /\ admin[a].pc = "approve"
    /\ Approved(r) \/ (Withdrawal(r) /\ ~Covered(r, pnl))
    /\ admin' = [admin EXCEPT ![a] = AdminIdle]
    /\ UNCHANGED <<walletVars, request>>

\* rejectDeposit() and rejectWithdrawal(): the read in the transaction ...
RejectRead(a) ==
    LET r == admin[a].req IN
    /\ admin[a].pc = "reject"
    /\ admin' = [admin EXCEPT ![a] =
           IF request[r] = "PENDING_ADMIN" THEN [pc |-> "rejecting", req |-> r]
                                           ELSE AdminIdle]
    /\ UNCHANGED <<walletVars, request>>

\* ... and the updateMany by id alone.
RejectWrite(a) ==
    LET r == admin[a].req IN
    /\ admin[a].pc = "rejecting"
    /\ request' = [request EXCEPT ![r] = "REJECTED"]
    /\ admin' = [admin EXCEPT ![a] = AdminIdle]
    /\ UNCHANGED walletVars

\* The margin of the client's orders comes and goes meanwhile.
TradingMargin ==
    /\ Len(ledger) < MaxLedger
    /\ \/ LockMargin("position", 1)
       \/ ReleaseMargin("position", 1)

RequestsNext ==
    \/ \E r \in Requests : Ask(r)
    \/ \E a \in Admins :
        \/ \E r \in Requests, verb \in {"approve", "reject"} : Open(a, r, verb)
        \/ ApproveDeposit(a)
        \/ \E pnl \in Pnls : ApproveWithdrawal(a, pnl) \/ ApprovalVoid(a, pnl)
        \/ RejectRead(a)
        \/ RejectWrite(a)
    \/ TradingMargin /\ UNCHANGED <<request, admin>>

RequestsSpec == RequestsInit /\ [][RequestsNext]_requestVars
---------------------------------------------------------------------------
\* What the requests have moved, by the entries they posted.
Moved ==
    Total([i \in 1 .. Len(ledger) |->
              IF ledger[i].ref \in Requests THEN ledger[i].amount ELSE 0])

\* However many administrators approve and reject a request at once, it moves
\* its amount once at most, and no more is paid out than was paid in.
Abstract == INSTANCE Payouts WITH
    money <- Moved,
    paid <- [r \in Requests |-> Cardinality(Posted(r))]

RequestsPayOnce == Abstract!PayoutsSpec

\* A request that is shown as rejected has not moved money
\* (ledger.engine.ts:316 says a rejection needs a request still pending).
RejectedUnpaid == \A r \in Requests : request[r] = "REJECTED" => ~Approved(r)
=============================================================================
