----------------------------- MODULE PspDeposits -----------------------------
(***************************************************************************)
(* Deposits through a payment provider (payment-service): the handler of   *)
(* /payments/deposit/initiate, the webhooks the provider delivers until    *)
(* they are answered with 200, and the deposit row both write.  A database *)
(* statement outside a transaction is a step of its own; transitionToCredit*)
(* is one SERIALIZABLE transaction, and a credited deposit makes the       *)
(* commission of the partner who referred the client.                      *)
(***************************************************************************)
EXTENDS WalletLedger

---------------------------------------------------------------------------
(***************************************************************************)
(* The affiliate programme (crm/affiliate.service.ts): partners, the       *)
(* referral of a client and the commissions on the client's deposits.      *)
(***************************************************************************)

CONSTANTS
    Partners,       \* affiliates
    NoPartner,      \* a client who was not referred
    Deposits        \* deposits of the client

ASSUME PartnersAssumption == NoPartner \notin Partners

VARIABLES
    partner,        \* partner -> status; "NONE" before create()
    referredBy,     \* the referral of the client, unique per user
    commission      \* deposit -> status of its commission; "NONE" without one

affiliateVars == <<partner, referredBy, commission>>

PartnerStatus == {"NONE", "PENDING", "ACTIVE", "INACTIVE"}

AffiliatesInit ==
    /\ partner = [p \in Partners |-> "NONE"]
    /\ referredBy = NoPartner
    /\ commission = [d \in Deposits |-> "NONE"]

\* create(): the e-mail and the code are unique, the partner starts PENDING.
CreatePartner(p) ==
    /\ partner[p] = "NONE"
    /\ partner' = [partner EXCEPT ![p] = "PENDING"]
    /\ UNCHANGED <<referredBy, commission>>

\* setStatus(): an administrator may set any status at any time.
SetStatus(p, s) ==
    /\ partner[p] # "NONE"
    /\ s \in PartnerStatus \ {"NONE", partner[p]}
    /\ partner' = [partner EXCEPT ![p] = s]
    /\ UNCHANGED <<referredBy, commission>>

\* recordReferral(): at registration, only for the code of an active partner;
\* the unique userId refuses a second referral.
RecordReferral(p) ==
    /\ partner[p] = "ACTIVE"
    /\ referredBy = NoPartner
    /\ referredBy' = p
    /\ UNCHANGED <<partner, commission>>

\* recordCommissionFromDeposit(): the new commissions of a deposit; its amount
\* is the one the webhook names, the unique (sourceType, sourceRef) refuses a
\* second one, and a failure is only logged.
Accrued(d, amount) ==
    IF /\ amount > 0
       /\ referredBy # NoPartner
       /\ partner[referredBy] = "ACTIVE"
       /\ commission[d] = "NONE"
    THEN [commission EXCEPT ![d] = "PENDING"]
    ELSE commission

\* markCommissionsPaid(): every pending commission of the partner at once.
MarkPaid(p) ==
    /\ referredBy = p
    /\ \E d \in Deposits : commission[d] = "PENDING"
    /\ commission' = [d \in Deposits |->
                        IF commission[d] = "PENDING" THEN "PAID" ELSE commission[d]]
    /\ UNCHANGED <<partner, referredBy>>

AffiliatesNext ==
    \E p \in Partners :
        \/ CreatePartner(p)
        \/ \E s \in PartnerStatus : SetStatus(p, s)
        \/ RecordReferral(p)
        \/ MarkPaid(p)

---------------------------------------------------------------------------

CONSTANTS
    Handlers,       \* webhook requests the server can be working on at once
    DepositAmount,  \* amount of every deposit
    MaxPspFaults    \* crashes of a handler and responses lost on the way

ASSUME PspAssumption == DepositAmount \in Nat \ {0} /\ MaxPspFaults \in Nat

VARIABLES
    adapter,        \* deposit -> the provider it goes through
    status,         \* DepositTransaction.status, "NONE" before the row exists
    refKnown,       \* whether the row holds the provider's reference
    initiator,      \* where the handler of initiateDeposit is
    psp,            \* external: what the provider knows of the payment
    paidAmount,     \* external: how the amount in its webhook compares
    events,         \* external: the webhooks not yet answered with 200
    handler,        \* where each webhook request is
    overlapped,     \* history: deposits two requests worked on at once
    pspFaults

pspVars == <<adapter, status, refKnown, initiator, psp, paidAmount, events,
             handler, overlapped, pspFaults>>
depositVars == <<walletVars, affiliateVars, pspVars>>

Statuses == {"NONE", "REQUESTED", "PENDING", "CONFIRMED", "CREDITED", "FAILED"}
Idle == [pc |-> "idle"]
Busy(h) == handler[h].pc # "idle"

DepositsInit ==
    /\ WalletInit
    /\ AffiliatesInit
    /\ adapter \in [Deposits -> {"STRIPE", "NUVEI", "PRAXIS"}]
    /\ status = [d \in Deposits |-> "NONE"]
    /\ refKnown = [d \in Deposits |-> FALSE]
    /\ initiator = [d \in Deposits |-> "idle"]
    /\ psp = [d \in Deposits |-> "none"]
    /\ paidAmount = [d \in Deposits |-> "none"]
    /\ events = {}
    /\ handler = [h \in Handlers |-> Idle]
    /\ overlapped = {}
    /\ pspFaults = 0

\* What tells the adapters apart: the references createSession() may return,
\* who echoes the deposit id in a webhook, and who reports a chargeback.
SessionRefs(a) == IF a = "NUVEI" THEN {FALSE} ELSE BOOLEAN
EchoesDeposit == {"NUVEI", "PRAXIS"}
ReportsChargeback == {"PRAXIS"}

---------------------------------------------------------------------------
(* initiateDeposit().                                                      *)

Request(d) ==
    /\ initiator[d] = "idle"
    /\ initiator' = [initiator EXCEPT ![d] = "created"]
    /\ status' = [status EXCEPT ![d] = "REQUESTED"]
    /\ UNCHANGED <<walletVars, affiliateVars, adapter, refKnown, psp, paidAmount,
                   events, handler, overlapped, pspFaults>>

\* adapter.createSession() succeeds at the provider.
OpenSession(d) ==
    /\ initiator[d] = "created"
    /\ initiator' = [initiator EXCEPT ![d] = "session"]
    /\ psp' = [psp EXCEPT ![d] = "open"]
    /\ UNCHANGED <<walletVars, affiliateVars, adapter, status, refKnown,
                   paidAmount, events, handler, overlapped, pspFaults>>

\* createSession() throws: transitionToFailed and the error is rethrown.
SessionRefused(d) ==
    /\ initiator[d] = "created"
    /\ initiator' = [initiator EXCEPT ![d] = "gone"]
    /\ status' = [status EXCEPT ![d] = "FAILED"]
    /\ UNCHANGED <<walletVars, affiliateVars, adapter, refKnown, psp, paidAmount,
                   events, handler, overlapped, pspFaults>>

\* transitionToPending(): the client gets the redirect URL only after it.
ToPending(d) ==
    /\ initiator[d] = "session"
    /\ initiator' = [initiator EXCEPT ![d] = "redirected"]
    /\ status' = [status EXCEPT ![d] = "PENDING"]
    /\ \E ref \in SessionRefs(adapter[d]) :
           refKnown' = [refKnown EXCEPT ![d] = ref]
    /\ UNCHANGED <<walletVars, affiliateVars, adapter, psp, paidAmount, events,
                   handler, overlapped, pspFaults>>

---------------------------------------------------------------------------
(* The provider (external): a declined attempt may be followed by a        *)
(* successful one, and some report a later chargeback as a failure.        *)

Pay(d, amount) ==
    /\ initiator[d] = "redirected"
    /\ psp[d] \in {"open", "declined"}
    /\ psp' = [psp EXCEPT ![d] = "paid"]
    /\ paidAmount' = [paidAmount EXCEPT ![d] = amount]
    /\ events' = events \cup {<<d, "CONFIRMED">>}
    /\ UNCHANGED <<walletVars, affiliateVars, adapter, status, refKnown,
                   initiator, handler, overlapped, pspFaults>>

Decline(d) ==
    /\ \/ initiator[d] = "redirected" /\ psp[d] = "open"
       \/ adapter[d] \in ReportsChargeback /\ psp[d] = "paid"
    /\ psp' = [psp EXCEPT ![d] = IF psp[d] = "paid" THEN "reversed" ELSE "declined"]
    /\ events' = events \cup {<<d, "FAILED">>}
    /\ UNCHANGED <<walletVars, affiliateVars, adapter, status, refKnown,
                   initiator, paidAmount, handler, overlapped, pspFaults>>

---------------------------------------------------------------------------
(* processWebhookConfirmation().                                           *)

\* The row is looked up by the deposit id, or else by the provider's reference;
\* a webhook that finds no row is refused and delivered again.
Found(d) == adapter[d] \in EchoesDeposit \/ refKnown[d]

\* parseWebhook() and the read of the row.
Deliver(h, d, kind) ==
    /\ ~Busy(h)
    /\ <<d, kind>> \in events
    /\ Found(d)
    /\ handler' = [handler EXCEPT ![h] = [pc |-> "read", dep |-> d,
                                          kind |-> kind, seen |-> status[d]]]
    /\ overlapped' = IF \E g \in Handlers : Busy(g) /\ handler[g].dep = d
                     THEN overlapped \cup {d} ELSE overlapped
    /\ UNCHANGED <<walletVars, affiliateVars, adapter, status, refKnown,
                   initiator, psp, paidAmount, events, pspFaults>>

\* transitionToConfirmed(), decided on the status read before.
NeedsConfirmReopening(seen) == seen # "CONFIRMED"
NeedsConfirmPendingOnly(seen) == seen = "PENDING"
NeedsConfirm(seen) == seen \notin {"CONFIRMED", "CREDITED"}

Confirm(h) ==
    LET d == handler[h].dep IN
    /\ handler[h].pc = "read"
    /\ handler[h].kind = "CONFIRMED"
    /\ handler' = [handler EXCEPT ![h].pc = "confirmed"]
    /\ IF NeedsConfirm(handler[h].seen)
       THEN /\ status' = [status EXCEPT ![d] = "CONFIRMED"]
            /\ refKnown' = [refKnown EXCEPT ![d] = TRUE]
       ELSE UNCHANGED <<status, refKnown>>
    /\ UNCHANGED <<walletVars, affiliateVars, adapter, initiator, psp,
                   paidAmount, events, overlapped, pspFaults>>

\* The response is 200; when it is lost, the provider delivers again.
Answer(h, e) ==
    /\ handler' = [handler EXCEPT ![h] = Idle]
    /\ \/ events' = events \ {e} /\ UNCHANGED pspFaults
       \/ /\ pspFaults < MaxPspFaults
          /\ pspFaults' = pspFaults + 1
          /\ UNCHANGED events

\* The guards of transitionToCredit: the row must be CONFIRMED, and an amount
\* the webhook names must be the requested one (0 means it names none).
Creditable(d) == status[d] = "CONFIRMED" /\ paidAmount[d] # "other"

CreditDeposit(h) ==
    LET d == handler[h].dep IN
    /\ handler[h].pc = "confirmed"
    /\ Creditable(d)
    /\ Credit("DEPOSIT_CREDIT", d, DepositAmount)
    /\ status' = [status EXCEPT ![d] = "CREDITED"]
    /\ refKnown' = [refKnown EXCEPT ![d] = TRUE]
    /\ handler' = [handler EXCEPT ![h].pc = "credited"]
    /\ UNCHANGED <<affiliateVars, adapter, initiator, psp, paidAmount, events,
                   overlapped, pspFaults>>

AlreadyCredited(h) ==
    LET d == handler[h].dep IN
    /\ handler[h].pc = "confirmed"
    /\ status[d] = "CREDITED"
    /\ Answer(h, <<d, "CONFIRMED">>)
    /\ UNCHANGED <<walletVars, affiliateVars, adapter, status, refKnown,
                   initiator, psp, paidAmount, overlapped>>

\* transitionToCredit() throws: the answer is an error, the provider retries.
CreditRefused(h) ==
    LET d == handler[h].dep IN
    /\ handler[h].pc = "confirmed"
    /\ status[d] # "CREDITED"
    /\ ~Creditable(d)
    /\ handler' = [handler EXCEPT ![h] = Idle]
    /\ UNCHANGED <<walletVars, affiliateVars, adapter, status, refKnown,
                   initiator, psp, paidAmount, events, overlapped, pspFaults>>

\* recordCommissionFromDeposit() after the credit committed, then the answer.
Accrue(h) ==
    LET d == handler[h].dep IN
    /\ handler[h].pc = "credited"
    /\ commission' = Accrued(d, IF paidAmount[d] = "same" THEN DepositAmount ELSE 0)
    /\ Answer(h, <<d, "CONFIRMED">>)
    /\ UNCHANGED <<walletVars, partner, referredBy, adapter, status, refKnown,
                   initiator, psp, paidAmount, overlapped>>

\* transitionToFailed(), decided on the status read before.
NeedsFail(seen) == seen \notin {"FAILED", "CREDITED"}

Fail(h) ==
    LET d == handler[h].dep IN
    /\ handler[h].pc = "read"
    /\ handler[h].kind = "FAILED"
    /\ status' = IF NeedsFail(handler[h].seen)
                 THEN [status EXCEPT ![d] = "FAILED"] ELSE status
    /\ Answer(h, <<d, "FAILED">>)
    /\ UNCHANGED <<walletVars, affiliateVars, adapter, refKnown, initiator, psp,
                   paidAmount, overlapped>>

\* The server stops in the middle of a request.
CrashHandler(h) ==
    /\ Busy(h)
    /\ pspFaults < MaxPspFaults
    /\ pspFaults' = pspFaults + 1
    /\ handler' = [handler EXCEPT ![h] = Idle]
    /\ UNCHANGED <<walletVars, affiliateVars, adapter, status, refKnown,
                   initiator, psp, paidAmount, events, overlapped>>

---------------------------------------------------------------------------
HandlerStep(h) ==
    \/ Confirm(h)
    \/ CreditDeposit(h)
    \/ AlreadyCredited(h)
    \/ CreditRefused(h)
    \/ Accrue(h)
    \/ Fail(h)

DepositsNext ==
    \/ \E d \in Deposits :
        \/ Request(d)
        \/ OpenSession(d)
        \/ SessionRefused(d)
        \/ ToPending(d)
        \/ \E amount \in {"same", "missing", "other"} : Pay(d, amount)
        \/ Decline(d)
        \/ \E h \in Handlers, kind \in {"CONFIRMED", "FAILED"} : Deliver(h, d, kind)
    \/ \E h \in Handlers : HandlerStep(h) \/ CrashHandler(h)
    \/ AffiliatesNext /\ UNCHANGED <<walletVars, pspVars>>

\* The server works on what it has accepted, and the provider delivers a
\* webhook again and again until it is answered.
DepositsFairness ==
    /\ \A h \in Handlers : WF_depositVars(HandlerStep(h))
    /\ \A d \in Deposits, kind \in {"CONFIRMED", "FAILED"} :
           SF_depositVars(\E h \in Handlers : Deliver(h, d, kind))

DepositsSpec == DepositsInit /\ [][DepositsNext]_depositVars /\ DepositsFairness
---------------------------------------------------------------------------
Credits(d) == Cardinality(Posted(d))

\* A deposit is credited at most once, as deposit.state.machine.ts:60-69 and
\* prisma/schema.prisma:929 claim.
CreditedOnce == \A d \in Deposits : Credits(d) <= 1

\* Without two requests working on a deposit at the same moment, no sequence
\* of redelivered, late and contradicting webhooks, lost answers and crashes
\* credits it twice, and a commission is only owed on a credited deposit.
CreditedOnceInTurn ==
    \A d \in Deposits :
        /\ d \notin overlapped => Credits(d) <= 1
        /\ commission[d] # "NONE" => Credits(d) >= 1

\* A payment whose webhook finds its deposit and names no other amount is
\* credited in the end, whatever failure report, crash or lost answer comes in
\* between.
PaidIsCredited ==
    \A d \in Deposits :
        (psp[d] = "paid" /\ paidAmount[d] # "other" /\ Found(d))
            ~> (Credits(d) >= 1)
=============================================================================
