------------------------------ MODULE MCPlatform ------------------------------
(*****************************************************************************)
(* What surrounds the trading of a client: who it is, what it may reach,     *)
(* what is known of it, what is recorded and what it is told.  The parts     *)
(* meet in no state that these properties tell apart; part says which one a  *)
(* behaviour exercises.                                                      *)
(*****************************************************************************)
EXTENDS Sessions, KycCases, AuditChain, RealtimeSockets, HttpGate, FixGateway,
        Notices

VARIABLE part

MCFavorites == <<"EURUSD">>
MCReviews == [e1 |-> "GREEN", e2 |-> "onHold"]
MCAlertOf == [i1 |-> "k1", i2 |-> "k1", i3 |-> "k1"]
Asks(route, who) == [route |-> route, who |-> who]
MCKinds == {Asks("health", "none"), Asks("trap", "none"), Asks("report", "trader"),
            Asks("export", "trader"), Asks("capital", "operator")}

vars == <<keyVars, authVars, kycVars, auditVars, tabVars, docVars, gateVars, fixVars,
          noticeVars, alertVars, ticketVars, listVars, part>>

BesideKeys == <<authVars, kycVars, auditVars, tabVars, docVars, gateVars, fixVars,
                noticeVars, alertVars, ticketVars, listVars>>
BesideAuth == <<keyVars, kycVars, auditVars, tabVars, docVars, gateVars, fixVars,
                noticeVars, alertVars, ticketVars, listVars>>
BesideKyc == <<keyVars, authVars, auditVars, tabVars, docVars, gateVars, fixVars,
               noticeVars, alertVars, ticketVars, listVars>>
BesideAudit == <<keyVars, authVars, kycVars, tabVars, docVars, gateVars, fixVars,
                 noticeVars, alertVars, ticketVars, listVars>>
BesideTabs == <<keyVars, authVars, kycVars, auditVars, docVars, gateVars, fixVars,
                noticeVars, alertVars, ticketVars, listVars>>
BesideFiles == <<keyVars, authVars, kycVars, auditVars, tabVars, gateVars, fixVars,
                 noticeVars, alertVars, ticketVars, listVars>>
BesideGate == <<keyVars, authVars, kycVars, auditVars, tabVars, docVars, fixVars,
                noticeVars, alertVars, ticketVars, listVars>>
BesideFix == <<keyVars, authVars, kycVars, auditVars, tabVars, docVars, gateVars,
               noticeVars, alertVars, ticketVars, listVars>>
BesideNotices == <<keyVars, authVars, kycVars, auditVars, tabVars, docVars, gateVars,
                   fixVars, alertVars, ticketVars, listVars>>
BesideAlerts == <<keyVars, authVars, kycVars, auditVars, tabVars, docVars, gateVars,
                  fixVars, noticeVars, ticketVars, listVars>>
BesideTickets == <<keyVars, authVars, kycVars, auditVars, tabVars, docVars, gateVars,
                   fixVars, noticeVars, alertVars, listVars>>
BesideLists == <<keyVars, authVars, kycVars, auditVars, tabVars, docVars, gateVars,
                 fixVars, noticeVars, alertVars, ticketVars>>

Init ==
    /\ part \in {"keys", "auth", "kyc", "audit", "tabs", "files", "gate", "fix", "notices", "alerts", "tickets", "lists"}
    /\ KeyInit
    /\ AuthInit
    /\ KycInit
    /\ AuditInit
    /\ TabsInit
    /\ DocInit
    /\ GateInit
    /\ FixInit
    /\ NoticesInit
    /\ AlertsInit
    /\ TicketsInit
    /\ ListsInit
    /\ part # "files" => scanner /\ ~infected

Next ==
    \/ part = "keys" /\ KeyNext /\ UNCHANGED <<BesideKeys, part>>
    \/ part = "auth" /\ AuthNext /\ UNCHANGED <<BesideAuth, part>>
    \/ part = "kyc" /\ KycNext /\ UNCHANGED <<BesideKyc, part>>
    \/ part = "audit" /\ AuditNext /\ UNCHANGED <<BesideAudit, part>>
    \/ part = "tabs" /\ TabsNext /\ UNCHANGED <<BesideTabs, part>>
    \/ part = "files" /\ DocNext /\ UNCHANGED <<BesideFiles, part>>
    \/ part = "gate" /\ GateNext /\ UNCHANGED <<BesideGate, part>>
    \/ part = "fix" /\ FixNext /\ UNCHANGED <<BesideFix, part>>
    \/ part = "notices" /\ NoticesNext /\ UNCHANGED <<BesideNotices, part>>
    \/ part = "alerts" /\ AlertsNext /\ UNCHANGED <<BesideAlerts, part>>
    \/ part = "tickets" /\ TicketsNext /\ UNCHANGED <<BesideTickets, part>>
    \/ part = "lists" /\ ListsNext /\ UNCHANGED <<BesideLists, part>>

Spec == Init /\ [][Next]_vars
---------------------------------------------------------------------------
\* Who a request comes from: no revoked session is used, and no code of a second
\* factor twice (auth-service), and the workers accept the tokens that another
\* signed (jwt-key-manager).
IdentitySound == SessionsSound /\ RotationsConverge

\* What is known of a customer: a decided identity check stays decided
\* (kyc.service.ts), and a document is served only scanned and from a key that
\* holds it (document-storage).
CustomerFilesSound == DecisionsStand /\ DocumentsSound

\* What reaches the outside: the requests the gateway lets in are those it should
\* (gateway), and each FIX connection is watched and counted (fix.acceptor.ts).
DoorsSound == GateSound /\ FixSound
==============================================================================
