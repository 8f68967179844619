------------------------------ MODULE KycCases ------------------------------
(***************************************************************************)
(* The identity check of one user: uploads, administrators and the         *)
(* webhooks of Sumsub, all of which move one case                          *)
(* (kyc-service/kyc.service.ts).  The decisions are guarded updates made   *)
(* in one transaction with the user's kycStatus; what an upload or a       *)
(* request for documents does to the status is not guarded.  The second    *)
(* part is the store the documents of a customer are in.                   *)
(***************************************************************************)
EXTENDS Integers, FiniteSets, Sequences

CONSTANTS
    Calls,          \* requests under way
    Reviews,        \* event of Sumsub -> its reviewAnswer, or its reviewStatus
    MaxUploads, MaxRequests, MaxKycFaults

VARIABLES
    kase,           \* status of the KycCase row, "none" before there is one
    round,          \* how often a decided case has been opened again
    kycStatus,      \* of the user
    documents,      \* kinds of the documents stored
    applicant,      \* the case knows its Sumsub applicant
    processed,      \* payloads in SumsubWebhookEvent
    decisions,      \* audited decisions: [by, status, round]
    call,           \* request -> its step
    uploads, requests, kycFaults

kycVars == <<kase, round, kycStatus, documents, applicant, processed, decisions, call,
             uploads, requests, kycFaults>>

Events == DOMAIN Reviews
\* Who decides is known by name: an event is neither of the other two.
ASSUME KycAssumption == {"admin", "SYSTEM"} \cap Events = {}

Answers == {"GREEN", "RED"}
Identity == {"PASSPORT", "EXPIRED_PASSPORT"}
Keys == Identity \cup {"SELFIE", "PROOF_OF_ADDRESS"}
TERMINAL_KYC_STATUSES == {"APPROVED", "REJECTED"}
NoCall == [pc |-> "idle"]

KycInit ==
    /\ kase = "none" /\ round = 0 /\ kycStatus = "pending"
    /\ documents = {} /\ applicant = FALSE
    /\ processed = {} /\ decisions = <<>>
    /\ call = [c \in Calls |-> NoCall]
    /\ uploads = 0 /\ requests = 0 /\ kycFaults = 0

Continue(c, next) == call' = [call EXCEPT ![c] = next]
At(c, pc) == call[c].pc = pc

\* An update without a condition: it opens a decided case without a word.
Overwrite(status) ==
    /\ kase' = status
    /\ round' = IF kase \in TERMINAL_KYC_STATUSES /\ status \notin TERMINAL_KYC_STATUSES
                THEN round + 1 ELSE round

NotTerminalAsAny == TRUE
NotTerminal == kase \notin TERMINAL_KYC_STATUSES

\* The guarded updateMany() with, in its transaction, the user and the audit.
Conclude(by, status) ==
    IF NotTerminal
    THEN /\ kase' = status
         /\ kycStatus' = IF status = "APPROVED" THEN "approved" ELSE "rejected"
         /\ decisions' = Append(decisions, [by |-> by, status |-> status, round |-> round])
    ELSE UNCHANGED <<kase, kycStatus, decisions>>
---------------------------------------------------------------------------
\* uploadDocument() and getSumsubAccessToken() begin with getOrCreateCase().
Upload(c, key) ==
    /\ call[c] = NoCall
    /\ uploads < MaxUploads /\ uploads' = uploads + 1
    /\ Continue(c, [pc |-> IF kase = "none" THEN "create" ELSE "assess", key |-> key])
    /\ UNCHANGED <<kase, round, kycStatus, documents, applicant, processed, decisions,
                   requests, kycFaults>>
AskToken(c) ==
    /\ call[c] = NoCall /\ ~applicant
    /\ Continue(c, [pc |-> IF kase = "none" THEN "create" ELSE "link", key |-> "TOKEN"])
    /\ UNCHANGED <<kase, round, kycStatus, documents, applicant, processed, decisions,
                   uploads, requests, kycFaults>>

\* One case per user: the second of two creators fails.
CreateCase(c) ==
    /\ At(c, "create")
    /\ IF kase = "none"
       THEN /\ kase' = "SUBMITTED"
            /\ Continue(c, [call[c] EXCEPT !.pc = IF call[c].key = "TOKEN" THEN "link" ELSE "assess"])
       ELSE UNCHANGED kase /\ Continue(c, NoCall)
    /\ UNCHANGED <<round, kycStatus, documents, applicant, processed, decisions, uploads,
                   requests, kycFaults>>

LinkApplicant(c) ==
    /\ At(c, "link")
    /\ applicant' = TRUE /\ Continue(c, NoCall)
    /\ UNCHANGED <<kase, round, kycStatus, documents, processed, decisions, uploads,
                   requests, kycFaults>>

\* A paper of identity is read and assessed; a critical flag rejects the case.
Assess(c) ==
    /\ At(c, "assess")
    /\ IF call[c].key \in Identity
       THEN Overwrite(IF call[c].key = "EXPIRED_PASSPORT" THEN "REJECTED"
                                                          ELSE "DOCUMENT_CHECK")
       ELSE UNCHANGED <<kase, round>>
    /\ Continue(c, [call[c] EXCEPT !.pc = IF call[c].key = "EXPIRED_PASSPORT" THEN "reject"
                                                                         ELSE "store"])
    /\ UNCHANGED <<kycStatus, documents, applicant, processed, decisions, uploads, requests,
                   kycFaults>>

\* _rejectCase() of an upload finds the case rejected already, by the upload
\* itself, unless it has been opened again since.
RejectUpload(c) ==
    /\ At(c, "reject")
    /\ Conclude("SYSTEM", "REJECTED")
    /\ Continue(c, [call[c] EXCEPT !.pc = "store"])
    /\ UNCHANGED <<round, documents, applicant, processed, uploads, requests, kycFaults>>

StoreDocument(c) ==
    /\ At(c, "store")
    /\ documents' = documents \cup {call[c].key}
    /\ Continue(c, [call[c] EXCEPT !.pc = "count"])
    /\ UNCHANGED <<kase, round, kycStatus, applicant, processed, decisions, uploads,
                   requests, kycFaults>>

\* _advanceCaseStatus(): the documents are read, then the status is written.
NextStatus ==
    LET selfie == "SELFIE" \in documents
        address == "PROOF_OF_ADDRESS" \in documents
    IN  IF documents \cap Identity = {} THEN "SUBMITTED"
        ELSE IF selfie THEN IF address THEN "MANUAL_REVIEW" ELSE "ADDRESS_CHECK"
        ELSE "SELFIE_CHECK"
CountDocuments(c) ==
    /\ At(c, "count")
    /\ Continue(c, [pc |-> "advance", status |-> NextStatus])
    /\ UNCHANGED <<kase, round, kycStatus, documents, applicant, processed, decisions,
                   uploads, requests, kycFaults>>
Advance(c) ==
    /\ At(c, "advance")
    /\ Overwrite(call[c].status)
    /\ Continue(c, NoCall)
    /\ UNCHANGED <<kycStatus, documents, applicant, processed, decisions, uploads, requests,
                   kycFaults>>
---------------------------------------------------------------------------
\* approveCase(), rejectCase(), requestMoreDocuments().
Review(admin, status) ==
    /\ kase # "none"
    /\ Conclude(admin, status)
    /\ UNCHANGED <<round, documents, applicant, processed, call, uploads, requests,
                   kycFaults>>
RequestMoreDocuments ==
    /\ kase # "none"
    /\ requests < MaxRequests /\ requests' = requests + 1
    /\ Overwrite("SUBMITTED")
    /\ UNCHANGED <<kycStatus, documents, applicant, processed, decisions, call, uploads,
                   kycFaults>>
---------------------------------------------------------------------------
\* processSumsubWebhook(): Sumsub delivers an event any number of times.  The
\* row of the payload comes first, in a statement of its own.
ReplayedLet(e) == FALSE
Replayed(e) == e \in processed
RecordEvent(c, e) ==
    /\ call[c] = NoCall /\ ~Replayed(e)
    /\ processed' = processed \cup {e}
    /\ Continue(c, [pc |-> "webhook", event |-> e])
    /\ UNCHANGED <<kase, round, kycStatus, documents, applicant, decisions, uploads,
                   requests, kycFaults>>

MapReviewToStatus(e) ==
    CASE Reviews[e] = "GREEN" -> "APPROVED"
      [] Reviews[e] = "RED" -> "REJECTED"
      [] Reviews[e] \in {"pending", "queued", "onHold"} -> "MANUAL_REVIEW"
      [] OTHER -> "DOCUMENT_CHECK"
ApplyEvent(c) ==
    /\ At(c, "webhook") /\ Continue(c, NoCall)
    /\ LET e == call[c].event
       IN  IF ~applicant THEN UNCHANGED <<kase, kycStatus, decisions>>
           ELSE IF Reviews[e] \in Answers THEN Conclude(e, MapReviewToStatus(e))
           ELSE /\ kase' = IF NotTerminal THEN MapReviewToStatus(e) ELSE kase
                /\ UNCHANGED <<kycStatus, decisions>>
    /\ UNCHANGED <<round, documents, applicant, processed, uploads, requests, kycFaults>>

\* A provider, the database or the process fails: the request goes no further.
Fail(c) ==
    /\ call[c] # NoCall
    /\ kycFaults < MaxKycFaults /\ kycFaults' = kycFaults + 1
    /\ Continue(c, NoCall)
    /\ UNCHANGED <<kase, round, kycStatus, documents, applicant, processed, decisions,
                   uploads, requests>>

KycNext ==
    \/ \E c \in Calls :
          \/ \E key \in Keys : Upload(c, key)
          \/ AskToken(c) \/ CreateCase(c) \/ LinkApplicant(c)
          \/ Assess(c) \/ RejectUpload(c) \/ StoreDocument(c)
          \/ CountDocuments(c) \/ Advance(c)
          \/ \E e \in Events : RecordEvent(c, e)
          \/ ApplyEvent(c) \/ Fail(c)
    \/ \E status \in TERMINAL_KYC_STATUSES : Review("admin", status)
    \/ RequestMoreDocuments
---------------------------------------------------------------------------
\* The user is what the last decision made them, whichever of the uploads,
\* administrators and webhooks came between; no decision replaces another
\* without the case having been opened in between; and no review of Sumsub
\* decides twice, however late it is delivered again.
DecisionsStand ==
    /\ decisions # <<>> =>
          kycStatus = IF decisions[Len(decisions)].status = "APPROVED" THEN "approved"
                                                                       ELSE "rejected"
    /\ \A i, j \in DOMAIN decisions : i # j =>
          /\ decisions[i].round # decisions[j].round
          /\ decisions[i].by \in Events => decisions[i].by # decisions[j].by

\* "Once a case reaches APPROVED or REJECTED, no further automated/admin
\* transition can silently overwrite it" (kyc-service/kyc.service.ts:105-106).
TerminalStays ==
    [][~(kase \in TERMINAL_KYC_STATUSES) \/ kase' = kase]_kycVars

(***************************************************************************)
(* One stored document (document-storage/): its row, its file in the       *)
(* object store under the quarantine key or the active one, the scan the   *)
(* upload asks for and the scanner's callbacks, which may come twice, late *)
(* or not at all.  The calls of clients, administrators and the scanner    *)
(* run in any process; the row and the store change in separate steps.     *)
(***************************************************************************)

CONSTANTS
    Handlers,                               \* calls under way at once
    MaxPuts, MaxScans, MaxDeliveries,       \* uploads; scans; callbacks
    MaxStoreFaults                          \* failed calls

VARIABLES
    docRow,     \* StoredDocument: [status, scan, key]; status "none" before it
    files,      \* keys of the store that hold the file: "quarantine", "active"
    scanner,    \* whether VIRUS_SCAN_URL is set
    infected,   \* what the scanner finds in the file
    handler,    \* handler -> [pc, key, op]
    puts,       \* uploads still possible with the presigned URL
    scans, deliveries, storeFaults,
    repeated,   \* history: a clean verdict was read for a document moved before
    crossed,    \* history: a deletion and another call were under way together, or a
                \* client wrote to its URL when the document was being dealt with
    failed      \* history: a call failed after its first effect

docVars == <<docRow, files, scanner, infected, handler, puts, scans, deliveries,
             storeFaults, repeated, crossed, failed>>

quarantineKey == "quarantine"
activeKey == "active"
NoUpload == [pc |-> "idle", key |-> quarantineKey, op |-> "none"]

DocInit ==
    /\ docRow = [status |-> "none", scan |-> "none", key |-> quarantineKey]
    /\ files = {} /\ scanner \in BOOLEAN /\ infected \in BOOLEAN
    /\ handler = [h \in Handlers |-> NoUpload]
    /\ puts = 0 /\ scans = 0 /\ deliveries = 0 /\ storeFaults = 0
    /\ repeated = FALSE /\ crossed = FALSE /\ failed = FALSE

Busy(h) == handler[h].pc # "idle"
To(h, pc) == handler' = [handler EXCEPT ![h].pc = pc]
Done(h) == handler' = [handler EXCEPT ![h] = NoUpload]
\* A call reads the row: what it read is what it goes on with.
Begin(h, pc, op) ==
    /\ ~Busy(h) /\ docRow.status # "none"
    /\ handler' = [handler EXCEPT ![h] = [pc |-> pc, key |-> docRow.key, op |-> op]]
    /\ crossed' = (crossed \/ \E o \in Handlers \ {h} :
                      Busy(o) /\ "delete" \in {op, handler[o].op})

\* initiateUpload(): the row, and a URL the client may write to for five minutes.
InitiateUpload ==
    /\ docRow.status = "none" /\ files = {} /\ puts' = MaxPuts
    /\ docRow' = [docRow EXCEPT !.status = "QUARANTINE", !.scan = "PENDING"]
    /\ UNCHANGED <<files, scanner, infected, handler, scans, deliveries, storeFaults,
                   repeated, crossed, failed>>
ClientPut ==
    /\ puts > 0 /\ puts' = puts - 1
    /\ files' = files \cup {quarantineKey}
    /\ crossed' = (crossed \/ docRow.status # "QUARANTINE"
                     \/ \E h \in Handlers : handler[h].op \in {"delete", "scan"})
    /\ UNCHANGED <<docRow, scanner, infected, handler, scans, deliveries, storeFaults,
                   repeated, failed>>
\* directUpload(): the file first, then the row, then as confirmUpload().
DirectUpload(h) ==
    /\ docRow.status = "none" /\ files = {} /\ ~Busy(h)
    /\ files' = {quarantineKey}
    /\ handler' = [handler EXCEPT ![h] = [pc |-> "create", key |-> quarantineKey,
                                          op |-> "upload"]]
    /\ UNCHANGED <<docRow, scanner, infected, puts, scans, deliveries, storeFaults, repeated,
                   crossed, failed>>
CreateRow(h) ==
    /\ handler[h].pc = "create"
    /\ docRow' = [docRow EXCEPT !.status = "QUARANTINE", !.scan = "PENDING"]
    /\ To(h, "trigger")
    /\ UNCHANGED <<files, scanner, infected, puts, scans, deliveries, storeFaults, repeated,
                   crossed, failed>>

InAnyState == TRUE
InQuarantine == docRow.status = "QUARANTINE"
ConfirmUpload(h) ==
    /\ InQuarantine /\ Begin(h, "exists", "upload")
    /\ UNCHANGED <<docRow, files, scanner, infected, puts, scans, deliveries, storeFaults,
                   repeated, failed>>
Exists(h) ==
    /\ handler[h].pc = "exists"
    /\ IF handler[h].key \in files THEN To(h, "trigger") ELSE Done(h)
    /\ UNCHANGED <<docRow, files, scanner, infected, puts, scans, deliveries, storeFaults,
                   repeated, crossed, failed>>
TriggerScan(h) ==
    /\ handler[h].pc = "trigger"
    /\ IF scanner
       THEN scans < MaxScans /\ scans' = scans + 1 /\ To(h, "mark")
       ELSE To(h, "copy") /\ UNCHANGED scans
    /\ UNCHANGED <<docRow, files, scanner, infected, puts, deliveries, storeFaults, repeated,
                   crossed, failed>>
\* The callback may have been served meanwhile: "SCANNING" is then the last word.
MarkScanning(h) ==
    /\ handler[h].pc = "mark"
    /\ docRow' = [docRow EXCEPT !.scan = "SCANNING"]
    /\ Done(h)
    /\ UNCHANGED <<files, scanner, infected, puts, scans, deliveries, storeFaults, repeated,
                   crossed, failed>>

\* handleScanResult(): a verdict on the file, or ERROR, which leaves the document
\* where it is.
ActivatesUnlessInfected(verdict) == verdict # "INFECTED"
Activates(verdict) == verdict = "CLEAN"
ScanResult(h, verdict) ==
    /\ scans > 0 /\ deliveries < MaxDeliveries /\ deliveries' = deliveries + 1
    /\ verdict \in {"ERROR", IF infected THEN "INFECTED" ELSE "CLEAN"}
    /\ CASE Activates(verdict) -> Begin(h, "copy", "scan")
         [] verdict = "INFECTED" -> Begin(h, "purge", "scan")
         [] OTHER -> Begin(h, "error", "scan")
    /\ repeated' = (repeated \/ (verdict = "CLEAN" /\ docRow.key = activeKey))
    /\ UNCHANGED <<docRow, files, scanner, infected, puts, scans, storeFaults, failed>>
ScanError(h) ==
    /\ handler[h].pc = "error"
    /\ docRow' = [docRow EXCEPT !.scan = "ERROR"]
    /\ Done(h)
    /\ UNCHANGED <<files, scanner, infected, puts, scans, deliveries, storeFaults, repeated,
                   crossed, failed>>

\* _activateDocument(): move() copies, then deletes the source, whatever it is;
\* then the row.
Copy(h) ==
    /\ handler[h].pc = "copy"
    /\ IF handler[h].key \in files
       THEN files' = files \cup {activeKey} /\ To(h, "unlink")
       ELSE Done(h) /\ UNCHANGED files
    /\ UNCHANGED <<docRow, scanner, infected, puts, scans, deliveries, storeFaults, repeated,
                   crossed, failed>>
Unlink(h) ==
    /\ handler[h].pc \in {"unlink", "purge", "remove"}
    /\ files' = files \ {handler[h].key}
    /\ To(h, CASE handler[h].pc = "unlink" -> "activate"
               [] handler[h].pc = "purge" -> "infected"
               [] OTHER -> "deleted")
    /\ UNCHANGED <<docRow, scanner, infected, puts, scans, deliveries, storeFaults, repeated,
                   crossed, failed>>
Activate(h) ==
    /\ handler[h].pc = "activate"
    /\ docRow' = [status |-> "ACTIVE", scan |-> "CLEAN", key |-> activeKey]
    /\ IF handler[h].op = "scan" THEN To(h, "stamp") ELSE Done(h)
    /\ UNCHANGED <<files, scanner, infected, puts, scans, deliveries, storeFaults, repeated,
                   crossed, failed>>
Outcome(h) ==
    CASE handler[h].pc = "stamp" -> [docRow EXCEPT !.scan = "CLEAN"]
      [] handler[h].pc = "infected" ->
            [docRow EXCEPT !.status = "INFECTED", !.scan = "INFECTED"]
      [] OTHER -> [docRow EXCEPT !.status = "DELETED"]
LastUpdate(h) ==
    /\ handler[h].pc \in {"stamp", "infected", "deleted"}
    /\ docRow' = Outcome(h)
    /\ Done(h)
    /\ UNCHANGED <<files, scanner, infected, puts, scans, deliveries, storeFaults, repeated,
                   crossed, failed>>

\* deleteDocument(), by its owner or an administrator.
DeleteDocument(h) ==
    /\ docRow.status # "DELETED" /\ Begin(h, "remove", "delete")
    /\ UNCHANGED <<docRow, files, scanner, infected, puts, scans, deliveries, storeFaults,
                   repeated, failed>>

\* A call of the store or the database fails, or the process dies.  The failed
\* removal of a deletion or of an infected file is caught.
CallFails(h) ==
    /\ Busy(h) /\ storeFaults < MaxStoreFaults /\ storeFaults' = storeFaults + 1
    /\ \/ Done(h)
       \/ handler[h].pc = "purge" /\ To(h, "infected")
       \/ handler[h].pc = "remove" /\ To(h, "deleted")
    /\ failed' = (failed \/ handler[h].pc \notin {"exists", "trigger", "mark", "copy", "error"})
    /\ UNCHANGED <<docRow, files, scanner, infected, puts, scans, deliveries, repeated, crossed>>

DocNext ==
    \/ InitiateUpload \/ ClientPut
    \/ \E h \in Handlers :
          \/ DirectUpload(h) \/ CreateRow(h) \/ ConfirmUpload(h) \/ Exists(h)
          \/ TriggerScan(h) \/ MarkScanning(h)
          \/ \E verdict \in {"CLEAN", "INFECTED", "ERROR"} : ScanResult(h, verdict)
          \/ ScanError(h) \/ Copy(h) \/ Unlink(h) \/ Activate(h) \/ LastUpdate(h)
          \/ DeleteDocument(h) \/ CallFails(h)
---------------------------------------------------------------------------
\* A document can be downloaded only if the scanner found nothing in it, or none
\* is configured.
ServedOnlyClean == docRow.status = "ACTIVE" => ~scanner \/ ~infected

\* Once no call is under way, an active document has its file, and a deleted or
\* infected one has none: whatever confirmations and callbacks ran beside each
\* other, unless a clean verdict came again for a document already moved (move()
\* then copies the file onto itself and deletes it), a deletion overlapped
\* another call, or a call failed half-way.
FileFollowsRow ==
    (\A h \in Handlers : ~Busy(h)) /\ ~repeated /\ ~crossed /\ ~failed =>
        /\ docRow.status = "ACTIVE" => activeKey \in files
        /\ docRow.status \in {"DELETED", "INFECTED"} => docRow.key \notin files

\* Both: what is offered was scanned, and is there.
DocumentsSound == ServedOnlyClean /\ FileFollowsRow
=============================================================================
