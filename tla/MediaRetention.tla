--------------------------- MODULE MediaRetention ---------------------------
(***************************************************************************)
(* The media artifact of one message, from the download by the bot to its  *)
(* removal: upload under a committed intent and its recovery               *)
(* (app/media/retention.py), scanning and recognition                      *)
(* (app/media/service.py), clean-up after the retention period, and the     *)
(* audited break-glass access (app/console/break_glass.py).  Jobs of the    *)
(* bot and of Celery workers interleave at every transaction and at every   *)
(* call of the object storage.  A retention policy is configured.           *)
(***************************************************************************)
EXTENDS Integers, FiniteSets

CONSTANTS
    Bot,            \* the process that downloads and uploads
    Workers,        \* Celery worker processes
    Pollers,        \* the workers that may handle the message (one per lock)
    Exempt,         \* allow_scan_exemption
    MaxScans,       \* bound: scans started by hand or by the scanner
    MaxFaults       \* bound: crashes, failed calls, early lease expiries

VARIABLES
    att,            \* MessageAttachment and its MediaProcessingTask
    refused,        \* an attachment row that only records a failure
    ing,            \* StorageIngestOperation
    cln,            \* StorageCleanupOperation
    obj,            \* the object is in the storage
    text,           \* times that recognised text was added to the message
    open,           \* the message's Outbox event is not settled
    job,            \* what each process is doing
    late,           \* waits of "download", "upload", "scan" that ran out
    expired,        \* the retention period is over
    glass,          \* break-glass access: "none", "granted", "signed"
    scans, faults   \* counters behind the bounds

vars == <<att, refused, ing, cln, obj, text, open, job, late, expired, glass,
          scans, faults>>

Procs == {Bot} \cup Workers

\* The sales lock lets one worker at a time handle the message
\* (LeadOutbox!OneWorkerPerSales).
ASSUME MediaAssumption ==
    /\ Bot \notin Workers /\ IsFiniteSet(Workers) /\ Exempt \in BOOLEAN
    /\ Pollers \subseteq Workers /\ \A v, w \in Pollers : v = w
    /\ MaxScans \in Nat /\ MaxFaults \in Nat

Waiting == {"pending", "pending_upload"}
OpenStatus == {"pending", "retrying", "reconcile_required"}
NoOp == [st |-> "none", out |-> "none", tok |-> 0, live |-> FALSE]
NoAtt == [proc |-> "none", scan |-> "none", del |-> "none", key |-> FALSE,
          issued |-> FALSE, timeout |-> FALSE]
Idle == [pc |-> "idle", tok |-> 0]

\* SCAN_TRANSITIONS.
ScanSteps(s) ==
    CASE s = "pending_scan" -> {"scanning"}
      [] s = "scanning" -> {"clean", "infected", "scan_failed"}
      [] s = "scan_failed" -> {"scanning"}
      [] s = "clean" -> {"infected"}
      [] s = "not_required" -> {"scanning", "infected"}
      [] OTHER -> {}

TypeOK ==
    /\ att.proc \in Waiting \cup {"none", "succeeded", "failed_pending_review"}
    /\ att.scan \in {"none", "pending_scan", "scanning", "clean", "not_required",
                     "infected", "scan_failed"}
    /\ att.del \in {"none", "active", "quarantined", "deleted"}
    /\ \A o \in {ing, cln} :
        /\ o.st \in OpenStatus \cup {"none", "processing", "succeeded",
                                     "failed_pending_review"}
        /\ o.live => o.st = "processing"
    /\ (att.proc = "none") = (ing.st = "none")
    /\ att.issued = (cln.st # "none") /\ (att.issued => expired)
    /\ ing.st = "succeeded" => att.proc # "pending_upload"

Init ==
    /\ att = NoAtt /\ refused = FALSE /\ ing = NoOp /\ cln = NoOp
    /\ obj = FALSE /\ text = 0 /\ open = TRUE
    /\ job = [q \in Procs |-> IF q = Bot THEN [Idle EXCEPT !.pc = "download"] ELSE Idle]
    /\ late = {} /\ expired = FALSE /\ glass = "none" /\ scans = 0 /\ faults = 0

Fault == faults < MaxFaults /\ faults' = faults + 1
Goto(q, pc) == job' = [job EXCEPT ![q].pc = pc]
Leave(q) == job' = [job EXCEPT ![q] = Idle]
At(q, pc) == job[q].pc = pc

------------------------------------------------------------------------------
(* Claims of an operation, with a new token and generation *)

ByStatus(o) == o.st \in OpenStatus

\* Open, or under a lease that ran out.
Claimable(o) == o.st \in OpenStatus \/ (o.st = "processing" /\ ~o.live)

Fresh == CHOOSE t \in 1..(Cardinality(Procs) + 3) :
            t \notin {job[q].tok : q \in Procs} \cup {ing.tok, cln.tok}

Claimed(o) == [o EXCEPT !.st = "processing", !.tok = Fresh, !.live = TRUE]

TakeUp(q, pc) == job' = [job EXCEPT ![q] = [pc |-> pc, tok |-> Fresh]]

\* The condition of every update a claimant makes.
Fenced(q, o) == o.st = "processing" /\ o.tok = job[q].tok

LeaseExpires(o) ==
    /\ o.live
    /\ IF \E q \in Procs : job[q].tok = o.tok THEN Fault ELSE UNCHANGED faults

IngestLeaseExpires ==
    /\ LeaseExpires(ing) /\ ing' = [ing EXCEPT !.live = FALSE]
    /\ UNCHANGED <<att, refused, cln, obj, text, open, job, late, expired, glass, scans>>

CleanupLeaseExpires ==
    /\ LeaseExpires(cln) /\ cln' = [cln EXCEPT !.live = FALSE]
    /\ UNCHANGED <<att, refused, ing, obj, text, open, job, late, expired, glass, scans>>

------------------------------------------------------------------------------
(* Download, upload and recovery of the upload *)

\* ingest, up to the committed intent: validated, and by the scanner's answer.
Ingest ==
    /\ At(Bot, "download")
    /\ \E s \in {"clean", "pending_scan", "scanning"} \cup
               (IF Exempt THEN {"not_required"} ELSE {}) :
        att' = [NoAtt EXCEPT !.proc = "pending_upload", !.scan = s,
                             !.del = "active", !.key = TRUE]
    /\ ing' = [NoOp EXCEPT !.st = "pending"]
    /\ Goto(Bot, "claim") /\ late' = {}
    /\ UNCHANGED <<refused, cln, obj, text, open, expired, glass, scans, faults>>

\* _record_ingest_failure: the download, the validation or the scan failed.
Refuse ==
    /\ At(Bot, "download") /\ refused' = TRUE /\ Leave(Bot)
    /\ UNCHANGED <<att, ing, cln, obj, text, open, late, expired, glass, scans, faults>>

\* upload claims the intent; nothing is left to do if it was claimed before.
UploadClaims ==
    /\ At(Bot, "claim")
    /\ IF Claimable(ing) THEN ing' = Claimed(ing) /\ TakeUp(Bot, "head")
       ELSE Leave(Bot) /\ UNCHANGED ing
    /\ UNCHANGED <<att, refused, cln, obj, text, open, late, expired, glass, scans, faults>>

\* reconcile, which has no content.  A claimant gives its lease up before its
\* last transaction; that a recovery hits this gap counts as a fault, without
\* which two recoveries can take the operation from each other for ever.
ReconcileClaims(w) ==
    /\ At(w, "idle") /\ Claimable(ing)
    /\ IF \E q \in Procs : At(q, "final") /\ Fenced(q, ing)
       THEN Fault ELSE UNCHANGED faults
    /\ ing' = Claimed(ing) /\ TakeUp(w, "head")
    /\ UNCHANGED <<att, refused, cln, obj, text, open, late, expired, glass, scans>>

\* head of the storage, for either operation.
Head(q) ==
    /\ \/ /\ At(q, "head") /\ Goto(q, IF obj THEN "found"
                                      ELSE IF q = Bot THEN "start" ELSE "missing")
       \/ At(q, "chead") /\ Goto(q, IF obj THEN "cstart" ELSE "cgone")
    /\ UNCHANGED <<att, refused, ing, cln, obj, text, open, late, expired, glass, scans, faults>>

HeadFails(q) ==
    /\ At(q, "head") \/ At(q, "chead")
    /\ Fault
    /\ Goto(q, IF At(q, "head") THEN "unknown" ELSE "cunknown")
    /\ UNCHANGED <<att, refused, ing, cln, obj, text, open, late, expired, glass, scans>>

\* _set_remote_status: the lease is given up with every fact.
RemoteStatus(out) ==
    [ing EXCEPT !.out = out, !.live = FALSE,
                !.st = IF out = "unknown" THEN "reconcile_required"
                       ELSE IF out = "not_found" THEN "failed_pending_review" ELSE @]

SetRemote(q) ==
    /\ job[q].pc \in {"found", "missing", "unknown", "stored"}
    /\ LET out == CASE At(q, "found") -> "exists" [] At(q, "missing") -> "not_found"
                    [] At(q, "unknown") -> "unknown" [] At(q, "stored") -> "put_succeeded"
       IN IF Fenced(q, ing)
          THEN /\ ing' = RemoteStatus(out)
               /\ IF out \in {"exists", "put_succeeded"} THEN Goto(q, "final") ELSE Leave(q)
          ELSE UNCHANGED ing /\ Leave(q)
    /\ UNCHANGED <<att, refused, cln, obj, text, open, late, expired, glass, scans, faults>>

\* _mark_remote_started; the wait for the upload starts again.
MarkStarted ==
    /\ At(Bot, "start")
    /\ IF Fenced(Bot, ing) THEN Goto(Bot, "put") /\ late' = late \ {"upload"}
       ELSE Leave(Bot) /\ UNCHANGED late
    /\ UNCHANGED <<att, refused, ing, cln, obj, text, open, expired, glass, scans, faults>>

Put ==
    /\ At(Bot, "put") /\ obj' = TRUE /\ Goto(Bot, "stored")
    /\ UNCHANGED <<att, refused, ing, cln, text, open, late, expired, glass, scans, faults>>

\* Its outcome is not known.
PutFails ==
    /\ At(Bot, "put") /\ Fault /\ obj' \in {obj, TRUE} /\ Goto(Bot, "unknown")
    /\ UNCHANGED <<att, refused, ing, cln, text, open, late, expired, glass, scans>>

Reopened == "pending"

\* A late upload does not reopen an attachment that was given up.
AfterUpload == IF att.proc = "failed_pending_review" THEN att.proc ELSE "pending"

\* _finalize.
FinalizeUpload(q) ==
    /\ At(q, "final") /\ Leave(q)
    /\ IF Fenced(q, ing) /\ ing.out \in {"exists", "put_succeeded"}
       THEN /\ ing' = [ing EXCEPT !.st = "succeeded", !.live = FALSE, !.tok = 0]
            /\ att' = [att EXCEPT !.proc = AfterUpload] /\ late' = late \ {"upload"}
       ELSE UNCHANGED <<ing, att, late>>
    /\ UNCHANGED <<refused, cln, obj, text, open, expired, glass, scans, faults>>

------------------------------------------------------------------------------
(* Scanning and recognition *)

Scanned == {"clean"} \cup (IF Exempt THEN {"not_required"} ELSE {})

PendingOnly == att.proc = "pending"

\* _attachment_is_processable, and the condition of the result.
Processable == att.proc = "pending" /\ att.scan \in Scanned /\ att.del = "active"

Anyway == TRUE

\* A new scan starts the recognition again, but not one that succeeded.
Unfinished == att.proc # "succeeded"

\* apply_scan_result; a clean verdict after the scan's time is a failure.
ApplyScan ==
    \E s \in ScanSteps(att.scan) :
        LET timedOut == s = "clean" /\ att.scan = "scanning" /\ "scan" \in late
            v == IF timedOut THEN "scan_failed" ELSE s
        IN /\ scans' = IF s = "scanning" THEN scans + 1 ELSE scans
           /\ scans' <= MaxScans
           /\ late' = IF s = "scanning" THEN late \ {"scan"} ELSE late
           /\ att' = [att EXCEPT
                !.scan = v,
                !.del = IF v = "infected" THEN "quarantined" ELSE @,
                !.timeout = timedOut,
                !.proc = CASE v \in {"infected", "scan_failed"} -> "failed_pending_review"
                           [] v = "scanning" /\ Unfinished ->
                                IF ing.st = "succeeded" THEN "pending" ELSE "pending_upload"
                           [] OTHER -> @]
           /\ UNCHANGED <<refused, ing, cln, obj, text, open, job, expired, glass, faults>>

\* What a pass over the attachments decides, from one reading of the rows.
Verdict ==
    IF att.proc = "none" THEN
        IF ~refused /\ "download" \in late THEN "lost" ELSE "none"
    ELSE IF att.proc \notin Waiting THEN "none"
    ELSE IF att.del # "active" THEN "fail"
    ELSE IF att.scan \in {"pending_scan", "scanning"} THEN
        IF "scan" \in late THEN "timeout" ELSE "none"
    ELSE IF att.scan \notin Scanned THEN "fail"
    ELSE IF att.proc = "pending_upload" THEN
        IF "upload" \in late THEN "fail" ELSE "none"
    ELSE IF ~att.key THEN "fail" ELSE "recognise"

\* process_pending_for_message, before the message is consumed.
Poll(w) ==
    /\ open /\ At(w, "idle") /\ Verdict # "none"
    /\ job' = [job EXCEPT ![w].pc = Verdict]
    /\ UNCHANGED <<att, refused, ing, cln, obj, text, open, late, expired, glass, scans, faults>>

\* Nobody ever ingested the artifact.
RecordLost(w) ==
    /\ At(w, "lost") /\ refused' = TRUE /\ Leave(w)
    /\ UNCHANGED <<att, ing, cln, obj, text, open, late, expired, glass, scans, faults>>

\* _record_processing_failure, whatever happened since the rows were read.
RecordFailure(w) ==
    /\ job[w].pc \in {"fail", "timeout"} /\ Leave(w)
    /\ att' = [att EXCEPT !.proc = "failed_pending_review",
                          !.scan = IF At(w, "timeout") THEN "scan_failed" ELSE @,
                          !.timeout = At(w, "timeout")]
    /\ UNCHANGED <<refused, ing, cln, obj, text, open, late, expired, glass, scans, faults>>

\* _process_attachment: read and verify the object.
ReadObject(w) ==
    /\ At(w, "recognise")
    /\ IF ~Processable THEN Leave(w) ELSE Goto(w, IF obj THEN "ocr" ELSE "fail")
    /\ UNCHANGED <<att, refused, ing, cln, obj, text, open, late, expired, glass, scans, faults>>

Recognise(w) ==
    /\ At(w, "ocr")
    /\ \/ ~Processable /\ Leave(w) /\ UNCHANGED faults
       \/ Processable /\ Goto(w, "append") /\ UNCHANGED faults
       \/ Processable /\ Goto(w, "fail") /\ Fault
    /\ UNCHANGED <<att, refused, ing, cln, obj, text, open, late, expired, glass, scans>>

AppendText(w) ==
    /\ At(w, "append") /\ Leave(w)
    /\ IF Processable THEN att' = [att EXCEPT !.proc = "succeeded"] /\ text' = text + 1
       ELSE UNCHANGED <<att, text>>
    /\ UNCHANGED <<refused, ing, cln, obj, open, late, expired, glass, scans, faults>>

\* _media_enrichment_is_pending no longer holds: the message is consumed.
Settle ==
    /\ open /\ open' = FALSE
    /\ refused \/ att.proc # "none"
    /\ att.proc \notin Waiting
    /\ late' = late \cap {"scan"}  \* the other waits are read for open messages
    /\ UNCHANGED <<att, refused, ing, cln, obj, text, job, expired, glass, scans, faults>>

------------------------------------------------------------------------------
(* Clean-up *)

\* scan_and_issue finds the attachment ...
ScanExpired(w) ==
    /\ At(w, "idle") /\ expired /\ att.del = "active" /\ ~att.issued
    /\ Goto(w, "issue")
    /\ UNCHANGED <<att, refused, ing, cln, obj, text, open, late, expired, glass, scans, faults>>

\* ... and issue_attachment_cleanup adds its operation once.
Issue(w) ==
    /\ At(w, "issue") /\ Leave(w)
    /\ cln' = IF cln.st = "none" THEN [NoOp EXCEPT !.st = "pending"] ELSE cln
    /\ att' = [att EXCEPT !.issued = TRUE]
    /\ UNCHANGED <<refused, ing, obj, text, open, late, expired, glass, scans, faults>>

CleanupClaims(w) ==
    /\ At(w, "idle") /\ Claimable(cln)
    /\ cln' = Claimed(cln) /\ TakeUp(w, "chead")
    /\ UNCHANGED <<att, refused, ing, obj, text, open, late, expired, glass, scans, faults>>

MarkDeleteStarted(w) ==
    /\ At(w, "cstart")
    /\ IF Fenced(w, cln) THEN Goto(w, "cdelete") ELSE Leave(w)
    /\ UNCHANGED <<att, refused, ing, cln, obj, text, open, late, expired, glass, scans, faults>>

Delete(w) ==
    /\ At(w, "cdelete") /\ obj' = FALSE /\ Goto(w, "cgone")
    /\ UNCHANGED <<att, refused, ing, cln, text, open, late, expired, glass, scans, faults>>

DeleteFails(w) ==
    /\ At(w, "cdelete") /\ Fault /\ obj' \in {obj, FALSE} /\ Goto(w, "cunknown")
    /\ UNCHANGED <<att, refused, ing, cln, text, open, late, expired, glass, scans>>

NotThere == {"cgone", "cunknown"}

\* A failed call proves nothing.
ProvedGone == {"cgone"}

\* _set_remote_outcome and _mark_failure.
SetOutcome(w) ==
    /\ job[w].pc \in {"cgone", "cunknown"}
    /\ IF ~Fenced(w, cln) THEN Leave(w) /\ UNCHANGED cln
       ELSE IF job[w].pc \in ProvedGone
       THEN cln' = [cln EXCEPT !.out = "gone"] /\ Goto(w, "cfinal")
       ELSE /\ cln' = [cln EXCEPT !.st = "reconcile_required", !.out = "unknown",
                                  !.live = FALSE]
            /\ Leave(w)
    /\ UNCHANGED <<att, refused, ing, obj, text, open, late, expired, glass, scans, faults>>

\* finalize_success: the operation and the tombstone in one transaction.
FinalizeCleanup(w) ==
    /\ At(w, "cfinal") /\ Leave(w)
    /\ IF Fenced(w, cln) /\ cln.out = "gone"
       THEN /\ cln' = [cln EXCEPT !.st = "succeeded", !.live = FALSE, !.tok = 0]
            /\ att' = [att EXCEPT !.del = "deleted", !.key = FALSE]
       ELSE UNCHANGED <<cln, att>>
    /\ UNCHANGED <<refused, ing, obj, text, open, late, expired, glass, scans, faults>>

------------------------------------------------------------------------------
(* Break-glass access to the artifact *)

Viewable == att.key /\ att.scan = "clean" /\ att.del = "active" /\ obj

\* access: _validate_attachment_access, then the audit row of the grant.
GlassGranted ==
    /\ glass # "granted" /\ Viewable /\ glass' = "granted"
    /\ UNCHANGED <<att, refused, ing, cln, obj, text, open, job, late, expired, scans, faults>>

\* _read_object checks again before an address is signed.
GlassRead ==
    /\ glass = "granted" /\ glass' = IF Viewable THEN "signed" ELSE "none"
    /\ UNCHANGED <<att, refused, ing, cln, obj, text, open, job, late, expired, scans, faults>>

------------------------------------------------------------------------------
(* Environment *)

\* Every process may be lost at any point of its job.
Crash ==
    \E q \in Procs :
        /\ ~At(q, "idle") /\ Fault /\ Leave(q)
        /\ UNCHANGED <<att, refused, ing, cln, obj, text, open, late, expired, glass, scans>>

\* LEAD_PROCESSING_TIMEOUT_SECONDS of a wait.
WaitExpires ==
    /\ \/ /\ open /\ att.proc = "none" /\ ~refused
          /\ "download" \notin late /\ late' = late \cup {"download"}
       \/ /\ open /\ att.proc = "pending_upload"
          /\ "upload" \notin late /\ late' = late \cup {"upload"}
       \/ /\ att.scan \in {"pending_scan", "scanning"} /\ "scan" \notin late
          /\ late' = late \cup {"scan"}
    /\ UNCHANGED <<att, refused, ing, cln, obj, text, open, job, expired, glass, scans, faults>>

\* Days: no upload lasts that long.
RetentionExpires ==
    /\ ~expired /\ expired' = TRUE /\ att.proc # "none" /\ At(Bot, "idle")
    /\ UNCHANGED <<att, refused, ing, cln, obj, text, open, job, late, glass, scans, faults>>

Upload == Ingest \/ Refuse \/ UploadClaims \/ MarkStarted \/ Put \/ PutFails

Continue(q) ==
    \/ Head(q) \/ HeadFails(q) \/ SetRemote(q) \/ FinalizeUpload(q)
    \/ RecordLost(q) \/ RecordFailure(q) \/ ReadObject(q) \/ Recognise(q) \/ AppendText(q)
    \/ Issue(q) \/ MarkDeleteStarted(q) \/ Delete(q) \/ DeleteFails(q)
    \/ SetOutcome(q) \/ FinalizeCleanup(q)

Recover == \E w \in Workers : ReconcileClaims(w)
CleanUp == \E w \in Workers : ScanExpired(w) \/ CleanupClaims(w)
PollMessage == \E w \in Pollers : Poll(w)

Next ==
    \/ Upload \/ Recover \/ CleanUp \/ PollMessage \/ Settle
    \/ \E q \in Procs : Continue(q)
    \/ GlassGranted \/ GlassRead
    \/ ApplyScan \/ Crash \/ IngestLeaseExpires \/ CleanupLeaseExpires
    \/ WaitExpires \/ RetentionExpires

Spec == Init /\ [][Next]_vars

\* Beat sends the scans for ever, a job that is not lost goes on, calls return
\* after their timeouts, and time passes.  Nobody has to scan.
FairSpec ==
    /\ Spec
    /\ WF_vars(Upload) /\ \A q \in Procs : WF_vars(Continue(q))
    /\ WF_vars(Recover) /\ WF_vars(CleanUp) /\ WF_vars(PollMessage) /\ WF_vars(Settle)
    /\ WF_vars(IngestLeaseExpires) /\ WF_vars(CleanupLeaseExpires) /\ WF_vars(WaitExpires)

------------------------------------------------------------------------------
(* Properties *)

\* A tombstone is only written once the object is gone, and it stays gone:
\* two clean-up workers, unknown outcomes, lost leases and recovered uploads
\* included (finalize_success).
TombstoneMeansGone == cln.st = "succeeded" => ~obj /\ ~att.key

\* The artifact's text is added to the message once.  It is added a second time
\* only if the artifact was recognised under the scan exemption, a later scan of
\* it failed and one more scan passed; never a third time.  apply_scan_result
\* keeps a success when a scan starts but not when it fails, so the document's
\* "已成功识别的附件不会再次识别" (docs/incidents/20261010-media.md) has this exception.
RecognisedOnce == text > 1 => text = 2 /\ Exempt /\ scans >= 2

\* Only a new scan reopens an attachment that was given up ("迟到上传只完成存储
\* 事实，不能重新打开已失败媒体任务", docs/incidents/20261010-media.md).
OnlyScanReopens ==
    [][att.proc = "failed_pending_review" /\ att'.proc # att.proc => att'.scan = "scanning"]_vars

\* Media that is quarantined, deleted or not passed by the scan is neither
\* recognised nor shown, also when the verdict arrives during the recognition.
UnsafeMediaUnread ==
    [][att.del # "active" \/ att.scan \notin Scanned =>
        text' = text /\ ~(glass = "granted" /\ glass' = "signed")]_vars

\* In the end the message is consumed, so that no download, scan, upload or
\* recognition blocks the salesperson's later messages; every upload intent is
\* decided, with the bot or without it; and an object whose retention period is
\* over is gone, unless it was quarantined, which scan_and_issue leaves out.
MediaIsDecided ==
    <>[](/\ ~open
         /\ ing.st \in {"none", "succeeded", "failed_pending_review"}
         /\ expired => ~obj \/ att.del = "quarantined")
==============================================================================
