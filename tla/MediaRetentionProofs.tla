------------------------ MODULE MediaRetentionProofs ------------------------
(***************************************************************************)
(* Machine-checked proofs about MediaRetention, for every set of workers   *)
(* and every bound on scans and faults.                                    *)
(***************************************************************************)
EXTENDS MediaRetention, FiniteSetTheorems, TLAPS

Attachments ==
    [proc : Waiting \cup {"none", "succeeded", "failed_pending_review"},
     scan : {"none", "pending_scan", "scanning", "clean", "not_required",
             "infected", "scan_failed"},
     del : {"none", "active", "quarantined", "deleted"},
     key : BOOLEAN, issued : BOOLEAN, timeout : BOOLEAN]

Operations ==
    [st : OpenStatus \cup {"none", "processing", "succeeded",
                           "failed_pending_review"},
     out : {"none", "exists", "not_found", "unknown", "put_succeeded", "gone"},
     tok : Nat, live : BOOLEAN]

CleanPcs == {"issue", "chead", "cstart", "cdelete", "cgone", "cunknown", "cfinal"}
PollPcs == {"fail", "timeout", "recognise", "ocr", "append"}
JobPcs ==
    {"idle", "download", "claim", "head", "found", "missing", "unknown", "start",
     "put", "stored", "final", "lost"} \cup CleanPcs \cup PollPcs

Jobs == [pc : JobPcs, tok : Nat]

(* Every variable the proofs refer to is typed. *)
MediaTypes ==
    /\ att \in Attachments /\ ing \in Operations /\ cln \in Operations
    /\ att.proc = "none" => att.scan = "none"
    /\ job \in [Procs -> Jobs]
    /\ obj \in BOOLEAN /\ expired \in BOOLEAN
    /\ text \in Nat /\ scans \in Nat

(* The bot's part is over before the retention period is, and nothing is   *)
(* known of the artifact before the bot has downloaded it.                 *)
BotInv ==
    /\ At(Bot, "download") => att.proc = "none"
    /\ expired => At(Bot, "idle")

(* Clean-up runs after the retention period only, and who saw the object   *)
(* gone is right for good.                                                 *)
CleanInv ==
    \A q \in Procs :
      /\ job[q].pc \in CleanPcs => expired
      /\ job[q].pc \in {"cgone", "cfinal"} => ~obj

(* Only the poller works on the recognition, and on an attachment that     *)
(* exists.                                                                 *)
PollInv ==
    \A q \in Procs : job[q].pc \in PollPcs => q \in Pollers /\ att.proc # "none"

Unpolled == \A q \in Procs : job[q].pc \notin PollPcs

Closed ==
    /\ Unpolled
    /\ \/ att.scan = "clean" /\ att.proc = "succeeded"
       \/ att.scan = "infected" /\ att.proc = "failed_pending_review"

(* Recognised under the exemption, with the first scan since started,      *)
(* failed or not begun.                                                    *)
Rescanned ==
    /\ Unpolled
    /\ \/ att.scan = "not_required" /\ att.proc = "succeeded"
       \/ att.scan = "scanning" /\ att.proc = "succeeded" /\ scans >= 1
       \/ att.scan = "scan_failed" /\ att.proc = "failed_pending_review" /\ scans >= 1

(* Text is only added to an uploaded artifact, and how often.              *)
TextInv ==
    /\ att.proc \in {"pending", "succeeded"} => ing.st = "succeeded"
    /\ text > 0 => ing.st = "succeeded"
    /\ \/ text = 0
       \/ text = 1 /\ Closed
       \/ text = 1 /\ Exempt /\ Rescanned
       \/ text = 1 /\ Exempt /\ scans >= 2 /\ att.scan # "not_required"
       \/ text = 2 /\ Exempt /\ scans >= 2 /\ Closed

Inv ==
    /\ MediaTypes /\ TypeOK /\ BotInv /\ CleanInv /\ PollInv /\ TextInv
    /\ TombstoneMeansGone

-----------------------------------------------------------------------------
(* Claim tokens *)

(* There is always an unused token: the processes and the two operations   *)
(* hold at most one each.                                                  *)
LEMMA FreshToken ==
  ASSUME MediaTypes
  PROVE  Fresh \in Nat
<1> DEFINE n == Cardinality(Procs)
           Held == {job[q].tok : q \in Procs}
           Used == Held \cup {ing.tok, cln.tok}
<1>1. IsFiniteSet(Procs) /\ n \in Nat
  BY MediaAssumption, FS_AddElement, FS_CardinalityType DEF Procs
<1>2. IsFiniteSet(Held) /\ Cardinality(Held) <= n /\ Cardinality(Held) \in Nat
  <2> DEFINE tok == [q \in Procs |-> job[q].tok]
  <2>1. tok \in Surjection(Procs, Held)
    BY DEF Surjection
  <2> QED
    BY <1>1, <2>1, FS_Surjection, FS_CardinalityType
<1>3. IsFiniteSet(Used) /\ Cardinality(Used) <= n + 2
  <2> HIDE DEF Held, n
  <2>1. /\ IsFiniteSet(Held \cup {ing.tok})
        /\ Cardinality(Held \cup {ing.tok}) <= n + 1
        /\ Cardinality(Held \cup {ing.tok}) \in Nat
    <3>1. PICK x : x = ing.tok
      OBVIOUS
    <3>2. /\ IsFiniteSet(Held \cup {x})
          /\ \/ Cardinality(Held \cup {x}) = Cardinality(Held)
             \/ Cardinality(Held \cup {x}) = Cardinality(Held) + 1
      BY <1>2, FS_AddElement
    <3> QED
      BY <1>1, <1>2, <3>1, <3>2
  <2>2. /\ IsFiniteSet((Held \cup {ing.tok}) \cup {cln.tok})
        /\ Cardinality((Held \cup {ing.tok}) \cup {cln.tok}) <= n + 2
    <3> DEFINE S == Held \cup {ing.tok}
    <3> HIDE DEF S
    <3>1. PICK x : x = cln.tok
      OBVIOUS
    <3>2. /\ IsFiniteSet(S \cup {x})
          /\ \/ Cardinality(S \cup {x}) = Cardinality(S)
             \/ Cardinality(S \cup {x}) = Cardinality(S) + 1
      BY <2>1, FS_AddElement DEF S
    <3> QED
      BY <1>1, <2>1, <3>1, <3>2 DEF S
  <2>3. Used = (Held \cup {ing.tok}) \cup {cln.tok}
    OBVIOUS
  <2> QED
    BY <2>2, <2>3
<1>4. IsFiniteSet(1..(n + 3)) /\ Cardinality(1..(n + 3)) = n + 3
  <2>1. PICK a \in Int, b \in Int : a = 1 /\ b = n + 3
    BY <1>1
  <2>2. /\ IsFiniteSet(a..b)
        /\ Cardinality(a..b) = IF a > b THEN 0 ELSE b - a + 1
    BY FS_Interval
  <2>3. (IF a > b THEN 0 ELSE b - a + 1) = n + 3
    BY <1>1, <2>1
  <2> QED
    BY <2>1, <2>2, <2>3
<1>5. \E t \in 1..(n + 3) : t \notin Used
  <2> SUFFICES ASSUME 1..(n + 3) \subseteq Used
               PROVE  FALSE
    OBVIOUS
  <2>1. Cardinality(1..(n + 3)) <= Cardinality(Used)
    BY <1>3, FS_Subset
  <2>2. Cardinality(Used) \in Nat
    BY <1>3, FS_CardinalityType
  <2> QED
    BY <1>1, <1>3, <1>4, <2>1, <2>2
<1>6. Fresh \in 1..(n + 3)
  BY <1>5 DEF Fresh
<1> QED
  BY <1>1, <1>6

LEMMA ClaimedType ==
  ASSUME MediaTypes, NEW o \in Operations
  PROVE  /\ Claimed(o) \in Operations /\ Claimed(o).st = "processing"
BY FreshToken DEF Claimed, Operations

-----------------------------------------------------------------------------
(* What a step does to the processes *)

OnlyJob(q) == \A p \in Procs : p # q => job'[p] = job[p]

(* Process q moves to a place it may be in. *)
JobOK(q) ==
    /\ OnlyJob(q)
    /\ job'[q].pc # "download"
    /\ q = Bot => job[q].pc # "idle" \/ job'[q].pc = "idle"
    /\ job'[q].pc \in CleanPcs => expired
    /\ job'[q].pc \in {"cgone", "cfinal"} => ~obj'
    /\ job'[q].pc \in PollPcs =>
         q \in Pollers /\ (job[q].pc \in PollPcs \/ att.proc \in Waiting)

JobsInv == BotInv /\ CleanInv /\ PollInv

(* A pass over the attachments begins only while one is waiting. *)
PassesKept == Unpolled /\ att.proc \notin Waiting => Unpolled'

LEMMA JobStep ==
  ASSUME Inv, NEW q \in Procs, JobOK(q), UNCHANGED expired,
         obj' => obj \/ ~expired,
         att.proc # "none" => att'.proc # "none",
         att'.proc = att.proc \/ q = Bot \/ att.proc # "none"
  PROVE  JobsInv' /\ PassesKept
<1>1. Bot \in Procs
  BY DEF Procs
<1>2. BotInv'
  BY <1>1 DEF Inv, BotInv, JobOK, OnlyJob, At
<1>3. CleanInv'
  BY DEF Inv, CleanInv, JobOK, OnlyJob, CleanPcs
<1>4. PollInv'
  BY DEF Inv, PollInv, JobOK, OnlyJob, Waiting
<1>5. PassesKept
  BY DEF PassesKept, Unpolled, JobOK, OnlyJob
<1> QED
  BY <1>2, <1>3, <1>4, <1>5 DEF JobsInv

LEMMA NoJobStep ==
  ASSUME Inv, UNCHANGED <<job, obj>>,
         expired' => expired \/ At(Bot, "idle"), expired => expired',
         att.proc # "none" => att'.proc # "none",
         At(Bot, "download") => att'.proc = att.proc
  PROVE  JobsInv' /\ PassesKept
BY DEF Inv, JobsInv, BotInv, CleanInv, PollInv, PassesKept, Unpolled, At

LEMMA GotoJob ==
  ASSUME MediaTypes, NEW q \in Procs, NEW l \in JobPcs, Goto(q, l)
  PROVE  /\ OnlyJob(q) /\ job'[q].pc = l /\ job' \in [Procs -> Jobs]
BY DEF MediaTypes, Goto, OnlyJob, Jobs

LEMMA LeaveJob ==
  ASSUME MediaTypes, NEW q \in Procs, Leave(q)
  PROVE  /\ OnlyJob(q) /\ job'[q].pc = "idle" /\ job' \in [Procs -> Jobs]
         /\ JobOK(q)
<1>0. Idle \in Jobs /\ Idle.pc = "idle"
  BY DEF Idle, Jobs, JobPcs
<1>1. /\ OnlyJob(q) /\ job'[q].pc = "idle" /\ job' \in [Procs -> Jobs]
  BY <1>0 DEF MediaTypes, Leave, OnlyJob
<1> QED
  BY <1>1 DEF JobOK, CleanPcs, PollPcs

LEMMA TakeUpJob ==
  ASSUME MediaTypes, NEW q \in Procs, NEW l \in JobPcs, TakeUp(q, l)
  PROVE  /\ OnlyJob(q) /\ job'[q].pc = l /\ job' \in [Procs -> Jobs]
BY FreshToken DEF MediaTypes, TakeUp, OnlyJob, Jobs

(* Steps that neither scan nor recognise. *)
LEMMA TextFrame ==
  ASSUME Inv, UNCHANGED <<text, scans>>,
         att'.proc = att.proc, att'.scan = att.scan,
         ing.st = "succeeded" => ing'.st = "succeeded",
         PassesKept
  PROVE  TextInv'
BY DEF Inv, TextInv, Closed, Rescanned, PassesKept, Waiting

-----------------------------------------------------------------------------
(* Steps that change the processes and the two operations only *)

(* The upload operation moves without being created or completed. *)
IngestMoves ==
    /\ ing' \in Operations
    /\ ing'.st = "none" <=> ing.st = "none"
    /\ ing'.st = "succeeded" <=> ing.st = "succeeded"
    /\ ing'.live => ing'.st = "processing"

(* The clean-up operation moves without being created or completed. *)
CleanupMoves ==
    /\ cln' \in Operations
    /\ cln'.st = "none" <=> cln.st = "none"
    /\ cln'.st = "succeeded" => cln.st = "succeeded"
    /\ cln'.live => cln'.st = "processing"

LEMMA IngestStays ==
  ASSUME Inv, UNCHANGED ing
  PROVE  IngestMoves
BY DEF Inv, MediaTypes, TypeOK, IngestMoves

LEMMA CleanupStays ==
  ASSUME Inv, UNCHANGED cln
  PROVE  CleanupMoves
BY DEF Inv, MediaTypes, TypeOK, CleanupMoves

LEMMA OperationTypes ==
  ASSUME Inv, IngestMoves, CleanupMoves, UNCHANGED <<att, expired>>
  PROVE  TypeOK'
<1>1. \A o \in {ing', cln'} :
        /\ o.st \in OpenStatus \cup {"none", "processing", "succeeded",
                                     "failed_pending_review"}
        /\ o.live => o.st = "processing"
  BY DEF IngestMoves, CleanupMoves, Operations
<1> QED
  BY <1>1 DEF Inv, TypeOK, IngestMoves, CleanupMoves

LEMMA OperationStep ==
  ASSUME Inv, NEW q \in Procs, JobOK(q), job' \in [Procs -> Jobs],
         IngestMoves, CleanupMoves,
         UNCHANGED <<att, obj, text, expired, scans>>
  PROVE  Inv'
<1>1. MediaTypes'
  BY DEF Inv, MediaTypes, IngestMoves, CleanupMoves
<1>2. TypeOK'
  BY OperationTypes
<1>3. JobsInv' /\ PassesKept
  BY JobStep
<1>4. TextInv'
  BY <1>3, TextFrame DEF IngestMoves
<1>5. TombstoneMeansGone'
  BY DEF Inv, TombstoneMeansGone, CleanupMoves
<1> QED
  BY <1>1, <1>2, <1>3, <1>4, <1>5 DEF Inv, JobsInv

(* Only the processes change. *)
LEMMA QuietStep ==
  ASSUME Inv, NEW q \in Procs, JobOK(q), job' \in [Procs -> Jobs],
         UNCHANGED <<att, ing, cln, obj, text, expired, scans>>
  PROVE  Inv'
BY OperationStep, IngestStays, CleanupStays

(* A process leaves its job. *)
LEMMA LeaveStep ==
  ASSUME Inv, NEW q \in Procs, Leave(q),
         UNCHANGED <<att, ing, cln, obj, text, expired, scans>>
  PROVE  Inv'
BY LeaveJob, QuietStep DEF Inv

(* A process moves on to a place that is neither clean-up nor recognition. *)
LEMMA PlainGoto ==
  ASSUME Inv, NEW q \in Procs, job[q].pc # "idle",
         NEW l \in JobPcs \ (CleanPcs \cup PollPcs \cup {"download"}), Goto(q, l)
  PROVE  JobOK(q) /\ job' \in [Procs -> Jobs]
<1>1. OnlyJob(q) /\ job'[q].pc = l /\ job' \in [Procs -> Jobs]
  BY GotoJob DEF Inv
<1> QED
  BY <1>1 DEF JobOK, CleanPcs

(* A clean-up worker moves on within the clean-up. *)
LEMMA CleanGoto ==
  ASSUME Inv, NEW q \in Procs, job[q].pc \in CleanPcs, NEW l \in CleanPcs, Goto(q, l),
         l \in {"cgone", "cfinal"} => ~obj'
  PROVE  JobOK(q) /\ job' \in [Procs -> Jobs]
<1>1. OnlyJob(q) /\ job'[q].pc = l /\ job' \in [Procs -> Jobs]
  BY GotoJob DEF Inv, JobPcs
<1>2. expired /\ job[q].pc # "idle"
  BY DEF Inv, CleanInv, CleanPcs
<1> QED
  BY <1>1, <1>2 DEF JobOK, CleanPcs, PollPcs

(* The poller moves on within the recognition. *)
LEMMA PollGoto ==
  ASSUME Inv, NEW q \in Procs, NEW l \in PollPcs, Goto(q, l),
         job[q].pc \in PollPcs \/ (q \in Pollers /\ att.proc \in Waiting)
  PROVE  JobOK(q) /\ job' \in [Procs -> Jobs]
<1>1. OnlyJob(q) /\ job'[q].pc = l /\ job' \in [Procs -> Jobs]
  BY GotoJob DEF Inv, JobPcs
<1>2. q \in Pollers /\ q # Bot
  BY MediaAssumption DEF Inv, PollInv
<1> QED
  BY <1>1, <1>2 DEF JobOK, CleanPcs, PollPcs

-----------------------------------------------------------------------------
(* Upload and recovery *)

LEMMA IngestClaimed ==
  ASSUME Inv, Claimable(ing), ing' = Claimed(ing)
  PROVE  IngestMoves
<1>1. ing \in Operations
  BY DEF Inv, MediaTypes
<1>2. Claimed(ing) \in Operations /\ Claimed(ing).st = "processing"
  BY <1>1, ClaimedType DEF Inv
<1> QED
  BY <1>2 DEF IngestMoves, Claimable, OpenStatus

LEMMA UploadStep ==
  ASSUME Inv, Refuse \/ UploadClaims \/ MarkStarted
  PROVE  Inv'
<1>b. Bot \in Procs
  BY DEF Procs
<1>1. CASE Refuse
  BY <1>1, <1>b, LeaveStep DEF Refuse
<1>2. CASE MarkStarted
  <2>1. CASE Goto(Bot, "put")
    BY <1>2, <1>b, <2>1, PlainGoto, QuietStep
    DEF MarkStarted, At, JobPcs, CleanPcs, PollPcs
  <2>2. CASE Leave(Bot)
    BY <1>2, <1>b, <2>2, LeaveStep DEF MarkStarted
  <2> QED
    BY <1>2, <2>1, <2>2 DEF MarkStarted
<1>3. CASE UploadClaims
  <2>1. CASE Claimable(ing)
    <3>1. ing' = Claimed(ing) /\ TakeUp(Bot, "head") /\ job[Bot].pc # "idle"
      BY <1>3, <2>1 DEF UploadClaims, At
    <3>2. OnlyJob(Bot) /\ job'[Bot].pc = "head" /\ job' \in [Procs -> Jobs]
      BY <1>b, <3>1, TakeUpJob DEF Inv, JobPcs
    <3>3. JobOK(Bot)
      BY <3>1, <3>2 DEF JobOK, CleanPcs, PollPcs
    <3>4. IngestMoves
      BY <2>1, <3>1, IngestClaimed
    <3> QED
      BY <1>3, <1>b, <3>2, <3>3, <3>4, CleanupStays, OperationStep DEF UploadClaims
  <2>2. CASE ~Claimable(ing)
    BY <1>3, <1>b, <2>2, LeaveStep DEF UploadClaims
  <2> QED
    BY <2>1, <2>2
<1> QED
  BY <1>1, <1>2, <1>3

LEMMA ReconcileStep ==
  ASSUME Inv, NEW w \in Workers, ReconcileClaims(w)
  PROVE  Inv'
<1>1. w \in Procs /\ w # Bot
  BY MediaAssumption DEF Procs
<1>2. Claimable(ing) /\ ing' = Claimed(ing) /\ TakeUp(w, "head")
  BY DEF ReconcileClaims
<1>3. OnlyJob(w) /\ job'[w].pc = "head" /\ job' \in [Procs -> Jobs]
  BY <1>1, <1>2, TakeUpJob DEF Inv, JobPcs
<1>4. JobOK(w)
  BY <1>1, <1>3 DEF JobOK, CleanPcs, PollPcs
<1>5. IngestMoves
  BY <1>2, IngestClaimed
<1> QED
  BY <1>1, <1>3, <1>4, <1>5, CleanupStays, OperationStep DEF ReconcileClaims

LEMMA HeadStep ==
  ASSUME Inv, NEW q \in Procs, Head(q) \/ HeadFails(q)
  PROVE  Inv'
<1>0. UNCHANGED <<att, ing, cln, obj, text, expired, scans>>
  BY DEF Head, HeadFails
<1>1. CASE At(q, "head")
  <2>1. PICK l \in {"found", "start", "missing", "unknown"} : Goto(q, l)
    BY <1>1 DEF Head, HeadFails, At
  <2> QED
    BY <1>0, <1>1, <2>1, PlainGoto, QuietStep DEF At, JobPcs, CleanPcs, PollPcs
<1>2. CASE At(q, "chead")
  <2>1. PICK l \in {"cstart", "cgone", "cunknown"} : Goto(q, l) /\ (l = "cgone" => ~obj)
    BY <1>2 DEF Head, HeadFails, At
  <2> QED
    BY <1>0, <1>2, <2>1, CleanGoto, QuietStep DEF At, CleanPcs
<1> QED
  BY <1>1, <1>2 DEF Head, HeadFails

LEMMA SetRemoteStep ==
  ASSUME Inv, NEW q \in Procs, SetRemote(q)
  PROVE  Inv'
<1>0. UNCHANGED <<att, cln, obj, text, expired, scans>> /\ job[q].pc # "idle"
  BY DEF SetRemote
<1>1. CASE Fenced(q, ing)
  <2>1. PICK out \in {"exists", "not_found", "unknown", "put_succeeded"} :
          /\ ing' = RemoteStatus(out)
          /\ Goto(q, "final") \/ Leave(q)
    BY <1>1 DEF SetRemote, At
  <2>2. IngestMoves
    <3>1. ing \in Operations /\ ing.st = "processing"
      BY <1>1 DEF Inv, MediaTypes, Fenced
    <3>2. RemoteStatus(out) \in Operations
      BY <3>1 DEF RemoteStatus, Operations, OpenStatus
    <3>3. /\ RemoteStatus(out).st \in {"reconcile_required", "failed_pending_review",
                                       "processing"}
          /\ ~RemoteStatus(out).live
      BY <3>1 DEF RemoteStatus, Operations
    <3> QED
      BY <2>1, <3>1, <3>2, <3>3 DEF IngestMoves
  <2>3. JobOK(q) /\ job' \in [Procs -> Jobs]
    BY <1>0, <2>1, PlainGoto, LeaveJob DEF Inv, JobPcs, CleanPcs, PollPcs
  <2> QED
    BY <1>0, <2>2, <2>3, CleanupStays, OperationStep
<1>2. CASE ~Fenced(q, ing)
  BY <1>0, <1>2, LeaveStep DEF SetRemote
<1> QED
  BY <1>1, <1>2

(* Storage calls of the bot, who is done before the retention period is. *)
LEMMA PutStep ==
  ASSUME Inv, Put \/ PutFails
  PROVE  Inv'
<1>b. Bot \in Procs
  BY DEF Procs
<1>0. /\ UNCHANGED <<att, ing, cln, text, expired, scans>>
      /\ At(Bot, "put") /\ obj' \in BOOLEAN
  BY DEF Put, PutFails, Inv, MediaTypes
<1>1. ~expired
  BY <1>0 DEF Inv, BotInv, At
<1>2. PICK l \in {"stored", "unknown"} : Goto(Bot, l)
  BY DEF Put, PutFails
<1>3. JobOK(Bot) /\ job' \in [Procs -> Jobs]
  BY <1>0, <1>b, <1>2, PlainGoto DEF At, JobPcs, CleanPcs, PollPcs
<1>4. JobsInv' /\ PassesKept
  BY <1>0, <1>1, <1>3, <1>b, JobStep
<1>5. MediaTypes'
  BY <1>0, <1>3 DEF Inv, MediaTypes
<1>6. TypeOK'
  BY <1>0, OperationTypes, IngestStays, CleanupStays
<1>7. TextInv'
  BY <1>0, <1>4, TextFrame
<1>8. cln.st = "none"
  BY <1>1 DEF Inv, TypeOK, MediaTypes, Attachments
<1>9. TombstoneMeansGone'
  BY <1>0, <1>8 DEF TombstoneMeansGone
<1> QED
  BY <1>4, <1>5, <1>6, <1>7, <1>9 DEF Inv, JobsInv

(* The intent and the attachment are committed together, once. *)
LEMMA IngestStep ==
  ASSUME Inv, Ingest
  PROVE  Inv'
<1>b. Bot \in Procs
  BY DEF Procs
<1>0. /\ UNCHANGED <<cln, obj, text, expired, scans>> /\ At(Bot, "download")
      /\ Goto(Bot, "claim") /\ ing' = [NoOp EXCEPT !.st = "pending"]
  BY DEF Ingest
<1>1. PICK s \in {"clean", "pending_scan", "scanning", "not_required"} :
        att' = [NoAtt EXCEPT !.proc = "pending_upload", !.scan = s,
                             !.del = "active", !.key = TRUE]
  BY MediaAssumption DEF Ingest
<1>2. /\ att' \in Attachments /\ att'.proc = "pending_upload" /\ att'.issued = FALSE
      /\ att'.scan = s /\ att'.del = "active"
  BY <1>1 DEF Attachments, NoAtt, Waiting
<1>3. ing' \in Operations /\ ing'.st = "pending" /\ ~ing'.live
  BY <1>0 DEF Operations, NoOp, OpenStatus
<1>4. ~expired /\ att.proc = "none" /\ ing.st = "none"
  BY <1>0 DEF Inv, BotInv, TypeOK, At
<1>5. cln.st = "none" /\ text = 0
  BY <1>4 DEF Inv, TypeOK, TextInv, MediaTypes, Attachments
<1>6. JobOK(Bot) /\ job' \in [Procs -> Jobs]
  BY <1>0, <1>b, PlainGoto DEF At, JobPcs, CleanPcs, PollPcs
<1>7. JobsInv'
  BY <1>0, <1>2, <1>6, <1>b, JobStep
<1>8. MediaTypes'
  BY <1>0, <1>2, <1>3, <1>6 DEF Inv, MediaTypes
<1>9. TypeOK'
  <2>1. \A o \in {ing', cln'} :
          /\ o.st \in OpenStatus \cup {"none", "processing", "succeeded",
                                       "failed_pending_review"}
          /\ o.live => o.st = "processing"
    BY <1>0, <1>3, <1>8 DEF MediaTypes, Operations, Inv, TypeOK
  <2> QED
    BY <1>0, <1>2, <1>3, <1>5, <2>1 DEF TypeOK, Waiting
<1>10. TextInv' /\ TombstoneMeansGone'
  BY <1>0, <1>2, <1>5 DEF TextInv, TombstoneMeansGone
<1> QED
  BY <1>7, <1>8, <1>9, <1>10 DEF Inv, JobsInv

(* The upload is completed once, before anything was recognised. *)
LEMMA FinalizeUploadStep ==
  ASSUME Inv, NEW q \in Procs, FinalizeUpload(q)
  PROVE  Inv'
<1>0. UNCHANGED <<cln, obj, text, expired, scans>> /\ Leave(q)
  BY DEF FinalizeUpload
<1>1. CASE ~(Fenced(q, ing) /\ ing.out \in {"exists", "put_succeeded"})
  BY <1>0, <1>1, LeaveStep DEF FinalizeUpload
<1>2. CASE Fenced(q, ing) /\ ing.out \in {"exists", "put_succeeded"}
  <2>1. /\ ing' = [ing EXCEPT !.st = "succeeded", !.live = FALSE, !.tok = 0]
        /\ att' = [att EXCEPT !.proc = AfterUpload]
    BY <1>2 DEF FinalizeUpload
  <2>2. ing' \in Operations /\ ing'.st = "succeeded" /\ ~ing'.live
    BY <2>1 DEF Inv, MediaTypes, Operations
  <2>3. /\ ing.st = "processing" /\ text = 0
        /\ att.proc \in {"pending_upload", "failed_pending_review"}
    BY <1>2 DEF Fenced, Inv, TypeOK, TextInv, MediaTypes, Waiting
  <2>4. /\ att' \in Attachments /\ att'.issued = att.issued /\ att'.key = att.key
        /\ att'.proc \in {"pending", "failed_pending_review"}
        /\ att'.scan = att.scan /\ att'.del = att.del
    BY <2>1, <2>3 DEF AfterUpload, Inv, MediaTypes, Attachments, Waiting
  <2>5. JobOK(q) /\ job' \in [Procs -> Jobs]
    BY <1>0, LeaveJob DEF Inv
  <2>6. JobsInv'
    BY <1>0, <2>3, <2>4, <2>5, JobStep
  <2>7. MediaTypes'
    BY <1>0, <2>2, <2>4, <2>5 DEF Inv, MediaTypes
  <2>8. TypeOK'
    <3>1. \A o \in {ing', cln'} :
            /\ o.st \in OpenStatus \cup {"none", "processing", "succeeded",
                                         "failed_pending_review"}
            /\ o.live => o.st = "processing"
      BY <1>0, <2>2 DEF Inv, TypeOK
    <3> QED
      BY <1>0, <2>2, <2>4, <3>1 DEF Inv, TypeOK, Waiting
  <2>9. TextInv' /\ TombstoneMeansGone'
    BY <1>0, <2>2, <2>3, <2>4 DEF Inv, TextInv, TombstoneMeansGone
  <2> QED
    BY <2>6, <2>7, <2>8, <2>9 DEF Inv, JobsInv
<1> QED
  BY <1>1, <1>2

(* A lease runs out. *)
LEMMA LeaseStep ==
  ASSUME Inv, IngestLeaseExpires \/ CleanupLeaseExpires
  PROVE  Inv'
<1>0. UNCHANGED <<att, obj, text, job, expired, scans>>
  BY DEF IngestLeaseExpires, CleanupLeaseExpires
<1>1. IngestMoves /\ CleanupMoves
  <2>1. CASE IngestLeaseExpires
    <3>1. ing' = [ing EXCEPT !.live = FALSE] /\ cln' = cln
      BY <2>1 DEF IngestLeaseExpires
    <3> QED
      BY <3>1, CleanupStays DEF Inv, MediaTypes, Operations, IngestMoves
  <2>2. CASE CleanupLeaseExpires
    <3>1. cln' = [cln EXCEPT !.live = FALSE] /\ ing' = ing
      BY <2>2 DEF CleanupLeaseExpires
    <3> QED
      BY <3>1, IngestStays DEF Inv, MediaTypes, Operations, CleanupMoves
  <2> QED
    BY <2>1, <2>2
<1>2. MediaTypes' /\ TypeOK'
  BY <1>0, <1>1, OperationTypes DEF Inv, MediaTypes, IngestMoves, CleanupMoves
<1>3. JobsInv' /\ PassesKept
  BY <1>0, NoJobStep
<1>4. TextInv'
  BY <1>0, <1>1, <1>3, TextFrame DEF IngestMoves
<1>5. TombstoneMeansGone'
  BY <1>0, <1>1 DEF Inv, TombstoneMeansGone, CleanupMoves
<1> QED
  BY <1>2, <1>3, <1>4, <1>5 DEF Inv, JobsInv

-----------------------------------------------------------------------------
(* Clean-up *)

LEMMA CleanupClaimStep ==
  ASSUME Inv, NEW w \in Workers, ScanExpired(w) \/ CleanupClaims(w)
  PROVE  Inv'
<1>1. w \in Procs /\ w # Bot
  BY MediaAssumption DEF Procs
<1>2. CASE ScanExpired(w)
  <2>1. Goto(w, "issue") /\ expired
    BY <1>2 DEF ScanExpired
  <2>2. OnlyJob(w) /\ job'[w].pc = "issue" /\ job' \in [Procs -> Jobs]
    BY <1>1, <2>1, GotoJob DEF Inv, JobPcs, CleanPcs
  <2>3. JobOK(w)
    BY <1>1, <2>1, <2>2 DEF JobOK, CleanPcs, PollPcs
  <2> QED
    BY <1>1, <1>2, <2>2, <2>3, QuietStep DEF ScanExpired
<1>3. CASE CleanupClaims(w)
  <2>1. Claimable(cln) /\ cln' = Claimed(cln) /\ TakeUp(w, "chead")
    BY <1>3 DEF CleanupClaims
  <2>2. OnlyJob(w) /\ job'[w].pc = "chead" /\ job' \in [Procs -> Jobs]
    BY <1>1, <2>1, TakeUpJob DEF Inv, JobPcs, CleanPcs
  <2>3. expired
    BY <2>1 DEF Claimable, OpenStatus, Inv, TypeOK, MediaTypes, Attachments
  <2>4. JobOK(w)
    BY <1>1, <2>2, <2>3 DEF JobOK, CleanPcs, PollPcs
  <2>5. CleanupMoves
    <3>1. Claimed(cln) \in Operations /\ Claimed(cln).st = "processing"
      BY ClaimedType DEF Inv, MediaTypes
    <3> QED
      BY <2>1, <3>1 DEF CleanupMoves, Claimable, OpenStatus
  <2> QED
    BY <1>1, <1>3, <2>2, <2>4, <2>5, IngestStays, OperationStep DEF CleanupClaims
<1> QED
  BY <1>2, <1>3

LEMMA IssueStep ==
  ASSUME Inv, NEW q \in Procs, Issue(q)
  PROVE  Inv'
<1>0. /\ UNCHANGED <<ing, obj, text, expired, scans>> /\ Leave(q)
      /\ cln' = (IF cln.st = "none" THEN [NoOp EXCEPT !.st = "pending"] ELSE cln)
      /\ att' = [att EXCEPT !.issued = TRUE] /\ At(q, "issue")
  BY DEF Issue
<1>1. expired
  BY <1>0 DEF Inv, CleanInv, CleanPcs, At
<1>2. /\ att' \in Attachments /\ att'.issued /\ att'.proc = att.proc
      /\ att'.scan = att.scan /\ att'.del = att.del /\ att'.key = att.key
  BY <1>0 DEF Inv, MediaTypes, Attachments
<1>3. /\ cln' \in Operations /\ cln'.st # "none"
      /\ cln'.live => cln'.st = "processing"
      /\ cln'.st = "succeeded" => cln.st = "succeeded"
  BY <1>0 DEF Inv, MediaTypes, TypeOK, Operations, NoOp, OpenStatus
<1>4. JobOK(q) /\ job' \in [Procs -> Jobs]
  BY <1>0, LeaveJob DEF Inv
<1>5. JobsInv' /\ PassesKept
  BY <1>0, <1>2, <1>4, JobStep
<1>6. MediaTypes'
  BY <1>0, <1>2, <1>3, <1>4 DEF Inv, MediaTypes
<1>7. TypeOK'
  <2>1. \A o \in {ing', cln'} :
          /\ o.st \in OpenStatus \cup {"none", "processing", "succeeded",
                                       "failed_pending_review"}
          /\ o.live => o.st = "processing"
    BY <1>0, <1>3 DEF Inv, TypeOK, Operations
  <2> QED
    BY <1>0, <1>1, <1>2, <1>3, <2>1 DEF Inv, TypeOK
<1>8. TextInv'
  BY <1>0, <1>2, <1>5, TextFrame
<1>9. TombstoneMeansGone'
  BY <1>0, <1>2, <1>3 DEF Inv, TombstoneMeansGone
<1> QED
  BY <1>5, <1>6, <1>7, <1>8, <1>9 DEF Inv, JobsInv

(* Nobody stores the object again once its retention period is over. *)
LEMMA DeleteStep ==
  ASSUME Inv, NEW q \in Procs, Delete(q) \/ DeleteFails(q) \/ MarkDeleteStarted(q)
  PROVE  Inv'
<1>0. /\ UNCHANGED <<att, ing, cln, text, expired, scans>>
      /\ job[q].pc \in CleanPcs
  BY DEF Delete, DeleteFails, MarkDeleteStarted, At, CleanPcs
<1>o. obj' \in BOOLEAN /\ (obj' => obj)
  <2>1. obj \in BOOLEAN
    BY DEF Inv, MediaTypes
  <2>2. CASE Delete(q)
    BY <2>2 DEF Delete
  <2>3. CASE DeleteFails(q)
    <3>1. obj' = obj \/ obj' = FALSE
      BY <2>3 DEF DeleteFails
    <3>2. CASE obj' = FALSE
      BY <3>2
    <3>3. CASE obj' = obj
      BY <2>1, <3>3
    <3> QED
      BY <3>1, <3>2, <3>3
  <2>4. CASE MarkDeleteStarted(q)
    BY <2>1, <2>4 DEF MarkDeleteStarted
  <2> QED
    BY <2>2, <2>3, <2>4
<1>1. JobOK(q) /\ job' \in [Procs -> Jobs]
  <2>1. CASE Leave(q)
    BY <2>1, LeaveJob DEF Inv
  <2>2. CASE ~Leave(q)
    <3>1. PICK l \in {"cdelete", "cgone", "cunknown"} :
            Goto(q, l) /\ (l = "cgone" => ~obj')
      BY <2>2 DEF Delete, DeleteFails, MarkDeleteStarted
    <3> QED
      BY <1>0, <3>1, CleanGoto DEF CleanPcs
  <2> QED
    BY <2>1, <2>2
<1>2. JobsInv' /\ PassesKept
  BY <1>0, <1>o, <1>1, JobStep
<1>3. MediaTypes' /\ TypeOK'
  BY <1>0, <1>o, <1>1, OperationTypes, IngestStays, CleanupStays DEF Inv, MediaTypes
<1>4. TextInv'
  BY <1>0, <1>2, TextFrame
<1>5. TombstoneMeansGone'
  BY <1>0, <1>o DEF Inv, TombstoneMeansGone
<1> QED
  BY <1>2, <1>3, <1>4, <1>5 DEF Inv, JobsInv

LEMMA OutcomeStep ==
  ASSUME Inv, NEW q \in Procs, SetOutcome(q)
  PROVE  Inv'
<1>0. UNCHANGED <<att, ing, obj, text, expired, scans>> /\ job[q].pc \in CleanPcs
  BY DEF SetOutcome, CleanPcs
<1>1. CASE ~Fenced(q, cln)
  BY <1>0, <1>1, LeaveStep DEF SetOutcome
<1>2. CASE Fenced(q, cln)
  <2>1. JobOK(q) /\ job' \in [Procs -> Jobs]
    <3>1. CASE Leave(q)
      BY <3>1, LeaveJob DEF Inv
    <3>2. CASE ~Leave(q)
      <4>1. Goto(q, "cfinal") /\ job[q].pc = "cgone"
        BY <1>2, <3>2 DEF SetOutcome, ProvedGone
      <4>2. ~obj'
        BY <1>0, <4>1 DEF Inv, CleanInv
      <4> QED
        BY <1>0, <4>1, <4>2, CleanGoto DEF CleanPcs
    <3> QED
      BY <3>1, <3>2
  <2>2. CleanupMoves
    <3>1. cln \in Operations /\ cln.st = "processing"
      BY <1>2 DEF Inv, MediaTypes, Fenced
    <3>2. \/ cln' = [cln EXCEPT !.out = "gone"]
          \/ cln' = [cln EXCEPT !.st = "reconcile_required", !.out = "unknown",
                                !.live = FALSE]
      BY <1>2 DEF SetOutcome
    <3> QED
      BY <3>1, <3>2 DEF CleanupMoves, Operations, OpenStatus
  <2> QED
    BY <1>0, <2>1, <2>2, IngestStays, OperationStep
<1> QED
  BY <1>1, <1>2

(* The tombstone is written by a worker that saw the object gone. *)
LEMMA FinalizeCleanupStep ==
  ASSUME Inv, NEW q \in Procs, FinalizeCleanup(q)
  PROVE  Inv'
<1>0. UNCHANGED <<ing, obj, text, expired, scans>> /\ Leave(q) /\ At(q, "cfinal")
  BY DEF FinalizeCleanup
<1>1. CASE ~(Fenced(q, cln) /\ cln.out = "gone")
  BY <1>0, <1>1, LeaveStep DEF FinalizeCleanup
<1>2. CASE Fenced(q, cln) /\ cln.out = "gone"
  <2>1. /\ cln' = [cln EXCEPT !.st = "succeeded", !.live = FALSE, !.tok = 0]
        /\ att' = [att EXCEPT !.del = "deleted", !.key = FALSE]
    BY <1>2 DEF FinalizeCleanup
  <2>2. cln.st = "processing" /\ ~obj
    BY <1>0, <1>2 DEF Fenced, Inv, CleanInv, At
  <2>3. cln' \in Operations /\ cln'.st = "succeeded" /\ ~cln'.live
    BY <2>1 DEF Inv, MediaTypes, Operations
  <2>4. /\ att' \in Attachments /\ att'.issued = att.issued /\ ~att'.key
        /\ att'.proc = att.proc /\ att'.scan = att.scan /\ att'.del = "deleted"
    BY <2>1 DEF Inv, MediaTypes, Attachments
  <2>5. JobOK(q) /\ job' \in [Procs -> Jobs]
    BY <1>0, LeaveJob DEF Inv
  <2>6. JobsInv' /\ PassesKept
    BY <1>0, <2>4, <2>5, JobStep
  <2>7. MediaTypes'
    BY <1>0, <2>3, <2>4, <2>5 DEF Inv, MediaTypes
  <2>8. TypeOK'
    <3>1. \A o \in {ing', cln'} :
            /\ o.st \in OpenStatus \cup {"none", "processing", "succeeded",
                                         "failed_pending_review"}
            /\ o.live => o.st = "processing"
      BY <1>0, <2>3 DEF Inv, TypeOK
    <3> QED
      BY <1>0, <2>2, <2>3, <2>4, <3>1 DEF Inv, TypeOK
  <2>9. TextInv'
    BY <1>0, <2>4, <2>6, TextFrame
  <2>10. TombstoneMeansGone'
    BY <1>0, <2>2, <2>4 DEF TombstoneMeansGone
  <2> QED
    BY <2>6, <2>7, <2>8, <2>9, <2>10 DEF Inv, JobsInv
<1> QED
  BY <1>1, <1>2

-----------------------------------------------------------------------------
(* Scanning and recognition *)

(* What apply_scan_result does to the scan, to the recognition and to the  *)
(* count of scans.                                                         *)
ScanMove ==
    \/ /\ att'.scan = "scanning" /\ scans' = scans + 1
       /\ att.scan \in {"pending_scan", "scan_failed", "not_required"}
       /\ \/ att.proc = "succeeded" /\ att'.proc = "succeeded"
          \/ /\ att.proc # "succeeded" /\ ing.st = "succeeded"
             /\ att'.proc = "pending"
          \/ /\ att.proc # "succeeded" /\ ing.st # "succeeded"
             /\ att'.proc = "pending_upload"
    \/ /\ att'.scan = "clean" /\ att.scan = "scanning"
       /\ scans' = scans /\ att'.proc = att.proc
    \/ /\ att'.scan = "scan_failed" /\ att.scan = "scanning"
       /\ scans' = scans /\ att'.proc = "failed_pending_review"
    \/ /\ att'.scan = "infected" /\ att.scan \in {"scanning", "clean", "not_required"}
       /\ scans' = scans /\ att'.proc = "failed_pending_review"

LEMMA ScanMoves ==
  ASSUME MediaTypes, ApplyScan
  PROVE  /\ ScanMove /\ att' \in Attachments
         /\ att'.key = att.key /\ att'.issued = att.issued
<1>1. PICK s \in ScanSteps(att.scan) :
        LET timedOut == s = "clean" /\ att.scan = "scanning" /\ "scan" \in late
            v == IF timedOut THEN "scan_failed" ELSE s
        IN /\ scans' = IF s = "scanning" THEN scans + 1 ELSE scans
           /\ att' = [att EXCEPT
                !.scan = v,
                !.del = IF v = "infected" THEN "quarantined" ELSE @,
                !.timeout = timedOut,
                !.proc = CASE v \in {"infected", "scan_failed"} -> "failed_pending_review"
                           [] v = "scanning" /\ Unfinished ->
                                IF ing.st = "succeeded" THEN "pending" ELSE "pending_upload"
                           [] OTHER -> @]
  BY DEF ApplyScan
<1> DEFINE timedOut == s = "clean" /\ att.scan = "scanning" /\ "scan" \in late
           v == IF timedOut THEN "scan_failed" ELSE s
<1>2. \/ s = "scanning" /\ att.scan \in {"pending_scan", "scan_failed", "not_required"}
      \/ s = "clean" /\ att.scan = "scanning"
      \/ s = "scan_failed" /\ att.scan = "scanning"
      \/ s = "infected" /\ att.scan \in {"scanning", "clean", "not_required"}
  BY DEF ScanSteps, MediaTypes, Attachments
<1>3. timedOut \in BOOLEAN /\ v \in {"scanning", "clean", "scan_failed", "infected"}
  BY <1>2
<1>4. PICK p : p = CASE v \in {"infected", "scan_failed"} -> "failed_pending_review"
                     [] v = "scanning" /\ Unfinished ->
                          IF ing.st = "succeeded" THEN "pending" ELSE "pending_upload"
                     [] OTHER -> att.proc
  OBVIOUS
<1>5. PICK d : d = IF v = "infected" THEN "quarantined" ELSE att.del
  OBVIOUS
<1>6. /\ p \in Waiting \cup {"none", "succeeded", "failed_pending_review"}
      /\ d \in {"none", "active", "quarantined", "deleted"}
  BY <1>3, <1>4, <1>5 DEF MediaTypes, Attachments, Waiting
<1>7. att' = [att EXCEPT !.scan = v, !.del = d, !.timeout = timedOut, !.proc = p]
  BY <1>1, <1>4, <1>5
<1>8. /\ att' \in Attachments /\ att'.scan = v /\ att'.proc = p
      /\ att'.key = att.key /\ att'.issued = att.issued
  <2> HIDE DEF v, timedOut
  <2>1. att \in Attachments
    BY DEF MediaTypes
  <2>2. PICK o : o = [att EXCEPT !.scan = v, !.del = d]
    OBVIOUS
  <2>3. o \in Attachments
    BY <1>3, <1>6, <2>1, <2>2 DEF Attachments
  <2>4. att' = [o EXCEPT !.timeout = timedOut, !.proc = p]
    BY <1>7, <2>2
  <2>5. att' \in Attachments
    BY <1>3, <1>6, <2>3, <2>4 DEF Attachments
  <2>6. att'.scan = v /\ att'.proc = p /\ att'.key = att.key /\ att'.issued = att.issued
    BY <1>7, <2>1 DEF Attachments
  <2> QED
    BY <2>5, <2>6
<1>9. ScanMove
  BY <1>1, <1>2, <1>4, <1>8 DEF ScanMove, Unfinished
<1> QED
  BY <1>8, <1>9

LEMMA ScanStep ==
  ASSUME Inv, ApplyScan
  PROVE  Inv'
<1>0. UNCHANGED <<ing, cln, obj, text, job, expired>>
  BY DEF ApplyScan
<1>1. /\ ScanMove /\ att' \in Attachments
      /\ att'.key = att.key /\ att'.issued = att.issued
  BY ScanMoves DEF Inv
<1>2. att.proc # "none" /\ att'.proc # "none"
  BY <1>1 DEF ScanMove, Inv, MediaTypes
<1>3. scans \in Nat /\ scans' \in Nat /\ scans' >= scans
  BY <1>1 DEF ScanMove, Inv, MediaTypes
<1>4. MediaTypes'
  BY <1>0, <1>1, <1>2, <1>3 DEF Inv, MediaTypes
<1>5. JobsInv'
  <2>1. ~At(Bot, "download")
    BY <1>2 DEF Inv, BotInv
  <2> QED
    BY <1>0, <1>2, <2>1, NoJobStep
<1>6. TypeOK'
  <2>1. ing'.st = "succeeded" => att'.proc # "pending_upload"
    BY <1>0, <1>1 DEF ScanMove, Inv, TypeOK
  <2>2. \A o \in {ing', cln'} :
          /\ o.st \in OpenStatus \cup {"none", "processing", "succeeded",
                                       "failed_pending_review"}
          /\ o.live => o.st = "processing"
    BY <1>0 DEF Inv, TypeOK
  <2> QED
    BY <1>0, <1>1, <1>2, <1>4, <2>1, <2>2 DEF Inv, TypeOK, MediaTypes, Attachments
<1>7. TextInv'
  <2>1. Unpolled' <=> Unpolled
    BY <1>0 DEF Unpolled
  <2>2. /\ att'.proc \in {"pending", "succeeded"} => ing'.st = "succeeded"
        /\ text' > 0 => ing'.st = "succeeded"
    BY <1>0, <1>1 DEF ScanMove, Inv, TextInv
  <2>3. Closed => Closed'
    BY <1>1, <2>1 DEF Closed, ScanMove
  <2>4. Rescanned => \/ Closed' \/ Rescanned'
                     \/ scans' >= 2 /\ att'.scan # "not_required"
    BY <1>1, <1>3, <2>1 DEF Closed, Rescanned, ScanMove
  <2>5. att'.scan # "not_required"
    BY <1>1 DEF ScanMove
  <2>6. scans >= 2 => scans' >= 2
    BY <1>3
  <2> QED
    BY <1>0, <2>2, <2>3, <2>4, <2>5, <2>6 DEF Inv, TextInv
<1>8. TombstoneMeansGone'
  BY <1>0, <1>1 DEF Inv, TombstoneMeansGone
<1> QED
  BY <1>4, <1>5, <1>6, <1>7, <1>8 DEF Inv, JobsInv

LEMMA PollStep ==
  ASSUME Inv, NEW w \in Pollers, Poll(w)
  PROVE  Inv'
<1>1. w \in Procs /\ w # Bot
  BY MediaAssumption DEF Procs
<1>2. Goto(w, Verdict) /\ Verdict # "none"
  BY DEF Poll, Goto
<1>3. CASE att.proc = "none"
  <2>1. Verdict = "lost"
    BY <1>2, <1>3 DEF Verdict
  <2>2. OnlyJob(w) /\ job'[w].pc = "lost" /\ job' \in [Procs -> Jobs]
    BY <1>1, <1>2, <2>1, GotoJob DEF Inv, JobPcs
  <2>3. JobOK(w)
    BY <1>1, <2>2 DEF JobOK, CleanPcs, PollPcs
  <2> QED
    BY <1>1, <2>2, <2>3, QuietStep DEF Poll
<1>4. CASE att.proc # "none"
  <2>1. Verdict \in PollPcs /\ att.proc \in Waiting
    BY <1>2, <1>4 DEF Verdict, PollPcs
  <2>2. JobOK(w) /\ job' \in [Procs -> Jobs]
    BY <1>1, <1>2, <2>1, PollGoto
  <2> QED
    BY <1>1, <2>2, QuietStep DEF Poll
<1> QED
  BY <1>3, <1>4

(* Passes that write nothing. *)
LEMMA ReadStep ==
  ASSUME Inv, NEW q \in Procs, ReadObject(q) \/ Recognise(q) \/ RecordLost(q)
  PROVE  Inv'
<1>0. UNCHANGED <<att, ing, cln, obj, text, expired, scans>>
  BY DEF ReadObject, Recognise, RecordLost
<1>1. CASE Leave(q)
  BY <1>0, <1>1, LeaveStep
<1>2. CASE ~Leave(q)
  <2>1. job[q].pc \in PollPcs
    BY <1>2 DEF ReadObject, Recognise, RecordLost, At, PollPcs
  <2>2. PICK l \in {"ocr", "fail", "append"} : Goto(q, l)
    BY <1>2 DEF ReadObject, Recognise, RecordLost
  <2> QED
    BY <1>0, <2>1, <2>2, PollGoto, QuietStep DEF PollPcs
<1> QED
  BY <1>1, <1>2

(* The poller is alone with the attachment. *)
LEMMA PollerAlone ==
  ASSUME Inv, NEW q \in Procs, job[q].pc \in PollPcs, Leave(q)
  PROVE  /\ att.proc # "none" /\ Unpolled'
         /\ text = 0 \/ (text = 1 /\ Exempt /\ scans >= 2 /\ att.scan # "not_required")
<1>1. OnlyJob(q) /\ job'[q].pc = "idle"
  BY LeaveJob DEF Inv
<1>2. \A p \in Procs : p # q => job[p].pc \notin PollPcs
  BY MediaAssumption DEF Inv, PollInv
<1>3. Unpolled'
  BY <1>1, <1>2 DEF Unpolled, OnlyJob, PollPcs
<1>4. ~Unpolled
  BY DEF Unpolled
<1> QED
  BY <1>3, <1>4 DEF Inv, PollInv, TextInv, Closed, Rescanned

LEMMA FailureStep ==
  ASSUME Inv, NEW q \in Procs, RecordFailure(q)
  PROVE  Inv'
<1>0. /\ UNCHANGED <<ing, cln, obj, text, expired, scans>> /\ Leave(q)
      /\ job[q].pc \in PollPcs
      /\ att' = [att EXCEPT !.proc = "failed_pending_review",
                            !.scan = IF At(q, "timeout") THEN "scan_failed" ELSE @,
                            !.timeout = At(q, "timeout")]
  BY DEF RecordFailure, PollPcs
<1>1. At(q, "timeout") \in BOOLEAN
  BY DEF At
<1>2. /\ att' \in Attachments /\ att'.proc = "failed_pending_review"
      /\ att'.scan = att.scan \/ att'.scan = "scan_failed"
      /\ att'.key = att.key /\ att'.issued = att.issued
  BY <1>0, <1>1 DEF Inv, MediaTypes, Attachments
<1>3. /\ att.proc # "none"
      /\ text = 0 \/ (text = 1 /\ Exempt /\ scans >= 2 /\ att.scan # "not_required")
  BY <1>0, PollerAlone
<1>4. JobOK(q) /\ job' \in [Procs -> Jobs]
  BY <1>0, LeaveJob DEF Inv
<1>5. JobsInv'
  BY <1>0, <1>2, <1>3, <1>4, JobStep
<1>6. MediaTypes'
  BY <1>0, <1>2, <1>4 DEF Inv, MediaTypes
<1>7. TypeOK'
  <2>1. \A o \in {ing', cln'} :
          /\ o.st \in OpenStatus \cup {"none", "processing", "succeeded",
                                       "failed_pending_review"}
          /\ o.live => o.st = "processing"
    BY <1>0 DEF Inv, TypeOK
  <2> QED
    BY <1>0, <1>2, <1>3, <1>6, <2>1 DEF Inv, TypeOK, MediaTypes, Attachments
<1>8. TextInv' /\ TombstoneMeansGone'
  BY <1>0, <1>2, <1>3 DEF Inv, TextInv, TombstoneMeansGone
<1> QED
  BY <1>5, <1>6, <1>7, <1>8 DEF Inv, JobsInv

LEMMA AppendStep ==
  ASSUME Inv, NEW q \in Procs, AppendText(q)
  PROVE  Inv'
<1>0. /\ UNCHANGED <<ing, cln, obj, expired, scans>> /\ Leave(q)
      /\ job[q].pc \in PollPcs
  BY DEF AppendText, PollPcs, At
<1>1. CASE ~Processable
  BY <1>0, <1>1, LeaveStep DEF AppendText
<1>2. CASE Processable
  <2>1. att' = [att EXCEPT !.proc = "succeeded"] /\ text' = text + 1
    BY <1>2 DEF AppendText
  <2>2. /\ att' \in Attachments /\ att'.proc = "succeeded" /\ att'.scan = att.scan
        /\ att'.key = att.key /\ att'.issued = att.issued /\ att'.del = att.del
    BY <2>1 DEF Inv, MediaTypes, Attachments
  <2>3. /\ att.proc # "none" /\ Unpolled'
        /\ text = 0 \/ (text = 1 /\ Exempt /\ scans >= 2 /\ att.scan # "not_required")
    BY <1>0, PollerAlone
  <2>4. att.scan = "clean" \/ (Exempt /\ att.scan = "not_required")
    BY <1>2 DEF Processable, Scanned
  <2>5. ing.st = "succeeded"
    BY <1>2 DEF Processable, Inv, TextInv
  <2>6. JobOK(q) /\ job' \in [Procs -> Jobs]
    BY <1>0, LeaveJob DEF Inv
  <2>7. JobsInv'
    BY <1>0, <2>2, <2>3, <2>6, JobStep
  <2>8. MediaTypes'
    BY <1>0, <2>1, <2>2, <2>6 DEF Inv, MediaTypes
  <2>9. TypeOK'
    <3>1. \A o \in {ing', cln'} :
            /\ o.st \in OpenStatus \cup {"none", "processing", "succeeded",
                                         "failed_pending_review"}
            /\ o.live => o.st = "processing"
      BY <1>0 DEF Inv, TypeOK
    <3> QED
      BY <1>0, <2>2, <2>3, <2>8, <3>1 DEF Inv, TypeOK, MediaTypes, Attachments
  <2>10. TextInv'
    BY <1>0, <2>1, <2>2, <2>3, <2>4, <2>5 DEF TextInv, Closed, Rescanned
  <2>11. TombstoneMeansGone'
    BY <1>0, <2>2 DEF Inv, TombstoneMeansGone
  <2> QED
    BY <2>7, <2>8, <2>9, <2>10, <2>11 DEF Inv, JobsInv
<1> QED
  BY <1>1, <1>2

-----------------------------------------------------------------------------
(* Environment *)

(* Steps that none of the invariants refers to, and the end of the          *)
(* retention period.                                                        *)
LEMMA EnvironmentStep ==
  ASSUME Inv, UNCHANGED <<att, ing, cln, obj, text, job, scans>>,
         expired' = expired \/ (expired' = TRUE /\ At(Bot, "idle"))
  PROVE  Inv'
<1>1. /\ expired' \in BOOLEAN /\ (expired => expired')
      /\ (expired' => expired \/ At(Bot, "idle"))
  <2>0. expired \in BOOLEAN
    BY DEF Inv, MediaTypes
  <2>1. CASE expired' = expired
    BY <2>0, <2>1
  <2>2. CASE expired' = TRUE /\ At(Bot, "idle")
    BY <2>2
  <2> QED
    BY <2>1, <2>2
<1>2. JobsInv' /\ PassesKept
  BY <1>1, NoJobStep
<1>3. MediaTypes'
  BY <1>1 DEF Inv, MediaTypes
<1>4. TypeOK'
  <2>1. /\ att' = att /\ ing' = ing /\ cln' = cln
        /\ att.issued = (cln.st # "none") /\ (att.issued => expired')
    BY <1>1 DEF Inv, TypeOK
  <2> QED
    BY <2>1 DEF Inv, TypeOK
<1>5. TextInv'
  BY <1>2, TextFrame
<1>6. TombstoneMeansGone'
  BY DEF Inv, TombstoneMeansGone
<1> QED
  BY <1>2, <1>3, <1>4, <1>5, <1>6 DEF Inv, JobsInv

LEMMA InvInit == Init => Inv
<1> SUFFICES ASSUME Init PROVE Inv
  OBVIOUS
<1>0. /\ att = NoAtt /\ ing = NoOp /\ cln = NoOp /\ obj = FALSE /\ text = 0
      /\ expired = FALSE /\ scans = 0
      /\ job = [q \in Procs |-> IF q = Bot THEN [Idle EXCEPT !.pc = "download"]
                                ELSE Idle]
  BY DEF Init
<1>1. Idle \in Jobs /\ [Idle EXCEPT !.pc = "download"] \in Jobs
      /\ Idle.pc = "idle" /\ [Idle EXCEPT !.pc = "download"].pc = "download"
  BY DEF Idle, Jobs, JobPcs
<1>2. /\ job \in [Procs -> Jobs]
      /\ \A q \in Procs : job[q].pc \in {"idle", "download"}
  BY <1>0, <1>1
<1>3. NoAtt \in Attachments /\ NoOp \in Operations
  BY DEF NoAtt, NoOp, Attachments, Operations
<1>4. MediaTypes
  BY <1>0, <1>2, <1>3 DEF MediaTypes, NoAtt
<1>5. TypeOK
  <2>1. /\ att.proc = "none" /\ att.scan = "none" /\ att.del = "none"
        /\ att.issued = FALSE
        /\ \A o \in {ing, cln} : o.st = "none" /\ o.live = FALSE
    BY <1>0 DEF NoAtt, NoOp
  <2> QED
    BY <2>1 DEF TypeOK
<1>6. BotInv /\ CleanInv /\ PollInv
  BY <1>0, <1>2 DEF BotInv, CleanInv, PollInv, CleanPcs, PollPcs, NoAtt, At
<1>7. TextInv /\ TombstoneMeansGone
  BY <1>0 DEF TextInv, TombstoneMeansGone, NoAtt, NoOp
<1> QED
  BY <1>4, <1>5, <1>6, <1>7 DEF Inv

LEMMA InvStep == Inv /\ [Next]_vars => Inv'
<1> SUFFICES ASSUME Inv, [Next]_vars PROVE Inv'
  OBVIOUS
<1>1. CASE Upload
  BY <1>1, IngestStep, UploadStep, PutStep DEF Upload
<1>2. CASE Recover
  BY <1>2, ReconcileStep DEF Recover
<1>3. CASE CleanUp
  BY <1>3, CleanupClaimStep DEF CleanUp
<1>4. CASE PollMessage
  BY <1>4, PollStep DEF PollMessage
<1>5. ASSUME NEW q \in Procs, Continue(q) PROVE Inv'
  BY <1>5, HeadStep, SetRemoteStep, FinalizeUploadStep, ReadStep, FailureStep,
     AppendStep, IssueStep, DeleteStep, OutcomeStep, FinalizeCleanupStep DEF Continue
<1>6. CASE ApplyScan
  BY <1>6, ScanStep
<1>7. CASE IngestLeaseExpires \/ CleanupLeaseExpires
  BY <1>7, LeaseStep
<1>8. CASE Crash
  BY <1>8, LeaveStep DEF Crash
<1>9. CASE Settle \/ GlassGranted \/ GlassRead \/ WaitExpires
  BY <1>9, EnvironmentStep DEF Settle, GlassGranted, GlassRead, WaitExpires
<1>10. CASE RetentionExpires
  BY <1>10, EnvironmentStep DEF RetentionExpires
<1>11. CASE UNCHANGED vars
  BY <1>11, EnvironmentStep DEF vars
<1> QED
  BY <1>1, <1>2, <1>3, <1>4, <1>5, <1>6, <1>7, <1>8, <1>9, <1>10, <1>11 DEF Next

(* The inductive invariant of the media artifact holds. *)
LEMMA InvHolds == Spec => []Inv
BY InvInit, InvStep, PTL DEF Spec

-----------------------------------------------------------------------------
(* The properties of the model *)

(* Attachment, upload and clean-up operation stay consistent through every  *)
(* interleaving of bot, workers and scans: a lease is held only while its   *)
(* operation is processed, the clean-up is issued after the period only.    *)
THEOREM MediaTypeCorrect == Spec => []TypeOK
<1>1. Inv => TypeOK
  BY DEF Inv
<1> QED
  BY <1>1, InvHolds, PTL

(* finalize_success writes a tombstone only for an object that is gone for   *)
(* good, however many workers, lost leases and unknown outcomes took part.   *)
THEOREM TombstonesAreTrue == Spec => []TombstoneMeansGone
<1>1. Inv => TombstoneMeansGone
  BY DEF Inv
<1> QED
  BY <1>1, InvHolds, PTL

(* The recognised text is added to the message once, or twice where an       *)
(* exempted artifact was scanned twice afterwards, whatever number of scans, *)
(* crashes and restarts of the recognition there is.                         *)
THEOREM TextIsAddedOnce == Spec => []RecognisedOnce
<1>1. Inv => RecognisedOnce
  BY DEF Inv, MediaTypes, TextInv, RecognisedOnce
<1> QED
  BY <1>1, InvHolds, PTL

(* Who gives the attachment another processing status than "failed". *)
LEMMA ReopenStep ==
  ASSUME Inv, [Next]_vars, att.proc = "failed_pending_review", att'.proc # att.proc
  PROVE  att'.scan = "scanning"
<1>1. att' # att
  OBVIOUS
<1>2. CASE Upload
  <2>1. ~Ingest
    BY DEF Ingest, Inv, BotInv
  <2> QED
    BY <1>1, <1>2, <2>1 DEF Upload, Refuse, UploadClaims, MarkStarted, Put, PutFails
<1>3. CASE Recover \/ CleanUp \/ PollMessage
  BY <1>1, <1>3 DEF Recover, CleanUp, PollMessage, ReconcileClaims, ScanExpired,
     CleanupClaims, Poll
<1>4. ASSUME NEW q \in Procs, Continue(q) PROVE FALSE
  <2>1. CASE FinalizeUpload(q)
    BY <1>1, <2>1 DEF FinalizeUpload, AfterUpload, Inv, MediaTypes, Attachments
  <2>2. CASE RecordFailure(q)
    BY <2>2 DEF RecordFailure, Inv, MediaTypes, Attachments
  <2>3. CASE AppendText(q)
    BY <1>1, <2>3 DEF AppendText, Processable
  <2>4. CASE Issue(q) \/ FinalizeCleanup(q)
    BY <1>1, <2>4 DEF Issue, FinalizeCleanup, Inv, MediaTypes, Attachments
  <2>5. CASE Head(q) \/ HeadFails(q) \/ SetRemote(q)
    BY <1>1, <2>5 DEF Head, HeadFails, SetRemote
  <2>6. CASE RecordLost(q) \/ ReadObject(q) \/ Recognise(q)
    BY <1>1, <2>6 DEF RecordLost, ReadObject, Recognise
  <2>7. CASE MarkDeleteStarted(q) \/ Delete(q) \/ DeleteFails(q) \/ SetOutcome(q)
    BY <1>1, <2>7 DEF MarkDeleteStarted, Delete, DeleteFails, SetOutcome
  <2> QED
    BY <1>4, <2>1, <2>2, <2>3, <2>4, <2>5, <2>6, <2>7 DEF Continue
<1>5. CASE ApplyScan
  <2>1. ScanMove
    BY <1>5, ScanMoves DEF Inv
  <2> QED
    BY <2>1 DEF ScanMove
<1>6. CASE Settle \/ GlassGranted \/ GlassRead \/ WaitExpires \/ RetentionExpires
  BY <1>1, <1>6 DEF Settle, GlassGranted, GlassRead, WaitExpires, RetentionExpires
<1>7. CASE Crash \/ IngestLeaseExpires \/ CleanupLeaseExpires
  BY <1>1, <1>7 DEF Crash, IngestLeaseExpires, CleanupLeaseExpires
<1> QED
  BY <1>1, <1>2, <1>3, <1>4, <1>5, <1>6, <1>7 DEF Next, vars

(* A late upload, a recovery, a late recognition or a clean-up never reopens *)
(* an attachment that was given up: only apply_scan_result does.             *)
THEOREM GivenUpStaysClosed == Spec => OnlyScanReopens
<1>1. Inv /\ [Next]_vars =>
        [att.proc = "failed_pending_review" /\ att'.proc # att.proc
            => att'.scan = "scanning"]_vars
  BY ReopenStep
<1> QED
  BY <1>1, InvHolds, PTL DEF Spec, OnlyScanReopens

(* No step reads media that is quarantined, deleted or not passed. *)
LEMMA UnreadStep ==
  ASSUME [Next]_vars, att.del # "active" \/ att.scan \notin Scanned
  PROVE  text' = text /\ ~(glass = "granted" /\ glass' = "signed")
<1>1. CASE Upload
  BY <1>1 DEF Upload, Ingest, Refuse, UploadClaims, MarkStarted, Put, PutFails
<1>2. CASE Recover \/ CleanUp \/ PollMessage
  BY <1>2 DEF Recover, CleanUp, PollMessage, ReconcileClaims, ScanExpired,
     CleanupClaims, Poll
<1>3. ASSUME NEW q \in Procs, Continue(q)
      PROVE  text' = text /\ ~(glass = "granted" /\ glass' = "signed")
  <2>1. CASE AppendText(q)
    BY <2>1 DEF AppendText, Processable
  <2>2. CASE Head(q) \/ HeadFails(q) \/ SetRemote(q) \/ FinalizeUpload(q)
    BY <2>2 DEF Head, HeadFails, SetRemote, FinalizeUpload
  <2>3. CASE RecordLost(q) \/ RecordFailure(q) \/ ReadObject(q) \/ Recognise(q)
    BY <2>3 DEF RecordLost, RecordFailure, ReadObject, Recognise
  <2>4. CASE Issue(q) \/ MarkDeleteStarted(q) \/ Delete(q) \/ DeleteFails(q)
    BY <2>4 DEF Issue, MarkDeleteStarted, Delete, DeleteFails
  <2>5. CASE SetOutcome(q) \/ FinalizeCleanup(q)
    BY <2>5 DEF SetOutcome, FinalizeCleanup
  <2> QED
    BY <1>3, <2>1, <2>2, <2>3, <2>4, <2>5 DEF Continue
<1>4. CASE GlassGranted \/ GlassRead
  BY <1>4 DEF GlassGranted, GlassRead, Viewable, Scanned
<1>5. CASE ApplyScan
  BY <1>5 DEF ApplyScan
<1>6. CASE Settle \/ WaitExpires \/ RetentionExpires
  BY <1>6 DEF Settle, WaitExpires, RetentionExpires
<1>7. CASE Crash \/ IngestLeaseExpires \/ CleanupLeaseExpires
  BY <1>7 DEF Crash, IngestLeaseExpires, CleanupLeaseExpires
<1>8. CASE UNCHANGED vars
  BY <1>8 DEF vars
<1> QED
  BY <1>1, <1>2, <1>3, <1>4, <1>5, <1>6, <1>7, <1>8 DEF Next

(* Neither _process_attachment nor _read_object uses an artifact that is     *)
(* quarantined, deleted or not passed by the scan, also when the verdict     *)
(* arrives after their first check.                                          *)
THEOREM UnsafeStaysUnread == Spec => UnsafeMediaUnread
<1>1. [Next]_vars =>
        [att.del # "active" \/ att.scan \notin Scanned =>
            text' = text /\ ~(glass = "granted" /\ glass' = "signed")]_vars
  BY UnreadStep
<1> QED
  BY <1>1, PTL DEF Spec, UnsafeMediaUnread
=============================================================================
