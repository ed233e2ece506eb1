------------------------ MODULE CrmSubmissionProofs ------------------------
(***************************************************************************)
(* Machine-checked proofs about CrmSubmission, for every set of leads,     *)
(* companies and workers and every bound.                                  *)
(***************************************************************************)
EXTENDS CrmSubmission, FiniteSetTheorems, TLAPS

-----------------------------------------------------------------------------
(* Types *)

(* The parts of a key, and keys put together from parts. *)
LEMMA KeyParts ==
  ASSUME NEW s \in SyncId
  PROVE  LeadOf(s) \in Leads
BY DEF SyncId, Creates, Updates, LeadOf

LEMMA CreateKey ==
  /\ Creates \subseteq SyncId
  /\ \A l \in Leads, g \in 1..MaxGen : <<l, "create", g>> \in Creates
  /\ \A l \in Leads, v \in 1..MaxVer : <<l, "update", v>> \in SyncId
BY DEF SyncId, Creates, Updates

(* A worker in the middle of an operation knows its lead, and one that     *)
(* claims, calls or records its record.                                    *)
Good(r) ==
  /\ r \in WorkerState
  /\ r.pc # "idle" => r.lead \in Leads
  /\ r.pc \in {"claim", "call", "record"} => r.id \in SyncId

WorkersTyped ==
  wk \in [Workers -> WorkerState] /\ \A x \in Workers : Good(wk[x])

TypeInv == TypeOK /\ WorkersTyped

LEMMA IdleGood == Good(Idle) /\ Idle.pc = "idle"
BY CrmAssumption
DEF Good, Idle, WorkerState, PCs, AllCommands, Shown, Outcomes

LEMMA GotoGood ==
  ASSUME TypeInv, NEW w \in Workers, wk[w].pc # "idle",
         NEW p \in {"writeback", "claim"}
  PROVE  /\ Goto(w, p) \in WorkerState
         /\ Goto(w, p).pc = p /\ Goto(w, p).lead \in Leads
<1>1. Good(wk[w])
  BY DEF TypeInv, WorkersTyped
<1> QED
  BY <1>1, IdleGood DEF Goto, Good, WorkerState, PCs, Idle

(* One worker moves to a good state. *)
LEMMA SlotStep ==
  ASSUME TypeInv, NEW w \in Workers, NEW r, Good(r),
         wk' = [wk EXCEPT ![w] = r]
  PROVE  WorkersTyped'
BY DEF TypeInv, WorkersTyped, Good

LEMMA EndStep ==
  ASSUME TypeInv, NEW w \in Workers, wk[w].pc # "idle", End(w)
  PROVE  WorkersTyped'
<1> DEFINE r == IF Deferred(wk[w].cmd) THEN Goto(w, "writeback") ELSE Idle
<1>1. Good(r)
  BY GotoGood, IdleGood DEF Good
<1>2. wk' = [wk EXCEPT ![w] = r]
  BY DEF End
<1> QED
  BY <1>1, <1>2, SlotStep

LEMMA ClaimGoto ==
  ASSUME TypeInv, NEW w \in Workers, wk[w].pc # "idle",
         NEW s \in SyncId, GotoClaim(w, s)
  PROVE  WorkersTyped'
<1> DEFINE r == [Goto(w, "claim") EXCEPT !.id = s]
<1>1. Goto(w, "claim") \in WorkerState /\ Goto(w, "claim").pc = "claim"
      /\ Goto(w, "claim").lead \in Leads
  BY GotoGood
<1>2. Good(r)
  BY <1>1 DEF Good, WorkerState
<1>3. wk' = [wk EXCEPT ![w] = r]
  BY DEF GotoClaim
<1> QED
  BY <1>2, <1>3, SlotStep

(* A step that changes nothing but the worker table. *)
WorkerOnly ==
  UNCHANGED <<sync, newest, last, life, discard, identity, row, local, crm,
              sent, owed, faults>>

LEMMA OnlyStep ==
  ASSUME TypeInv, WorkersTyped', WorkerOnly
  PROVE  TypeInv'
BY DEF TypeInv, TypeOK, WorkersTyped, WorkerOnly

LEMMA StatusType ==
  ASSUME TypeInv, NEW s \in SyncId, NEW q \in Statuses
  PROVE  SetStatus(s, q) \in [SyncId -> Sync]
<1>1. PICK n : n = [sync[s] EXCEPT !.status = q, !.expired = FALSE]
  OBVIOUS
<1>2. sync \in [SyncId -> Sync] /\ sync[s] \in Sync
  BY DEF TypeInv, TypeOK
<1>3. n \in Sync
  BY <1>1, <1>2 DEF Sync
<1>4. SetStatus(s, q) = [sync EXCEPT ![s] = n]
  BY <1>1 DEF SetStatus
<1> QED
  BY <1>2, <1>3, <1>4

LEMMA RecordType ==
  ASSUME TypeInv, NEW s \in SyncId
  PROVE  /\ sync[s] \in Sync /\ sync[s].ver \in 1..MaxVer
         /\ sync[s].attempts \in 0..MaxAttempts
BY DEF TypeInv, TypeOK, Sync

LEMMA FaultType ==
  ASSUME TypeInv, Fault
  PROVE  faults' \in 0..MaxFaults
BY CrmAssumption DEF TypeInv, TypeOK, Fault

LEMMA WorkerType ==
  ASSUME TypeInv, NEW w \in Workers
  PROVE  Good(wk[w])
BY DEF TypeInv, WorkersTyped

LEMMA NoSyncType == NoSync \in Sync /\ NoIdentity \in Identity
BY CrmAssumption DEF NoSync, Sync, Statuses, NoIdentity, Identity

(* Commands that read the row and begin. *)
LEMMA BeginStep ==
  ASSUME TypeInv, NEW w \in Workers, NEW l \in Leads, NEW c \in Commands,
         Begin(w, l, c)
  PROVE  WorkersTyped'
<1> DEFINE r == [Idle EXCEPT !.pc = "check", !.cmd = c, !.lead = l,
                             !.ver = row[l].ver, !.shown = row[l].shown]
<1>1. row[l].ver \in 1..MaxVer /\ row[l].shown \in Shown
  BY DEF TypeInv, TypeOK
<1>2. Good(r)
  BY <1>1, IdleGood, CrmAssumption DEF Good, WorkerState, PCs, Idle
<1> QED
  BY <1>2, SlotStep DEF Begin

LEMMA SubmitTypes ==
  ASSUME TypeInv, NEW w \in Workers, Submit(w)
  PROVE  TypeInv'
<1>0. Good(wk[w])
  BY WorkerType
<1>1. CASE CheckResumes(w)
  <2>1. PICK s \in Creates : GotoClaim(w, s)
    BY <1>1 DEF CheckResumes
  <2>2. WorkersTyped'
    BY <1>1, <2>1, ClaimGoto, CreateKey DEF CheckResumes
  <2> QED
    BY <1>1, <2>2, OnlyStep DEF CheckResumes, WorkerOnly, leadVars
<1>2. CASE CheckPasses(w)
  <2> DEFINE r == [wk[w] EXCEPT !.pc = "freeze"]
  <2>1. Good(r)
    BY <1>0, <1>2 DEF CheckPasses, Good, WorkerState, PCs
  <2>2. WorkersTyped'
    BY <1>2, <2>1, SlotStep DEF CheckPasses
  <2> QED
    BY <1>2, <2>2, OnlyStep DEF CheckPasses, WorkerOnly, leadVars
<1>3. CASE CheckEnds(w)
  <2>1. WorkersTyped'
    BY <1>3, EndStep DEF CheckEnds
  <2> QED
    BY <1>3, <2>1, OnlyStep DEF CheckEnds, WorkerOnly, leadVars
<1>4. CASE Freeze(w)
  <2> DEFINE l == wk[w].lead
             c == CompanyOf[l]
             s == <<l, "create", NextGeneration(l)>>
             new == [NoSync EXCEPT !.status = "pending", !.ver = wk[w].ver]
             res == [state |-> "reserving", lead |-> l, sync |-> s]
  <2>1. s \in SyncId /\ l \in Leads /\ wk[w].pc # "idle"
    BY <1>0, <1>4, CreateKey DEF Freeze, Good
  <2>2. new \in Sync /\ res \in Identity
    BY <1>0, <2>1, NoSyncType
    DEF Good, WorkerState, Sync, Statuses, Identity, NoSync
  <2>3. sync' \in [SyncId -> Sync] /\ newest' \in [Leads -> SyncId \cup {None}]
    <3> HIDE DEF new, s
    <3>1. sync' = [sync EXCEPT ![s] = new] /\ newest' = [newest EXCEPT ![l] = s]
      BY <1>4 DEF Freeze, s, new
    <3> QED
      BY <2>1, <2>2, <3>1 DEF TypeInv, TypeOK
  <2>4. identity' \in [Companies -> Identity]
    <3> HIDE DEF res, c
    <3>1. identity' = [identity EXCEPT ![c] =
                         IF @.state = "active" THEN @ ELSE res]
      BY <1>4 DEF Freeze, res, c
    <3> QED
      BY <2>2, <3>1 DEF TypeInv, TypeOK
  <2>5. WorkersTyped'
    BY <1>4, <2>1, ClaimGoto DEF Freeze
  <2> QED
    BY <1>4, <2>3, <2>4, <2>5
    DEF Freeze, TypeInv, TypeOK, WorkersTyped, leadVars
<1>5. CASE FreezeEnds(w)
  <2>1. WorkersTyped'
    BY <1>5, EndStep DEF FreezeEnds
  <2> QED
    BY <1>5, <2>1, OnlyStep DEF FreezeEnds, WorkerOnly, leadVars
<1> QED
  BY <1>1, <1>2, <1>3, <1>4, <1>5 DEF Submit
LEMMA CallTypes ==
  ASSUME TypeInv, NEW w \in Workers, Call(w)
  PROVE  TypeInv'
<1>0. Good(wk[w])
  BY WorkerType
<1>1. CASE Claim(w)
  <2> DEFINE s == wk[w].id
             n == NextAttempt(s)
             r == [wk[w] EXCEPT !.pc = "call", !.att = n,
                                !.ver = FrozenPayload(s)]
  <2>1. s \in SyncId /\ sync[s].attempts \in 0..MaxAttempts
        /\ sync[s].ver \in 1..MaxVer
    BY <1>0, <1>1, RecordType DEF Claim, Good
  <2>2. n \in 0..MaxAttempts
    BY <1>1, <2>1, CrmAssumption DEF Claim, NextAttempt
  <2>3. sync' \in [SyncId -> Sync]
    <3> DEFINE new == [sync[s] EXCEPT !.status = "processing",
                         !.expired = FALSE, !.attempts = n]
    <3>1. sync' = [sync EXCEPT ![s] = new]
      BY <1>1, <2>1 DEF Claim, TypeInv, TypeOK
    <3>2. new \in Sync
      BY <2>1, <2>2, RecordType DEF Sync, Statuses
    <3> HIDE DEF new, s
    <3> QED
      BY <2>1, <3>1, <3>2 DEF TypeInv, TypeOK
  <2>4. Good(r)
    BY <1>0, <1>1, <2>1, <2>2
    DEF Claim, Good, WorkerState, PCs, FrozenPayload
  <2>5. WorkersTyped'
    BY <1>1, <2>4, SlotStep DEF Claim
  <2> QED
    BY <1>1, <2>3, <2>5 DEF Claim, TypeInv, TypeOK, WorkersTyped, leadVars
<1>2. CASE ClaimExhausted(w)
  <2>1. wk[w].id \in SyncId
    BY <1>0, <1>2 DEF ClaimExhausted, Good
  <2>2. sync' \in [SyncId -> Sync]
    BY <1>2, <2>1, StatusType DEF ClaimExhausted, Statuses
  <2>3. WorkersTyped'
    BY <1>2, EndStep DEF ClaimExhausted
  <2> QED
    BY <1>2, <2>2, <2>3
    DEF ClaimExhausted, TypeInv, TypeOK, WorkersTyped, leadVars
<1>3. CASE ClaimRefused(w)
  <2>1. WorkersTyped'
    BY <1>3, EndStep DEF ClaimRefused
  <2> QED
    BY <1>3, <2>1, OnlyStep DEF ClaimRefused, WorkerOnly, leadVars
<1>4. ASSUME NEW o \in Outcomes, NEW done \in BOOLEAN, CrmCall(w, o, done)
      PROVE  TypeInv'
  <2> DEFINE r == [wk[w] EXCEPT !.pc = "record", !.out = o]
  <2>1. wk[w].id \in SyncId /\ wk[w].ver \in 1..MaxVer
    BY <1>0, <1>4 DEF CrmCall, Good, WorkerState
  <2>2. Good(r)
    BY <1>0, <1>4, <2>1 DEF CrmCall, Good, WorkerState, PCs
  <2>3. WorkersTyped'
    BY <1>4, <2>2, SlotStep DEF CrmCall
  <2>4. crm' \subseteq SyncId /\ sent' \subseteq SyncId \X (1..MaxVer)
    BY <1>4, <2>1 DEF CrmCall, TypeInv, TypeOK
  <2> QED
    BY <1>4, <2>3, <2>4
    DEF CrmCall, TypeInv, TypeOK, WorkersTyped, leadVars
<1> QED
  BY <1>1, <1>2, <1>3, <1>4 DEF Call

LEMMA RecordTypes ==
  ASSUME TypeInv, NEW w \in Workers, Record(w)
  PROVE  TypeInv'
<1>0. Good(wk[w])
  BY WorkerType
<1>1. CASE RecordStale(w)
  <2>1. WorkersTyped'
    BY <1>1, EndStep DEF RecordStale
  <2> QED
    BY <1>1, <2>1, OnlyStep DEF RecordStale, WorkerOnly, leadVars
<1>2. CASE RecordSuccess(w)
  <2> DEFINE s == wk[w].id
             l == LeadOf(s)
             c == CompanyOf[l]
  <2>1. s \in SyncId /\ sync[s].ver \in 1..MaxVer /\ wk[w].pc # "idle"
    BY <1>0, <1>2, RecordType DEF RecordSuccess, Good
  <2>2. sync' \in [SyncId -> Sync]
    BY <1>2, <2>1, StatusType DEF RecordSuccess, Statuses
  <2>3. last' \in [Leads -> 0..MaxVer] /\ life' \in [Leads -> Lives]
        /\ discard' \in [Leads -> {"none", "pending", "effective",
                                   "not_effective"}]
    <3> HIDE DEF l, s
    <3>1. /\ last' = [last EXCEPT ![l] = sync[s].ver]
          /\ life' = [life EXCEPT ![l] = "synced"]
          /\ discard' = [discard EXCEPT ![l] = DiscardAfterSuccess(@)]
      BY <1>2 DEF RecordSuccess, l, s
    <3>2. sync[s].ver \in 0..MaxVer
      BY <2>1
    <3> QED
      BY <3>1, <3>2 DEF TypeInv, TypeOK, Lives, DiscardAfterSuccess
  <2>4. identity' \in [Companies -> Identity]
    <3> HIDE DEF c, s
    <3>1. identity' = [identity EXCEPT ![c] =
            IF ~Reserved(s) THEN @
            ELSE IF s[2] = "create" /\ wk[w].out = "followed" THEN NoIdentity
            ELSE [@ EXCEPT !.state = "active"]]
      BY <1>2 DEF RecordSuccess, c, s
    <3>2. PICK n : n = IF ~Reserved(s) THEN identity[c]
                       ELSE IF s[2] = "create" /\ wk[w].out = "followed" THEN NoIdentity
                       ELSE [identity[c] EXCEPT !.state = "active"]
      OBVIOUS
    <3>3. identity' = [identity EXCEPT ![c] = n]
      BY <3>1, <3>2
    <3>4. identity \in [Companies -> Identity]
      BY DEF TypeInv, TypeOK
    <3>5. c \in Companies => n \in Identity
      <4> SUFFICES ASSUME c \in Companies PROVE n \in Identity
        OBVIOUS
      <4>1. identity[c] \in Identity /\ NoIdentity \in Identity
        BY <3>4, NoSyncType
      <4>2. [identity[c] EXCEPT !.state = "active"] \in Identity
        BY <4>1 DEF Identity
      <4> QED
        BY <3>2, <4>1, <4>2
    <3> QED
      BY <3>3, <3>4, <3>5
  <2>5. Good(Goto(w, "writeback"))
    BY <2>1, GotoGood DEF Good
  <2>6. WorkersTyped'
    BY <1>2, <2>5, SlotStep DEF RecordSuccess
  <2> QED
    BY <1>2, <2>2, <2>3, <2>4, <2>6
    DEF RecordSuccess, TypeInv, TypeOK, WorkersTyped
<1>3. CASE RecordPermanent(w)
  <2> DEFINE s == wk[w].id
             l == LeadOf(s)
             c == CompanyOf[l]
  <2>1. s \in SyncId
    BY <1>0, <1>3 DEF RecordPermanent, Good
  <2>2. sync' \in [SyncId -> Sync]
    BY <1>3, <2>1, StatusType DEF RecordPermanent, Statuses
  <2>3. life' \in [Leads -> Lives]
        /\ discard' \in [Leads -> {"none", "pending", "effective",
                                   "not_effective"}]
    BY <1>3 DEF RecordPermanent, TypeInv, TypeOK, Lives
  <2>4. identity' \in [Companies -> Identity]
    <3> HIDE DEF c, s
    <3> DEFINE new == [identity[c] EXCEPT !.state = "failed"]
    <3>1. c \in Companies
      BY <2>1, KeyParts, CrmAssumption DEF c, s
    <3>2. new \in Identity /\ identity[c] \in Identity
      BY <3>1 DEF TypeInv, TypeOK, Identity
    <3> HIDE DEF new
    <3>3. identity' = [identity EXCEPT ![c] =
            IF s[2] = "create" /\ Reserved(s) THEN new ELSE identity[c]]
      BY <1>3, <3>1 DEF RecordPermanent, TypeInv, TypeOK, c, s, new
    <3> QED
      BY <3>1, <3>2, <3>3 DEF TypeInv, TypeOK
  <2>5. WorkersTyped'
    BY <1>3, EndStep DEF RecordPermanent
  <2> QED
    BY <1>3, <2>2, <2>3, <2>4, <2>5
    DEF RecordPermanent, TypeInv, TypeOK, WorkersTyped
<1>4. CASE RecordLostAnswer(w)
  <2>1. wk[w].id \in SyncId
    BY <1>0, <1>4 DEF RecordLostAnswer, Good
  <2>2. AfterLostAnswer(w) \in Statuses
    BY DEF AfterLostAnswer, Statuses
  <2>3. sync' \in [SyncId -> Sync]
    BY <1>4, <2>1, <2>2, StatusType DEF RecordLostAnswer
  <2>4. WorkersTyped'
    BY <1>4, EndStep DEF RecordLostAnswer
  <2> QED
    BY <1>4, <2>3, <2>4
    DEF RecordLostAnswer, IdentityKept, TypeInv, TypeOK, WorkersTyped, leadVars
<1>5. CASE WriteBack(w)
  <2>1. WorkersTyped'
    BY <1>5, IdleGood, SlotStep DEF WriteBack
  <2>2. row' \in [Leads -> [ver : 1..MaxVer, shown : Shown]]
        /\ local' \in [Leads -> Shown]
    BY <1>0, <1>5 DEF WriteBack, Good, TypeInv, TypeOK, Shown
  <2> QED
    BY <1>5, <2>1, <2>2 DEF WriteBack, TypeInv, TypeOK, WorkersTyped, leadVars
<1>6. CASE ShowAbandoned(w)
  <2>1. WorkersTyped'
    BY <1>6, IdleGood, SlotStep DEF ShowAbandoned
  <2>2. row' \in [Leads -> [ver : 1..MaxVer, shown : Shown]]
        /\ local' \in [Leads -> Shown]
    BY <1>6 DEF ShowAbandoned, TypeInv, TypeOK, Shown
  <2> QED
    BY <1>6, <2>1, <2>2
    DEF ShowAbandoned, TypeInv, TypeOK, WorkersTyped, leadVars
<1> QED
  BY <1>1, <1>2, <1>3, <1>4, <1>5, <1>6 DEF Record

LEMMA UpdateTypes ==
  ASSUME TypeInv, NEW w \in Workers, Update(w)
  PROVE  TypeInv'
<1>0. Good(wk[w])
  BY WorkerType
<1>1. CASE DiffResumes(w)
  <2>1. PICK s \in Unfinished(wk[w].lead) : GotoClaim(w, s)
    BY <1>1 DEF DiffResumes
  <2>2. s \in SyncId
    BY DEF Unfinished, SyncId
  <2>3. WorkersTyped'
    BY <1>1, <2>1, <2>2, ClaimGoto DEF DiffResumes
  <2> QED
    BY <1>1, <2>3, OnlyStep DEF DiffResumes, WorkerOnly, leadVars
<1>2. CASE DiffPasses(w)
  <2> DEFINE r == [wk[w] EXCEPT !.pc = "refreeze"]
  <2>1. Good(r)
    BY <1>0, <1>2 DEF DiffPasses, Good, WorkerState, PCs
  <2>2. WorkersTyped'
    BY <1>2, <2>1, SlotStep DEF DiffPasses
  <2> QED
    BY <1>2, <2>2, OnlyStep DEF DiffPasses, WorkerOnly, leadVars
<1>3. ASSUME NEW q \in Lives, DiffEnds(w, q)
      PROVE  TypeInv'
  <2>1. WorkersTyped'
    BY <1>3, IdleGood, SlotStep DEF DiffEnds
  <2> QED
    BY <1>3, <2>1 DEF DiffEnds, TypeInv, TypeOK, WorkersTyped
<1>4. CASE FreezeUpdate(w)
  <2> DEFINE l == wk[w].lead
             s == <<l, "update", wk[w].ver>>
             new == [NoSync EXCEPT !.status = "pending", !.ver = wk[w].ver]
  <2>1. l \in Leads /\ wk[w].ver \in 1..MaxVer
    BY <1>0, <1>4 DEF FreezeUpdate, Good, WorkerState
  <2>2. s \in SyncId
    BY <2>1, CreateKey
  <2>3. new \in Sync
    BY <2>1, NoSyncType DEF Sync, Statuses, NoSync
  <2>4. sync' \in [SyncId -> Sync] /\ newest' \in [Leads -> SyncId \cup {None}]
    <3> HIDE DEF new, s
    <3>1. \/ sync' = [sync EXCEPT ![s] = new] /\ newest' = [newest EXCEPT ![l] = s]
          \/ sync' = sync /\ newest' = newest
      BY <1>4 DEF FreezeUpdate, s, new
    <3>2. sync \in [SyncId -> Sync] /\ newest \in [Leads -> SyncId \cup {None}]
      BY DEF TypeInv, TypeOK
    <3>3. sync' \in [SyncId -> Sync]
      BY <2>2, <2>3, <3>1, <3>2
    <3>4. newest' \in [Leads -> SyncId \cup {None}]
      BY <2>2, <3>1, <3>2
    <3> QED
      BY <3>3, <3>4
  <2>5. WorkersTyped'
    BY <1>4, <2>2, ClaimGoto DEF FreezeUpdate
  <2> QED
    BY <1>4, <2>4, <2>5
    DEF FreezeUpdate, TypeInv, TypeOK, WorkersTyped, leadVars
<1>5. CASE FreezeUpdateEnds(w)
  <2>1. WorkersTyped'
    BY <1>5, IdleGood, SlotStep DEF FreezeUpdateEnds
  <2> QED
    BY <1>5, <2>1, OnlyStep DEF FreezeUpdateEnds, WorkerOnly, leadVars
<1> QED
  BY <1>1, <1>2, <1>3, <1>4, <1>5 DEF Update

(* The retry task, and people's commands. *)
LEMMA OtherTypes ==
  ASSUME TypeInv, NEW w \in Workers, Retry(w) \/ People(w)
  PROVE  TypeInv'
<1>1. ASSUME NEW s \in Creates, RetryDue(w, s)
      PROVE  TypeInv'
  <2> DEFINE r == [Idle EXCEPT !.pc = "claim", !.cmd = "retry",
                               !.lead = LeadOf(s), !.id = s]
  <2>1. s \in SyncId /\ LeadOf(s) \in Leads
    BY CreateKey, KeyParts
  <2>2. Good(r)
    BY <2>1, IdleGood DEF Good, WorkerState, PCs, Idle
  <2>3. WorkersTyped'
    BY <1>1, <2>2, SlotStep DEF RetryDue
  <2> QED
    BY <1>1, <2>3, OnlyStep DEF RetryDue, WorkerOnly, leadVars
<1>2. ASSUME NEW l \in Leads, RetryWriteBack(w, l)
      PROVE  TypeInv'
  <2> DEFINE r == [Idle EXCEPT !.pc = "writeback", !.cmd = "retry", !.lead = l]
  <2>1. Good(r)
    BY IdleGood DEF Good, WorkerState, PCs, Idle
  <2>2. WorkersTyped'
    BY <1>2, <2>1, SlotStep DEF RetryWriteBack
  <2> QED
    BY <1>2, <2>2, OnlyStep DEF RetryWriteBack, WorkerOnly, leadVars
<1>3. ASSUME NEW l \in Leads, NEW c \in Commands, StartSubmit(w, l, c)
      PROVE  TypeInv'
  <2>1. WorkersTyped'
    BY <1>3, BeginStep DEF StartSubmit
  <2> QED
    BY <1>3, <2>1, OnlyStep DEF StartSubmit, WorkerOnly, leadVars
<1>4. ASSUME NEW l \in Leads, StartUpdate(w, l)
      PROVE  TypeInv'
  <2> DEFINE r == [Idle EXCEPT !.pc = "diff", !.cmd = "update", !.lead = l,
                               !.ver = row[l].ver]
  <2>1. row[l].ver \in 1..MaxVer
    BY DEF TypeInv, TypeOK
  <2>2. Good(r)
    BY <2>1, IdleGood DEF Good, WorkerState, PCs, Idle, AllCommands
  <2>3. WorkersTyped'
    BY <1>4, <2>2, SlotStep DEF StartUpdate
  <2> QED
    BY <1>4, <2>3, OnlyStep DEF StartUpdate, WorkerOnly, leadVars
<1>5. ASSUME NEW s \in Creates, ConfirmGoOn(w, s)
      PROVE  TypeInv'
  <2> DEFINE l == LeadOf(s)
             u == <<l, "update", sync[s].ver>>
             c == CompanyOf[l]
             r == [Idle EXCEPT !.pc = "claim", !.cmd = "confirm", !.lead = l,
                               !.id = u]
             new == [sync[s] EXCEPT !.status = "pending"]
  <2>1. s \in SyncId /\ l \in Leads /\ sync[s].ver \in 1..MaxVer
        /\ sync[s] \in Sync
    BY CreateKey, KeyParts, RecordType
  <2>2. u \in SyncId /\ c \in Companies
    BY <2>1, CreateKey, CrmAssumption
  <2>3. new \in Sync
    BY <2>1 DEF Sync, Statuses
  <2>4. Good(r)
    BY <2>1, <2>2, IdleGood DEF Good, WorkerState, PCs, Idle, AllCommands
  <2>5. WorkersTyped'
    BY <1>5, <2>4, SlotStep DEF ConfirmGoOn
  <2> HIDE DEF l, u, c, new
  <2>6. sync' \in [SyncId -> Sync]
    <3>1. sync' = [sync EXCEPT ![s] = NoSync, ![u] = new]
      BY <1>5 DEF ConfirmGoOn, l, u, new
    <3> QED
      BY <2>1, <2>2, <2>3, <3>1, NoSyncType DEF TypeInv, TypeOK
  <2>7. newest' \in [Leads -> SyncId \cup {None}]
    <3>1. newest' = [newest EXCEPT ![l] = IF @ = s THEN u ELSE @]
      BY <1>5 DEF ConfirmGoOn, l, u
    <3> QED
      BY <2>1, <2>2, <3>1 DEF TypeInv, TypeOK
  <2>8. identity' \in [Companies -> Identity]
    <3> DEFINE i == [identity[c] EXCEPT !.sync = IF @ = s THEN u ELSE @]
    <3>1. i \in Identity
      BY <2>2 DEF TypeInv, TypeOK, Identity
    <3>2. identity' = [identity EXCEPT ![c] = i]
      BY <1>5, <2>2 DEF ConfirmGoOn, TypeInv, TypeOK, c, l, u
    <3> HIDE DEF i
    <3> QED
      BY <2>2, <3>1, <3>2 DEF TypeInv, TypeOK
  <2> QED
    BY <1>5, <2>5, <2>6, <2>7, <2>8
    DEF ConfirmGoOn, TypeInv, TypeOK, WorkersTyped, leadVars
<1>6. ASSUME NEW s \in Creates, ConfirmStop(w, s)
      PROVE  TypeInv'
  <2> DEFINE l == LeadOf(s)
             c == CompanyOf[l]
             r == [Idle EXCEPT !.pc = "stop", !.lead = l]
  <2>1. s \in SyncId /\ l \in Leads
    BY CreateKey, KeyParts
  <2>2. Good(r)
    BY <2>1, IdleGood DEF Good, WorkerState, PCs, Idle
  <2>3. WorkersTyped'
    BY <1>6, <2>2, SlotStep DEF ConfirmStop
  <2>4. sync' \in [SyncId -> Sync]
    BY <1>6, <2>1, StatusType DEF ConfirmStop, Statuses
  <2> HIDE DEF c
  <2>5. identity' \in [Companies -> Identity]
    <3>1. identity' = [identity EXCEPT ![c] =
            IF Reserved(s) /\ @.state = "reserving" THEN NoIdentity ELSE @]
      BY <1>6 DEF ConfirmStop, c
    <3> QED
      BY <3>1, NoSyncType DEF TypeInv, TypeOK
  <2> QED
    BY <1>6, <2>3, <2>4, <2>5
    DEF ConfirmStop, TypeInv, TypeOK, WorkersTyped, leadVars
<1> QED
  BY <1>1, <1>2, <1>3, <1>4, <1>5, <1>6 DEF Retry, People

(* Crashes and failed write-backs, and commands delivered again. *)
LEMMA FaultTypes ==
  ASSUME TypeInv, NEW w \in Workers,
         \/ Faults(w)
         \/ \E l \in Leads, c \in Commands : Redeliver(w, l, c)
  PROVE  TypeInv'
<1>0. Good(wk[w])
  BY WorkerType
<1>1. CASE WorkerCrash(w)
  <2>1. WorkersTyped'
    BY <1>1, IdleGood, SlotStep DEF WorkerCrash
  <2>2. owed' \subseteq Leads \X AllCommands
    BY <1>0, <1>1 DEF WorkerCrash, Good, TypeInv, TypeOK, AllCommands
  <2>3. faults' \in 0..MaxFaults
    BY <1>1, FaultType DEF WorkerCrash
  <2> QED
    BY <1>1, <2>1, <2>2, <2>3
    DEF WorkerCrash, TypeInv, TypeOK, WorkersTyped, leadVars
<1>2. ASSUME NEW remote \in BOOLEAN, WriteBackFails(w, remote)
      PROVE  TypeInv'
  <2>1. WorkersTyped'
    BY <1>2, IdleGood, SlotStep DEF WriteBackFails
  <2>2. row' \in [Leads -> [ver : 1..MaxVer, shown : Shown]]
        /\ local' \in [Leads -> Shown]
    BY <1>0, <1>2
    DEF WriteBackFails, ProjectionAfterFailure, Good, TypeInv, TypeOK, Shown
  <2>3. faults' \in 0..MaxFaults
    BY <1>2, FaultType DEF WriteBackFails
  <2> QED
    BY <1>2, <2>1, <2>2, <2>3
    DEF WriteBackFails, TypeInv, TypeOK, WorkersTyped, leadVars
<1>3. ASSUME NEW l \in Leads, NEW c \in Commands, Redeliver(w, l, c)
      PROVE  TypeInv'
  <2>1. WorkersTyped'
    BY <1>3, BeginStep DEF Redeliver
  <2>2. owed' \subseteq Leads \X AllCommands
    BY <1>3 DEF Redeliver, TypeInv, TypeOK
  <2> QED
    BY <1>3, <2>1, <2>2 DEF Redeliver, TypeInv, TypeOK, WorkersTyped, leadVars
<1> QED
  BY <1>1, <1>2, <1>3 DEF Faults

(* Steps that no worker takes. *)
LEMMA OutsideTypes ==
  ASSUME TypeInv,
         \/ \E s \in SyncId : LeaseRunsOut(s)
         \/ \E l \in Leads : Discard(l) \/ \E v \in 1..MaxVer : Edit(l, v)
         \/ UNCHANGED vars
  PROVE  TypeInv'
<1>1. ASSUME NEW s \in SyncId, LeaseRunsOut(s)
      PROVE  TypeInv'
  <2> DEFINE n == [sync[s] EXCEPT !.expired = TRUE]
  <2>a. sync \in [SyncId -> Sync] /\ sync' = [sync EXCEPT ![s] = n]
    BY <1>1 DEF LeaseRunsOut, TypeInv, TypeOK
  <2>b. n \in Sync
    BY <2>a DEF Sync
  <2> HIDE DEF n
  <2>1. sync' \in [SyncId -> Sync]
    BY <2>a, <2>b
  <2>2. faults' \in 0..MaxFaults
    BY <1>1, FaultType DEF LeaseRunsOut, TypeInv, TypeOK
  <2> QED
    BY <1>1, <2>1, <2>2
    DEF LeaseRunsOut, TypeInv, TypeOK, WorkersTyped, leadVars
<1>2. ASSUME NEW l \in Leads, Discard(l)
      PROVE  TypeInv'
  <2>1. /\ discard' \in [Leads -> {"none", "pending", "effective",
                                   "not_effective"}]
        /\ life' \in [Leads -> Lives]
    BY <1>2 DEF Discard, TypeInv, TypeOK, Lives
  <2>2. identity' \in [Companies -> Identity]
    BY <1>2, NoSyncType DEF Discard, TypeInv, TypeOK
  <2> QED
    BY <1>2, <2>1, <2>2 DEF Discard, TypeInv, TypeOK, WorkersTyped
<1>3. ASSUME NEW l \in Leads, NEW v \in 1..MaxVer, Edit(l, v)
      PROVE  TypeInv'
  <2>1. row' \in [Leads -> [ver : 1..MaxVer, shown : Shown]]
    BY <1>3 DEF Edit, TypeInv, TypeOK
  <2> QED
    BY <1>3, <2>1 DEF Edit, TypeInv, TypeOK, WorkersTyped, leadVars
<1>4. CASE UNCHANGED vars
  BY <1>4 DEF vars, leadVars, TypeInv, TypeOK, WorkersTyped
<1> QED
  BY <1>1, <1>2, <1>3, <1>4

LEMMA TypeInit == Init => TypeInv
<1> SUFFICES ASSUME Init
             PROVE  TypeInv
  OBVIOUS
<1>1. PICK L \in SUBSET Legacy :
        /\ sync = [s \in SyncId |->
                     IF s[2] = "create" /\ s[3] = 1 /\ LeadOf(s) \in L
                       THEN [NoSync EXCEPT !.status = "awaiting"] ELSE NoSync]
        /\ newest = [l \in Leads |-> IF l \in L THEN <<l, "create", 1>> ELSE None]
        /\ identity = [c \in Companies |-> LegacyIdentity(L, c)]
  BY DEF Init
<1>2. L \subseteq Leads /\ 1 \in 1..MaxGen /\ 1 \in 1..MaxVer
  BY CrmAssumption
<1>3. [NoSync EXCEPT !.status = "awaiting"] \in Sync
  BY NoSyncType DEF Sync, Statuses
<1>4. sync \in [SyncId -> Sync]
  BY <1>1, <1>3, NoSyncType
<1>5. newest \in [Leads -> SyncId \cup {None}]
  BY <1>1, <1>2, CreateKey
<1>6. ASSUME NEW c \in Companies
      PROVE  LegacyIdentity(L, c) \in Identity
  <2>1. CASE \E l \in L : CompanyOf[l] = c
    <3> DEFINE k == CHOOSE x \in L : CompanyOf[x] = c
    <3>1. k \in Leads
      BY <1>2, <2>1
    <3>2. <<k, "create", 1>> \in SyncId
      BY <1>2, <3>1, CreateKey
    <3> HIDE DEF k
    <3>3. LegacyIdentity(L, c)
            = [state |-> "reserving", lead |-> k, sync |-> <<k, "create", 1>>]
      BY <2>1 DEF LegacyIdentity, k
    <3> QED
      BY <3>1, <3>2, <3>3 DEF Identity
  <2>2. CASE ~\E l \in L : CompanyOf[l] = c
    BY <2>2, NoSyncType DEF LegacyIdentity
  <2> QED
    BY <2>1, <2>2
<1>7. identity \in [Companies -> Identity]
  BY <1>1, <1>6
<1>8. /\ last \in [Leads -> 0..MaxVer]
      /\ life \in [Leads -> Lives]
      /\ discard \in [Leads -> {"none", "pending", "effective", "not_effective"}]
      /\ row \in [Leads -> [ver : 1..MaxVer, shown : Shown]]
      /\ local \in [Leads -> Shown]
      /\ crm \subseteq SyncId /\ sent \subseteq SyncId \X (1..MaxVer)
      /\ owed \subseteq Leads \X AllCommands /\ faults \in 0..MaxFaults
  BY <1>2, CrmAssumption DEF Init, Lives, Shown
<1>9. WorkersTyped
  BY IdleGood DEF Init, WorkersTyped, Good
<1> QED
  BY <1>4, <1>5, <1>7, <1>8, <1>9 DEF TypeInv, TypeOK, WorkersTyped

LEMMA TypeStep ==
  ASSUME TypeInv, [Next]_vars
  PROVE  TypeInv'
<1>1. ASSUME NEW w \in Workers, WorkerStep(w)
      PROVE  TypeInv'
  BY <1>1, SubmitTypes, UpdateTypes, CallTypes, RecordTypes DEF WorkerStep
<1>2. ASSUME NEW w \in Workers, Retry(w) \/ People(w)
      PROVE  TypeInv'
  BY <1>2, OtherTypes
<1>3. ASSUME NEW w \in Workers,
             \/ Faults(w)
             \/ \E l \in Leads, c \in Commands : Redeliver(w, l, c)
      PROVE  TypeInv'
  BY <1>3, FaultTypes
<1> QED
  BY <1>1, <1>2, <1>3, OutsideTypes DEF Next

(* Every variable of the submission service keeps its type, and a worker   *)
(* in the middle of an operation knows its lead and its record.            *)
THEOREM CrmTypeCorrect == Spec => [](TypeOK /\ WorkersTyped)
<1>1. TypeInv /\ [Next]_vars => TypeInv'
  BY TypeStep
<1> QED
  BY <1>1, TypeInit, PTL DEF Spec, TypeInv

-----------------------------------------------------------------------------
(* Claims and payloads *)

(* The inductive invariant.  A record nobody has claimed has no attempts; a *)
(* claim is numbered by one of its record's attempts and no two claims of   *)
(* one record have the same number; a worker about to call holds the        *)
(* record's payload; and what has been sent under a key is the payload of a *)
(* record that was claimed, which no step changes any more.                 *)
Holds(v) == wk[v].pc \in {"call", "record"}

UnclaimedIsFresh ==
  \A s \in SyncId :
    sync[s].status \in {"absent", "awaiting"} => sync[s].attempts = 0

ClaimsNumbered ==
  \A v \in Workers :
    Holds(v) => wk[v].att # 0 /\ wk[v].att <= sync[wk[v].id].attempts

ClaimsDistinct ==
  \A v, x \in Workers :
    /\ Holds(v) /\ Holds(x)
    /\ wk[v].id = wk[x].id /\ wk[v].att = wk[x].att
    => v = x

CallsFrozen ==
  \A v \in Workers : wk[v].pc = "call" => wk[v].ver = sync[wk[v].id].ver

SentFrozen ==
  \A p \in sent : sync[p[1]].attempts # 0 /\ sync[p[1]].ver = p[2]

ClaimInv ==
  /\ UnclaimedIsFresh /\ ClaimsNumbered /\ ClaimsDistinct
  /\ CallsFrozen /\ SentFrozen

(* What every step but a claim does to the records: attempts stay, so does *)
(* the payload of a claimed record, and a success is left alone.           *)
SyncQuiet ==
  \A s \in SyncId :
    /\ sync'[s].attempts = sync[s].attempts
    /\ sync[s].attempts # 0 => sync'[s].ver = sync[s].ver
    /\ sync'[s].status \in {"absent", "awaiting"} => sync'[s].attempts = 0
    /\ sync[s].status = "succeeded" => sync'[s] = sync[s]

(* No worker comes to hold a claim. *)
WorkersQuiet ==
  \A v \in Workers : wk'[v].pc \in {"call", "record"} => wk'[v] = wk[v]

Quiet == SyncQuiet /\ WorkersQuiet /\ sent' = sent

LEMMA QuietKeeps ==
  ASSUME TypeInv, TypeInv', ClaimInv, Quiet
  PROVE  ClaimInv'
<1>1. ASSUME NEW v \in Workers, Holds(v)'
      PROVE  wk'[v] = wk[v] /\ Holds(v) /\ wk[v].id \in SyncId
  BY <1>1, WorkerType DEF Quiet, WorkersQuiet, Holds, Good
<1>2. UnclaimedIsFresh'
  BY DEF Quiet, SyncQuiet, UnclaimedIsFresh
<1>3. ClaimsNumbered'
  BY <1>1 DEF Quiet, SyncQuiet, ClaimInv, ClaimsNumbered
<1>4. ClaimsDistinct'
  BY <1>1 DEF ClaimInv, ClaimsDistinct
<1>5. CallsFrozen'
  <2> SUFFICES ASSUME NEW v \in Workers, wk'[v].pc = "call"
               PROVE  wk'[v].ver = sync'[wk'[v].id].ver
    BY DEF CallsFrozen
  <2>1. wk'[v] = wk[v] /\ Holds(v) /\ wk[v].id \in SyncId
    BY <1>1 DEF Holds
  <2>2. sync[wk[v].id].attempts # 0
    BY <2>1, RecordType, WorkerType
    DEF ClaimInv, ClaimsNumbered, Good, WorkerState
  <2> QED
    BY <2>1, <2>2 DEF Quiet, SyncQuiet, ClaimInv, CallsFrozen
<1>6. SentFrozen'
  BY DEF Quiet, SyncQuiet, ClaimInv, SentFrozen, TypeInv, TypeOK
<1> QED
  BY <1>2, <1>3, <1>4, <1>5, <1>6 DEF ClaimInv

LEMMA QuietSame ==
  ASSUME ClaimInv, sync' = sync
  PROVE  SyncQuiet
BY DEF ClaimInv, UnclaimedIsFresh, SyncQuiet

LEMMA QuietStatus ==
  ASSUME TypeInv, ClaimInv, NEW s \in SyncId,
         NEW q \in Statuses \ {"absent", "awaiting"},
         sync[s].status # "succeeded", sync' = SetStatus(s, q)
  PROVE  SyncQuiet
BY DEF TypeInv, TypeOK, Sync, ClaimInv, UnclaimedIsFresh, SyncQuiet, SetStatus

LEMMA QuietNew ==
  ASSUME TypeInv, ClaimInv, NEW s \in SyncId, sync[s].status = "absent",
         NEW v \in 1..MaxVer,
         sync' = [sync EXCEPT ![s] = [NoSync EXCEPT !.status = "pending",
                                                    !.ver = v]]
  PROVE  SyncQuiet
<1> DEFINE new == [NoSync EXCEPT !.status = "pending", !.ver = v]
<1>1. new.status = "pending" /\ new.attempts = 0
  BY DEF NoSync
<1>2. sync[s].attempts = 0
  BY DEF ClaimInv, UnclaimedIsFresh
<1> HIDE DEF new
<1>3. \A t \in SyncId : sync'[t] = IF t = s THEN new ELSE sync[t]
  BY DEF TypeInv, TypeOK, new
<1> QED
  BY <1>1, <1>2, <1>3 DEF ClaimInv, UnclaimedIsFresh, SyncQuiet

LEMMA QuietSlot ==
  ASSUME TypeInv, NEW w \in Workers, NEW r, r.pc \notin {"call", "record"},
         wk' = [wk EXCEPT ![w] = r]
  PROVE  WorkersQuiet
BY DEF TypeInv, WorkersTyped, WorkersQuiet

LEMMA QuietEnd ==
  ASSUME TypeInv, NEW w \in Workers, wk[w].pc # "idle", End(w)
  PROVE  WorkersQuiet
<1> DEFINE r == IF Deferred(wk[w].cmd) THEN Goto(w, "writeback") ELSE Idle
<1>1. r.pc \notin {"call", "record"}
  BY GotoGood, IdleGood
<1>2. wk' = [wk EXCEPT ![w] = r]
  BY DEF End
<1> QED
  BY <1>1, <1>2, QuietSlot

LEMMA QuietGoto ==
  ASSUME TypeInv, NEW w \in Workers, wk[w].pc # "idle", NEW s, GotoClaim(w, s)
  PROVE  WorkersQuiet
<1> DEFINE r == [Goto(w, "claim") EXCEPT !.id = s]
<1>1. Goto(w, "claim") \in WorkerState /\ Goto(w, "claim").pc = "claim"
  BY GotoGood
<1>2. r.pc = "claim"
  BY <1>1 DEF WorkerState
<1>3. wk' = [wk EXCEPT ![w] = r]
  BY DEF GotoClaim
<1> QED
  BY <1>2, <1>3, QuietSlot

(* The key of a new create generation is not in use. *)
LEMMA NewKeyIsFresh ==
  ASSUME TypeInv, NEW w \in Workers, wk[w].lead \in Leads, Freezable(w),
         <<wk[w].lead, "create", NextGeneration(wk[w].lead)>> \in Creates
  PROVE  sync[<<wk[w].lead, "create",
                NextGeneration(wk[w].lead)>>].status = "absent"
<1> DEFINE l == wk[w].lead
           s == <<l, "create", NextGeneration(l)>>
<1> SUFFICES ASSUME sync[s].status # "absent"
             PROVE  FALSE
  OBVIOUS
<1>1. s \in LiveCreates(l)
  BY DEF LiveCreates, LeadOf
<1>2. \E t \in LiveCreates(l) : IsLatest(l, t)
  BY <1>1 DEF Freezable, Fresh, LatestStatus
<1> DEFINE m == CHOOSE t \in LiveCreates(l) : IsLatest(l, t)
<1>3. m \in LiveCreates(l) /\ IsLatest(l, m)
  BY <1>2
<1>4. NextGeneration(l) = m[3] + 1
  BY <1>1 DEF NextGeneration
<1>5. m[3] \in Nat
  BY <1>3 DEF LiveCreates, Creates
<1>6. s[3] <= m[3]
  BY <1>1, <1>3 DEF IsLatest
<1> HIDE DEF m
<1> QED
  BY <1>4, <1>5, <1>6

LEMMA QuietBegin ==
  ASSUME TypeInv, NEW w \in Workers, NEW l \in Leads, NEW c \in Commands,
         Begin(w, l, c)
  PROVE  WorkersQuiet
<1> DEFINE r == [Idle EXCEPT !.pc = "check", !.cmd = c, !.lead = l,
                             !.ver = row[l].ver, !.shown = row[l].shown]
<1>1. r.pc = "check"
  BY DEF Idle
<1> QED
  BY <1>1, QuietSlot DEF Begin

(* Every step of a worker but a claim and a call is quiet. *)
LEMMA SubmitQuiet ==
  ASSUME TypeInv, ClaimInv, NEW w \in Workers, Submit(w)
  PROVE  Quiet
<1>0. Good(wk[w])
  BY WorkerType
<1>1. CASE CheckResumes(w)
  BY <1>1, QuietSame, QuietGoto DEF CheckResumes, Quiet
<1>2. CASE CheckPasses(w)
  <2> DEFINE r == [wk[w] EXCEPT !.pc = "freeze"]
  <2>1. r.pc = "freeze"
    BY <1>0 DEF Good, WorkerState
  <2>2. WorkersQuiet
    BY <1>2, <2>1, QuietSlot DEF CheckPasses
  <2> QED
    BY <1>2, <2>2, QuietSame DEF CheckPasses, Quiet
<1>3. CASE CheckEnds(w)
  BY <1>3, QuietSame, QuietEnd DEF CheckEnds, Quiet
<1>4. CASE Freeze(w)
  <2> DEFINE s == <<wk[w].lead, "create", NextGeneration(wk[w].lead)>>
  <2>1. wk[w].lead \in Leads /\ wk[w].ver \in 1..MaxVer /\ s \in SyncId
    BY <1>0, <1>4, CreateKey DEF Freeze, Good, WorkerState
  <2>2. sync[s].status = "absent"
    BY <1>4, <2>1, NewKeyIsFresh DEF Freeze
  <2>3. SyncQuiet
    BY <1>4, <2>1, <2>2, QuietNew DEF Freeze
  <2> QED
    BY <1>4, <2>3, QuietGoto DEF Freeze, Quiet
<1>5. CASE FreezeEnds(w)
  BY <1>5, QuietSame, QuietEnd DEF FreezeEnds, Quiet
<1> QED
  BY <1>1, <1>2, <1>3, <1>4, <1>5 DEF Submit

LEMMA UpdateQuiet ==
  ASSUME TypeInv, ClaimInv, NEW w \in Workers, Update(w)
  PROVE  Quiet
<1>0. Good(wk[w])
  BY WorkerType
<1>1. CASE DiffResumes(w)
  BY <1>1, QuietSame, QuietGoto DEF DiffResumes, Quiet
<1>2. CASE DiffPasses(w)
  <2> DEFINE r == [wk[w] EXCEPT !.pc = "refreeze"]
  <2>1. r.pc = "refreeze"
    BY <1>0 DEF Good, WorkerState
  <2>2. WorkersQuiet
    BY <1>2, <2>1, QuietSlot DEF DiffPasses
  <2> QED
    BY <1>2, <2>2, QuietSame DEF DiffPasses, Quiet
<1>3. ASSUME NEW q \in Lives, DiffEnds(w, q)
      PROVE  Quiet
  BY <1>3, QuietSame, QuietSlot, IdleGood DEF DiffEnds, Quiet
<1>4. CASE FreezeUpdate(w)
  <2> DEFINE s == <<wk[w].lead, "update", wk[w].ver>>
  <2>1. wk[w].ver \in 1..MaxVer /\ s \in SyncId
    BY <1>0, <1>4, CreateKey DEF FreezeUpdate, Good, WorkerState
  <2>2. CASE sync[s].status = "absent"
    BY <1>4, <2>1, <2>2, QuietNew, QuietGoto DEF FreezeUpdate, Quiet
  <2>3. CASE sync[s].status # "absent"
    BY <1>4, <2>3, QuietSame, QuietGoto DEF FreezeUpdate, Quiet
  <2> QED
    BY <2>2, <2>3
<1>5. CASE FreezeUpdateEnds(w)
  BY <1>5, QuietSame, QuietSlot, IdleGood DEF FreezeUpdateEnds, Quiet
<1> QED
  BY <1>1, <1>2, <1>3, <1>4, <1>5 DEF Update

LEMMA RecordQuiet ==
  ASSUME TypeInv, ClaimInv, NEW w \in Workers,
         Record(w) \/ ClaimExhausted(w) \/ ClaimRefused(w)
  PROVE  Quiet
<1>0. wk[w].pc \in {"claim", "record"} => wk[w].id \in SyncId
  BY WorkerType DEF Good
<1>1. CASE RecordStale(w)
  BY <1>1, QuietSame, QuietEnd DEF RecordStale, Quiet
<1>2. CASE RecordSuccess(w)
  <2>1. SyncQuiet
    BY <1>0, <1>2, QuietStatus DEF RecordSuccess, ClaimIsCurrent, Statuses
  <2>2. WorkersQuiet
    BY <1>2, QuietSlot, GotoGood DEF RecordSuccess
  <2> QED
    BY <1>2, <2>1, <2>2 DEF RecordSuccess, Quiet
<1>3. CASE RecordPermanent(w)
  <2>1. SyncQuiet
    BY <1>0, <1>3, QuietStatus DEF RecordPermanent, ClaimIsCurrent, Statuses
  <2> QED
    BY <1>3, <2>1, QuietEnd DEF RecordPermanent, Quiet
<1>4. CASE RecordLostAnswer(w)
  <2>1. AfterLostAnswer(w) \in Statuses \ {"absent", "awaiting"}
    BY DEF AfterLostAnswer, Statuses
  <2>2. SyncQuiet
    BY <1>0, <1>4, <2>1, QuietStatus DEF RecordLostAnswer, ClaimIsCurrent
  <2> QED
    BY <1>4, <2>2, QuietEnd DEF RecordLostAnswer, Quiet
<1>5. CASE WriteBack(w)
  BY <1>5, QuietSame, QuietSlot, IdleGood DEF WriteBack, Quiet
<1>6. CASE ShowAbandoned(w)
  BY <1>6, QuietSame, QuietSlot, IdleGood DEF ShowAbandoned, Quiet
<1>7. CASE ClaimExhausted(w)
  <2>1. sync[wk[w].id].status # "succeeded"
    BY <1>7 DEF ClaimExhausted, MayClaim, Claimable, LeaseExpired
  <2>2. SyncQuiet
    BY <1>0, <1>7, <2>1, QuietStatus DEF ClaimExhausted, Statuses
  <2> QED
    BY <1>7, <2>2, QuietEnd DEF ClaimExhausted, Quiet
<1>8. CASE ClaimRefused(w)
  BY <1>8, QuietSame, QuietEnd DEF ClaimRefused, Quiet
<1> QED
  BY <1>1, <1>2, <1>3, <1>4, <1>5, <1>6, <1>7, <1>8 DEF Record

LEMMA OtherQuiet ==
  ASSUME TypeInv, ClaimInv, NEW w \in Workers, Retry(w) \/ People(w)
  PROVE  Quiet
<1>1. ASSUME NEW s \in Creates, RetryDue(w, s)
      PROVE  Quiet
  <2> DEFINE r == [Idle EXCEPT !.pc = "claim", !.cmd = "retry",
                               !.lead = LeadOf(s), !.id = s]
  <2>1. r.pc = "claim"
    BY DEF Idle
  <2>2. WorkersQuiet
    BY <1>1, <2>1, QuietSlot DEF RetryDue
  <2> QED
    BY <1>1, <2>2, QuietSame DEF RetryDue, Quiet
<1>2. ASSUME NEW l \in Leads, RetryWriteBack(w, l)
      PROVE  Quiet
  <2> DEFINE r == [Idle EXCEPT !.pc = "writeback", !.cmd = "retry", !.lead = l]
  <2>1. r.pc = "writeback"
    BY DEF Idle
  <2>2. WorkersQuiet
    BY <1>2, <2>1, QuietSlot DEF RetryWriteBack
  <2> QED
    BY <1>2, <2>2, QuietSame DEF RetryWriteBack, Quiet
<1>3. ASSUME NEW l \in Leads, NEW c \in Commands, StartSubmit(w, l, c)
      PROVE  Quiet
  <2>1. WorkersQuiet
    BY <1>3, QuietBegin DEF StartSubmit
  <2> QED
    BY <1>3, <2>1, QuietSame DEF StartSubmit, Quiet
<1>4. ASSUME NEW l \in Leads, StartUpdate(w, l)
      PROVE  Quiet
  <2> DEFINE r == [Idle EXCEPT !.pc = "diff", !.cmd = "update", !.lead = l,
                               !.ver = row[l].ver]
  <2>1. r.pc = "diff"
    BY DEF Idle
  <2>2. WorkersQuiet
    BY <1>4, <2>1, QuietSlot DEF StartUpdate
  <2> QED
    BY <1>4, <2>2, QuietSame DEF StartUpdate, Quiet
<1>5. ASSUME NEW s \in Creates, ConfirmGoOn(w, s)
      PROVE  Quiet
  <2> DEFINE l == LeadOf(s)
             u == <<l, "update", sync[s].ver>>
             r == [Idle EXCEPT !.pc = "claim", !.cmd = "confirm", !.lead = l,
                               !.id = u]
             new == [sync[s] EXCEPT !.status = "pending"]
  <2>1. s \in SyncId /\ u \in SyncId
    BY CreateKey, KeyParts, RecordType
  <2>2. sync[s].status = "awaiting" /\ sync[u].status = "absent"
    BY <1>5 DEF ConfirmGoOn
  <2>3. sync[s].attempts = 0 /\ sync[u].attempts = 0
    BY <2>1, <2>2 DEF ClaimInv, UnclaimedIsFresh
  <2>4. new.attempts = 0 /\ new.status = "pending" /\ NoSync.attempts = 0
    BY <2>1, <2>3, RecordType DEF Sync, NoSync
  <2>5. r.pc = "claim"
    BY DEF Idle
  <2>6. WorkersQuiet
    BY <1>5, <2>5, QuietSlot DEF ConfirmGoOn
  <2>7. sync' = [sync EXCEPT ![s] = NoSync, ![u] = new]
    BY <1>5 DEF ConfirmGoOn
  <2> HIDE DEF u, new
  <2>8. \A t \in SyncId :
          sync'[t] = IF t = u THEN new ELSE IF t = s THEN NoSync ELSE sync[t]
    BY <2>1, <2>7 DEF TypeInv, TypeOK
  <2>9. SyncQuiet
    BY <2>2, <2>3, <2>4, <2>8 DEF SyncQuiet, ClaimInv, UnclaimedIsFresh
  <2> QED
    BY <1>5, <2>6, <2>9 DEF ConfirmGoOn, Quiet
<1>6. ASSUME NEW s \in Creates, ConfirmStop(w, s)
      PROVE  Quiet
  <2> DEFINE r == [Idle EXCEPT !.pc = "stop", !.lead = LeadOf(s)]
  <2>1. r.pc = "stop"
    BY DEF Idle
  <2>2. WorkersQuiet
    BY <1>6, <2>1, QuietSlot DEF ConfirmStop
  <2>3. SyncQuiet
    BY <1>6, CreateKey, QuietStatus DEF ConfirmStop, Statuses
  <2> QED
    BY <1>6, <2>2, <2>3 DEF ConfirmStop, Quiet
<1> QED
  BY <1>1, <1>2, <1>3, <1>4, <1>5, <1>6 DEF Retry, People

LEMMA OutsideQuiet ==
  ASSUME TypeInv, ClaimInv,
         \/ \E w \in Workers :
              \/ Faults(w)
              \/ \E l \in Leads, c \in Commands : Redeliver(w, l, c)
         \/ \E s \in SyncId : LeaseRunsOut(s)
         \/ \E l \in Leads : Discard(l) \/ \E v \in 1..MaxVer : Edit(l, v)
         \/ UNCHANGED vars
  PROVE  Quiet
<1>1. ASSUME NEW w \in Workers, Faults(w)
      PROVE  Quiet
  BY <1>1, QuietSame, QuietSlot, IdleGood
  DEF Faults, WorkerCrash, WriteBackFails, Quiet
<1>2. ASSUME NEW w \in Workers, NEW l \in Leads, NEW c \in Commands,
             Redeliver(w, l, c)
      PROVE  Quiet
  <2>1. WorkersQuiet
    BY <1>2, QuietBegin DEF Redeliver
  <2> QED
    BY <1>2, <2>1, QuietSame DEF Redeliver, Quiet
<1>3. ASSUME wk' = wk
      PROVE  WorkersQuiet
  BY <1>3 DEF WorkersQuiet
<1>4. ASSUME NEW s \in SyncId, LeaseRunsOut(s)
      PROVE  Quiet
  <2>1. SyncQuiet
    BY <1>4
    DEF LeaseRunsOut, TypeInv, TypeOK, Sync, ClaimInv, UnclaimedIsFresh, SyncQuiet
  <2> QED
    BY <1>3, <1>4, <2>1 DEF LeaseRunsOut, Quiet
<1>5. ASSUME NEW l \in Leads, Discard(l) \/ \E v \in 1..MaxVer : Edit(l, v)
      PROVE  Quiet
  BY <1>3, <1>5, QuietSame DEF Discard, Edit, Quiet
<1>6. CASE UNCHANGED vars
  BY <1>3, <1>6, QuietSame DEF vars, Quiet
<1> QED
  BY <1>1, <1>2, <1>4, <1>5, <1>6

(* A claim takes the next number of its record and leaves the payload. *)
LEMMA ClaimKeeps ==
  ASSUME TypeInv, TypeInv', ClaimInv, NEW w \in Workers, Claim(w)
  PROVE  /\ ClaimInv'
         /\ \A s \in SyncId :
              sync[s].status = "succeeded" => sync'[s] = sync[s]
<1> DEFINE s == wk[w].id
           n == sync[s].attempts + 1
<1>1. s \in SyncId /\ sync[s].attempts \in Nat /\ sync[s] \in Sync
  BY WorkerType, RecordType DEF Claim, Good
<1>2. /\ \A t \in SyncId : t # s => sync'[t] = sync[t]
      /\ sync'[s].status = "processing" /\ sync'[s].attempts = n
      /\ sync'[s].ver = sync[s].ver
  BY <1>1 DEF Claim, NextAttempt, TypeInv, TypeOK, Sync
<1>3. /\ \A v \in Workers : v # w => wk'[v] = wk[v]
      /\ wk'[w].pc = "call" /\ wk'[w].id = s /\ wk'[w].att = n
      /\ wk'[w].ver = sync[s].ver
  BY <1>1, WorkerType
  DEF Claim, NextAttempt, FrozenPayload, TypeInv, TypeOK, Good, WorkerState
<1>4. sent' = sent /\ sync[s].status # "succeeded"
  BY DEF Claim, MayClaim, Claimable, LeaseExpired
<1> HIDE DEF s, n
<1>5. n \in Nat /\ n # 0 /\ n > sync[s].attempts
  BY <1>1 DEF n
<1>6. ASSUME NEW v \in Workers, v # w, Holds(v)'
      PROVE  /\ Holds(v) /\ wk[v].id \in SyncId
             /\ wk[v].att \in Nat /\ wk[v].att # 0
             /\ wk[v].att <= sync[wk[v].id].attempts
  BY <1>3, <1>6, WorkerType
  DEF Holds, ClaimInv, ClaimsNumbered, Good, WorkerState
<1>7. UnclaimedIsFresh'
  BY <1>2 DEF ClaimInv, UnclaimedIsFresh
<1>8. ClaimsNumbered'
  <2> SUFFICES ASSUME NEW v \in Workers, Holds(v)'
               PROVE  wk'[v].att # 0 /\ wk'[v].att <= sync'[wk'[v].id].attempts
    BY DEF ClaimsNumbered
  <2>1. CASE v = w
    BY <1>2, <1>3, <1>5, <2>1
  <2>2. CASE v # w
    BY <1>1, <1>2, <1>3, <1>5, <1>6, <2>2
  <2> QED
    BY <2>1, <2>2
<1>9. ClaimsDistinct'
  <2>1. ASSUME NEW v \in Workers, v # w, Holds(v)', wk'[v].id = s
        PROVE  wk'[v].att # n
    BY <1>1, <1>3, <1>5, <1>6, <2>1
  <2>2. ASSUME NEW v \in Workers, NEW x \in Workers, v # w, x # w,
               Holds(v)', Holds(x)', wk'[v].id = wk'[x].id,
               wk'[v].att = wk'[x].att
        PROVE  v = x
    BY <1>3, <1>6, <2>2 DEF ClaimInv, ClaimsDistinct
  <2> QED
    BY <1>3, <2>1, <2>2 DEF ClaimsDistinct
<1>10. CallsFrozen'
  <2> SUFFICES ASSUME NEW v \in Workers, wk'[v].pc = "call"
               PROVE  wk'[v].ver = sync'[wk'[v].id].ver
    BY DEF CallsFrozen
  <2>1. CASE v = w
    BY <1>2, <1>3, <2>1
  <2>2. CASE v # w
    BY <1>2, <1>3, <1>6, <2>2 DEF Holds, ClaimInv, CallsFrozen
  <2> QED
    BY <2>1, <2>2
<1>11. SentFrozen'
  <2> SUFFICES ASSUME NEW p \in sent
               PROVE  sync'[p[1]].attempts # 0 /\ sync'[p[1]].ver = p[2]
    BY <1>4 DEF SentFrozen
  <2>1. p[1] \in SyncId
    BY DEF TypeInv, TypeOK
  <2>2. sync[p[1]].attempts # 0 /\ sync[p[1]].ver = p[2]
    BY DEF ClaimInv, SentFrozen
  <2> QED
    BY <1>2, <1>5, <2>1, <2>2
<1> QED
  BY <1>2, <1>4, <1>7, <1>8, <1>9, <1>10, <1>11 DEF ClaimInv

(* A call sends the payload its claim has read. *)
LEMMA CallKeeps ==
  ASSUME TypeInv, TypeInv', ClaimInv, NEW w \in Workers, NEW o \in Outcomes,
         NEW done \in BOOLEAN, CrmCall(w, o, done)
  PROVE  ClaimInv' /\ sync' = sync
<1> DEFINE s == wk[w].id
<1>1. s \in SyncId /\ Holds(w) /\ sync' = sync
      /\ sync[s].attempts \in Nat
  BY WorkerType, RecordType DEF CrmCall, Good, Holds
<1>2. /\ \A v \in Workers : v # w => wk'[v] = wk[v]
      /\ wk'[w].pc = "record" /\ wk'[w].id = s /\ wk'[w].att = wk[w].att
  BY WorkerType DEF CrmCall, TypeInv, TypeOK, Good, WorkerState
<1>3. \A v \in Workers :
        Holds(v)' => Holds(v) /\ wk'[v].id = wk[v].id /\ wk'[v].att = wk[v].att
  BY <1>1, <1>2 DEF Holds
<1>4. UnclaimedIsFresh'
  BY <1>1 DEF ClaimInv, UnclaimedIsFresh
<1>5. ClaimsNumbered'
  BY <1>1, <1>3 DEF ClaimInv, ClaimsNumbered
<1>6. ClaimsDistinct'
  BY <1>3 DEF ClaimInv, ClaimsDistinct
<1>7. CallsFrozen'
  BY <1>1, <1>2 DEF ClaimInv, CallsFrozen
<1>8. wk[w].ver = sync[s].ver
  BY DEF CrmCall, ClaimInv, CallsFrozen
<1>9. sync[s].attempts # 0
  <2>1. wk[w].att # 0 /\ wk[w].att <= sync[s].attempts /\ wk[w].att \in Nat
    BY <1>1, WorkerType DEF ClaimInv, ClaimsNumbered, Good, WorkerState
  <2> QED
    BY <1>1, <2>1
<1>10. SentFrozen'
  <2>1. sent' = sent \cup {<<s, wk[w].ver>>}
    BY DEF CrmCall
  <2> HIDE DEF s
  <2> QED
    BY <1>1, <1>8, <1>9, <2>1 DEF ClaimInv, SentFrozen
<1> QED
  BY <1>1, <1>4, <1>5, <1>6, <1>7, <1>10 DEF ClaimInv

LEMMA ClaimInvInit == Init => ClaimInv
<1> SUFFICES ASSUME Init
             PROVE  ClaimInv
  OBVIOUS
<1>1. \A v \in Workers : wk[v].pc = "idle"
  BY IdleGood DEF Init
<1>2. \A s \in SyncId : sync[s].attempts = 0
  BY DEF Init, NoSync
<1>3. sent = {}
  BY DEF Init
<1> QED
  BY <1>1, <1>2, <1>3
  DEF ClaimInv, UnclaimedIsFresh, ClaimsNumbered, ClaimsDistinct, CallsFrozen,
      SentFrozen, Holds

(* Every step keeps the invariant and leaves recorded successes alone. *)
LEMMA ClaimInvStep ==
  ASSUME TypeInv, ClaimInv, [Next]_vars
  PROVE  /\ ClaimInv'
         /\ \A s \in SyncId :
              sync[s].status = "succeeded" => sync'[s] = sync[s]
<1> DEFINE Kept == \A s \in SyncId :
                     sync[s].status = "succeeded" => sync'[s] = sync[s]
<1>0. TypeInv'
  BY TypeStep
<1>1. ASSUME Quiet
      PROVE  ClaimInv' /\ Kept
  BY <1>0, <1>1, QuietKeeps DEF Quiet, SyncQuiet
<1>2. ASSUME NEW w \in Workers, WorkerStep(w)
      PROVE  ClaimInv' /\ Kept
  <2>1. CASE Submit(w) \/ Update(w)
    BY <1>1, <2>1, SubmitQuiet, UpdateQuiet
  <2>2. CASE Record(w) \/ ClaimExhausted(w) \/ ClaimRefused(w)
    BY <1>1, <2>2, RecordQuiet
  <2>3. CASE Claim(w)
    BY <1>0, <2>3, ClaimKeeps
  <2>4. ASSUME NEW o \in Outcomes, NEW done \in BOOLEAN, CrmCall(w, o, done)
        PROVE  ClaimInv' /\ Kept
    BY <1>0, <2>4, CallKeeps
  <2> QED
    BY <1>2, <2>1, <2>2, <2>3, <2>4 DEF WorkerStep, Call
<1>3. ASSUME NEW w \in Workers, Retry(w) \/ People(w)
      PROVE  ClaimInv' /\ Kept
  BY <1>1, <1>3, OtherQuiet
<1>4. ASSUME \/ \E w \in Workers :
                  \/ Faults(w)
                  \/ \E l \in Leads, c \in Commands : Redeliver(w, l, c)
             \/ \E s \in SyncId : LeaseRunsOut(s)
             \/ \E l \in Leads : Discard(l) \/ \E v \in 1..MaxVer : Edit(l, v)
             \/ UNCHANGED vars
      PROVE  ClaimInv' /\ Kept
  BY <1>1, <1>4, OutsideQuiet
<1> QED
  BY <1>2, <1>3, <1>4 DEF Next

LEMMA ClaimInvariant == Spec => [](TypeInv /\ ClaimInv)
<1>1. Init => TypeInv /\ ClaimInv
  BY TypeInit, ClaimInvInit
<1>2. TypeInv /\ ClaimInv /\ [Next]_vars => (TypeInv /\ ClaimInv)'
  BY TypeStep, ClaimInvStep
<1> QED
  BY <1>1, <1>2, PTL DEF Spec

(* Of all workers that hold or held a record, alive or presumed lost, at    *)
(* most one passes _claim_is_current, however many take the record over.    *)
THEOREM OneClaimWrites == Spec => []OneCurrentClaim
<1>1. ClaimInv => OneCurrentClaim
  BY DEF ClaimInv, ClaimsDistinct, Holds, OneCurrentClaim, ClaimIsCurrent
<1> QED
  BY <1>1, ClaimInvariant, PTL

(* The CRM never sees two payloads under one idempotency key, whatever is   *)
(* edited, retried, taken over or delivered again in between.               *)
THEOREM OnePayloadSent == Spec => []OnePayloadPerKey
<1>1. ClaimInv => OnePayloadPerKey
  BY DEF ClaimInv, SentFrozen, OnePayloadPerKey
<1> QED
  BY <1>1, ClaimInvariant, PTL

(* A recorded success is never written again: no late answer, takeover,     *)
(* second command or answer to an old question touches its record.          *)
THEOREM SuccessIsFinal == Spec => SucceededIsFinal
<1>1. TypeInv /\ ClaimInv /\ [Next]_vars
        => [\A s \in SyncId :
              sync[s].status = "succeeded" => sync'[s] = sync[s]]_vars
  BY ClaimInvStep
<1> QED
  BY <1>1, ClaimInvariant, PTL DEF Spec, SucceededIsFinal

-----------------------------------------------------------------------------
(***************************************************************************)
(* Proofs about what CrmSubmission decides for a lead and for a company,   *)
(* for every set of leads, companies and workers and every bound: no two   *)
(* updates of a lead are open at once, no two leads of a company are on    *)
(* their way into the CRM before it is known there, and the CRM's fact     *)
(* beats a discard request.                                                *)
(*                                                                         *)
(* None of the three is inductive.  They rest on how the creates of a lead *)
(* follow each other (a later generation exists only once the earlier ones *)
(* are abandoned), on what a record waiting for an answer excludes, and on *)
(* the company identity naming the lead of every create that is under way. *)
(***************************************************************************)

Open == InFlight \cup {"unknown"}

\* A record left waiting by the earlier release is the only one of its lead,
\* which has never been synchronised.
AwaitingAlone ==
  \A s \in SyncId : sync[s].status = "awaiting" =>
    /\ s \in Creates /\ last[LeadOf(s)] = 0
    /\ \A t \in SyncId : LeadOf(t) = LeadOf(s) /\ t # s => sync[t].status = "absent"

\* Whoever prepares an update has seen a successful synchronisation.
UpdatersKnown ==
  \A v \in Workers : wk[v].pc \in {"diff", "refreeze"} => last[wk[v].lead] # 0

OneOpenUpdate ==
  \A s, t \in Updates :
    /\ LeadOf(s) = LeadOf(t)
    /\ sync[s].status \in Open /\ sync[t].status \in Open
    => s = t

\* Only abandoned creates have a successor.
Superseded ==
  \A s, t \in Creates :
    /\ LeadOf(s) = LeadOf(t) /\ s[3] < t[3]
    /\ sync[s].status # "absent" /\ sync[t].status # "absent"
    => sync[s].status = "abandoned"

IdentityInv ==
  \A c \in Companies :
    /\ identity[c].state = "none" =>
         identity[c].lead = None /\ identity[c].sync = None
    /\ identity[c].state # "none" =>
         identity[c].sync \in SyncId /\ LeadOf(identity[c].sync) = identity[c].lead
    /\ identity[c].state = "active" => sync[identity[c].sync].status = "succeeded"

\* A create under way, or waiting for its answer, holds its company.
Reservations ==
  \A s \in Creates : sync[s].status \in Open \cup {"awaiting"} =>
    \/ identity[CompanyOf[LeadOf(s)]].state = "active"
    \/ identity[CompanyOf[LeadOf(s)]].lead = LeadOf(s)

DiscardInv ==
  /\ \A s \in Creates : sync[s].status = "succeeded" =>
       /\ life[LeadOf(s)] # "discarded"
       /\ discard[LeadOf(s)] \notin {"pending", "effective"}
  /\ \A l \in Leads : discard[l] = "pending" =>
       \E s \in Creates : LeadOf(s) = l /\ sync[s].status \in Open

RecordsInv == AwaitingAlone /\ OneOpenUpdate /\ Superseded /\ IdentityInv
              /\ Reservations /\ DiscardInv

------------------------------------------------------------------------------
(* Keys and generations *)

LEMMA KeyShape ==
  /\ \A s \in Creates : s[2] = "create" /\ s[3] \in Nat /\ s \in SyncId
  /\ \A s \in Updates : s[2] = "update" /\ s \in SyncId
  /\ \A s \in SyncId : s \in Creates \/ s \in Updates
  /\ \A s \in SyncId : LeadOf(s) \in Leads /\ CompanyOf[LeadOf(s)] \in Companies
BY CrmAssumption DEF Creates, Updates, SyncId, LeadOf

LEMMA SameGeneration ==
  ASSUME NEW s \in Creates, NEW t \in Creates, LeadOf(s) = LeadOf(t), s[3] = t[3]
  PROVE  s = t
BY DEF Creates, LeadOf

\* A create that was not abandoned is the latest of its lead, so there is one.
LEMMA LiveIsLatest ==
  ASSUME Superseded, NEW s \in Creates, sync[s].status \notin {"absent", "abandoned"}
  PROVE  IsLatest(LeadOf(s), s)
<1>1. s \in LiveCreates(LeadOf(s))
  BY DEF LiveCreates
<1>2. ASSUME NEW t \in LiveCreates(LeadOf(s)) PROVE t[3] <= s[3]
  <2>1. t \in Creates /\ LeadOf(t) = LeadOf(s) /\ sync[t].status # "absent"
    BY DEF LiveCreates
  <2>2. ~(s[3] < t[3])
    BY <2>1 DEF Superseded
  <2> QED
    BY <2>1, <2>2, KeyShape
<1> QED
  BY <1>1, <1>2 DEF IsLatest

LEMMA LatestIsUnique ==
  ASSUME NEW l, NEW s, NEW t, IsLatest(l, s), IsLatest(l, t)
  PROVE  s = t
<1>1. s \in Creates /\ t \in Creates /\ LeadOf(s) = l /\ LeadOf(t) = l
      /\ s[3] <= t[3] /\ t[3] <= s[3]
  BY DEF IsLatest, LiveCreates
<1> QED
  BY <1>1, SameGeneration, KeyShape

LEMMA OneLive ==
  ASSUME Superseded, NEW s \in Creates, NEW t \in Creates, LeadOf(s) = LeadOf(t),
         sync[s].status \notin {"absent", "abandoned"},
         sync[t].status \notin {"absent", "abandoned"}
  PROVE  s = t
BY LiveIsLatest, LatestIsUnique

LEMMA LatestDecides ==
  ASSUME Superseded, NEW l, NEW Q, LatestStatus(l, Q),
         NEW t \in Creates, LeadOf(t) = l,
         sync[t].status \notin {"absent", "abandoned"}
  PROVE  sync[t].status \in Q
BY LiveIsLatest, LatestIsUnique DEF LatestStatus

------------------------------------------------------------------------------
(* Steps by what they do to the records *)

\* Only leases, attempts and payloads change, and no lead is discarded.
Still ==
  /\ \A s \in SyncId : sync'[s].status = sync[s].status
  /\ UNCHANGED <<identity, last, discard>>
  /\ \A l \in Leads : life'[l] = "discarded" => life[l] = "discarded"

LEMMA StillKeeps ==
  ASSUME TypeInv, RecordsInv, Still
  PROVE  RecordsInv'
<1>1. AwaitingAlone'
  BY DEF RecordsInv, AwaitingAlone, Still
<1>2. OneOpenUpdate'
  BY KeyShape DEF RecordsInv, OneOpenUpdate, Still
<1>3. Superseded'
  BY KeyShape DEF RecordsInv, Superseded, Still
<1>4. IdentityInv'
  BY DEF RecordsInv, IdentityInv, Still
<1>5. Reservations'
  BY KeyShape DEF RecordsInv, Reservations, Still
<1>6. DiscardInv'
  BY KeyShape DEF RecordsInv, DiscardInv, Still
<1> QED
  BY <1>1, <1>2, <1>3, <1>4, <1>5, <1>6 DEF RecordsInv

\* One record changes its status.
StatusMoves(s, q) ==
  \A t \in SyncId : sync'[t].status = IF t = s THEN q ELSE sync[t].status

LEMMA SetMoves ==
  ASSUME TypeInv, NEW s \in SyncId, NEW q, sync' = SetStatus(s, q)
  PROVE  StatusMoves(s, q)
BY DEF TypeInv, TypeOK, Sync, SetStatus, StatusMoves

\* A record under way, or waiting, goes on being under way.
LEMMA OpenKeeps ==
  ASSUME TypeInv, RecordsInv, NEW s \in SyncId, NEW q \in Open, StatusMoves(s, q),
         sync[s].status \in Open \cup {"awaiting"},
         UNCHANGED <<identity, last, discard, life>>
  PROVE  RecordsInv'
<1>0. sync[s].status = "awaiting" => s \in Creates
  BY DEF RecordsInv, AwaitingAlone
<1>1. AwaitingAlone'
  BY DEF RecordsInv, AwaitingAlone, StatusMoves, Open, InFlight
<1>2. OneOpenUpdate'
  <2>1. \A t \in Updates : sync'[t].status \in Open => sync[t].status \in Open
    BY <1>0, KeyShape DEF StatusMoves
  <2> QED
    BY <2>1 DEF RecordsInv, OneOpenUpdate
<1>3. Superseded'
  <2>1. sync[s].status \notin {"absent", "abandoned"}
    BY DEF Open, InFlight
  <2> QED
    BY <2>1, KeyShape DEF RecordsInv, Superseded, StatusMoves
<1>4. IdentityInv'
  BY DEF RecordsInv, IdentityInv, StatusMoves, Open, InFlight
<1>5. Reservations'
  BY KeyShape DEF RecordsInv, Reservations, StatusMoves
<1>6. DiscardInv'
  <2>1. q # "succeeded" /\ q \in Open
    BY DEF Open, InFlight
  <2>2. \A t \in Creates : sync[t].status \in Open => sync'[t].status \in Open
    BY <2>1, KeyShape DEF StatusMoves
  <2>3. \A t \in Creates : sync'[t].status = "succeeded" => sync[t].status = "succeeded"
    BY <2>1, KeyShape DEF StatusMoves
  <2> QED
    BY <2>2, <2>3 DEF RecordsInv, DiscardInv
<1> QED
  BY <1>1, <1>2, <1>3, <1>4, <1>5, <1>6 DEF RecordsInv

\* A record under way is settled; its lead may now count as synchronised.
LEMMA SettleKeeps ==
  ASSUME TypeInv, RecordsInv, NEW s \in SyncId, sync[s].status = "processing",
         NEW q \in {"succeeded", "failed"}, StatusMoves(s, q),
         \A l \in Leads : l # LeadOf(s) => last'[l] = last[l]
  PROVE  AwaitingAlone' /\ OneOpenUpdate' /\ Superseded'
<1>1. AwaitingAlone'
  <2> SUFFICES ASSUME NEW t \in SyncId, sync'[t].status = "awaiting"
               PROVE  /\ t \in Creates /\ last'[LeadOf(t)] = 0
                      /\ \A x \in SyncId : LeadOf(x) = LeadOf(t) /\ x # t
                                           => sync'[x].status = "absent"
    BY DEF AwaitingAlone
  <2>1. t # s /\ sync[t].status = "awaiting"
    BY DEF StatusMoves
  <2>2. /\ t \in Creates /\ last[LeadOf(t)] = 0
        /\ \A x \in SyncId : LeadOf(x) = LeadOf(t) /\ x # t
                             => sync[x].status = "absent"
    BY <2>1 DEF RecordsInv, AwaitingAlone
  <2>3. LeadOf(s) # LeadOf(t)
    BY <2>1, <2>2
  <2> QED
    BY <2>2, <2>3, KeyShape DEF StatusMoves
<1>2. OneOpenUpdate'
  BY KeyShape DEF RecordsInv, OneOpenUpdate, StatusMoves, Open, InFlight
<1>3. Superseded'
  <2>1. \A t \in Creates : t # s => sync'[t].status = sync[t].status
    BY KeyShape DEF StatusMoves
  <2>2. sync'[s].status # "absent" /\ sync'[s].status # "abandoned"
    BY DEF StatusMoves
  <2>3. sync[s].status # "absent" /\ sync[s].status # "abandoned"
    OBVIOUS
  <2> QED
    BY <2>1, <2>2, <2>3 DEF RecordsInv, Superseded
<1> QED
  BY <1>1, <1>2, <1>3

\* While a record is under way and holds its company, the company is not yet
\* known and no other create of it is under way.
LEMMA HolderIsAlone ==
  ASSUME TypeInv, RecordsInv, NEW s \in SyncId,
         sync[s].status \notin {"absent", "abandoned", "succeeded"}, Reserved(s)
  PROVE  /\ identity[CompanyOf[LeadOf(s)]].state \notin {"none", "active"}
         /\ identity[CompanyOf[LeadOf(s)]].lead = LeadOf(s)
         /\ \A t \in Creates :
              /\ sync[t].status \in Open \cup {"awaiting"}
              /\ CompanyOf[LeadOf(t)] = CompanyOf[LeadOf(s)]
              => LeadOf(t) = LeadOf(s) /\ (s \in Creates => t = s)
<1> DEFINE c == CompanyOf[LeadOf(s)]
<1>1. c \in Companies /\ identity[c].sync = s
  BY KeyShape DEF Reserved
<1>2. identity[c].state \notin {"none", "active"} /\ identity[c].lead = LeadOf(s)
  BY <1>1, KeyAssumption DEF RecordsInv, IdentityInv
<1>3. ASSUME NEW t \in Creates, sync[t].status \in Open \cup {"awaiting"},
             CompanyOf[LeadOf(t)] = c
      PROVE  LeadOf(t) = LeadOf(s) /\ (s \in Creates => t = s)
  <2>1. LeadOf(t) = LeadOf(s)
    BY <1>2, <1>3 DEF RecordsInv, Reservations
  <2>2. sync[t].status \notin {"absent", "abandoned"}
    BY <1>3 DEF Open, InFlight
  <2> QED
    BY <2>1, <2>2, OneLive DEF RecordsInv
<1> QED
  BY <1>2, <1>3

LEMMA SuccessKeeps ==
  ASSUME TypeInv, RecordsInv, NEW w \in Workers, RecordSuccess(w)
  PROVE  RecordsInv'
<1> DEFINE s == wk[w].id
           l == LeadOf(s)
           c == CompanyOf[l]
<1>1. s \in SyncId /\ sync[s].status = "processing" /\ l \in Leads /\ c \in Companies
  BY WorkerType, KeyShape DEF RecordSuccess, Good, ClaimIsCurrent
<1>2. StatusMoves(s, "succeeded")
  BY <1>1, SetMoves DEF RecordSuccess
<1>3. /\ last' = [last EXCEPT ![l] = sync[s].ver]
      /\ life' = [life EXCEPT ![l] = "synced"]
      /\ discard' = [discard EXCEPT ![l] = DiscardAfterSuccess(@)]
      /\ identity' = [identity EXCEPT ![c] =
           IF ~Reserved(s) THEN @
           ELSE IF s[2] = "create" /\ wk[w].out = "followed" THEN NoIdentity
           ELSE [@ EXCEPT !.state = "active"]]
  BY DEF RecordSuccess
<1> HIDE DEF s, l, c
<1>4. \A d \in Companies : d # c => identity'[d] = identity[d]
  BY <1>3 DEF TypeInv, TypeOK
<1>5. AwaitingAlone' /\ OneOpenUpdate' /\ Superseded'
  <2>1. \A k \in Leads : k # LeadOf(s) => last'[k] = last[k]
    BY <1>3 DEF l, TypeInv, TypeOK
  <2> QED
    BY <1>1, <1>2, <2>1, SettleKeeps
<1>6. DiscardInv'
  <2>1. \A k \in Leads : k # l => life'[k] = life[k] /\ discard'[k] = discard[k]
    BY <1>3 DEF TypeInv, TypeOK
  <2>2. life'[l] = "synced" /\ discard'[l] \notin {"pending", "effective"}
    BY <1>1, <1>3 DEF TypeInv, TypeOK, DiscardAfterSuccess
  <2>3. ASSUME NEW t \in Creates, sync'[t].status = "succeeded"
        PROVE  /\ life'[LeadOf(t)] # "discarded"
               /\ discard'[LeadOf(t)] \notin {"pending", "effective"}
    <3>1. CASE LeadOf(t) = l
      BY <2>2, <3>1
    <3>2. CASE LeadOf(t) # l
      <4>1. t # s /\ t \in SyncId /\ LeadOf(t) \in Leads
        BY <3>2, KeyShape DEF l
      <4>2. sync[t].status = "succeeded"
        BY <1>2, <2>3, <4>1 DEF StatusMoves
      <4> QED
        BY <2>1, <3>2, <4>1, <4>2 DEF RecordsInv, DiscardInv
    <3> QED
      BY <3>1, <3>2
  <2>4. ASSUME NEW k \in Leads, discard'[k] = "pending"
        PROVE  \E t \in Creates : LeadOf(t) = k /\ sync'[t].status \in Open
    <3>1. k # l /\ discard[k] = "pending"
      BY <2>1, <2>2, <2>4
    <3>2. PICK t \in Creates : LeadOf(t) = k /\ sync[t].status \in Open
      BY <3>1 DEF RecordsInv, DiscardInv
    <3>3. t # s /\ t \in SyncId
      BY <3>1, <3>2, KeyShape DEF l
    <3> QED
      BY <1>2, <3>2, <3>3 DEF StatusMoves
  <2> QED
    BY <2>3, <2>4 DEF DiscardInv
<1>7. CASE ~Reserved(s)
  <2>1. identity' = identity
    BY <1>3, <1>7 DEF TypeInv, TypeOK
  <2>2. IdentityInv'
    BY <1>2, <2>1 DEF RecordsInv, IdentityInv, StatusMoves
  <2>3. Reservations'
    BY <1>2, <2>1, KeyShape DEF RecordsInv, Reservations, StatusMoves, Open, InFlight
  <2> QED
    BY <1>5, <1>6, <2>2, <2>3 DEF RecordsInv
<1>8. CASE Reserved(s)
  <2>1. /\ identity[c].state \notin {"none", "active"} /\ identity[c].lead = l
        /\ identity[c].sync = s
        /\ \A t \in Creates : sync[t].status \in Open \cup {"awaiting"}
                              /\ CompanyOf[LeadOf(t)] = c
                              => (s \in Creates => t = s)
    BY <1>1, <1>8, HolderIsAlone DEF c, l, Reserved
  <2>2. \/ identity'[c] = NoIdentity /\ s \in Creates
        \/ /\ identity'[c].state = "active" /\ identity'[c].sync = s
           /\ identity'[c].lead = l
    <3>1. s[2] = "create" => s \in Creates
      BY <1>1, KeyShape
    <3>2. identity[c] \in Identity
      BY <1>1 DEF TypeInv, TypeOK
    <3>3. identity'[c] \in {NoIdentity, [identity[c] EXCEPT !.state = "active"]}
          /\ (identity'[c] = NoIdentity \/ identity'[c] = [identity[c] EXCEPT !.state = "active"])
          /\ (s[2] # "create" => identity'[c] = [identity[c] EXCEPT !.state = "active"])
      BY <1>1, <1>3, <1>8 DEF TypeInv, TypeOK
    <3> QED
      BY <2>1, <3>1, <3>2, <3>3 DEF Identity
  <2>3. IdentityInv'
    <3> SUFFICES ASSUME NEW d \in Companies
                 PROVE  /\ identity'[d].state = "none" =>
                             identity'[d].lead = None /\ identity'[d].sync = None
                        /\ identity'[d].state # "none" =>
                             /\ identity'[d].sync \in SyncId
                             /\ LeadOf(identity'[d].sync) = identity'[d].lead
                        /\ identity'[d].state = "active" =>
                             sync'[identity'[d].sync].status = "succeeded"
      BY DEF IdentityInv
    <3>1. CASE d = c
      BY <1>1, <1>2, <2>2, <3>1 DEF StatusMoves, NoIdentity, l
    <3>2. CASE d # c
      BY <1>2, <1>4, <3>2 DEF RecordsInv, IdentityInv, StatusMoves
    <3> QED
      BY <3>1, <3>2
  <2>4. Reservations'
    <3> SUFFICES ASSUME NEW t \in Creates, sync'[t].status \in Open \cup {"awaiting"}
                 PROVE  \/ identity'[CompanyOf[LeadOf(t)]].state = "active"
                        \/ identity'[CompanyOf[LeadOf(t)]].lead = LeadOf(t)
      BY DEF Reservations
    <3>1. t # s /\ sync[t].status = sync'[t].status /\ CompanyOf[LeadOf(t)] \in Companies
      BY <1>2, KeyShape DEF StatusMoves, Open, InFlight
    <3>2. CASE CompanyOf[LeadOf(t)] = c
      BY <2>1, <2>2, <3>1, <3>2
    <3>3. CASE CompanyOf[LeadOf(t)] # c
      BY <1>4, <3>1, <3>3 DEF RecordsInv, Reservations
    <3> QED
      BY <3>2, <3>3
  <2> QED
    BY <1>5, <1>6, <2>3, <2>4 DEF RecordsInv
<1> QED
  BY <1>7, <1>8

\* A create that is over and holds its company gives it up or sends it to
\* review; a record that does not hold it leaves it alone.
LEMMA ReleaseKeeps ==
  ASSUME TypeInv, RecordsInv, NEW s \in SyncId,
         sync[s].status \in {"processing", "awaiting"},
         NEW q \in {"failed", "abandoned"}, StatusMoves(s, q),
         NEW new, identity' = [identity EXCEPT ![CompanyOf[LeadOf(s)]] = new],
         \/ new = identity[CompanyOf[LeadOf(s)]]
         \/ /\ s \in Creates /\ Reserved(s)
            /\ new \in {NoIdentity,
                        [identity[CompanyOf[LeadOf(s)]] EXCEPT !.state = "failed"]}
  PROVE  IdentityInv' /\ Reservations'
<1> DEFINE c == CompanyOf[LeadOf(s)]
<1>1. c \in Companies /\ identity[c] \in Identity
  BY KeyShape DEF TypeInv, TypeOK
<1>2. identity'[c] = new /\ \A d \in Companies : d # c => identity'[d] = identity[d]
  BY <1>1 DEF TypeInv, TypeOK
<1>3. \A t \in SyncId : sync[t].status = "succeeded" => sync'[t].status = "succeeded"
  BY DEF StatusMoves
<1>4. \A t \in Creates : sync'[t].status \in Open \cup {"awaiting"}
                         => t # s /\ sync[t].status = sync'[t].status
  BY KeyShape DEF StatusMoves, Open, InFlight
<1>5. CASE new = identity[c]
  <2>1. \A d \in Companies : identity'[d] = identity[d]
    BY <1>2, <1>5
  <2>2. IdentityInv'
    BY <1>3, <2>1 DEF RecordsInv, IdentityInv
  <2>3. Reservations'
    BY <1>4, <2>1, KeyShape DEF RecordsInv, Reservations
  <2> QED
    BY <2>2, <2>3
<1>6. CASE s \in Creates /\ Reserved(s)
           /\ new \in {NoIdentity, [identity[c] EXCEPT !.state = "failed"]}
  <2>1. /\ identity[c].state \notin {"none", "active"}
        /\ identity[c].sync = s /\ identity[c].lead = LeadOf(s)
        /\ \A t \in Creates : sync[t].status \in Open \cup {"awaiting"}
                              /\ CompanyOf[LeadOf(t)] = c => t = s
    BY <1>6, HolderIsAlone DEF Reserved
  <2>2. \/ new = NoIdentity
        \/ new.state = "failed" /\ new.sync = s /\ new.lead = LeadOf(s)
    BY <1>1, <1>6, <2>1 DEF Identity
  <2>3. IdentityInv'
    <3>1. /\ identity'[c].state = "none" =>
               identity'[c].lead = None /\ identity'[c].sync = None
          /\ identity'[c].state # "none" =>
               identity'[c].sync \in SyncId
               /\ LeadOf(identity'[c].sync) = identity'[c].lead
          /\ identity'[c].state # "active"
      BY <1>2, <2>2 DEF NoIdentity
    <3> QED
      BY <1>2, <1>3, <3>1 DEF RecordsInv, IdentityInv
  <2>4. Reservations'
    <3> SUFFICES ASSUME NEW t \in Creates, sync'[t].status \in Open \cup {"awaiting"}
                 PROVE  \/ identity'[CompanyOf[LeadOf(t)]].state = "active"
                        \/ identity'[CompanyOf[LeadOf(t)]].lead = LeadOf(t)
      BY DEF Reservations
    <3>1. CompanyOf[LeadOf(t)] # c /\ CompanyOf[LeadOf(t)] \in Companies
      BY <1>4, <2>1, KeyShape
    <3> QED
      BY <1>2, <1>4, <3>1 DEF RecordsInv, Reservations
  <2> QED
    BY <2>3, <2>4
<1> QED
  BY <1>5, <1>6

LEMMA PermanentKeeps ==
  ASSUME TypeInv, RecordsInv, NEW w \in Workers, RecordPermanent(w)
  PROVE  RecordsInv'
<1> DEFINE s == wk[w].id
           l == LeadOf(s)
           c == CompanyOf[l]
           settles == s[2] = "create" /\ discard[l] = "pending"
           new == IF s[2] = "create" /\ Reserved(s)
                    THEN [identity[c] EXCEPT !.state = "failed"] ELSE identity[c]
<1>1. s \in SyncId /\ sync[s].status = "processing" /\ l \in Leads /\ c \in Companies
  BY WorkerType, KeyShape DEF RecordPermanent, Good, ClaimIsCurrent
<1>2. StatusMoves(s, "failed") /\ last' = last
  BY <1>1, SetMoves DEF RecordPermanent
<1>3. /\ life' = [life EXCEPT ![l] = IF settles THEN "discarded" ELSE @]
      /\ discard' = [discard EXCEPT ![l] = IF settles THEN "effective" ELSE @]
      /\ identity' = [identity EXCEPT ![c] = new]
  BY <1>1 DEF RecordPermanent, TypeInv, TypeOK
<1>4. s[2] = "create" => s \in Creates
  BY <1>1, KeyShape
<1>5. IdentityInv' /\ Reservations'
  <2>1. \/ new = identity[c]
        \/ /\ s \in Creates /\ Reserved(s)
           /\ new \in {NoIdentity, [identity[c] EXCEPT !.state = "failed"]}
    BY <1>4
  <2> HIDE DEF new, s
  <2> QED
    BY <1>1, <1>2, <1>3, <2>1, ReleaseKeeps DEF l, c
<1>6. AwaitingAlone' /\ OneOpenUpdate' /\ Superseded'
  BY <1>1, <1>2, SettleKeeps
<1> HIDE DEF s, l, c
<1>7. DiscardInv'
  <2>1. \A k \in Leads : ~(k = l /\ settles) =>
           life'[k] = life[k] /\ discard'[k] = discard[k]
    BY <1>3 DEF TypeInv, TypeOK
  <2>2. settles => discard'[l] = "effective"
    BY <1>1, <1>3 DEF TypeInv, TypeOK
  <2>3. \A t \in Creates : sync'[t].status = "succeeded" =>
           sync[t].status = "succeeded" /\ LeadOf(t) \in Leads
           /\ ~(LeadOf(t) = l /\ settles)
    <3> SUFFICES ASSUME NEW t \in Creates, sync'[t].status = "succeeded"
                 PROVE  sync[t].status = "succeeded" /\ LeadOf(t) \in Leads
                        /\ ~(LeadOf(t) = l /\ settles)
      OBVIOUS
    <3>1. t # s /\ sync[t].status = "succeeded" /\ LeadOf(t) \in Leads
      BY <1>2, KeyShape DEF StatusMoves
    <3>2. LeadOf(t) = l => ~settles
      BY <1>1, <1>4, <3>1, OneLive DEF l, RecordsInv
    <3> QED
      BY <3>1, <3>2
  <2>4. ASSUME NEW k \in Leads, discard'[k] = "pending"
        PROVE  \E t \in Creates : LeadOf(t) = k /\ sync'[t].status \in Open
    <3>1. discard[k] = "pending" /\ ~(k = l /\ settles)
      BY <2>1, <2>2, <2>4
    <3>2. PICK t \in Creates : LeadOf(t) = k /\ sync[t].status \in Open
      BY <3>1 DEF RecordsInv, DiscardInv
    <3>3. t # s
      BY <3>1, <3>2, KeyShape DEF l
    <3> QED
      BY <1>2, <3>2, <3>3, KeyShape DEF StatusMoves
  <2> QED
    BY <2>1, <2>3, <2>4 DEF RecordsInv, DiscardInv
<1> QED
  BY <1>5, <1>6, <1>7 DEF RecordsInv

LEMMA StopKeeps ==
  ASSUME TypeInv, RecordsInv, NEW w \in Workers, NEW s \in Creates, ConfirmStop(w, s)
  PROVE  RecordsInv'
<1> DEFINE c == CompanyOf[LeadOf(s)]
           new == IF Reserved(s) /\ identity[c].state = "reserving" THEN NoIdentity
                  ELSE identity[c]
<1>1. s \in SyncId /\ sync[s].status = "awaiting" /\ c \in Companies
  BY KeyShape DEF ConfirmStop
<1>2. StatusMoves(s, "abandoned") /\ UNCHANGED <<last, life, discard>>
  BY <1>1, SetMoves DEF ConfirmStop, leadVars
<1>3. identity' = [identity EXCEPT ![c] = new]
  BY <1>1 DEF ConfirmStop, TypeInv, TypeOK
<1>4. IdentityInv' /\ Reservations'
  <2>1. \/ new = identity[c]
        \/ /\ s \in Creates /\ Reserved(s)
           /\ new \in {NoIdentity, [identity[c] EXCEPT !.state = "failed"]}
    OBVIOUS
  <2> HIDE DEF new
  <2> QED
    BY <1>1, <1>2, <1>3, <2>1, ReleaseKeeps
<1>5. \A t \in SyncId : t # s /\ LeadOf(t) = LeadOf(s) => sync[t].status = "absent"
  BY <1>1 DEF RecordsInv, AwaitingAlone
<1>6. AwaitingAlone'
  BY <1>2, <1>5 DEF RecordsInv, AwaitingAlone, StatusMoves
<1>7. OneOpenUpdate'
  BY <1>2, KeyShape DEF RecordsInv, OneOpenUpdate, StatusMoves, Open, InFlight
<1>8. Superseded'
  BY <1>2, <1>5, KeyShape DEF RecordsInv, Superseded, StatusMoves
<1>9. DiscardInv'
  <2>1. \A t \in Creates : sync[t].status \in Open => sync'[t].status \in Open
    BY <1>1, <1>2, KeyShape DEF StatusMoves, Open, InFlight
  <2>2. \A t \in Creates : sync'[t].status = "succeeded" => sync[t].status = "succeeded"
    BY <1>2, KeyShape DEF StatusMoves
  <2> QED
    BY <1>2, <2>1, <2>2 DEF RecordsInv, DiscardInv
<1> QED
  BY <1>4, <1>6, <1>7, <1>8, <1>9 DEF RecordsInv

------------------------------------------------------------------------------
(* New records *)

\* A lead that may be frozen has only abandoned creates, of lower generations.
LEMMA FreshMeans ==
  ASSUME TypeInv, Superseded, NEW w \in Workers, Fresh(w)
  PROVE  LET l == wk[w].lead IN
         \A t \in Creates : LeadOf(t) = l /\ sync[t].status # "absent" =>
           sync[t].status = "abandoned" /\ t[3] < NextGeneration(l)
<1> DEFINE l == wk[w].lead
<1> SUFFICES ASSUME NEW t \in Creates, LeadOf(t) = l, sync[t].status # "absent"
             PROVE  sync[t].status = "abandoned" /\ t[3] < NextGeneration(l)
  OBVIOUS
<1>1. t \in LiveCreates(l)
  BY DEF LiveCreates
<1>2. LatestStatus(l, {"abandoned"})
  BY <1>1 DEF Fresh
<1>3. sync[t].status = "abandoned"
  BY <1>2, LatestDecides
<1> DEFINE m == CHOOSE x \in LiveCreates(l) : IsLatest(l, x)
<1>4. m \in LiveCreates(l) /\ IsLatest(l, m)
  BY <1>2 DEF LatestStatus
<1>5. NextGeneration(l) = m[3] + 1
  BY <1>1 DEF NextGeneration
<1>6. t[3] <= m[3] /\ m[3] \in Nat /\ t[3] \in Nat
  BY <1>1, <1>4, KeyShape DEF IsLatest, LiveCreates
<1> HIDE DEF m
<1> QED
  BY <1>3, <1>5, <1>6

LEMMA NewMoves ==
  ASSUME TypeInv, NEW s \in SyncId, NEW v,
         sync' = [sync EXCEPT ![s] = [NoSync EXCEPT !.status = "pending", !.ver = v]]
  PROVE  StatusMoves(s, "pending")
<1> DEFINE new == [NoSync EXCEPT !.status = "pending", !.ver = v]
<1>1. new.status = "pending"
  BY DEF NoSync
<1> HIDE DEF new
<1>2. \A t \in SyncId : sync'[t] = IF t = s THEN new ELSE sync[t]
  BY DEF TypeInv, TypeOK, new
<1> QED
  BY <1>1, <1>2 DEF StatusMoves

LEMMA FreezeKeeps ==
  ASSUME TypeInv, RecordsInv, NEW w \in Workers, Freeze(w)
  PROVE  RecordsInv'
<1> DEFINE l == wk[w].lead
           c == CompanyOf[l]
           s == <<l, "create", NextGeneration(l)>>
           res == [state |-> "reserving", lead |-> l, sync |-> s]
<1>1. l \in Leads /\ s \in Creates /\ s \in SyncId /\ Fresh(w) /\ CompanyFree(l)
  BY WorkerType, CreateKey DEF Freeze, Freezable, Good
<1>2. sync[s].status = "absent"
  BY <1>1, NewKeyIsFresh DEF Freeze
<1>3. StatusMoves(s, "pending") /\ UNCHANGED <<last, life, discard>>
  BY <1>1, NewMoves DEF Freeze, leadVars
<1>4. LeadOf(s) = l /\ s[3] = NextGeneration(l) /\ c \in Companies
  BY <1>1, CrmAssumption DEF LeadOf
<1>5. \A t \in Creates : LeadOf(t) = l /\ sync[t].status # "absent" =>
         sync[t].status = "abandoned" /\ t[3] < s[3]
  BY <1>1, <1>4, FreshMeans DEF RecordsInv
<1>6. identity' = [identity EXCEPT ![c] = IF @.state = "active" THEN @ ELSE res]
  BY DEF Freeze
<1>7. res.state = "reserving" /\ res.lead = l /\ res.sync = s
  OBVIOUS
<1> HIDE DEF s, res
<1>8. /\ \A d \in Companies : d # c => identity'[d] = identity[d]
      /\ identity[c].state = "active" => identity'[c] = identity[c]
      /\ identity[c].state # "active" => identity'[c] = res
  BY <1>4, <1>6 DEF TypeInv, TypeOK
<1> HIDE DEF c
<1>9. AwaitingAlone'
  <2>1. \A t \in SyncId : sync'[t].status = "awaiting" =>
           t # s /\ sync[t].status = "awaiting" /\ LeadOf(t) # l
    <3> SUFFICES ASSUME NEW t \in SyncId, sync'[t].status = "awaiting"
                 PROVE  t # s /\ sync[t].status = "awaiting" /\ LeadOf(t) # l
      OBVIOUS
    <3>1. t # s /\ sync[t].status = "awaiting"
      BY <1>3 DEF StatusMoves
    <3>2. t \in Creates
      BY <3>1 DEF RecordsInv, AwaitingAlone
    <3> QED
      BY <1>5, <3>1, <3>2
  <2> QED
    BY <1>3, <1>4, <2>1 DEF RecordsInv, AwaitingAlone, StatusMoves
<1>10. OneOpenUpdate'
  <2>1. s \notin Updates
    BY <1>1, KeyShape
  <2> QED
    BY <1>3, <2>1, KeyShape DEF RecordsInv, OneOpenUpdate, StatusMoves
<1>11. Superseded'
  <2> SUFFICES ASSUME NEW x \in Creates, NEW y \in Creates, LeadOf(x) = LeadOf(y),
                      x[3] < y[3], sync'[x].status # "absent",
                      sync'[y].status # "absent"
               PROVE  sync'[x].status = "abandoned"
    BY DEF Superseded
  <2>1. x # y /\ x[3] \in Nat /\ y[3] \in Nat
    BY KeyShape
  <2>2. CASE x = s
    <3>1. sync[y].status # "absent"
      BY <1>3, <2>1, <2>2, KeyShape DEF StatusMoves
    <3> QED
      BY <1>4, <1>5, <2>1, <2>2, <3>1
  <2>3. CASE y = s
    <3>1. sync'[x].status = sync[x].status
      BY <1>3, <2>1, <2>3, KeyShape DEF StatusMoves
    <3> QED
      BY <1>4, <1>5, <2>3, <3>1
  <2>4. CASE x # s /\ y # s
    BY <1>3, <2>4, KeyShape DEF RecordsInv, Superseded, StatusMoves
  <2> QED
    BY <2>2, <2>3, <2>4
<1>12. IdentityInv'
  <2> SUFFICES ASSUME NEW d \in Companies
               PROVE  /\ identity'[d].state = "none" =>
                           identity'[d].lead = None /\ identity'[d].sync = None
                      /\ identity'[d].state # "none" =>
                           /\ identity'[d].sync \in SyncId
                           /\ LeadOf(identity'[d].sync) = identity'[d].lead
                      /\ identity'[d].state = "active" =>
                           sync'[identity'[d].sync].status = "succeeded"
    BY DEF IdentityInv
  <2>1. CASE identity'[d] = identity[d]
    BY <1>2, <1>3, <2>1 DEF RecordsInv, IdentityInv, StatusMoves
  <2>2. CASE d = c /\ identity'[d] = res
    BY <1>1, <1>4, <1>7, <2>2
  <2> QED
    BY <1>8, <2>1, <2>2
<1>13. Reservations'
  <2> SUFFICES ASSUME NEW t \in Creates, sync'[t].status \in Open \cup {"awaiting"}
               PROVE  \/ identity'[CompanyOf[LeadOf(t)]].state = "active"
                      \/ identity'[CompanyOf[LeadOf(t)]].lead = LeadOf(t)
    BY DEF Reservations
  <2>1. CompanyOf[LeadOf(t)] \in Companies /\ LeadOf(t) \in Leads
    BY KeyShape
  <2>2. CASE LeadOf(t) = l
    BY <1>7, <1>8, <2>1, <2>2 DEF c
  <2>3. CASE LeadOf(t) # l
    <3>1. \/ identity[CompanyOf[LeadOf(t)]].state = "active"
          \/ identity[CompanyOf[LeadOf(t)]].lead = LeadOf(t)
      BY <1>3, <1>4, <2>3, KeyShape DEF RecordsInv, Reservations, StatusMoves
    <3>2. CASE CompanyOf[LeadOf(t)] # c
      BY <1>8, <2>1, <3>1, <3>2
    <3>3. CASE CompanyOf[LeadOf(t)] = c
      <4>1. identity[c].lead # LeadOf(t) \/ identity[c].state = "active"
        <5>1. identity[c].state \in {"none", "active"} \/ identity[c].lead = l
          BY <1>1 DEF CompanyFree, c
        <5>2. identity[c].state = "none" => identity[c].lead = None
          BY <1>4 DEF RecordsInv, IdentityInv, c
        <5> QED
          BY <2>1, <2>3, <5>1, <5>2, CrmAssumption
      <4> QED
        BY <1>8, <3>1, <3>3, <4>1
    <3> QED
      BY <3>2, <3>3
  <2> QED
    BY <2>2, <2>3
<1>14. DiscardInv'
  <2>1. \A t \in Creates : sync[t].status \in Open => sync'[t].status \in Open
    BY <1>3, KeyShape DEF StatusMoves, Open, InFlight
  <2>2. \A t \in Creates : sync'[t].status = "succeeded" => sync[t].status = "succeeded"
    BY <1>3, KeyShape DEF StatusMoves
  <2> QED
    BY <1>3, <2>1, <2>2 DEF RecordsInv, DiscardInv
<1> QED
  BY <1>9, <1>10, <1>11, <1>12, <1>13, <1>14 DEF RecordsInv

\* A new update of a lead without an open one and without a waiting create.
LEMMA NewUpdateKeeps ==
  ASSUME TypeInv, RecordsInv, NEW u \in Updates, StatusMoves(u, "pending"),
         sync[u].status = "absent", Unfinished(LeadOf(u)) = {},
         \A s \in SyncId : LeadOf(s) = LeadOf(u) => sync[s].status # "awaiting",
         UNCHANGED <<identity, last, life, discard>>
  PROVE  RecordsInv'
<1>1. u \in SyncId /\ u \notin Creates
  BY KeyShape
<1>2. \A t \in Creates : sync'[t].status = sync[t].status
  BY <1>1, KeyShape DEF StatusMoves
<1>3. AwaitingAlone'
  BY DEF RecordsInv, AwaitingAlone, StatusMoves
<1>4. OneOpenUpdate'
  <2>1. \A t \in Updates : LeadOf(t) = LeadOf(u) => sync[t].status \notin Open
    BY DEF Unfinished, Open
  <2> QED
    BY <2>1, KeyShape DEF RecordsInv, OneOpenUpdate, StatusMoves
<1>5. Superseded' /\ Reservations' /\ DiscardInv'
  BY <1>2 DEF RecordsInv, Superseded, Reservations, DiscardInv
<1>6. IdentityInv'
  BY DEF RecordsInv, IdentityInv, StatusMoves
<1> QED
  BY <1>3, <1>4, <1>5, <1>6 DEF RecordsInv

LEMMA GoOnKeeps ==
  ASSUME TypeInv, RecordsInv, NEW w \in Workers, NEW s \in Creates, ConfirmGoOn(w, s)
  PROVE  RecordsInv'
<1> DEFINE l == LeadOf(s)
           u == <<l, "update", sync[s].ver>>
           c == CompanyOf[l]
           new == [sync[s] EXCEPT !.status = "pending"]
<1>1. /\ s \in SyncId /\ l \in Leads /\ c \in Companies /\ u \in Updates
      /\ sync[s].status = "awaiting" /\ sync[u].status = "absent" /\ LeadOf(u) = l
      /\ sync[s] \in Sync
  BY KeyShape, RecordType DEF ConfirmGoOn, Updates, LeadOf
<1>2. new.status = "pending" /\ NoSync.status = "absent"
  BY <1>1 DEF Sync, NoSync
<1>3. /\ sync' = [sync EXCEPT ![s] = NoSync, ![u] = new]
      /\ identity' = [identity EXCEPT ![c].sync = IF @ = s THEN u ELSE @]
      /\ UNCHANGED <<last, life, discard>>
  BY DEF ConfirmGoOn, leadVars
<1>4. u # s /\ u \in SyncId
  BY <1>1, KeyShape
<1> HIDE DEF u, new
<1>5. \A t \in SyncId : sync'[t].status =
         IF t = u THEN "pending" ELSE IF t = s THEN "absent" ELSE sync[t].status
  BY <1>1, <1>2, <1>3, <1>4 DEF TypeInv, TypeOK
<1>6. \A t \in SyncId : LeadOf(t) = l /\ t # s => sync[t].status = "absent"
  BY <1>1 DEF RecordsInv, AwaitingAlone
<1>7. AwaitingAlone'
  <2> SUFFICES ASSUME NEW t \in SyncId, sync'[t].status = "awaiting"
               PROVE  /\ t \in Creates /\ last'[LeadOf(t)] = 0
                      /\ \A x \in SyncId : LeadOf(x) = LeadOf(t) /\ x # t
                                           => sync'[x].status = "absent"
    BY DEF AwaitingAlone
  <2>1. t # s /\ t # u /\ sync[t].status = "awaiting"
    BY <1>5
  <2>2. LeadOf(t) # l
    BY <1>6, <2>1
  <2>3. /\ t \in Creates /\ last[LeadOf(t)] = 0
        /\ \A x \in SyncId : LeadOf(x) = LeadOf(t) /\ x # t
                             => sync[x].status = "absent"
    BY <2>1 DEF RecordsInv, AwaitingAlone
  <2>4. \A x \in SyncId : LeadOf(x) # l => sync'[x].status = sync[x].status
    BY <1>1, <1>5
  <2> QED
    BY <1>3, <2>2, <2>3, <2>4
<1>8. OneOpenUpdate'
  <2>1. \A t \in Updates : t # u /\ LeadOf(t) = l => sync'[t].status = "absent"
    BY <1>5, <1>6, KeyShape
  <2>2. \A t \in Updates : LeadOf(t) # l => sync'[t].status = sync[t].status
    BY <1>1, <1>5, KeyShape
  <2> QED
    BY <2>1, <2>2 DEF RecordsInv, OneOpenUpdate, Open, InFlight
<1>9. \A t \in Creates : sync'[t].status = IF t = s THEN "absent" ELSE sync[t].status
  BY <1>1, <1>5, KeyShape
<1>10. Superseded'
  BY <1>9 DEF RecordsInv, Superseded
<1>11. DiscardInv'
  <2>1. DiscardInv /\ life' = life /\ discard' = discard
    BY <1>3 DEF RecordsInv
  <2>2. "awaiting" \notin Open
    BY DEF Open, InFlight
  <2>3. \A t \in Creates : sync[t].status \in Open => sync'[t].status = sync[t].status
    BY <1>1, <1>9, <2>2
  <2>4. \A t \in Creates : sync'[t].status = "succeeded" => sync[t].status = "succeeded"
    BY <1>9
  <2> QED
    BY <2>1, <2>3, <2>4 DEF DiscardInv
<1>12. \A d \in Companies :
         /\ identity'[d].state = identity[d].state
         /\ identity'[d].lead = identity[d].lead
         /\ \/ identity'[d].sync = identity[d].sync
            \/ identity[d].sync = s /\ identity'[d].sync = u
  <2> DEFINE i == [identity[c] EXCEPT !.sync = IF identity[c].sync = s THEN u
                                               ELSE identity[c].sync]
  <2>1. identity' = [identity EXCEPT ![c] = i]
    BY <1>1, <1>3 DEF TypeInv, TypeOK
  <2>2. identity[c] \in Identity
    BY <1>1 DEF TypeInv, TypeOK
  <2>3. /\ i.state = identity[c].state /\ i.lead = identity[c].lead
        /\ \/ i.sync = identity[c].sync
           \/ identity[c].sync = s /\ i.sync = u
    BY <2>2 DEF Identity
  <2> HIDE DEF i, c, l
  <2>4. \A d \in Companies : identity'[d] = IF d = c THEN i ELSE identity[d]
    BY <2>1 DEF TypeInv, TypeOK
  <2> QED
    BY <2>3, <2>4
<1>13. Reservations'
  BY <1>9, <1>12, KeyShape DEF RecordsInv, Reservations, Open, InFlight
<1>14. IdentityInv'
  <2> SUFFICES ASSUME NEW d \in Companies
               PROVE  /\ identity'[d].state = "none" =>
                           identity'[d].lead = None /\ identity'[d].sync = None
                      /\ identity'[d].state # "none" =>
                           /\ identity'[d].sync \in SyncId
                           /\ LeadOf(identity'[d].sync) = identity'[d].lead
                      /\ identity'[d].state = "active" =>
                           sync'[identity'[d].sync].status = "succeeded"
    BY DEF IdentityInv
  <2>1. /\ identity[d].state = "none" => identity[d].lead = None /\ identity[d].sync = None
        /\ identity[d].state # "none" =>
             identity[d].sync \in SyncId /\ LeadOf(identity[d].sync) = identity[d].lead
        /\ identity[d].state = "active" => sync[identity[d].sync].status = "succeeded"
    BY DEF RecordsInv, IdentityInv
  <2>2. CASE identity'[d].sync = identity[d].sync
    BY <1>1, <1>5, <1>12, <2>1, <2>2
  <2>3. CASE identity[d].sync = s /\ identity'[d].sync = u
    BY <1>1, <1>4, <1>12, <2>1, <2>3, KeyAssumption
  <2> QED
    BY <1>12, <2>2, <2>3
<1> QED
  BY <1>7, <1>8, <1>10, <1>11, <1>13, <1>14 DEF RecordsInv

------------------------------------------------------------------------------
(* Discards *)

LEMMA DiscardKeeps ==
  ASSUME TypeInv, RecordsInv, NEW l \in Leads, Discard(l)
  PROVE  RecordsInv'
<1> DEFINE c == CompanyOf[l]
<1>1. UNCHANGED <<sync, last>> /\ c \in Companies
  BY CrmAssumption DEF Discard
<1>2. \A t \in Creates : LeadOf(t) = l => sync[t].status # "succeeded"
  BY LiveIsLatest DEF Discard, RecordsInv, LatestStatus, IsLatest
<1>3. AwaitingAlone' /\ OneOpenUpdate' /\ Superseded'
  BY <1>1 DEF RecordsInv, AwaitingAlone, OneOpenUpdate, Superseded
<1>4. \A k \in Leads : k # l => discard'[k] = discard[k] /\ life'[k] = life[k]
  BY DEF Discard, TypeInv, TypeOK
<1>5. CASE LatestStatus(l, AwaitedByDiscard)
  <2>1. UNCHANGED <<life, identity>> /\ discard'[l] = "pending"
    BY <1>5 DEF Discard, TypeInv, TypeOK
  <2>2. \E t \in Creates : LeadOf(t) = l /\ sync[t].status \in Open
    BY <1>5 DEF LatestStatus, LiveCreates, AwaitedByDiscard, Open
  <2>3. DiscardInv'
    BY <1>1, <1>2, <1>4, <2>1, <2>2, KeyShape DEF RecordsInv, DiscardInv
  <2>4. IdentityInv' /\ Reservations'
    BY <1>1, <2>1 DEF RecordsInv, IdentityInv, Reservations
  <2> QED
    BY <1>3, <2>3, <2>4 DEF RecordsInv
<1>6. CASE ~LatestStatus(l, AwaitedByDiscard)
  <2> DEFINE freed == /\ identity[c].state = "reserving" /\ identity[c].lead = l
                      /\ LiveCreates(l) = {} \/ LatestStatus(l, {"failed"})
  <2>1. /\ identity' = [identity EXCEPT ![c] = IF freed THEN NoIdentity ELSE @]
        /\ discard'[l] = "effective"
    BY <1>1, <1>6 DEF Discard, TypeInv, TypeOK
  <2> HIDE DEF c, freed
  <2>2. /\ \A d \in Companies : d # c => identity'[d] = identity[d]
        /\ identity'[c] = IF freed THEN NoIdentity ELSE identity[c]
    BY <1>1, <2>1 DEF TypeInv, TypeOK
  <2>3. DiscardInv'
    BY <1>1, <1>2, <1>4, <2>1, KeyShape DEF RecordsInv, DiscardInv
  <2>4. IdentityInv'
    BY <1>1, <2>2 DEF RecordsInv, IdentityInv, NoIdentity
  <2>5. ASSUME NEW t \in Creates, sync[t].status \in Open \cup {"awaiting"},
               CompanyOf[LeadOf(t)] = c, freed
        PROVE  FALSE
    <3>1. LeadOf(t) = l
      BY <2>5 DEF RecordsInv, Reservations, freed
    <3>2. t \in LiveCreates(l) /\ sync[t].status \notin {"absent", "abandoned", "failed"}
      BY <2>5, <3>1 DEF LiveCreates, Open, InFlight
    <3>3. LatestStatus(l, {"failed"})
      BY <2>5, <3>2 DEF freed
    <3> QED
      BY <3>1, <3>2, <3>3, LatestDecides DEF RecordsInv
  <2>6. Reservations'
    <3> SUFFICES ASSUME NEW t \in Creates, sync[t].status \in Open \cup {"awaiting"}
                 PROVE  \/ identity'[CompanyOf[LeadOf(t)]].state = "active"
                        \/ identity'[CompanyOf[LeadOf(t)]].lead = LeadOf(t)
      BY <1>1 DEF Reservations
    <3>1. identity'[CompanyOf[LeadOf(t)]] = identity[CompanyOf[LeadOf(t)]]
      BY <2>2, <2>5, KeyShape
    <3> QED
      BY <3>1 DEF RecordsInv, Reservations
  <2> QED
    BY <1>3, <2>3, <2>4, <2>6 DEF RecordsInv
<1> QED
  BY <1>5, <1>6

------------------------------------------------------------------------------
(* Workers that prepare an update *)

UpdatersQuiet ==
  /\ \A l \in Leads : last[l] # 0 => last'[l] # 0
  /\ \A v \in Workers : wk'[v].pc \in {"diff", "refreeze"} =>
       \/ wk[v].pc \in {"diff", "refreeze"} /\ wk'[v].lead = wk[v].lead
       \/ last[wk'[v].lead] # 0

LEMMA UpdatersKeep ==
  ASSUME TypeInv', UpdatersKnown, UpdatersQuiet
  PROVE  UpdatersKnown'
<1> SUFFICES ASSUME NEW v \in Workers, wk'[v].pc \in {"diff", "refreeze"}
             PROVE  last'[wk'[v].lead] # 0
  BY DEF UpdatersKnown
<1>1. wk'[v].lead \in Leads
  BY DEF TypeInv, WorkersTyped, Good
<1> QED
  BY <1>1 DEF UpdatersKnown, UpdatersQuiet

LEMMA QuietMove ==
  ASSUME TypeInv, NEW w \in Workers, NEW r, r.pc \notin {"diff", "refreeze"},
         wk' = [wk EXCEPT ![w] = r], last' = last
  PROVE  UpdatersQuiet
BY DEF TypeInv, WorkersTyped, UpdatersQuiet

LEMMA EndMove ==
  ASSUME TypeInv, NEW w \in Workers, wk[w].pc # "idle", End(w), last' = last
  PROVE  UpdatersQuiet
<1> DEFINE r == IF Deferred(wk[w].cmd) THEN Goto(w, "writeback") ELSE Idle
<1>1. r.pc \notin {"diff", "refreeze"}
  BY GotoGood, IdleGood
<1>2. wk' = [wk EXCEPT ![w] = r]
  BY DEF End
<1> QED
  BY <1>1, <1>2, QuietMove

LEMMA ClaimMove ==
  ASSUME TypeInv, NEW w \in Workers, wk[w].pc # "idle", NEW s, GotoClaim(w, s),
         last' = last
  PROVE  UpdatersQuiet
<1> DEFINE r == [Goto(w, "claim") EXCEPT !.id = s]
<1>1. Goto(w, "claim") \in WorkerState /\ Goto(w, "claim").pc = "claim"
  BY GotoGood
<1>2. r.pc = "claim"
  BY <1>1 DEF WorkerState
<1>3. wk' = [wk EXCEPT ![w] = r]
  BY DEF GotoClaim
<1> QED
  BY <1>2, <1>3, QuietMove

LEMMA BeginMove ==
  ASSUME TypeInv, NEW w \in Workers, NEW l \in Leads, NEW c \in Commands,
         Begin(w, l, c), last' = last
  PROVE  UpdatersQuiet
<1> DEFINE r == [Idle EXCEPT !.pc = "check", !.cmd = c, !.lead = l,
                             !.ver = row[l].ver, !.shown = row[l].shown]
<1>1. r.pc = "check"
  BY DEF Idle
<1> QED
  BY <1>1, QuietMove DEF Begin

------------------------------------------------------------------------------
(* Every step *)

DecisionInv == RecordsInv /\ UpdatersKnown

Kept == RecordsInv' /\ UpdatersQuiet

LEMMA SameKeeps ==
  ASSUME TypeInv, RecordsInv, UNCHANGED <<sync, identity, last, discard, life>>
  PROVE  RecordsInv'
BY StillKeeps DEF Still

LEMMA SubmitKeeps ==
  ASSUME TypeInv, DecisionInv, NEW w \in Workers, Submit(w)
  PROVE  Kept
<1>0. RecordsInv /\ Good(wk[w])
  BY WorkerType DEF DecisionInv
<1>1. CASE CheckResumes(w)
  BY <1>0, <1>1, SameKeeps, ClaimMove DEF CheckResumes, leadVars, Kept
<1>2. CASE CheckPasses(w)
  <2> DEFINE r == [wk[w] EXCEPT !.pc = "freeze"]
  <2>1. r.pc = "freeze"
    BY <1>0 DEF Good, WorkerState
  <2>2. UpdatersQuiet
    BY <1>2, <2>1, QuietMove DEF CheckPasses
  <2> QED
    BY <1>0, <1>2, <2>2, SameKeeps DEF CheckPasses, leadVars, Kept
<1>3. CASE CheckEnds(w)
  BY <1>0, <1>3, SameKeeps, EndMove DEF CheckEnds, leadVars, Kept
<1>4. CASE Freeze(w)
  <2>1. UpdatersQuiet
    BY <1>4, ClaimMove DEF Freeze
  <2> QED
    BY <1>0, <1>4, <2>1, FreezeKeeps DEF Kept
<1>5. CASE FreezeEnds(w)
  BY <1>0, <1>5, SameKeeps, EndMove DEF FreezeEnds, leadVars, Kept
<1> QED
  BY <1>1, <1>2, <1>3, <1>4, <1>5 DEF Submit

LEMMA UpdateKeeps ==
  ASSUME TypeInv, DecisionInv, NEW w \in Workers, Update(w)
  PROVE  Kept
<1>0. RecordsInv /\ Good(wk[w])
  BY WorkerType DEF DecisionInv
<1>1. CASE DiffResumes(w)
  BY <1>0, <1>1, SameKeeps, ClaimMove DEF DiffResumes, leadVars, Kept
<1>2. CASE DiffPasses(w)
  <2>1. UpdatersQuiet
    BY <1>0, <1>2
    DEF DiffPasses, UpdatersQuiet, TypeInv, WorkersTyped, Good, WorkerState
  <2> QED
    BY <1>0, <1>2, <2>1, SameKeeps DEF DiffPasses, leadVars, Kept
<1>3. ASSUME NEW q \in Lives, DiffEnds(w, q)
      PROVE  Kept
  <2>1. UpdatersQuiet
    BY <1>3, IdleGood, QuietMove DEF DiffEnds
  <2>2. \A l \in Leads : life'[l] = "discarded" => life[l] = "discarded"
    BY <1>0, <1>3 DEF DiffEnds, TypeInv, TypeOK, Good
  <2> QED
    BY <1>0, <1>3, <2>1, <2>2, StillKeeps DEF DiffEnds, Still, Kept
<1>4. CASE FreezeUpdate(w)
  <2> DEFINE l == wk[w].lead
             u == <<l, "update", wk[w].ver>>
  <2>1. l \in Leads /\ u \in Updates /\ u \in SyncId /\ LeadOf(u) = l /\ last[l] # 0
    BY <1>0, <1>4, KeyShape
    DEF FreezeUpdate, Good, WorkerState, Updates, LeadOf, DecisionInv, UpdatersKnown
  <2>2. UpdatersQuiet
    BY <1>4, ClaimMove DEF FreezeUpdate
  <2>3. CASE sync[u].status = "absent"
    <3>1. StatusMoves(u, "pending")
      BY <1>4, <2>1, <2>3, NewMoves DEF FreezeUpdate
    <3>2. \A s \in SyncId : LeadOf(s) = LeadOf(u) => sync[s].status # "awaiting"
      BY <1>0, <2>1 DEF RecordsInv, AwaitingAlone
    <3>3. Unfinished(LeadOf(u)) = {}
      BY <1>4, <2>1 DEF FreezeUpdate, NoUnfinished
    <3>4. UNCHANGED <<identity, last, life, discard>>
      BY <1>4 DEF FreezeUpdate, leadVars
    <3> HIDE DEF u
    <3> QED
      BY <1>0, <2>1, <2>2, <2>3, <3>1, <3>2, <3>3, <3>4, NewUpdateKeeps DEF Kept
  <2>4. CASE sync[u].status # "absent"
    BY <1>0, <1>4, <2>2, <2>4, SameKeeps DEF FreezeUpdate, leadVars, Kept
  <2> QED
    BY <2>3, <2>4
<1>5. CASE FreezeUpdateEnds(w)
  BY <1>0, <1>5, SameKeeps, IdleGood, QuietMove DEF FreezeUpdateEnds, leadVars, Kept
<1> QED
  BY <1>1, <1>2, <1>3, <1>4, <1>5 DEF Update

LEMMA CallKeepsRecords ==
  ASSUME TypeInv, DecisionInv, NEW w \in Workers, Call(w)
  PROVE  Kept
<1>0. RecordsInv /\ Good(wk[w])
  BY WorkerType DEF DecisionInv
<1> DEFINE s == wk[w].id
<1>1. CASE Claim(w)
  <2>1. s \in SyncId /\ sync[s] \in Sync /\ sync[s].status \in Open \cup {"awaiting"}
    BY <1>0, <1>1, RecordType
    DEF Claim, Good, MayClaim, Claimable, LeaseExpired, Open, InFlight
  <2>2. StatusMoves(s, "processing")
    BY <1>1, <2>1 DEF Claim, TypeInv, TypeOK, Sync, StatusMoves
  <2>3. RecordsInv'
    BY <1>0, <1>1, <2>1, <2>2, OpenKeeps DEF Claim, leadVars, Open, InFlight
  <2> DEFINE r == [wk[w] EXCEPT !.pc = "call", !.att = NextAttempt(s),
                                !.ver = FrozenPayload(s)]
  <2>4. r.pc = "call" /\ wk' = [wk EXCEPT ![w] = r] /\ last' = last
    BY <1>0, <1>1 DEF Claim, Good, WorkerState
  <2> QED
    BY <2>3, <2>4, QuietMove DEF Kept
<1>2. CASE ClaimExhausted(w)
  <2>1. s \in SyncId /\ sync[s].status \in Open \cup {"awaiting"}
    BY <1>0, <1>2
    DEF ClaimExhausted, Good, MayClaim, Claimable, LeaseExpired, Open, InFlight
  <2>2. StatusMoves(s, "unknown")
    BY <1>2, <2>1, SetMoves DEF ClaimExhausted
  <2>3. RecordsInv'
    BY <1>0, <1>2, <2>1, <2>2, OpenKeeps DEF ClaimExhausted, leadVars, Open
  <2> QED
    BY <1>2, <2>3, EndMove DEF ClaimExhausted, Kept
<1>3. CASE ClaimRefused(w)
  BY <1>0, <1>3, SameKeeps, EndMove DEF ClaimRefused, leadVars, Kept
<1>4. ASSUME NEW o \in Outcomes, NEW done \in BOOLEAN, CrmCall(w, o, done)
      PROVE  Kept
  <2> DEFINE r == [wk[w] EXCEPT !.pc = "record", !.out = o]
  <2>1. r.pc = "record" /\ wk' = [wk EXCEPT ![w] = r]
    BY <1>0, <1>4 DEF CrmCall, Good, WorkerState
  <2>2. UpdatersQuiet
    BY <1>4, <2>1, QuietMove DEF CrmCall
  <2> QED
    BY <1>0, <1>4, <2>2, SameKeeps DEF CrmCall, leadVars, Kept
<1> QED
  BY <1>1, <1>2, <1>3, <1>4 DEF Call

LEMMA RecordKeeps ==
  ASSUME TypeInv, DecisionInv, NEW w \in Workers, Record(w)
  PROVE  Kept
<1>0. RecordsInv /\ Good(wk[w])
  BY WorkerType DEF DecisionInv
<1>1. CASE RecordStale(w)
  BY <1>0, <1>1, SameKeeps, EndMove DEF RecordStale, leadVars, Kept
<1>2. CASE RecordSuccess(w)
  <2>1. wk[w].id \in SyncId /\ wk[w].pc # "idle"
    BY <1>0, <1>2 DEF RecordSuccess, Good
  <2>2. LeadOf(wk[w].id) \in Leads /\ sync[wk[w].id].ver # 0
    BY <2>1, KeyShape, RecordType
  <2>3. \A l \in Leads : last[l] # 0 => last'[l] # 0
    BY <1>2, <2>2 DEF RecordSuccess, TypeInv, TypeOK
  <2>4. wk' = [wk EXCEPT ![w] = Goto(w, "writeback")] /\ Goto(w, "writeback").pc = "writeback"
    BY <1>2, <2>1, GotoGood DEF RecordSuccess
  <2>5. UpdatersQuiet
    BY <2>3, <2>4 DEF TypeInv, WorkersTyped, UpdatersQuiet
  <2> QED
    BY <1>0, <1>2, <2>5, SuccessKeeps DEF Kept
<1>3. CASE RecordPermanent(w)
  <2>1. UpdatersQuiet
    BY <1>3, EndMove DEF RecordPermanent
  <2> QED
    BY <1>0, <1>3, <2>1, PermanentKeeps DEF Kept
<1>4. CASE RecordLostAnswer(w)
  <2>1. wk[w].id \in SyncId /\ sync[wk[w].id].status \in Open
    BY <1>0, <1>4 DEF RecordLostAnswer, Good, ClaimIsCurrent, Open, InFlight
  <2>2. AfterLostAnswer(w) \in Open
    BY DEF AfterLostAnswer, Open, InFlight
  <2>3. StatusMoves(wk[w].id, AfterLostAnswer(w))
    BY <1>4, <2>1, SetMoves DEF RecordLostAnswer
  <2>4. UNCHANGED <<identity, last, discard, life>> /\ UpdatersQuiet
    BY <1>4, EndMove DEF RecordLostAnswer, leadVars, IdentityKept
  <2> QED
    BY <1>0, <2>1, <2>2, <2>3, <2>4, OpenKeeps DEF Kept
<1>5. CASE WriteBack(w)
  BY <1>0, <1>5, SameKeeps, IdleGood, QuietMove DEF WriteBack, leadVars, Kept
<1>6. CASE ShowAbandoned(w)
  BY <1>0, <1>6, SameKeeps, IdleGood, QuietMove DEF ShowAbandoned, leadVars, Kept
<1> QED
  BY <1>1, <1>2, <1>3, <1>4, <1>5, <1>6 DEF Record

LEMMA PeopleKeep ==
  ASSUME TypeInv, DecisionInv, NEW w \in Workers, Retry(w) \/ People(w)
  PROVE  Kept
<1>0. RecordsInv
  BY DEF DecisionInv
<1>1. ASSUME NEW s \in Creates, RetryDue(w, s)
      PROVE  Kept
  <2> DEFINE r == [Idle EXCEPT !.pc = "claim", !.cmd = "retry",
                               !.lead = LeadOf(s), !.id = s]
  <2>1. r.pc = "claim"
    BY DEF Idle
  <2>2. UpdatersQuiet
    BY <1>1, <2>1, QuietMove DEF RetryDue
  <2> QED
    BY <1>0, <1>1, <2>2, SameKeeps DEF RetryDue, leadVars, Kept
<1>2. ASSUME NEW l \in Leads, RetryWriteBack(w, l)
      PROVE  Kept
  <2> DEFINE r == [Idle EXCEPT !.pc = "writeback", !.cmd = "retry", !.lead = l]
  <2>1. r.pc = "writeback"
    BY DEF Idle
  <2>2. UpdatersQuiet
    BY <1>2, <2>1, QuietMove DEF RetryWriteBack
  <2> QED
    BY <1>0, <1>2, <2>2, SameKeeps DEF RetryWriteBack, leadVars, Kept
<1>3. ASSUME NEW l \in Leads, NEW c \in Commands, StartSubmit(w, l, c)
      PROVE  Kept
  BY <1>0, <1>3, SameKeeps, BeginMove DEF StartSubmit, leadVars, Kept
<1>4. ASSUME NEW l \in Leads, StartUpdate(w, l)
      PROVE  Kept
  <2> DEFINE r == [Idle EXCEPT !.pc = "diff", !.cmd = "update", !.lead = l,
                               !.ver = row[l].ver]
  <2>1. r.lead = l
    BY DEF Idle
  <2>2. wk' = [wk EXCEPT ![w] = r] /\ last' = last /\ last[l] # 0
    BY <1>4 DEF StartUpdate
  <2> HIDE DEF r
  <2>3. UpdatersQuiet
    BY <2>1, <2>2 DEF TypeInv, WorkersTyped, UpdatersQuiet
  <2> QED
    BY <1>0, <1>4, <2>3, SameKeeps DEF StartUpdate, leadVars, Kept
<1>5. ASSUME NEW s \in Creates, ConfirmGoOn(w, s)
      PROVE  Kept
  <2> DEFINE r == [Idle EXCEPT !.pc = "claim", !.cmd = "confirm",
                               !.lead = LeadOf(s),
                               !.id = <<LeadOf(s), "update", sync[s].ver>>]
  <2>1. r.pc = "claim"
    BY DEF Idle
  <2>2. UpdatersQuiet
    BY <1>5, <2>1, QuietMove DEF ConfirmGoOn
  <2> QED
    BY <1>0, <1>5, <2>2, GoOnKeeps DEF Kept
<1>6. ASSUME NEW s \in Creates, ConfirmStop(w, s)
      PROVE  Kept
  <2> DEFINE r == [Idle EXCEPT !.pc = "stop", !.lead = LeadOf(s)]
  <2>1. r.pc = "stop"
    BY DEF Idle
  <2>2. UpdatersQuiet
    BY <1>6, <2>1, QuietMove DEF ConfirmStop
  <2> QED
    BY <1>0, <1>6, <2>2, StopKeeps DEF Kept
<1> QED
  BY <1>1, <1>2, <1>3, <1>4, <1>5, <1>6 DEF Retry, People

LEMMA OutsideKeep ==
  ASSUME TypeInv, DecisionInv,
         \/ \E w \in Workers :
              \/ Faults(w)
              \/ \E l \in Leads, c \in Commands : Redeliver(w, l, c)
         \/ \E s \in SyncId : LeaseRunsOut(s)
         \/ \E l \in Leads : Discard(l) \/ \E v \in 1..MaxVer : Edit(l, v)
         \/ UNCHANGED vars
  PROVE  Kept
<1>0. RecordsInv
  BY DEF DecisionInv
<1>1. ASSUME NEW w \in Workers, Faults(w)
      PROVE  Kept
  BY <1>0, <1>1, SameKeeps, IdleGood, QuietMove
  DEF Faults, WorkerCrash, WriteBackFails, leadVars, Kept
<1>2. ASSUME NEW w \in Workers, NEW l \in Leads, NEW c \in Commands,
             Redeliver(w, l, c)
      PROVE  Kept
  BY <1>0, <1>2, SameKeeps, BeginMove DEF Redeliver, leadVars, Kept
<1>3. ASSUME UNCHANGED <<wk, last>>
      PROVE  UpdatersQuiet
  BY <1>3 DEF UpdatersQuiet
<1>4. ASSUME NEW s \in SyncId, LeaseRunsOut(s)
      PROVE  Kept
  <2>1. \A t \in SyncId : sync'[t].status = sync[t].status
    BY <1>4 DEF LeaseRunsOut, TypeInv, TypeOK, Sync
  <2> QED
    BY <1>0, <1>3, <1>4, <2>1, StillKeeps DEF LeaseRunsOut, leadVars, Still, Kept
<1>5. ASSUME NEW l \in Leads, Discard(l)
      PROVE  Kept
  BY <1>0, <1>3, <1>5, DiscardKeeps DEF Discard, Kept
<1>6. ASSUME NEW l \in Leads, NEW v \in 1..MaxVer, Edit(l, v)
      PROVE  Kept
  BY <1>0, <1>3, <1>6, SameKeeps DEF Edit, leadVars, Kept
<1>7. CASE UNCHANGED vars
  BY <1>0, <1>3, <1>7, SameKeeps DEF vars, leadVars, Kept
<1> QED
  BY <1>1, <1>2, <1>4, <1>5, <1>6, <1>7

LEMMA DecisionStep ==
  ASSUME TypeInv, DecisionInv, [Next]_vars
  PROVE  DecisionInv'
<1>1. Kept
  BY SubmitKeeps, UpdateKeeps, CallKeepsRecords, RecordKeeps, PeopleKeep, OutsideKeep
  DEF Next, WorkerStep
<1> QED
  BY <1>1, TypeStep, UpdatersKeep DEF DecisionInv, Kept

LEMMA DecisionInit == Init => DecisionInv
<1> SUFFICES ASSUME Init
             PROVE  DecisionInv
  OBVIOUS
<1>1. PICK L \in SUBSET Legacy :
        /\ \A k, l \in L : CompanyOf[k] = CompanyOf[l] => k = l
        /\ sync = [s \in SyncId |->
                     IF s[2] = "create" /\ s[3] = 1 /\ LeadOf(s) \in L
                       THEN [NoSync EXCEPT !.status = "awaiting"] ELSE NoSync]
        /\ identity = [c \in Companies |-> LegacyIdentity(L, c)]
  BY DEF Init
<1>2. /\ \A l \in Leads : last[l] = 0 /\ discard[l] = "none"
      /\ \A w \in Workers : wk[w].pc = "idle"
  BY IdleGood DEF Init
<1>3. \A s \in SyncId :
        \/ /\ sync[s].status = "awaiting" /\ s \in Creates
           /\ s[3] = 1 /\ LeadOf(s) \in L
        \/ sync[s].status = "absent" /\ ~(s \in Creates /\ s[3] = 1 /\ LeadOf(s) \in L)
  BY <1>1, KeyShape DEF NoSync
<1>4. \A c \in Companies :
        \/ identity[c] = NoIdentity /\ \A l \in L : CompanyOf[l] # c
        \/ \E k \in L : /\ CompanyOf[k] = c /\ identity[c].state = "reserving"
                        /\ identity[c].lead = k /\ identity[c].sync = <<k, "create", 1>>
  <2> SUFFICES ASSUME NEW c \in Companies
               PROVE  \/ identity[c] = NoIdentity /\ \A l \in L : CompanyOf[l] # c
                      \/ \E k \in L : /\ CompanyOf[k] = c
                                      /\ identity[c].state = "reserving"
                                      /\ identity[c].lead = k
                                      /\ identity[c].sync = <<k, "create", 1>>
    OBVIOUS
  <2>1. CASE \E l \in L : CompanyOf[l] = c
    <3> DEFINE k == CHOOSE x \in L : CompanyOf[x] = c
    <3>1. k \in L /\ CompanyOf[k] = c
      BY <2>1
    <3>2. identity[c] = [state |-> "reserving", lead |-> k, sync |-> <<k, "create", 1>>]
      BY <1>1, <2>1 DEF LegacyIdentity
    <3> HIDE DEF k
    <3> QED
      BY <3>1, <3>2
  <2>2. CASE ~\E l \in L : CompanyOf[l] = c
    BY <1>1, <2>2 DEF LegacyIdentity
  <2> QED
    BY <2>1, <2>2
<1>5. AwaitingAlone
  <2> SUFFICES ASSUME NEW s \in SyncId, sync[s].status = "awaiting"
               PROVE  /\ s \in Creates /\ last[LeadOf(s)] = 0
                      /\ \A t \in SyncId : LeadOf(t) = LeadOf(s) /\ t # s
                                           => sync[t].status = "absent"
    BY DEF AwaitingAlone
  <2>1. s \in Creates /\ s[3] = 1 /\ LeadOf(s) \in Leads
    BY <1>3, KeyShape
  <2>2. \A t \in SyncId : LeadOf(t) = LeadOf(s) /\ sync[t].status = "awaiting" => t = s
    BY <1>3, <2>1, SameGeneration
  <2> QED
    BY <1>2, <1>3, <2>1, <2>2
<1>6. OneOpenUpdate
  BY <1>3, KeyShape DEF OneOpenUpdate, Open, InFlight
<1>7. Superseded
  BY <1>3, KeyShape DEF Superseded
<1>8. IdentityInv
  <2>1. \A k \in L : <<k, "create", 1>> \in SyncId /\ LeadOf(<<k, "create", 1>>) = k
    BY CreateKey, CrmAssumption DEF LeadOf
  <2> SUFFICES ASSUME NEW c \in Companies
               PROVE  /\ identity[c].state = "none" =>
                           identity[c].lead = None /\ identity[c].sync = None
                      /\ identity[c].state # "none" =>
                           /\ identity[c].sync \in SyncId
                           /\ LeadOf(identity[c].sync) = identity[c].lead
                      /\ identity[c].state # "active"
    BY DEF IdentityInv
  <2>2. CASE identity[c] = NoIdentity
    BY <2>2 DEF NoIdentity
  <2>3. CASE identity[c] # NoIdentity
    <3>1. PICK k \in L : /\ identity[c].state = "reserving" /\ identity[c].lead = k
                         /\ identity[c].sync = <<k, "create", 1>>
      BY <1>4, <2>3
    <3> QED
      BY <2>1, <3>1
  <2> QED
    BY <2>2, <2>3
<1>9. Reservations
  <2> SUFFICES ASSUME NEW s \in Creates, sync[s].status \in Open \cup {"awaiting"}
               PROVE  identity[CompanyOf[LeadOf(s)]].lead = LeadOf(s)
    BY DEF Reservations
  <2>1. LeadOf(s) \in L /\ CompanyOf[LeadOf(s)] \in Companies
    BY <1>3, KeyShape DEF Open, InFlight
  <2>2. PICK k \in L : CompanyOf[k] = CompanyOf[LeadOf(s)]
                       /\ identity[CompanyOf[LeadOf(s)]].lead = k
    BY <1>4, <2>1
  <2>3. k = LeadOf(s)
    BY <1>1, <2>1, <2>2
  <2> QED
    BY <2>2, <2>3
<1>10. DiscardInv
  BY <1>2, <1>3, KeyShape DEF DiscardInv
<1>11. UpdatersKnown
  BY <1>2 DEF UpdatersKnown
<1> QED
  BY <1>5, <1>6, <1>7, <1>8, <1>9, <1>10, <1>11 DEF DecisionInv, RecordsInv

LEMMA DecisionInvariant == Spec => [](TypeInv /\ DecisionInv)
<1>1. Init => TypeInv /\ DecisionInv
  BY TypeInit, DecisionInit
<1>2. TypeInv /\ DecisionInv /\ [Next]_vars => (TypeInv /\ DecisionInv)'
  BY TypeStep, DecisionStep
<1> QED
  BY <1>1, <1>2, PTL DEF Spec

\* A lead never has two updates whose outcome is open, whichever commands,
\* answers to old questions, takeovers and lost answers interleave
\* (_unfinished_update under the lead's row lock).
THEOREM OneUpdateOpen == Spec => []OneUnfinishedUpdate
<1>1. ASSUME DecisionInv, NEW l \in Leads
      PROVE  Cardinality(Unfinished(l)) <= 1
  <2>1. \A s, t \in Unfinished(l) : s = t
    BY <1>1 DEF DecisionInv, RecordsInv, OneOpenUpdate, Unfinished, Open
  <2>2. CASE Unfinished(l) = {}
    BY <2>2, FS_EmptySet
  <2>3. CASE \E s : s \in Unfinished(l)
    <3>1. PICK s : s \in Unfinished(l)
      BY <2>3
    <3>2. Unfinished(l) = {s}
      BY <2>1, <3>1
    <3> QED
      BY <3>2, FS_Singleton
  <2> QED
    BY <2>2, <2>3
<1>2. DecisionInv => OneUnfinishedUpdate
  BY <1>1 DEF OneUnfinishedUpdate
<1> QED
  BY <1>2, DecisionInvariant, PTL

\* Two leads of one company are never both on their way into the CRM before
\* the company is known there: a create under way holds CrmCompanyIdentity
\* until it is refused, abandoned or recorded.
THEOREM OneCreator == Spec => []OneCreatorPerCompany
<1>1. DecisionInv => OneCreatorPerCompany
  BY DEF DecisionInv, RecordsInv, Reservations, OneCreatorPerCompany, Open
<1> QED
  BY <1>1, DecisionInvariant, PTL

\* A recorded success of the latest create overrides a discard request, and a
\* request waits only while that create is undecided (ADR 0015,
\* LeadDiscardService.discard, _record_crm_failure).
THEOREM FactBeatsDiscard == Spec => []CrmFactBeatsDiscard
<1>1. ASSUME DecisionInv, NEW l \in Leads
      PROVE  /\ LatestStatus(l, {"succeeded"}) =>
                  life[l] # "discarded" /\ discard[l] \notin {"pending", "effective"}
             /\ discard[l] = "pending" => LatestStatus(l, InFlight \cup {"unknown"})
  <2>1. ASSUME LatestStatus(l, {"succeeded"})
        PROVE  life[l] # "discarded" /\ discard[l] \notin {"pending", "effective"}
    BY <1>1, <2>1 DEF LatestStatus, LiveCreates, DecisionInv, RecordsInv, DiscardInv
  <2>2. ASSUME discard[l] = "pending"
        PROVE  LatestStatus(l, InFlight \cup {"unknown"})
    <3>1. PICK s \in Creates : LeadOf(s) = l /\ sync[s].status \in Open
      BY <1>1, <2>2 DEF DecisionInv, RecordsInv, DiscardInv
    <3>2. IsLatest(l, s)
      BY <1>1, <3>1, LiveIsLatest DEF DecisionInv, RecordsInv, Open, InFlight
    <3> QED
      BY <3>1, <3>2 DEF LatestStatus, IsLatest, Open
  <2> QED
    BY <2>1, <2>2
<1>2. DecisionInv => CrmFactBeatsDiscard
  BY <1>1 DEF CrmFactBeatsDiscard
<1> QED
  BY <1>2, DecisionInvariant, PTL
============================================================================
