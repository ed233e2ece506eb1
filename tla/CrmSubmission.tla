--------------------------- MODULE CrmSubmission ---------------------------
(***************************************************************************)
(* Submission of leads to the enterprise CRM: a command reads the Smart    *)
(* Table row, freezes a CrmSyncRecord under the lead's row lock, claims it *)
(* in a second transaction, calls the CRM without a lock, and records the  *)
(* result in a third one if its claim is still current.  The retry task    *)
(* claims due creates again; a salesperson may edit the row, update,       *)
(* answer an old duplicate question or discard the lead at any time.       *)
(*                                                                         *)
(* Sources: app/crm/service.py, app/leads/discard.py.                      *)
(*                                                                         *)
(* A payload is the number of the row content it was taken from.  A sync   *)
(* record is named by its idempotency key: <<lead, "create", generation>>  *)
(* or <<lead, "update", payload>>.                                         *)
(***************************************************************************)
EXTENDS Naturals, FiniteSets

CONSTANTS
    Leads,
    Companies,
    CompanyOf,      \* the company name in a lead's row
    Workers,        \* tasks and threads that submit or retry
    Commands,       \* commands this instance issues
    Legacy,         \* leads an earlier release may have left waiting for an answer
    MaxVer,         \* bound: contents a row can have
    MaxGen,         \* bound: create generations of a lead
    MaxAttempts,    \* bound: claims of one sync record
    RetryCount,     \* settings.crm_create_retry_count
    Spare,          \* bound: claims left over for takeovers of a resumed record
    MaxFaults,      \* bound: crashes and failed write-backs
    None

AllCommands == {"target", "submit", "again", "update", "confirm"}

ASSUME CrmAssumption ==
    /\ Leads # {} /\ CompanyOf \in [Leads -> Companies]
    /\ Commands \subseteq AllCommands /\ Legacy \subseteq Leads
    /\ MaxVer \in Nat \ {0} /\ MaxGen \in Nat \ {0}
    /\ MaxAttempts \in Nat \ {0} /\ RetryCount \in Nat \ {0}
    /\ MaxFaults \in Nat /\ Spare \in Nat
    /\ None \notin Leads

Creates == Leads \X {"create"} \X (1..MaxGen)
Updates == Leads \X {"update"} \X (1..MaxVer)
SyncId  == Creates \cup Updates

\* None is the key of no record.
ASSUME KeyAssumption == None \notin SyncId

LeadOf(s) == s[1]

\* "failed" and "unknown" are failed_pending_review with a permanent and
\* with an unknown failure_category.
Statuses == {"absent", "awaiting", "pending", "processing", "retrying",
             "succeeded", "failed", "unknown", "abandoned"}
InFlight == {"pending", "processing", "retrying"}

Lives == {"pending_create", "synced", "pending_update", "identity_review",
          "discarded"}
Shown == {"open", "submitted", "abandoned"}     \* column 提交状态

Sync == [status : Statuses, attempts : 0..MaxAttempts, ver : 1..MaxVer,
         expired : BOOLEAN]
NoSync == [status |-> "absent", attempts |-> 0, ver |-> 1, expired |-> FALSE]

Identity == [state : {"none", "reserving", "active", "failed"},
             lead : Leads \cup {None}, sync : SyncId \cup {None}]
NoIdentity == [state |-> "none", lead |-> None, sync |-> None]

Outcomes == {"created", "followed", "refused", "malformed", "transient",
             "unknown"}

VARIABLES
    sync,       \* CrmSyncRecord by key
    newest,     \* the lead's last inserted sync record
    last,       \* payload of the lead's last successful sync, 0 for none
    life,       \* Lead.lifecycle_state
    discard,    \* LeadDiscardRequest.status
    identity,   \* CrmCompanyIdentity by company
    row,        \* the Smart Table row: version and submission status
    local,      \* submission status in Lead.field_values
    crm,        \* keys the CRM has executed
    sent,       \* history: <<key, payload>> of every request made
    owed,       \* commands whose task died: redelivered later
    wk,         \* per worker: program counter and operation in hand
    faults

leadVars == <<life, discard>>
vars == <<sync, newest, last, life, discard, identity, row, local, crm, sent,
          owed, wk, faults>>

PCs == {"idle", "check", "freeze", "diff", "refreeze", "claim", "call",
        "record", "writeback", "stop"}

WorkerState ==
    [pc : PCs, cmd : AllCommands \cup {"retry"}, lead : Leads \cup {None},
     ver : 1..MaxVer, shown : Shown, id : SyncId \cup {None},
     att : 0..MaxAttempts, out : Outcomes]

Idle == [pc |-> "idle", cmd |-> "target", lead |-> None, ver |-> 1,
         shown |-> "open", id |-> None, att |-> 0, out |-> "unknown"]

-----------------------------------------------------------------------------
(* Helpers *)

LiveCreates(l) ==
    {s \in Creates : LeadOf(s) = l /\ sync[s].status # "absent"}

(* latest_crm_create_sync. *)
IsLatest(l, s) ==
    s \in LiveCreates(l) /\ \A t \in LiveCreates(l) : t[3] <= s[3]

LatestStatus(l, Q) == \E s \in LiveCreates(l) : IsLatest(l, s)
                                                /\ sync[s].status \in Q

(* _unfinished_update. *)
Unfinished(l) ==
    {s \in Updates : LeadOf(s) = l /\ sync[s].status \in InFlight \cup {"unknown"}}

LeaseExpired(s) == sync[s].status = "processing" /\ sync[s].expired

(* allowed_submission_statuses. *)
Allowed(c) == IF c = "again" THEN {"abandoned"} ELSE {"open"}

(* defer_smart_table_submission_status: batches write back at their end. *)
Deferred(c) == c \in {"submit", "again", "confirm", "retry"}

(* A worker moves on, keeping of its operation only the command and lead. *)
Goto(w, pc) == [Idle EXCEPT !.pc = pc, !.cmd = wk[w].cmd, !.lead = wk[w].lead]

End(w) ==
    wk' = [wk EXCEPT ![w] = IF Deferred(wk[w].cmd) THEN Goto(w, "writeback")
                              ELSE Idle]

GotoClaim(w, s) == wk' = [wk EXCEPT ![w] = [Goto(w, "claim") EXCEPT !.id = s]]

SetStatus(s, q) == [sync EXCEPT ![s].status = q, ![s].expired = FALSE]

Fault == faults < MaxFaults /\ faults' = faults + 1

-----------------------------------------------------------------------------
(* Leads in L wait for an answer and hold the reservation of their company. *)
LegacyIdentity(L, c) ==
    IF \E l \in L : CompanyOf[l] = c
      THEN LET l == CHOOSE x \in L : CompanyOf[x] = c
           IN [state |-> "reserving", lead |-> l, sync |-> <<l, "create", 1>>]
      ELSE NoIdentity

Init ==
    /\ \E L \in SUBSET Legacy :
         /\ \A k, l \in L : CompanyOf[k] = CompanyOf[l] => k = l
         /\ sync = [s \in SyncId |->
                      IF s[2] = "create" /\ s[3] = 1 /\ LeadOf(s) \in L
                        THEN [NoSync EXCEPT !.status = "awaiting"] ELSE NoSync]
         /\ newest = [l \in Leads |->
                        IF l \in L THEN <<l, "create", 1>> ELSE None]
         /\ identity = [c \in Companies |-> LegacyIdentity(L, c)]
    /\ last = [l \in Leads |-> 0]
    /\ life = [l \in Leads |-> "pending_create"]
    /\ discard = [l \in Leads |-> "none"]
    /\ row = [l \in Leads |-> [ver |-> 1, shown |-> "open"]]
    /\ local = [l \in Leads |-> "open"]
    /\ crm = {} /\ sent = {} /\ owed = {}
    /\ wk = [w \in Workers |-> Idle]
    /\ faults = 0

(***************************************************************************)
(* Creating                                                                *)
(***************************************************************************)

(* A command reads the row once; every later step uses this snapshot.      *)
(* Batch candidates are filtered by the status column, a target is not.    *)
Begin(w, l, c) ==
    /\ wk[w].pc = "idle" /\ c \in {"target", "submit", "again"}
    /\ c = "target" \/ row[l].shown \in Allowed(c)
    /\ wk' = [wk EXCEPT ![w] = [Idle EXCEPT !.pc = "check", !.cmd = c,
                !.lead = l, !.ver = row[l].ver, !.shown = row[l].shown]]

StartSubmit(w, l, c) ==
    /\ c \in Commands /\ Begin(w, l, c)
    /\ UNCHANGED <<sync, newest, last, leadVars, identity, row, local, crm,
                   sent, owed, faults>>

(* The message or card that carried the command is consumed again. *)
Redeliver(w, l, c) ==
    /\ <<l, c>> \in owed /\ Begin(w, l, c)
    /\ owed' = owed \ {<<l, c>>}
    /\ UNCHANGED <<sync, newest, last, leadVars, identity, row, local, crm,
                   sent, faults>>

(* _submit_create_once, first session: an undecided operation is taken up  *)
(* as it was frozen, never replaced by the new snapshot.                   *)
Resumable == InFlight \cup {"awaiting", "failed", "unknown"}

(* Bound: people resume an unknown outcome while attempts are left. *)
WithinBound(s) ==
    sync[s].status = "unknown" => sync[s].attempts + Spare < MaxAttempts

CheckResumes(w) ==
    /\ wk[w].pc = "check" /\ Unfinished(wk[w].lead) = {}
    /\ \E s \in Creates : /\ IsLatest(wk[w].lead, s)
                          /\ sync[s].status \in Resumable
                          /\ WithinBound(s) /\ GotoClaim(w, s)
    /\ UNCHANGED <<sync, newest, last, leadVars, identity, row, local, crm,
                   sent, owed, faults>>

(* Nothing frozen yet, or an abandoned operation reopened by its command. *)
Fresh(w) ==
    LET l == wk[w].lead IN
    /\ Unfinished(l) = {}
    /\ \/ LiveCreates(l) = {}
       \/ LatestStatus(l, {"abandoned"}) /\ wk[w].cmd = "again"
    /\ wk[w].shown \in Allowed(wk[w].cmd)

CheckPasses(w) ==
    /\ wk[w].pc = "check" /\ Fresh(w)
    /\ wk' = [wk EXCEPT ![w].pc = "freeze"]
    /\ UNCHANGED <<sync, newest, last, leadVars, identity, row, local, crm,
                   sent, owed, faults>>

(* Already decided, wrong status column, incomplete fields, no mapping,    *)
(* or a company reserved by another lead.                                  *)
CheckEnds(w) ==
    /\ wk[w].pc = "check"
    /\ \/ Unfinished(wk[w].lead) # {}
       \/ ~\E s \in Creates : /\ IsLatest(wk[w].lead, s) /\ WithinBound(s)
                               /\ sync[s].status \in Resumable
    /\ End(w)
    /\ UNCHANGED <<sync, newest, last, leadVars, identity, row, local, crm,
                   sent, owed, faults>>

(* Mutant: a reservation of another lead is not looked at. *)
AnyCompany(l) == TRUE

(* The company is unknown, reserved by this lead, or already in the CRM. *)
CompanyFree(l) ==
    LET i == identity[CompanyOf[l]] IN
    \/ i.state \in {"none", "active"}
    \/ i.state = "reserving" /\ i.lead = l

NextGeneration(l) ==
    IF LiveCreates(l) = {} THEN 1
    ELSE (CHOOSE s \in LiveCreates(l) : IsLatest(l, s))[3] + 1

Freezable(w) ==
    LET l == wk[w].lead IN
    /\ Fresh(w)
    /\ LiveCreates(l) = {} => wk[w].cmd # "again"
    /\ CompanyFree(l)

(* The freezing transaction under the lead's row lock: every check again,  *)
(* then the record and the company reservation together.                   *)
Freeze(w) ==
    LET l == wk[w].lead
        c == CompanyOf[l]
        s == <<l, "create", NextGeneration(l)>>
    IN
    /\ wk[w].pc = "freeze" /\ Freezable(w) /\ s \in Creates
    /\ sync' = [sync EXCEPT ![s] = [NoSync EXCEPT !.status = "pending",
                                                  !.ver = wk[w].ver]]
    /\ newest' = [newest EXCEPT ![l] = s]
    /\ identity' = [identity EXCEPT ![c] =
         IF @.state = "active" THEN @
         ELSE [state |-> "reserving", lead |-> l, sync |-> s]]
    /\ GotoClaim(w, s)
    /\ UNCHANGED <<last, leadVars, row, local, crm, sent, owed, faults>>

FreezeEnds(w) ==
    /\ wk[w].pc = "freeze" /\ ~Freezable(w)
    /\ End(w)
    /\ UNCHANGED <<sync, newest, last, leadVars, identity, row, local, crm,
                   sent, owed, faults>>

(***************************************************************************)
(* Claim, call, record: _claim_and_call                                    *)
(***************************************************************************)

Claimable(s) ==
    \/ sync[s].status \in {"pending", "retrying", "awaiting", "unknown"}
    \/ LeaseExpired(s)

(* A claim whose call may not be made: its outcome stays unknown.          *)
(* An update whose worker is lost is not written over a second time, and   *)
(* a create stops after RetryCount attempts unless its outcome is unknown. *)
Exhausted(s) ==
    \/ s[2] = "update" /\ sync[s].attempts > 0 /\ LeaseExpired(s)
    \/ /\ sync[s].attempts >= RetryCount
       /\ ~LeaseExpired(s) /\ sync[s].status # "unknown"

MayClaim(s) == Claimable(s) /\ Unfinished(LeadOf(s)) \ {s} = {}

(* Mutant: a takeover keeps the attempt number of the lost worker. *)
SameAttempt(s) == IF sync[s].attempts = 0 THEN 1 ELSE sync[s].attempts

NextAttempt(s) == sync[s].attempts + 1

(* Mutant: a retry reads the row again instead of the frozen payload. *)
RereadPayload(s) == row[LeadOf(s)].ver

FrozenPayload(s) == sync[s].ver

Claim(w) ==
    LET s == wk[w].id IN
    /\ wk[w].pc = "claim" /\ MayClaim(s) /\ ~Exhausted(s)
    /\ NextAttempt(s) <= MaxAttempts
    /\ sync' = [sync EXCEPT ![s] = [@ EXCEPT !.status = "processing",
                  !.expired = FALSE, !.attempts = NextAttempt(s)]]
    /\ wk' = [wk EXCEPT ![w].pc = "call", ![w].att = NextAttempt(s),
                        ![w].ver = FrozenPayload(s)]
    /\ UNCHANGED <<newest, last, leadVars, identity, row, local, crm, sent,
                   owed, faults>>

ClaimExhausted(w) ==
    LET s == wk[w].id IN
    /\ wk[w].pc = "claim" /\ MayClaim(s) /\ Exhausted(s)
    /\ sync' = SetStatus(s, "unknown")
    /\ End(w)
    /\ UNCHANGED <<newest, last, leadVars, identity, row, local, crm, sent,
                   owed, faults>>

ClaimRefused(w) ==
    /\ wk[w].pc = "claim" /\ ~MayClaim(wk[w].id)
    /\ End(w)
    /\ UNCHANGED <<sync, newest, last, leadVars, identity, row, local, crm,
                   sent, owed, faults>>

(* submit_lead: the CRM executes the request or not, and the answer tells  *)
(* or does not tell which.  Only a clear refusal means it did nothing.     *)
CrmCall(w, o, done) ==
    LET s == wk[w].id IN
    /\ wk[w].pc = "call"
    /\ o \in {"created", "followed"} => done
    /\ o = "refused" => ~done
    /\ crm' = IF done THEN crm \cup {s} ELSE crm
    /\ sent' = sent \cup {<<s, wk[w].ver>>}
    /\ wk' = [wk EXCEPT ![w].pc = "record", ![w].out = o]
    /\ UNCHANGED <<sync, newest, last, leadVars, identity, row, local, owed,
                   faults>>

(* Mutant: whoever answers last is believed. *)
AnyClaim(w) == TRUE

(* _claim_is_current; attempts alone tells two claims of a record apart. *)
ClaimIsCurrent(w) ==
    /\ sync[wk[w].id].status = "processing"
    /\ sync[wk[w].id].attempts = wk[w].att

(* The lease was taken over: the late result is dropped. *)
RecordStale(w) ==
    /\ wk[w].pc = "record" /\ ~ClaimIsCurrent(w)
    /\ End(w)
    /\ UNCHANGED <<sync, newest, last, leadVars, identity, row, local, crm,
                   sent, owed, faults>>

(* Mutant: a discard request keeps waiting after the CRM has succeeded. *)
DiscardUntouched(d) == d

(* The CRM's fact decides: a discard request is not effective. *)
DiscardAfterSuccess(d) == IF d \in {"pending", "effective"}
                            THEN "not_effective" ELSE d

Reserved(s) == identity[CompanyOf[LeadOf(s)]].sync = s

RecordSuccess(w) ==
    LET s == wk[w].id
        l == LeadOf(s)
        c == CompanyOf[l]
    IN
    /\ wk[w].pc = "record" /\ wk[w].out \in {"created", "followed"}
    /\ ClaimIsCurrent(w)
    /\ sync' = SetStatus(s, "succeeded")
    /\ last' = [last EXCEPT ![l] = sync[s].ver]
    /\ identity' = [identity EXCEPT ![c] =
         IF ~Reserved(s) THEN @
         ELSE IF s[2] = "create" /\ wk[w].out = "followed" THEN NoIdentity
         ELSE [@ EXCEPT !.state = "active"]]
    /\ life' = [life EXCEPT ![l] = "synced"]
    /\ discard' = [discard EXCEPT ![l] = DiscardAfterSuccess(@)]
    /\ wk' = [wk EXCEPT ![w] = Goto(w, "writeback")]
    /\ UNCHANGED <<newest, row, local, crm, sent, owed, faults>>

(* A malformed answer is permanent for a create, unknown for an update. *)
Permanent(w) ==
    \/ wk[w].out = "refused"
    \/ wk[w].out = "malformed" /\ wk[w].id[2] = "create"

(* _record_crm_failure: the reservation goes to review and a waiting       *)
(* discard request takes effect.                                           *)
RecordPermanent(w) ==
    LET s == wk[w].id
        l == LeadOf(s)
        settles == s[2] = "create" /\ discard[l] = "pending"
    IN
    /\ wk[w].pc = "record" /\ Permanent(w) /\ ClaimIsCurrent(w)
    /\ sync' = SetStatus(s, "failed")
    /\ identity' = [identity EXCEPT ![CompanyOf[l]] =
         IF s[2] = "create" /\ Reserved(s) THEN [@ EXCEPT !.state = "failed"]
         ELSE @]
    /\ discard' = [discard EXCEPT ![l] = IF settles THEN "effective" ELSE @]
    /\ life' = [life EXCEPT ![l] = IF settles THEN "discarded" ELSE @]
    /\ End(w)
    /\ UNCHANGED <<newest, last, row, local, crm, sent, owed, faults>>

(* Mutant: a lost answer gives the company reservation back. *)
IdentityDropped(s) ==
    [identity EXCEPT ![CompanyOf[LeadOf(s)]] =
       IF Reserved(s) THEN NoIdentity ELSE @]

(* An unknown outcome keeps the reservation. *)
IdentityKept(s) == identity

(* Mutant: a status the schema does not know. *)
MisspeltStatus(w) == "retry_pending"

(* _record_crm_transport_failure and _mark_unknown_crm_outcome. *)
AfterLostAnswer(w) ==
    LET s == wk[w].id IN
    IF /\ wk[w].out = "transient" /\ s[2] = "create"
       /\ ~(wk[w].cmd = "retry" /\ sync[s].attempts >= RetryCount)
      THEN "retrying" ELSE "unknown"

RecordLostAnswer(w) ==
    LET s == wk[w].id IN
    /\ wk[w].pc = "record" /\ ClaimIsCurrent(w)
    /\ wk[w].out \in {"transient", "unknown", "malformed"} /\ ~Permanent(w)
    /\ sync' = SetStatus(s, AfterLostAnswer(w))
    /\ identity' = IdentityKept(s)
    /\ End(w)
    /\ UNCHANGED <<newest, last, leadVars, row, local, crm, sent, owed,
                   faults>>

(* The submission status is written to the row, then to the projection.    *)
(* A batch does it only if the lead's newest record has succeeded.         *)
WritesBack(w) ==
    LET l == wk[w].lead IN
    Deferred(wk[w].cmd) => /\ newest[l] # None
                           /\ sync[newest[l]].status = "succeeded"

WriteBack(w) ==
    LET l == wk[w].lead
        q == IF WritesBack(w) THEN "submitted" ELSE local[l]
    IN
    /\ wk[w].pc = "writeback"
    /\ row' = [row EXCEPT ![l].shown = IF WritesBack(w) THEN q ELSE @]
    /\ local' = [local EXCEPT ![l] = q]
    /\ wk' = [wk EXCEPT ![w] = Idle]
    /\ UNCHANGED <<sync, newest, last, leadVars, identity, crm, sent, owed,
                   faults>>

(* Mutant: the projection is written before the row. *)
ProjectionFirst(l) == "submitted"

(* The projection follows the row, so a failed write leaves it alone. *)
ProjectionAfterFailure(l) == local[l]

(* The table call fails, or only the projection does. *)
WriteBackFails(w, remote) ==
    LET l == wk[w].lead IN
    /\ wk[w].pc = "writeback" /\ WritesBack(w) /\ Fault
    /\ row' = [row EXCEPT ![l].shown = IF remote THEN "submitted" ELSE @]
    /\ local' = [local EXCEPT ![l] = ProjectionAfterFailure(l)]
    /\ wk' = [wk EXCEPT ![w] = Idle]
    /\ UNCHANGED <<sync, newest, last, leadVars, identity, crm, sent, owed>>

(***************************************************************************)
(* Retry task, updates, duplicate answers, discards                        *)
(***************************************************************************)

(* Mutant: lost workers are not looked for. *)
DueIfRetrying(s) == sync[s].status = "retrying"

Due(s) == sync[s].status = "retrying" \/ LeaseExpired(s)

(* retry_due_creates: due creates only ... *)
RetryDue(w, s) ==
    /\ wk[w].pc = "idle" /\ s \in Creates /\ Due(s)
    /\ wk' = [wk EXCEPT ![w] = [Idle EXCEPT !.pc = "claim", !.cmd = "retry",
                                  !.lead = LeadOf(s), !.id = s]]
    /\ UNCHANGED <<sync, newest, last, leadVars, identity, row, local, crm,
                   sent, owed, faults>>

(* ... and successes the projection does not show yet. *)
RetryWriteBack(w, l) ==
    /\ wk[w].pc = "idle" /\ newest[l] # None
    /\ sync[newest[l]].status = "succeeded" /\ local[l] # "submitted"
    /\ wk' = [wk EXCEPT ![w] = [Idle EXCEPT !.pc = "writeback",
                                  !.cmd = "retry", !.lead = l]]
    /\ UNCHANGED <<sync, newest, last, leadVars, identity, row, local, crm,
                   sent, owed, faults>>

(* A call that outlives its lease of five minutes is a fault. *)
LeaseRunsOut(s) ==
    /\ sync[s].status = "processing" /\ ~sync[s].expired
    /\ IF \E w \in Workers : wk[w].pc \in {"call", "record"} /\ wk[w].id = s
         THEN Fault ELSE UNCHANGED faults
    /\ sync' = [sync EXCEPT ![s].expired = TRUE]
    /\ UNCHANGED <<newest, last, leadVars, identity, row, local, crm, sent,
                   owed, wk>>

(* _submit_updates: an unfinished update is taken up as it was frozen,     *)
(* otherwise the row is compared with the last successful payload.         *)
StartUpdate(w, l) ==
    /\ wk[w].pc = "idle" /\ "update" \in Commands /\ last[l] # 0
    /\ wk' = [wk EXCEPT ![w] = [Idle EXCEPT !.pc = "diff", !.cmd = "update",
                                  !.lead = l, !.ver = row[l].ver]]
    /\ UNCHANGED <<sync, newest, last, leadVars, identity, row, local, crm,
                   sent, owed, faults>>

DiffResumes(w) ==
    /\ wk[w].pc = "diff"
    /\ \E s \in Unfinished(wk[w].lead) : WithinBound(s) /\ GotoClaim(w, s)
    /\ UNCHANGED <<sync, newest, last, leadVars, identity, row, local, crm,
                   sent, owed, faults>>

DiffPasses(w) ==
    /\ wk[w].pc = "diff" /\ Unfinished(wk[w].lead) = {}
    /\ wk[w].ver # last[wk[w].lead]
    /\ wk' = [wk EXCEPT ![w].pc = "refreeze"]
    /\ UNCHANGED <<sync, newest, last, leadVars, identity, row, local, crm,
                   sent, owed, faults>>

(* Unchanged, no mapping, a changed company name, or invalid fields. *)
DiffEnds(w, q) ==
    LET l == wk[w].lead IN
    /\ wk[w].pc = "diff" /\ \A s \in Unfinished(l) : ~WithinBound(s)
    /\ Unfinished(l) # {} => q = life[l]
    /\ \/ q = "synced" /\ wk[w].ver = last[l] /\ life[l] = "pending_update"
       \/ q = "pending_update" /\ life[l] = "synced"
       \/ q = "identity_review" /\ wk[w].ver # last[l]
       \/ q = life[l]
    /\ life' = [life EXCEPT ![l] = q]
    /\ wk' = [wk EXCEPT ![w] = Idle]
    /\ UNCHANGED <<sync, newest, last, discard, identity, row, local, crm,
                   sent, owed, faults>>

(* Mutant: the check made before the row lock is trusted. *)
NotRechecked(l) == TRUE

NoUnfinished(l) == Unfinished(l) = {}

(* The freezing transaction of an update; a record of the same payload is  *)
(* taken up again.                                                         *)
FreezeUpdate(w) ==
    LET l == wk[w].lead
        s == <<l, "update", wk[w].ver>>
    IN
    /\ wk[w].pc = "refreeze" /\ NoUnfinished(l)
    /\ sync[s].status # "succeeded"
    /\ IF sync[s].status = "absent"
         THEN /\ sync' = [sync EXCEPT ![s] = [NoSync EXCEPT
                            !.status = "pending", !.ver = wk[w].ver]]
              /\ newest' = [newest EXCEPT ![l] = s]
         ELSE UNCHANGED <<sync, newest>>
    /\ GotoClaim(w, s)
    /\ UNCHANGED <<last, leadVars, identity, row, local, crm, sent, owed,
                   faults>>

FreezeUpdateEnds(w) ==
    LET l == wk[w].lead IN
    /\ wk[w].pc = "refreeze"
    /\ \/ Unfinished(l) # {}
       \/ sync[<<l, "update", wk[w].ver>>].status = "succeeded"
    /\ wk' = [wk EXCEPT ![w] = Idle]
    /\ UNCHANGED <<sync, newest, last, leadVars, identity, row, local, crm,
                   sent, owed, faults>>

(* resolve_duplicate_confirmation on a record of the earlier release: go   *)
(* on turns the create into an update of the same payload ...              *)
ConfirmGoOn(w, s) ==
    LET l == LeadOf(s)
        u == <<l, "update", sync[s].ver>>
        c == CompanyOf[l]
    IN
    /\ wk[w].pc = "idle" /\ "confirm" \in Commands
    /\ s \in Creates /\ sync[s].status = "awaiting"
    /\ sync[u].status = "absent"
    /\ sync' = [sync EXCEPT ![s] = NoSync,
                            ![u] = [sync[s] EXCEPT !.status = "pending"]]
    /\ newest' = [newest EXCEPT ![l] = IF @ = s THEN u ELSE @]
    /\ identity' = [identity EXCEPT ![c].sync = IF @ = s THEN u ELSE @]
    /\ wk' = [wk EXCEPT ![w] = [Idle EXCEPT !.pc = "claim",
                !.cmd = "confirm", !.lead = l, !.id = u]]
    /\ UNCHANGED <<last, leadVars, row, local, crm, sent, owed, faults>>

(* ... stop abandons it and gives the company reservation back. *)
ConfirmStop(w, s) ==
    LET l == LeadOf(s)
        c == CompanyOf[l]
    IN
    /\ wk[w].pc = "idle" /\ "confirm" \in Commands
    /\ s \in Creates /\ sync[s].status = "awaiting"
    /\ sync' = SetStatus(s, "abandoned")
    /\ identity' = [identity EXCEPT ![c] =
         IF Reserved(s) /\ @.state = "reserving" THEN NoIdentity ELSE @]
    /\ wk' = [wk EXCEPT ![w] = [Idle EXCEPT !.pc = "stop", !.lead = l]]
    /\ UNCHANGED <<newest, last, leadVars, row, local, crm, sent, owed,
                   faults>>

ShowAbandoned(w) ==
    LET l == wk[w].lead IN
    /\ wk[w].pc = "stop"
    /\ row' = [row EXCEPT ![l].shown = "abandoned"]
    /\ local' = [local EXCEPT ![l] = "abandoned"]
    /\ wk' = [wk EXCEPT ![w] = Idle]
    /\ UNCHANGED <<sync, newest, last, leadVars, identity, crm, sent, owed,
                   faults>>

(* Mutant: a create whose outcome is unknown does not hold a discard up. *)
InFlightOnly == InFlight

(* Statuses of a create whose outcome a discard has to wait for. *)
AwaitedByDiscard == InFlight \cup {"unknown"}

(* LeadDiscardService.discard. *)
Discard(l) ==
    LET c == CompanyOf[l] IN
    /\ discard[l] = "none" /\ life[l] = "pending_create"
    /\ ~LatestStatus(l, {"succeeded"})
    /\ IF LatestStatus(l, AwaitedByDiscard)
         THEN /\ discard' = [discard EXCEPT ![l] = "pending"]
              /\ UNCHANGED <<life, identity>>
         ELSE /\ discard' = [discard EXCEPT ![l] = "effective"]
              /\ life' = [life EXCEPT ![l] = "discarded"]
              /\ identity' = [identity EXCEPT ![c] =
                   IF /\ @.state = "reserving" /\ @.lead = l
                      /\ LiveCreates(l) = {} \/ LatestStatus(l, {"failed"})
                     THEN NoIdentity ELSE @]
    /\ UNCHANGED <<sync, newest, last, row, local, crm, sent, owed, wk,
                   faults>>

(* A salesperson edits the row, perhaps back to an earlier content. *)
Edit(l, v) ==
    /\ row[l].ver # v
    /\ row' = [row EXCEPT ![l].ver = v]
    /\ UNCHANGED <<sync, newest, last, leadVars, identity, local, crm, sent,
                   owed, wk, faults>>

(* The process dies; a submission command is delivered again later. *)
WorkerCrash(w) ==
    /\ wk[w].pc # "idle" /\ Fault
    /\ owed' = IF wk[w].cmd \in {"target", "submit", "again"}
                    /\ wk[w].pc # "stop"
                 THEN owed \cup {<<wk[w].lead, wk[w].cmd>>} ELSE owed
    /\ wk' = [wk EXCEPT ![w] = Idle]
    /\ UNCHANGED <<sync, newest, last, leadVars, identity, row, local, crm,
                   sent>>

-----------------------------------------------------------------------------
Submit(w) ==
    \/ CheckResumes(w) \/ CheckPasses(w) \/ CheckEnds(w)
    \/ Freeze(w) \/ FreezeEnds(w)

Update(w) ==
    \/ DiffResumes(w) \/ DiffPasses(w)
    \/ \E q \in Lives : DiffEnds(w, q)
    \/ FreezeUpdate(w) \/ FreezeUpdateEnds(w)

Call(w) ==
    \/ Claim(w) \/ ClaimExhausted(w) \/ ClaimRefused(w)
    \/ \E o \in Outcomes, done \in BOOLEAN : CrmCall(w, o, done)

Record(w) ==
    \/ RecordStale(w) \/ RecordSuccess(w) \/ RecordPermanent(w)
    \/ RecordLostAnswer(w) \/ WriteBack(w) \/ ShowAbandoned(w)

WorkerStep(w) == Submit(w) \/ Update(w) \/ Call(w) \/ Record(w)

Retry(w) ==
    \/ \E s \in Creates : RetryDue(w, s)
    \/ \E l \in Leads : RetryWriteBack(w, l)

People(w) ==
    \/ \E l \in Leads, c \in Commands : StartSubmit(w, l, c)
    \/ \E l \in Leads : StartUpdate(w, l)
    \/ \E s \in Creates : ConfirmGoOn(w, s) \/ ConfirmStop(w, s)

Faults(w) ==
    WorkerCrash(w) \/ \E remote \in BOOLEAN : WriteBackFails(w, remote)

Next ==
    \/ \E w \in Workers :
         \/ WorkerStep(w) \/ Retry(w) \/ People(w) \/ Faults(w)
         \/ \E l \in Leads, c \in Commands : Redeliver(w, l, c)
    \/ \E s \in SyncId : LeaseRunsOut(s)
    \/ \E l \in Leads : Discard(l) \/ \E v \in 1..MaxVer : Edit(l, v)

(* Tasks keep running, leases end, the retry task and redelivered commands *)
(* get their turn among the commands people send.                          *)
Fairness ==
    /\ \A w \in Workers : WF_vars(WorkerStep(w))
    /\ \A s \in SyncId : /\ WF_vars(LeaseRunsOut(s))
                          /\ SF_vars(\E w \in Workers : RetryDue(w, s))
    /\ \A l \in Leads :
         /\ SF_vars(\E w \in Workers : RetryWriteBack(w, l))
         /\ \A c \in Commands : SF_vars(\E w \in Workers : Redeliver(w, l, c))

Spec == Init /\ [][Next]_vars
FairSpec == Spec /\ Fairness

-----------------------------------------------------------------------------
(* Properties *)

(* Every variable keeps its type. *)
TypeOK ==
    /\ sync \in [SyncId -> Sync]
    /\ newest \in [Leads -> SyncId \cup {None}]
    /\ last \in [Leads -> 0..MaxVer]
    /\ life \in [Leads -> Lives]
    /\ discard \in [Leads -> {"none", "pending", "effective", "not_effective"}]
    /\ identity \in [Companies -> Identity]
    /\ row \in [Leads -> [ver : 1..MaxVer, shown : Shown]]
    /\ local \in [Leads -> Shown]
    /\ crm \subseteq SyncId
    /\ sent \subseteq SyncId \X (1..MaxVer)
    /\ owed \subseteq Leads \X AllCommands
    /\ wk \in [Workers -> WorkerState]
    /\ faults \in 0..MaxFaults

(* ADR 0007: after a timeout the same record, key and payload are used     *)
(* again, however often the row is edited and whoever takes the record     *)
(* over: the CRM never sees two payloads under one key.                    *)
OnePayloadPerKey ==
    \A a, b \in sent : a[1] = b[1] => a[2] = b[2]

(* A success, once recorded, is never changed by a late worker, a retry, a *)
(* second command or an answer to an old question (_claim_is_current).     *)
SucceededIsFinal ==
    [][\A s \in SyncId :
         sync[s].status = "succeeded" => sync'[s] = sync[s]]_vars

(* Of all workers that hold or held a record at most one can still write   *)
(* its result.                                                             *)
OneCurrentClaim ==
    \A v, w \in Workers :
      /\ wk[v].pc \in {"call", "record"} /\ wk[w].pc \in {"call", "record"}
      /\ wk[v].id = wk[w].id /\ ClaimIsCurrent(v) /\ ClaimIsCurrent(w)
      => v = w

(* A lead never has two updates whose outcome is open: a new payload is    *)
(* not frozen while an earlier overwrite may still be on its way           *)
(* (_unfinished_update under the lead's lock).                             *)
OneUnfinishedUpdate ==
    \A l \in Leads : Cardinality(Unfinished(l)) <= 1

(* Two leads of one company are never both on their way into the CRM       *)
(* before the company is known there (CrmCompanyIdentity).                 *)
OneCreatorPerCompany ==
    \A s, t \in Creates :
      /\ sync[s].status \in InFlight \cup {"unknown"}
      /\ sync[t].status \in InFlight \cup {"unknown"}
      /\ CompanyOf[LeadOf(s)] = CompanyOf[LeadOf(t)]
      => LeadOf(s) = LeadOf(t)
         \/ identity[CompanyOf[LeadOf(s)]].state = "active"

(* ADR 0015: a recorded CRM success overrides a discard request, and a     *)
(* request waits only while a create of its lead is really undecided.      *)
CrmFactBeatsDiscard ==
    \A l \in Leads :
      /\ LatestStatus(l, {"succeeded"}) =>
           life[l] # "discarded" /\ discard[l] \notin {"pending", "effective"}
      /\ discard[l] = "pending" => LatestStatus(l, InFlight \cup {"unknown"})

(* Every frozen create is decided in the end: success, refusal or an       *)
(* outcome marked unknown for people to look at.                           *)
CreatesDecided ==
    \A s \in Creates : sync[s].status \in InFlight ~> sync[s].status \notin InFlight

(* A lead whose newest record has succeeded is shown as submitted in the   *)
(* end, even if the write-back failed (retry_due_creates).                 *)
SuccessShown ==
    \A l \in Leads :
      newest[l] # None /\ LatestStatus(l, {"succeeded"}) ~>
        row[l].shown = "submitted"

(* "Compared with the last successful snapshot: a changed hash goes into   *)
(* an update" (ADR 0023): an update command whose row differs from the     *)
(* last success, with no other update open, does not end without a record  *)
(* to send.                                                                *)
ChangedRowIsSent ==
    [][\A w \in Workers :
         /\ wk[w].pc = "refreeze" /\ wk'[w].pc = "idle" /\ faults' = faults
         /\ Unfinished(wk[w].lead) = {}
         => wk[w].ver = last[wk[w].lead]]_vars
=============================================================================
