----------------------------- MODULE LeadOutbox -----------------------------
(***************************************************************************)
(* The message pipeline of the lead robot: intake writes a message and its *)
(* Outbox event in one transaction, the Beat scan claims dispatchable      *)
(* events and sends Celery tasks, a worker takes the claim over under the  *)
(* salesperson's advisory lock and runs the event, and the batch flush     *)
(* settles events whose Smart Table rows are created later.                *)
(*                                                                         *)
(* Sources: app/messaging/service.py, workers/tasks.py (lead part) and the *)
(* consume path of app/leads/service.py.                                   *)
(*                                                                         *)
(* An event is <<salesperson, sequence>>.  Text, fields and remote content *)
(* are abstracted to the verdict they lead to; every status write, lock,   *)
(* claim check and early return is kept.  processing_started_at is both    *)
(* the lease start and the one-time token of a claim: `stamp' holds the    *)
(* token, `expired' says that the lease started with it has run out.       *)
(***************************************************************************)
EXTENDS Naturals, FiniteSets

CONSTANTS
    Sales,          \* salespeople
    MaxSeq,         \* bound: messages accepted per salesperson
    Workers,        \* Celery worker slots
    MaxInFlight,    \* LEAD_OUTBOX_MAX_IN_FLIGHT
    RetryLimit,     \* settings.lead_message_retry_count
    Stamps,         \* bound: distinguishable claim times still in circulation
    MaxFaults,      \* bound: crashes, lost, repeated or late tasks, slow CRM
    Kinds,          \* event types this instance accepts
    MediaInputs,    \* {"none"} or {"none", "awaiting"}
    Quotes,         \* BOOLEAN: messages may quote an earlier message
    LockLoss,       \* BOOLEAN: a lock connection may break under a live worker
    NoStamp, Taken, NoWorker

AllKinds == {"lead", "command", "intent", "action"}

ASSUME ConstantsAssumption ==
    /\ Sales # {} /\ IsFiniteSet(Sales)
    /\ MaxSeq \in Nat \ {0} /\ MaxInFlight \in Nat \ {0}
    /\ RetryLimit \in Nat /\ MaxFaults \in Nat
    /\ Kinds \subseteq AllKinds
    /\ MediaInputs \subseteq {"none", "awaiting"}
    /\ Quotes \in BOOLEAN /\ LockLoss \in BOOLEAN
    /\ NoStamp \notin Stamps /\ Taken \notin Stamps /\ NoStamp # Taken
    /\ NoWorker \notin Workers

Event == Sales \X (1..MaxSeq)

\* "settled" stands for succeeded, ignored, unauthorized and invalid, which
\* the pipeline never tells apart.
Statuses == {"absent", "pending", "processing", "retrying", "settled",
             "failed_pending_review", "batch_pending"}

\* Mutant: an event in work counts as a passed checkpoint.
CompletedOrRunning ==
    {"settled", "failed_pending_review", "batch_pending", "processing"}

\* COMPLETED_CHECKPOINT_STATUSES.
Completed == {"settled", "failed_pending_review", "batch_pending"}

Media == {"none", "awaiting", "late", "stored", "failed"}

Claim == [event : Event, stamp : Stamps, recover : BOOLEAN]

VARIABLES
    nextSeq,    \* SalesAuthorization.next_message_sequence
    status,     \* OutboxEvent.status, "absent" before intake
    kind,       \* OutboxEvent.event_type
    attempts,   \* OutboxEvent.attempts
    stamp,      \* OutboxEvent.processing_started_at as a token
    expired,    \* the lease of the current stamp has run out
    batch,      \* events whose SmartTableSync is retrying with a payload
    media,      \* attachment progress of the source message
    quote,      \* sequence of the quoted message, 0 for none
    active,     \* SalesAuthorization.is_active
    tasks,      \* Celery tasks waiting in the broker
    scan,       \* the Beat scan: on, free slots, candidates left, claims made
    wk,         \* per worker: program counter and task in hand
    holder,     \* holder of each salesperson's advisory session lock
    broken,     \* history: a lock connection broke under a live worker
    faults,     \* faults injected so far
    reached,    \* history: events that have had a first verdict
    started,    \* history: events whose lead pipeline called out
    dangling    \* history: events whose lead pipeline died while calling out

eventVars == <<status, kind, attempts, stamp, expired, batch, media, quote>>
histVars  == <<reached, started, dangling>>
vars == <<nextSeq, status, kind, attempts, stamp, expired, batch, media,
          quote, active, tasks, scan, wk, holder, broken, faults, reached,
          started, dangling>>

PCs == {"idle", "lock", "take", "route", "cmd", "lead", "ext", "next"}

NoScan == [on |-> FALSE, slots |-> 0, cands |-> {}, claims |-> {}]

WorkerState == [pc : PCs, ev : Event, stamp : Stamps \cup {NoStamp},
                recover : BOOLEAN, claimed : BOOLEAN]

Idle == [pc |-> "idle", ev |-> CHOOSE e \in Event : TRUE, stamp |-> NoStamp,
         recover |-> FALSE, claimed |-> FALSE]

-----------------------------------------------------------------------------
(* Helpers *)

Owner(e) == e[1]
Earlier(e) ==
    {f \in Event : f[1] = e[1] /\ f[2] < e[2] /\ status[f] # "absent"}
Later(e)   == {f \in Event : f[1] = e[1] /\ f[2] > e[2]}

LeaseLive(e) == status[e] = "processing" /\ stamp[e] # NoStamp /\ ~expired[e]
LeaseExpired(e) == status[e] = "processing" /\ stamp[e] # NoStamp /\ expired[e]

InFlight == {e \in Event : LeaseLive(e)}

(* Mutant: the scan never looks at lost leases. *)
DispatchableIfOpen(e) ==
    /\ status[e] \in {"pending", "retrying"}
    /\ \A f \in Earlier(e) : status[f] \in Completed

(* The scan's WHERE clause: runnable or lost, and no earlier open event. *)
Dispatchable(e) ==
    /\ status[e] \in {"pending", "retrying"} \/ LeaseExpired(e)
    /\ \A f \in Earlier(e) : status[f] \in Completed

(* A claim time no task of this event still in circulation carries. *)
UnusedStamps(e) ==
    Stamps \ ({c.stamp : c \in {d \in tasks \cup scan.claims : d.event = e}}
              \cup {wk[w].stamp : w \in {v \in Workers : wk[v].ev = e}}
              \cup {stamp[e]})

(* consume's own ordering check lets a retrying predecessor pass. *)
HasUnfinishedPrevious(e) ==
    \E f \in Earlier(e) : status[f] \notin Completed \cup {"retrying"}

(* A status other than processing: processing_started_at is read only     *)
(* together with processing, so it is dropped here even where the code     *)
(* leaves the old time in the row.                                         *)
Verdict(e, s) ==
    /\ status' = [status EXCEPT ![e] = s]
    /\ stamp' = [stamp EXCEPT ![e] = NoStamp]
    /\ expired' = [expired EXCEPT ![e] = FALSE]
    /\ reached' = IF s \in Completed \cup {"retrying"}
                    THEN reached \cup {e} ELSE reached

Goto(w, label) == wk' = [wk EXCEPT ![w].pc = label]

(* finally: release the session lock if this connection still owns it. *)
Return(w) ==
    /\ wk' = [wk EXCEPT ![w] = Idle]
    /\ holder' = [holder EXCEPT ![Owner(wk[w].ev)] =
                    IF @ = w THEN NoWorker ELSE @]

Fault == faults < MaxFaults /\ faults' = faults + 1

-----------------------------------------------------------------------------
Init ==
    /\ nextSeq = [s \in Sales |-> 0]
    /\ status = [e \in Event |-> "absent"]
    /\ kind = [e \in Event |-> "lead"]
    /\ attempts = [e \in Event |-> 0]
    /\ stamp = [e \in Event |-> NoStamp]
    /\ expired = [e \in Event |-> FALSE]
    /\ batch = {}
    /\ media = [e \in Event |-> "none"]
    /\ quote = [e \in Event |-> 0]
    /\ active = [s \in Sales |-> TRUE]
    /\ tasks = {}
    /\ scan = NoScan
    /\ wk = [w \in Workers |-> Idle]
    /\ holder = [s \in Sales |-> NoWorker]
    /\ broken = FALSE
    /\ faults = 0
    /\ reached = {} /\ started = {} /\ dangling = {}

(***************************************************************************)
(* Intake                                                                  *)
(***************************************************************************)

(* MessageIntakeService.receive: the actor row is locked, the next         *)
(* sequence allocated, message and Outbox event inserted together.  An     *)
(* inactive actor or a known message id leaves the pipeline untouched.     *)
Receive(s, k, m, q) ==
    LET e == <<s, nextSeq[s] + 1>> IN
    /\ active[s]
    /\ e \in Event
    /\ q \in {0} \cup (IF Quotes /\ k = "lead" THEN 1..(e[2] - 1) ELSE {})
    /\ status' = [status EXCEPT ![e] = "pending"]
    /\ kind' = [kind EXCEPT ![e] = k]
    /\ media' = [media EXCEPT ![e] = IF k = "lead" THEN m ELSE "none"]
    /\ quote' = [quote EXCEPT ![e] = q]
    /\ nextSeq' = [nextSeq EXCEPT ![s] = @ + 1]
    /\ UNCHANGED <<broken, attempts, stamp, expired, batch, active, tasks,
                   scan, wk, holder, faults, histVars>>

(* The bot stores the attachment of a media message, or the waiting time   *)
(* allowed for the download runs out first.                                *)
MediaArrives(e, m) ==
    /\ media[e] = "awaiting"
    /\ media' = [media EXCEPT ![e] = m]
    /\ UNCHANGED <<broken, nextSeq, status, kind, attempts, stamp, expired,
                   batch, quote, active, tasks, scan, wk, holder, faults,
                   histVars>>

(* An administrator deactivates an actor in the registry. *)
Deactivate(s) ==
    /\ active[s] /\ Fault
    /\ active' = [active EXCEPT ![s] = FALSE]
    /\ UNCHANGED <<broken, nextSeq, eventVars, tasks, scan, wk, holder,
                   histVars>>

(***************************************************************************)
(* Dispatcher                                                              *)
(***************************************************************************)

(* A task carrying the current claim of this event is on its way. *)
InDelivery(e) ==
    \/ \E c \in tasks \cup scan.claims : c.event = e /\ c.stamp = stamp[e]
    \/ \E w \in Workers : /\ wk[w].pc \in {"lock", "take"}
                         /\ wk[w].ev = e /\ wk[w].stamp = stamp[e]

(* The scan compares leases with the time it started, so a lease that runs *)
(* out during a scan counts as live until the scan is over.  Delivery that *)
(* takes longer than the lease is a fault: the prefetch of one and the     *)
(* in-flight limit are there to avoid it.                                  *)
LeaseRunsOut(e) ==
    /\ LeaseLive(e) /\ ~scan.on
    /\ IF InDelivery(e) THEN Fault ELSE UNCHANGED faults
    /\ expired' = [expired EXCEPT ![e] = TRUE]
    /\ UNCHANGED <<broken, nextSeq, status, kind, attempts, stamp, batch,
                   media, quote, active, tasks, scan, wk, holder, histVars>>

(* consume_pending_lead_outbox_events takes the global dispatch lock; the  *)
(* free slots and the candidates are read once.                            *)
ScanStart ==
    LET cands == {e \in Event : Dispatchable(e)} IN
    /\ ~scan.on
    /\ Cardinality(InFlight) < MaxInFlight
    /\ cands # {}
    /\ scan' = [on |-> TRUE, slots |-> MaxInFlight - Cardinality(InFlight),
                cands |-> cands, claims |-> {}]
    /\ UNCHANGED <<broken, nextSeq, eventVars, active, tasks, wk, holder,
                   faults, histVars>>

(* Mutant: a reclaimed lease is dispatched like a fresh event. *)
NeverRecover(e) == FALSE

(* recover_expired_lease of the claim. *)
RecoverFlag(e) == LeaseExpired(e)

(* _claim_lead_outbox_event: its own transaction; the sales lock is only   *)
(* tried, and every condition is checked again on the refreshed row.       *)
ScanClaim(e) ==
    LET t == CHOOSE x \in UnusedStamps(e) : TRUE
        ok == holder[Owner(e)] = NoWorker /\ Dispatchable(e)
    IN
    /\ scan.on /\ scan.slots > 0 /\ e \in scan.cands
    /\ ok => UnusedStamps(e) # {}
    /\ IF ok
         THEN /\ status' = [status EXCEPT ![e] = "processing"]
              /\ stamp' = [stamp EXCEPT ![e] = t]
              /\ expired' = [expired EXCEPT ![e] = FALSE]
              /\ scan' = [scan EXCEPT
                   !.slots = @ - 1, !.cands = @ \ {e},
                   !.claims = @ \cup {[event |-> e, stamp |-> t,
                                       recover |-> RecoverFlag(e)]}]
         ELSE /\ scan' = [scan EXCEPT !.cands = @ \ {e}]
              /\ UNCHANGED <<status, stamp, expired>>
    /\ UNCHANGED <<broken, nextSeq, kind, attempts, batch, media, quote,
                   active, tasks, wk, holder, faults, histVars>>

(* The dispatch lock is released, then one Celery task is sent per claim. *)
ScanEnd ==
    /\ scan.on /\ (scan.cands = {} \/ scan.slots = 0)
    /\ tasks' = tasks \cup scan.claims
    /\ scan' = NoScan
    /\ UNCHANGED <<broken, nextSeq, eventVars, active, wk, holder, faults,
                   histVars>>

(* The scheduler dies after committing claims and before sending them. *)
ScanCrash ==
    /\ scan.on /\ Fault
    /\ scan' = NoScan
    /\ UNCHANGED <<broken, nextSeq, eventVars, active, tasks, wk, holder,
                   histVars>>

(* The broker loses a task. *)
LoseTask(t) ==
    /\ t \in tasks /\ Fault
    /\ tasks' = tasks \ {t}
    /\ UNCHANGED <<broken, nextSeq, eventVars, active, scan, wk, holder,
                   histVars>>

(***************************************************************************)
(* Worker: consume_lead_outbox_event                                       *)
(***************************************************************************)

(* A free slot takes a task; a redelivery leaves a copy in the broker. *)
Deliver(w, t, again) ==
    /\ wk[w].pc = "idle" /\ t \in tasks
    /\ wk' = [wk EXCEPT ![w] = [pc |-> "lock", ev |-> t.event,
                stamp |-> t.stamp, recover |-> t.recover, claimed |-> TRUE]]
    /\ IF again THEN Fault /\ UNCHANGED tasks
                ELSE tasks' = tasks \ {t} /\ UNCHANGED faults
    /\ UNCHANGED <<broken, nextSeq, eventVars, active, scan, holder,
                   histVars>>

(* Mutant: the lock is requested but not waited for. *)
SalesLockIgnored(w) == TRUE

SalesLockFree(w) == holder[Owner(wk[w].ev)] = NoWorker

(* pg_advisory_lock blocks until the salesperson's lock is free. *)
AcquireSalesLock(w) ==
    /\ wk[w].pc = "lock"
    /\ SalesLockFree(w)
    /\ holder' = [holder EXCEPT ![Owner(wk[w].ev)] = w]
    /\ Goto(w, "take")
    /\ UNCHANGED <<broken, nextSeq, eventVars, active, tasks, scan, faults,
                   histVars>>

(* Mutant: the takeover is an unconditional update. *)
ClaimUnchecked(w) == TRUE

ClaimMatches(w) ==
    /\ status[wk[w].ev] = "processing"
    /\ stamp[wk[w].ev] = wk[w].stamp

(* _take_lead_outbox_claim: a conditional update that replaces the token;  *)
(* every other copy of the task then finds "already_processed".            *)
TakeClaim(w) ==
    LET e == wk[w].ev IN
    /\ wk[w].pc = "take"
    /\ IF ClaimMatches(w)
         THEN /\ stamp' = [stamp EXCEPT ![e] = Taken]
              /\ expired' = [expired EXCEPT ![e] = FALSE]
              /\ wk' = [wk EXCEPT ![w].pc = "route", ![w].stamp = NoStamp]
              /\ UNCHANGED holder
         ELSE Return(w) /\ UNCHANGED <<stamp, expired>>
    /\ UNCHANGED <<broken, nextSeq, status, kind, attempts, batch, media,
                   quote, active, tasks, scan, faults, histVars>>

(* A submission command, or an intent the model reads as one. *)
RouteCommand(w) ==
    /\ wk[w].pc = "route" /\ kind[wk[w].ev] \in {"command", "intent"}
    /\ Goto(w, "cmd")
    /\ UNCHANGED <<broken, nextSeq, eventVars, active, tasks, scan, holder,
                   faults, histVars>>

(* _finish_unrecognized_submission_intent. *)
RouteUnrecognized(w) ==
    LET e == wk[w].ev IN
    /\ wk[w].pc = "route" /\ kind[e] = "intent"
    /\ Verdict(e, "settled")
    /\ Return(w)
    /\ UNCHANGED <<broken, nextSeq, kind, attempts, batch, media, quote,
                   active, tasks, scan, faults, started, dangling>>

(* A machine command issues a card, or finds the card channel unavailable; *)
(* neither return writes the Outbox event.                                 *)
RouteAction(w) ==
    /\ wk[w].pc = "route" /\ kind[wk[w].ev] = "action"
    /\ Return(w)
    /\ UNCHANGED <<broken, nextSeq, eventVars, active, tasks, scan, faults,
                   histVars>>

(* The lead branch of a lost lease: manual review, nothing is replayed. *)
RouteRecover(w) ==
    LET e == wk[w].ev IN
    /\ wk[w].pc = "route" /\ kind[e] \in {"lead", "intent"} /\ wk[w].recover
    /\ IF status[e] = "processing"
         THEN Verdict(e, "failed_pending_review")
         ELSE UNCHANGED <<status, stamp, expired, reached>>
    /\ Goto(w, "next")
    /\ UNCHANGED <<broken, nextSeq, kind, attempts, batch, media, quote,
                   active, tasks, scan, holder, faults, started, dangling>>

(* process_pending_for_message: recognition settles a stored attachment,   *)
(* and a download that never came ends the wait.                           *)
MediaResults(m) ==
    CASE m = "stored" -> {"none", "failed"}
      [] m = "late"   -> {"failed"}
      [] OTHER        -> {m}

RouteLead(w, m) ==
    LET e == wk[w].ev IN
    /\ wk[w].pc = "route" /\ kind[e] \in {"lead", "intent"} /\ ~wk[w].recover
    /\ m \in MediaResults(media[e])
    /\ media' = [media EXCEPT ![e] = m]
    /\ Goto(w, "lead")
    /\ UNCHANGED <<broken, nextSeq, status, kind, attempts, stamp, expired,
                   batch, quote, active, tasks, scan, holder, faults,
                   histVars>>

(* Mutant: one retry too many. *)
AfterFailureLate(e, transient) ==
    IF transient /\ attempts[e] <= RetryLimit
      THEN "retrying" ELSE "failed_pending_review"

(* Mutant: a status outside the column's vocabulary. *)
AfterFailureMisspelt(e, transient) ==
    IF transient /\ attempts[e] + 1 <= RetryLimit THEN "retrying" ELSE "failed"

(* _record_sync_failure: permanent and unknown failures go straight to     *)
(* review, transient ones are retried RetryLimit times.                    *)
AfterFailure(e, transient) ==
    IF transient /\ attempts[e] + 1 <= RetryLimit
      THEN "retrying" ELSE "failed_pending_review"

RecordFailure(e, transient) ==
    /\ attempts' = [attempts EXCEPT ![e] = @ + 1]
    /\ Verdict(e, AfterFailure(e, transient))

(* consume_submission_command reaches its end. *)
FinishCommand(w) ==
    LET e == wk[w].ev IN
    /\ wk[w].pc = "cmd"
    /\ Verdict(e, "settled")
    /\ Return(w)
    /\ UNCHANGED <<broken, nextSeq, kind, attempts, batch, media, quote,
                   active, tasks, scan, faults, started, dangling>>

(* Some CRM record of this command is still retrying or processing. *)
CommandPending(w) ==
    LET e == wk[w].ev IN
    /\ wk[w].pc = "cmd" /\ Fault
    /\ Verdict(e, "retrying")
    /\ Return(w)
    /\ UNCHANGED <<broken, nextSeq, kind, attempts, batch, media, quote,
                   active, tasks, scan, started, dangling>>

(* _record_command_failure: any exception counts as retryable. *)
CommandFails(w) ==
    /\ wk[w].pc = "cmd"
    /\ RecordFailure(wk[w].ev, TRUE)
    /\ Return(w)
    /\ UNCHANGED <<broken, nextSeq, kind, batch, media, quote, active,
                   tasks, scan, faults, started, dangling>>

(***************************************************************************)
(* Lead pipeline: FirstTextLeadWorkspaceService.consume                    *)
(*                                                                         *)
(* Each Consume... action is one way through the first transaction of      *)
(* _consume_once, taken under the actor row lock.                          *)
(***************************************************************************)

AtLead(w, e) == wk[w].pc = "lead" /\ wk[w].ev = e

(* Unclaimed and already settled or in other hands: nothing is written,    *)
(* except that a lost lease becomes a review checkpoint.                   *)
ConsumeSettled(w) ==
    \E e \in Event :
    /\ AtLead(w, e) /\ ~wk[w].claimed
    /\ status[e] \in Completed \cup {"processing"}
    /\ IF LeaseExpired(e) THEN Verdict(e, "failed_pending_review")
                          ELSE UNCHANGED <<status, stamp, expired, reached>>
    /\ Goto(w, "next")
    /\ UNCHANGED <<broken, nextSeq, kind, attempts, batch, media, quote,
                   active, tasks, scan, holder, faults, started, dangling>>

(* The guards that let the transaction go on. *)
MayConsume(w, e) ==
    /\ AtLead(w, e)
    /\ wk[w].claimed \/ status[e] \notin Completed \cup {"processing"}

ConsumeUnauthorized(w) ==
    \E e \in Event :
    /\ MayConsume(w, e) /\ ~active[Owner(e)]
    /\ Verdict(e, "settled")
    /\ Goto(w, "next")
    /\ UNCHANGED <<broken, nextSeq, kind, attempts, batch, media, quote,
                   active, tasks, scan, holder, faults, started, dangling>>

(* A batch creation that failed transiently is queued again as it was. *)
ConsumeBatchRetry(w) ==
    \E e \in Event :
    /\ MayConsume(w, e) /\ active[Owner(e)] /\ e \in batch
    /\ Verdict(e, "batch_pending")
    /\ batch' = batch \ {e}
    /\ Goto(w, "next")
    /\ UNCHANGED <<broken, nextSeq, kind, attempts, media, quote, active,
                   tasks, scan, holder, faults, started, dangling>>

(* Authorised and without a batch to resume. *)
Proceeds(w, e) == MayConsume(w, e) /\ active[Owner(e)] /\ e \notin batch

(* _prepare_quote_route: a reply follows the lead of the quoted message,   *)
(* waits while that message is open, or is settled as unassigned; only a   *)
(* message without a quote is bound to its place in the stream.            *)
QuoteSource(e) == <<Owner(e), quote[e]>>
QuoteMayTarget(e) ==
    QuoteSource(e) \in started \/ status[QuoteSource(e)] \in Completed
QuoteOpen(e) ==
    status[QuoteSource(e)] \in {"pending", "retrying", "processing"}

Release(w, e) ==
    /\ Verdict(e, "pending")
    /\ Goto(w, "next")
    /\ UNCHANGED <<broken, nextSeq, kind, attempts, batch, media, quote,
                   active, tasks, scan, holder, faults, started, dangling>>

ConsumeQuoteWaits(w) ==
    \E e \in Event :
    /\ Proceeds(w, e) /\ quote[e] # 0 /\ QuoteOpen(e)
    /\ Release(w, e)

(* _finish_quote_unresolved: no, several or unusable targets. *)
ConsumeQuoteUnresolved(w) ==
    \E e \in Event :
    /\ Proceeds(w, e) /\ quote[e] # 0
    /\ Verdict(e, "settled")
    /\ Goto(w, "next")
    /\ UNCHANGED <<broken, nextSeq, kind, attempts, batch, media, quote,
                   active, tasks, scan, holder, faults, started, dangling>>

(* waiting_for_previous: the claim is not released here. *)
ConsumeWaits(w) ==
    \E e \in Event :
    /\ Proceeds(w, e) /\ quote[e] = 0 /\ HasUnfinishedPrevious(e)
    /\ Goto(w, "next")
    /\ UNCHANGED <<broken, nextSeq, eventVars, active, tasks, scan, holder,
                   faults, histVars>>

MediaPending(e) == media[e] \in {"awaiting", "late", "stored"}

Turn(w, e) ==
    /\ Proceeds(w, e)
    /\ IF quote[e] = 0 THEN ~HasUnfinishedPrevious(e) ELSE QuoteMayTarget(e)

ConsumeAwaitsMedia(w) ==
    \E e \in Event :
    /\ Turn(w, e) /\ MediaPending(e)
    /\ Release(w, e)

(* Verdicts reached without an external write: media failure, ambiguity,   *)
(* small talk, a model failure, a deferred draft.                          *)
LocalVerdicts(e) ==
    IF media[e] = "failed" THEN {"failed_pending_review"}
    ELSE {"settled", "failed_pending_review"}

ConsumeLocally(w) ==
    \E e \in Event :
    /\ Turn(w, e) /\ ~MediaPending(e)
    /\ \E v \in LocalVerdicts(e) : Verdict(e, v)
    /\ Goto(w, "next")
    /\ UNCHANGED <<broken, nextSeq, kind, attempts, batch, media, quote,
                   active, tasks, scan, holder, faults, started, dangling>>

(* The transaction commits `processing' with a new lease and the external  *)
(* phase begins: model, company lookup, Smart Table.                       *)
ConsumeCallsOut(w) ==
    \E e \in Event :
    /\ Turn(w, e) /\ ~MediaPending(e) /\ media[e] # "failed"
    /\ status' = [status EXCEPT ![e] = "processing"]
    /\ stamp' = [stamp EXCEPT ![e] = Taken]
    /\ expired' = [expired EXCEPT ![e] = FALSE]
    /\ started' = started \cup {e}
    /\ Goto(w, "ext")
    /\ UNCHANGED <<broken, nextSeq, kind, attempts, batch, media, quote,
                   active, tasks, scan, holder, faults, reached, dangling>>

(* The external phase ends in a synchronised row, a queued batch item ... *)
ExternalSettles(w, v) ==
    LET e == wk[w].ev IN
    /\ wk[w].pc = "ext" /\ v \in {"settled", "batch_pending"}
    /\ Verdict(e, v)
    /\ Goto(w, "next")
    /\ UNCHANGED <<broken, nextSeq, kind, attempts, batch, media, quote,
                   active, tasks, scan, holder, faults, started, dangling>>

(* ... or in a recorded failure. *)
ExternalFails(w, transient) ==
    /\ wk[w].pc = "ext"
    /\ RecordFailure(wk[w].ev, transient)
    /\ Goto(w, "next")
    /\ UNCHANGED <<broken, nextSeq, kind, batch, media, quote, active,
                   tasks, scan, holder, faults, started, dangling>>

(* _consume_next_after_checkpoint: the same worker goes on, unclaimed, to  *)
(* the earliest open event of the salesperson, whatever its type.          *)
NextOpen(e) == {f \in Later(e) : status[f] \in {"pending", "retrying"}}

ConsumeNext(w) ==
    LET e == wk[w].ev IN
    /\ wk[w].pc = "next"
    /\ IF status[e] \in Completed /\ NextOpen(e) # {}
         THEN /\ \E f \in NextOpen(e) :
                   /\ \A g \in NextOpen(e) : f[2] <= g[2]
                   /\ wk' = [wk EXCEPT ![w] = [pc |-> "lead", ev |-> f,
                               stamp |-> NoStamp, recover |-> FALSE,
                               claimed |-> FALSE]]
              /\ UNCHANGED holder
         ELSE Return(w)
    /\ UNCHANGED <<broken, nextSeq, eventVars, active, tasks, scan, faults,
                   histVars>>

(* A worker dies or lets an unclassified exception escape. *)
WorkerCrash(w) ==
    /\ wk[w].pc # "idle" /\ Fault
    /\ dangling' = IF wk[w].pc = "ext" THEN dangling \cup {wk[w].ev}
                                        ELSE dangling
    /\ Return(w)
    /\ UNCHANGED <<broken, nextSeq, eventVars, active, tasks, scan, reached,
                   started>>

(* The lock's database connection breaks under a running worker. *)
LoseLock(w) ==
    LET s == Owner(wk[w].ev) IN
    /\ LockLoss /\ wk[w].pc # "idle" /\ holder[s] = w /\ Fault
    /\ holder' = [holder EXCEPT ![s] = NoWorker]
    /\ broken' = TRUE
    /\ UNCHANGED <<nextSeq, eventVars, active, tasks, scan, wk, histVars>>

(***************************************************************************)
(* Batch flush and manual retry                                            *)
(***************************************************************************)

(* flush_smart_table_batch and _reconcile_smart_table_batch_events. *)
FlushSettles(e) ==
    /\ status[e] = "batch_pending"
    /\ Verdict(e, "settled")
    /\ UNCHANGED <<broken, nextSeq, kind, attempts, batch, media, quote,
                   active, tasks, scan, wk, holder, faults, started,
                   dangling>>

FlushFails(e, transient) ==
    /\ status[e] = "batch_pending"
    /\ RecordFailure(e, transient)
    /\ batch' = IF AfterFailure(e, transient) = "retrying"
                  THEN batch \cup {e} ELSE batch
    /\ UNCHANGED <<broken, nextSeq, kind, media, quote, active, tasks, scan,
                   wk, holder, faults, started, dangling>>

(* retry_failed_message repairs one failed message outside the stream. *)
ManualRetry(e) ==
    /\ status[e] = "failed_pending_review" /\ e \in started
    /\ Verdict(e, "settled")
    /\ UNCHANGED <<broken, nextSeq, kind, attempts, batch, media, quote,
                   active, tasks, scan, wk, holder, faults, started,
                   dangling>>

-----------------------------------------------------------------------------
Intake ==
    \/ \E s \in Sales, k \in Kinds, m \in MediaInputs, q \in 0..MaxSeq :
         Receive(s, k, m, q)
    \/ \E s \in Sales : Deactivate(s)

MediaWaitEnds(e) == \E m \in {"stored", "late"} : MediaArrives(e, m)

Dispatcher ==
    \/ ScanStart
    \/ \E e \in Event : ScanClaim(e)
    \/ ScanEnd

Lookup(w) ==
    \/ \E t \in tasks : Deliver(w, t, FALSE)
    \/ AcquireSalesLock(w) \/ TakeClaim(w)

Route(w) ==
    \/ RouteCommand(w) \/ RouteUnrecognized(w) \/ RouteAction(w)
    \/ RouteRecover(w) \/ \E m \in Media : RouteLead(w, m)

Command(w) == FinishCommand(w) \/ CommandFails(w)

Consume(w) ==
    \/ ConsumeSettled(w) \/ ConsumeUnauthorized(w) \/ ConsumeBatchRetry(w)
    \/ ConsumeQuoteWaits(w) \/ ConsumeQuoteUnresolved(w) \/ ConsumeWaits(w)
    \/ ConsumeAwaitsMedia(w) \/ ConsumeLocally(w) \/ ConsumeCallsOut(w)

External(w) ==
    \/ \E v \in {"settled", "batch_pending"} : ExternalSettles(w, v)
    \/ \E transient \in BOOLEAN : ExternalFails(w, transient)

WorkerStep(w) ==
    Lookup(w) \/ Route(w) \/ Command(w) \/ Consume(w) \/ External(w)
              \/ ConsumeNext(w)

Flush(e) ==
    FlushSettles(e) \/ \E transient \in BOOLEAN : FlushFails(e, transient)

Faults ==
    \/ ScanCrash
    \/ \E t \in tasks : LoseTask(t)
    \/ \E w \in Workers :
         \/ \E t \in tasks : Deliver(w, t, TRUE)
         \/ CommandPending(w) \/ WorkerCrash(w) \/ LoseLock(w)

Next ==
    \/ Intake
    \/ Dispatcher
    \/ \E e \in Event : MediaWaitEnds(e) \/ LeaseRunsOut(e) \/ Flush(e)
                           \/ ManualRetry(e)
    \/ \E w \in Workers : WorkerStep(w)
    \/ Faults

(* Beat fires the scan and the flush periodically, Celery keeps its slots  *)
(* running, time passes: leases and media waits end.  Intake, faults and   *)
(* people are never forced.                                                *)
Fairness ==
    /\ WF_vars(ScanStart) /\ WF_vars(ScanEnd)
    /\ \A e \in Event :
         /\ WF_vars(ScanClaim(e)) /\ WF_vars(Flush(e))
         /\ WF_vars(LeaseRunsOut(e)) /\ WF_vars(MediaWaitEnds(e))
    /\ \A w \in Workers :
         /\ WF_vars(\E t \in tasks : Deliver(w, t, FALSE))
         /\ SF_vars(AcquireSalesLock(w))
         /\ WF_vars(TakeClaim(w) \/ Route(w) \/ Command(w) \/ Consume(w)
                      \/ External(w) \/ ConsumeNext(w))

Spec == Init /\ [][Next]_vars
FairSpec == Spec /\ Fairness

-----------------------------------------------------------------------------
(* Properties *)

(* Every variable keeps its type. *)
TypeOK ==
    /\ nextSeq \in [Sales -> 0..MaxSeq]
    /\ status \in [Event -> Statuses]
    /\ kind \in [Event -> AllKinds]
    /\ attempts \in [Event -> Nat]
    /\ stamp \in [Event -> Stamps \cup {NoStamp, Taken}]
    /\ expired \in [Event -> BOOLEAN]
    /\ batch \subseteq Event
    /\ media \in [Event -> Media]
    /\ quote \in [Event -> 0..MaxSeq]
    /\ active \in [Sales -> BOOLEAN]
    /\ tasks \subseteq Claim
    /\ scan \in [on : BOOLEAN, slots : 0..MaxInFlight,
                 cands : SUBSET Event, claims : SUBSET Claim]
    /\ wk \in [Workers -> WorkerState]
    /\ holder \in [Sales -> Workers \cup {NoWorker}]
    /\ broken \in BOOLEAN
    /\ faults \in 0..MaxFaults
    /\ reached \subseteq Event
    /\ started \subseteq Event
    /\ dangling \subseteq Event

Working(w) == wk[w].pc \in {"take", "route", "cmd", "lead", "ext", "next"}

(* While its lock connection lives, one worker at a time works for a       *)
(* salesperson, through crashes, redeliveries and lease recovery (the      *)
(* advisory lock in consume_lead_outbox_event).                            *)
OneWorkerPerSales ==
    ~broken =>
      \A v, w \in Workers :
        Working(v) /\ Working(w) /\ Owner(wk[v].ev) = Owner(wk[w].ev) => v = w

(* Two workers never run the external phase of one lead message at once,   *)
(* even when a lock connection broke: the one-time claim token and the     *)
(* recovery branch keep the second one out.                                *)
OneExternalRunPerEvent ==
    \A v, w \in Workers :
      /\ wk[v].pc = "ext" /\ wk[w].pc = "ext" /\ wk[v].ev = wk[w].ev
      /\ kind[wk[v].ev] = "lead"
      => v = w

Open == {"absent", "pending", "retrying", "batch_pending"}

(* w has taken over e for a run that may call out. *)
Runs(w, e) ==
    /\ wk[w].ev = e
    /\ \/ wk[w].pc = "route" /\ ~wk[w].recover
       \/ wk[w].pc = "lead" /\ wk[w].claimed
       \/ wk[w].pc = "ext"

(* A task for e with the event's current claim time and no recovery mark. *)
FreshClaim(e) ==
    /\ status[e] = "processing" /\ stamp[e] \in Stamps
    /\ \/ \E c \in tasks \cup scan.claims :
            c.event = e /\ c.stamp = stamp[e] /\ ~c.recover
       \/ \E w \in Workers : /\ wk[w].pc \in {"lock", "take"} /\ wk[w].ev = e
                            /\ wk[w].stamp = stamp[e] /\ ~wk[w].recover

(* A worker could still begin an ordinary run of e. *)
Startable(e) == status[e] \in Open \/ FreshClaim(e)

SingleRunnerOf(e) ==
    kind[e] = "lead" =>
      /\ \A v, w \in Workers : Runs(v, e) /\ Runs(w, e) => v = w
      /\ \A w \in Workers : Runs(w, e) => ~Startable(e) /\ e \notin dangling
      /\ e \in dangling => ~Startable(e)

(* A lead message has at most one runner; while it has one, or once a run  *)
(* of it was lost, it is neither open to the scan nor claimed afresh.      *)
SingleRunner == \A e \in Event : SingleRunnerOf(e)

SparesLostRuns ==
    \A w \in Workers :
      wk[w].pc # "ext" /\ wk'[w].pc = "ext" /\ kind[wk'[w].ev] = "lead"
      => wk'[w].ev \notin dangling

(* A lead message whose external phase died without a recorded result is   *)
(* never sent through the lead pipeline again: its lease ends in manual    *)
(* review.                                                                 *)
NoReplayAfterLostRun == [][SparesLostRuns]_vars

(* A message that quotes nothing calls out only after every earlier        *)
(* message of its salesperson has had a first verdict, whichever of the    *)
(* scan and the recursive continuation picked it.                          *)
FirstVerdictsInOrder ==
    \A e \in started : quote[e] = 0 => Earlier(e) \subseteq reached

(* A settled message stays settled; only a manual retry lifts a failed one *)
(* and only the flush moves a queued batch item on.                        *)
SettledIsFinal ==
    [][~broken =>
       \A e \in Event :
         /\ status[e] = "settled" => status'[e] = "settled"
         /\ status[e] = "failed_pending_review" =>
              status'[e] \in {"failed_pending_review", "settled"}]_vars

(* A transient failure is retried at most RetryLimit times: over any       *)
(* mixture of worker runs, batch flushes and lease recoveries an event     *)
(* records at most RetryLimit + 1 failures.                                *)
FailuresBounded ==
    ~broken => \A e \in Event : attempts[e] <= RetryLimit + 1

(* Every accepted message is settled in the end: processed, ignored,       *)
(* refused or handed to manual review, whatever is lost on the way.  Card  *)
(* commands and the messages behind one are excluded: RouteAction leaves   *)
(* its event open for good.                                                *)
EventuallySettled ==
    \A e \in Event :
      /\ status[e] # "absent"
      /\ \A f \in Earlier(e) \cup {e} : kind[f] # "action"
      ~> status[e] \in {"settled", "failed_pending_review"}
=============================================================================
