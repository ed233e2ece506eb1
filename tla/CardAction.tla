----------------------------- MODULE CardAction -----------------------------
(***************************************************************************)
(* The life of one interactive card action (app/wecom_bot/actions.py): it  *)
(* is issued with frozen candidates, clicked through template card         *)
(* callbacks, queued in its own Outbox, executed by Celery workers under a *)
(* claim token and a lease, and recovered from its saved results when a    *)
(* worker is lost after the domain operation began.  Actions are separate  *)
(* rows and share nothing but the directory of salespeople, so one is      *)
(* modelled, of any kind.                                                  *)
(***************************************************************************)
EXTENDS Naturals, FiniteSets

CONSTANTS
    Kinds,          \* action types that may be issued
    Leads,          \* leads a card may name
    Target,         \* the lead of a card that names only one
    Workers,
    MaxClicks,      \* bound: callbacks with a message id of their own
    MaxTasks,       \* bound: Celery tasks waiting for this action
    MaxFaults       \* bound: crashes, lost or repeated tasks, early expiries

AllKinds == {"field", "duplicate", "batch", "company", "discard", "reassign"}

ASSUME CardAssumption ==
    /\ Kinds \subseteq AllKinds /\ Target \in Leads /\ IsFiniteSet(Leads)
    /\ MaxClicks \in Nat /\ MaxTasks \in Nat \ {0} /\ MaxFaults \in Nat

VARIABLES
    kind, cands, cross, \* frozen by the issue: type, candidates, owner scope
    act,                \* WecomAction.status
    sel,                \* context.selected_lead_ids
    saved,              \* leads with an entry in context.submission_results
    due,                \* expires_at has passed
    ob,                 \* the WecomActionOutbox row
    reply,              \* WecomCallbackDelivery.transport_status of the last answer
    told,               \* content of the result notice, "none" before
    active, owned,      \* directory: the actor is active; leads they own
    tasks,              \* Celery tasks for this action
    wk,                 \* workers
    written,            \* the Smart Table row holds the confirmed fields
    starts, called,     \* history: domain entries, leads handed to the domain
    clicks, faults      \* counters behind the bounds

card == <<kind, cands, cross>>
dir  == <<active, owned>>
hist == <<starts, called>>
vars == <<kind, cands, cross, act, sel, saved, due, ob, reply, told, active,
          owned, tasks, wk, written, starts, called, clicks, faults>>

Statuses == {"none", "pending", "processing", "pending_recovery", "succeeded",
             "denied", "expired"}
Outcomes == {"none", "succeeded", "pending_recovery", "denied"}
Idle == [pc |-> "idle", tok |-> 0, todo |-> {}, done |-> {}, ok |-> TRUE]
Row  == [st |-> "none", tok |-> 0, att |-> 0, lease |-> "none",
         disp |-> "none", started |-> FALSE, effect |-> "none"]

TypeOK ==
    /\ kind \in AllKinds \cup {"none"} /\ cands \subseteq Leads /\ cross \in BOOLEAN
    /\ act \in Statuses /\ sel \subseteq cands /\ saved \subseteq sel
    /\ due \in BOOLEAN /\ active \in BOOLEAN /\ owned \subseteq Leads
    /\ ob \in [st : {"none", "pending", "processing", "succeeded", "failed"},
               tok : Nat, att : Nat, lease : {"none", "live", "expired"},
               disp : {"none", "live", "expired"}, started : BOOLEAN,
               effect : {"none", "unknown", "succeeded"}]
    /\ reply \in {"none", "due", "succeeded", "failed"} /\ told \in Outcomes
    /\ tasks \in 0..MaxTasks /\ written \in BOOLEAN
    /\ wk \in [Workers -> [pc : {"idle", "claimed", "domain", "written",
                                 "marked", "drain", "finish"},
                           tok : Nat, todo : SUBSET Leads, done : SUBSET Leads,
                           ok : BOOLEAN]]
    /\ starts \in Nat /\ called \subseteq Leads
    /\ clicks \in 0..MaxClicks /\ faults \in 0..MaxFaults

Init ==
    /\ kind = "none" /\ cands = {} /\ cross = FALSE
    /\ act = "none" /\ sel = {} /\ saved = {} /\ due = FALSE
    /\ ob = Row /\ reply = "none" /\ told = "none"
    /\ active = TRUE /\ owned = Leads /\ tasks = 0
    /\ wk = [w \in Workers |-> Idle] /\ written = FALSE
    /\ starts = 0 /\ called = {} /\ clicks = 0 /\ faults = 0

Fault == faults < MaxFaults /\ faults' = faults + 1

\* Plain CRM submissions rest on the owner of the lead; across owners, and for
\* the other kinds, the actor must be an active salesperson.
Restricted(k, x) == k \notin {"field", "duplicate", "batch", "company"}
                    \/ (k \in {"batch", "duplicate"} /\ x)

------------------------------------------------------------------------------
(* Issue *)

\* What each issue_*_action freezes as its candidates: one page of a batch,
\* every duplicate found, the one lead or the several that match a company
\* name, or the lead of a button card.
BatchPage      == {Leads}
DuplicateGroup == {Leads}
CompanyMatches == {{Target}, Leads}
FieldCard      == {{Target}}
ButtonCard     == {{Target}}

TargetsOf(k) ==
    CASE k = "batch" -> BatchPage
      [] k = "duplicate" -> DuplicateGroup
      [] k = "company" -> CompanyMatches
      [] k = "field" -> FieldCard
      [] OTHER -> ButtonCard

\* issue_action: the action, its previews and its card in one transaction; a
\* second issue of the same facts returns the first by issuance_key.
Issue ==
    /\ act = "none"
    /\ \E k \in Kinds, x \in BOOLEAN : \E c \in TargetsOf(k) :
        /\ x => k \in {"batch", "duplicate"}
        /\ Restricted(k, x) => active
        /\ kind' = k /\ cross' = x /\ cands' = c
    /\ act' = "pending"
    /\ UNCHANGED <<sel, saved, due, ob, reply, told, dir, tasks, wk, written,
                   hist, clicks, faults>>

------------------------------------------------------------------------------
(* Callbacks *)

\* A card with several candidates asks for a choice; the single company card
\* and the field, discard and reassignment cards are one button.
Choice == kind \in {"batch", "duplicate"} \/ (kind = "company" /\ cands # {Target})

\* TemplateCardCallbackParser keeps who clicked, the key and the options.
Click == [by : {"actor", "other"}, picks : SUBSET Leads,
          key : {"confirm", "stop", "select_all", "foreign", "unknown"}]

KeyMatches(key) ==
    \/ key = "confirm"
    \/ key = "stop" /\ kind = "duplicate"
    \/ key = "select_all" /\ kind = "batch"

\* Ownership is checked under the claim for field, company and duplicate
\* cards; a batch leaves it to the worker, lead by lead.
OwnersHold(picks) ==
    CASE kind = "field" -> Target \in owned
      [] kind = "company" -> (IF Choice THEN picks ELSE cands) \subseteq owned
      [] kind = "duplicate" -> cands \subseteq owned
      [] OTHER -> TRUE

PicksValid(picks) ==
    CASE kind = "batch" -> picks # {} /\ picks \subseteq cands
      [] kind = "company" /\ Choice -> Cardinality(picks) = 1 /\ picks \subseteq cands
      [] kind = "duplicate" -> picks \subseteq cands
      [] OTHER -> TRUE

\* claim_callback up to its verdict, in the order of its early returns.
Verdict(c) ==
    CASE Restricted(kind, cross) /\ ~active -> "deny"
      [] c.by # "actor" -> "deny"
      [] c.key = "unknown" -> "reject"
      [] ~KeyMatches(c.key) -> "deny"
      [] act # "pending" -> "duplicate"
      [] due -> "expire"
      [] ~OwnersHold(c.picks) -> "deny"
      [] c.key = "select_all" -> "select_all"
      [] ~PicksValid(c.picks) -> "deny"
      [] OTHER -> "claim"

\* The verdicts that some callback could meet now.
Verdicts == {Verdict(c) : c \in Click}

Arrives == act # "none" /\ clicks < MaxClicks /\ clicks' = clicks + 1

\* _deny_action and the expiry: a pending action is closed for good.
CloseCard ==
    \E v \in {"deny", "expire"} \cap Verdicts :
        /\ Arrives /\ act = "pending"
        /\ act' = IF v = "deny" THEN "denied" ELSE "expired"
        /\ reply' = "due"
        /\ UNCHANGED <<card, sel, saved, due, ob, told, dir, tasks, wk,
                       written, hist, faults>>

\* A rejection, a repeated click and a denial of an action that is no longer
\* pending only leave a delivery record; select_all only redraws the card.
OnlyDelivery ==
    \E v \in {"deny", "reject", "duplicate", "select_all"} \cap Verdicts :
        /\ Arrives
        /\ v = "deny" => act # "pending"
        /\ reply' = IF v = "select_all" THEN "due" ELSE reply
        /\ UNCHANGED <<card, act, sel, saved, due, ob, told, dir, tasks, wk,
                       written, hist, faults>>

\* The leads a claim freezes into the context.
Selection(picks) == IF Choice THEN picks ELSE cands

\* The first valid click: processing and an Outbox row in one transaction.
ClaimCallback ==
    \E s \in {Selection(c.picks) : c \in {d \in Click : Verdict(d) = "claim"}} :
        /\ Arrives
        /\ act' = "processing" /\ sel' = s
        /\ ob' = [ob EXCEPT !.st = "pending"]
        /\ reply' = "due"
        /\ UNCHANGED <<card, saved, due, told, dir, tasks, wk, written, hist,
                       faults>>

AnswerSent   == reply' = "succeeded"
AnswerFailed == reply' = "failed"
AnswerLate   == reply' = "none"

\* WecomTemplateCardCallbackHandler.handle after the claim: the card is
\* updated once, fails to update, or its five seconds have gone.
AnswerCallback ==
    /\ reply = "due"
    /\ AnswerSent \/ AnswerFailed \/ AnswerLate
    /\ UNCHANGED <<card, act, sel, saved, due, ob, told, dir, tasks, wk,
                   written, hist, clicks, faults>>

------------------------------------------------------------------------------
(* Dispatch *)

PendingOnly == ob.st = "pending" /\ ob.disp # "live"

\* Pending rows and expired leases, once per dispatch lease.
Dispatchable ==
    /\ ob.st = "pending" \/ (ob.st = "processing" /\ ob.lease = "expired")
    /\ ob.disp # "live"

\* consume_pending_wecom_actions.
Scan ==
    /\ Dispatchable /\ tasks < MaxTasks
    /\ ob' = [ob EXCEPT !.disp = "live"]
    /\ tasks' = tasks + 1
    /\ UNCHANGED <<card, act, sel, saved, due, reply, told, dir, wk, written,
                   hist, clicks, faults>>

\* The broker loses a task, or .delay fails after the scan was committed.
LoseTask ==
    /\ tasks > 0 /\ Fault /\ tasks' = tasks - 1
    /\ UNCHANGED <<card, act, sel, saved, due, ob, reply, told, dir, wk,
                   written, hist, clicks>>

RepeatTask ==
    /\ tasks \in 1..(MaxTasks - 1) /\ Fault /\ tasks' = tasks + 1
    /\ UNCHANGED <<card, act, sel, saved, due, ob, reply, told, dir, wk,
                   written, hist, clicks>>

DispatchLeaseExpires ==
    /\ ob.disp = "live" /\ ob' = [ob EXCEPT !.disp = "expired"]
    /\ UNCHANGED <<card, act, sel, saved, due, reply, told, dir, tasks, wk,
                   written, hist, clicks, faults>>

Holders == {w \in Workers : wk[w].pc # "idle" /\ wk[w].tok = ob.tok}

\* Five minutes without a renewal: certain when the holder is gone, possible
\* while it works.
LeaseExpires ==
    /\ ob.lease = "live"
    /\ IF Holders = {} THEN UNCHANGED faults ELSE Fault
    /\ ob' = [ob EXCEPT !.lease = "expired"]
    /\ UNCHANGED <<card, act, sel, saved, due, reply, told, dir, tasks, wk,
                   written, hist, clicks>>

------------------------------------------------------------------------------
(* execute_action: the claiming transaction *)

Taken == ob.st = "processing" /\ ob.lease # "expired"

NotTaken == act = "processing" /\ ~Taken

Delivered(w) == tasks > 0 /\ wk[w].pc = "idle" /\ tasks' = tasks - 1

\* _add_result_notification: the key of the first part depends on the action
\* alone, so the first content stays.
TellOnce(outcome) == told' = IF told = "none" THEN outcome ELSE told

\* Finished, denied or in other hands: the task only clears its dispatch lease.
ExecuteNothing(w) ==
    /\ Delivered(w)
    /\ act # "processing" \/ Taken
    /\ ob' = [ob EXCEPT !.disp = "none"]
    /\ UNCHANGED <<card, act, sel, saved, due, reply, told, dir, wk, written,
                   hist, clicks, faults>>

AnyResultIsComplete == kind \in {"batch", "company"} /\ saved # {}

\* _saved_submission_results_summary: only batch and company actions keep
\* results, and only a result for every selected lead counts as complete.
RecoveredComplete ==
    kind \in {"batch", "company"} /\ saved # {} /\ saved = sel

\* The operation began under a lease that ran out: it is never entered again,
\* the saved results decide.
ExecuteRecover(w) ==
    /\ Delivered(w)
    /\ NotTaken /\ ob.lease = "expired" /\ ob.started
    /\ act' = IF RecoveredComplete THEN "succeeded" ELSE "pending_recovery"
    /\ ob' = [ob EXCEPT !.st = IF RecoveredComplete THEN "succeeded" ELSE "failed",
                        !.tok = 0, !.lease = "none", !.disp = "none"]
    /\ TellOnce(act')
    /\ UNCHANGED <<card, sel, saved, due, reply, dir, wk, written, hist,
                   clicks, faults>>

Unstarted == NotTaken /\ ~(ob.lease = "expired" /\ ob.started)

\* The actor was withdrawn while the task waited; the token stays in the row.
ExecuteDeny(w) ==
    /\ Delivered(w) /\ Unstarted
    /\ Restricted(kind, cross) /\ ~active
    /\ act' = "denied"
    /\ ob' = [ob EXCEPT !.st = "failed", !.lease = "none", !.disp = "none"]
    /\ TellOnce("denied")
    /\ UNCHANGED <<card, sel, saved, due, reply, dir, wk, written, hist,
                   clicks, faults>>

ExecuteClaim(w) ==
    /\ Delivered(w) /\ Unstarted
    /\ Restricted(kind, cross) => active
    /\ ob' = [ob EXCEPT !.st = "processing", !.tok = ob.att + 1,
                        !.att = ob.att + 1, !.lease = "live", !.disp = "none"]
    /\ wk' = [wk EXCEPT ![w] = [Idle EXCEPT !.pc = "claimed", !.tok = ob.att + 1]]
    /\ UNCHANGED <<card, act, sel, saved, due, reply, told, dir, written, hist,
                   clicks, faults>>

------------------------------------------------------------------------------
(* The domain executor *)

TokenOnly(w) == ob.tok = wk[w].tok

\* _assert_locked_claim: status, token and lease, under the row locks.
ClaimHeld(w) ==
    /\ act = "processing" /\ ob.st = "processing"
    /\ ob.tok = wk[w].tok /\ ob.lease = "live"

Goto(w, pc) == wk' = [wk EXCEPT ![w].pc = pc]
Stale(w)    == wk' = [wk EXCEPT ![w] = Idle]
Finish(w, ok) == wk' = [wk EXCEPT ![w].pc = "finish", ![w].ok = ok]

\* A field card whose fields were dealt with in the table needs no operation;
\* reading the table may also fail.
FieldPrecheck(w) ==
    /\ wk[w].pc = "claimed" /\ kind = "field"
    /\ \/ Finish(w, TRUE) /\ UNCHANGED faults
       \/ Finish(w, FALSE) /\ Fault
    /\ UNCHANGED <<card, act, sel, saved, due, ob, reply, told, dir, tasks,
                   written, hist, clicks>>

BeginUnrecorded == [ob EXCEPT !.effect = "unknown"]

\* begin_domain_operation.
BeginRow == [ob EXCEPT !.started = TRUE, !.effect = "unknown"]

BeginDomain(w) ==
    /\ wk[w].pc = "claimed" /\ ClaimHeld(w) /\ ~ob.started
    /\ ob' = BeginRow
    /\ starts' = starts + 1
    /\ wk' = [wk EXCEPT ![w].pc = "domain", ![w].todo = sel]
    /\ UNCHANGED <<card, act, sel, saved, due, reply, told, dir, tasks,
                   written, called, clicks, faults>>

BeginStale(w) ==
    /\ wk[w].pc = "claimed" /\ ~(ClaimHeld(w) /\ ~ob.started)
    /\ Stale(w)
    /\ UNCHANGED <<card, act, sel, saved, due, ob, reply, told, dir, tasks,
                   written, hist, clicks, faults>>

KeepsResults == kind \in {"batch", "company"}

\* Batch and company: one lead is submitted, or found invalid without a call.
\* A batch hands its leads to a thread pool, so several may be under way, and
\* those already handed over run to their end after the claim is lost.
SubmitLead(w, l) ==
    /\ wk[w].pc \in {"domain", "drain"} /\ KeepsResults /\ l \in wk[w].todo
    /\ called' \in {called, called \cup {l}}
    /\ wk' = [wk EXCEPT ![w].todo = @ \ {l}, ![w].done = @ \cup {l}]
    /\ UNCHANGED <<card, act, sel, saved, due, ob, reply, told, dir, tasks,
                   written, starts, clicks, faults>>

\* record_submission_results: one result merged under the claim, which renews
\* the lease.
SaveResult(w, l) ==
    /\ wk[w].pc = "domain" /\ l \in wk[w].done /\ ClaimHeld(w)
    /\ saved' = saved \cup {l}
    /\ ob' = [ob EXCEPT !.lease = "live"]
    /\ wk' = [wk EXCEPT ![w].done = @ \ {l}]
    /\ UNCHANGED <<card, act, sel, due, reply, told, dir, tasks, written,
                   hist, clicks, faults>>

SaveStale(w) ==
    /\ wk[w].pc = "domain" /\ wk[w].done # {} /\ ~ClaimHeld(w)
    /\ wk' = [wk EXCEPT ![w].pc = "drain", ![w].tok = 0]
    /\ UNCHANGED <<card, act, sel, saved, due, ob, reply, told, dir, tasks,
                   written, hist, clicks, faults>>

\* A reason code outside allowed_reasons is refused with ValueError, which
\* ends the whole operation as failed.
SaveRefused(w) ==
    /\ wk[w].pc = "domain" /\ wk[w].done # {}
    /\ wk' = [wk EXCEPT ![w].pc = "drain", ![w].ok = FALSE]
    /\ UNCHANGED <<card, act, sel, saved, due, ob, reply, told, dir, tasks,
                   written, hist, clicks, faults>>

\* The pool is empty: a stale worker drops its result, a refused one fails.
DrainEnds(w) ==
    /\ wk[w].pc = "drain" /\ wk[w].todo = {}
    /\ IF wk[w].tok = 0 THEN Stale(w) ELSE Finish(w, FALSE)
    /\ UNCHANGED <<card, act, sel, saved, due, ob, reply, told, dir, tasks,
                   written, hist, clicks, faults>>

AllSaved(w) ==
    /\ wk[w].pc = "domain" /\ KeepsResults
    /\ wk[w].todo = {} /\ wk[w].done = {}
    /\ Finish(w, TRUE)
    /\ UNCHANGED <<card, act, sel, saved, due, ob, reply, told, dir, tasks,
                   written, hist, clicks, faults>>

\* _confirm_submission_fields: the table is written first, unless the owner
\* or the pending fields have changed ...
FieldWrite(w) ==
    /\ wk[w].pc = "domain" /\ kind = "field"
    /\ \/ written' = TRUE /\ Goto(w, "written")
       \/ UNCHANGED written /\ Finish(w, FALSE)
    /\ UNCHANGED <<card, act, sel, saved, due, ob, reply, told, dir, tasks,
                   hist, clicks, faults>>

\* ... then the success is recorded under the claim (mark_remote_effect_succeeded) ...
FieldMark(w) ==
    /\ wk[w].pc = "written"
    /\ IF ClaimHeld(w)
       THEN ob' = [ob EXCEPT !.effect = "succeeded"] /\ Goto(w, "marked")
       ELSE UNCHANGED ob /\ Stale(w)
    /\ UNCHANGED <<card, act, sel, saved, due, reply, told, dir, tasks,
                   written, hist, clicks, faults>>

\* ... and the CRM submission follows unless fields are still open.
FieldSubmit(w) ==
    /\ wk[w].pc = "marked"
    /\ called' \in {called, called \cup sel}
    /\ Finish(w, TRUE)
    /\ UNCHANGED <<card, act, sel, saved, due, ob, reply, told, dir, tasks,
                   written, starts, clicks, faults>>

\* Duplicate decision, discard and reassignment are one call each.
ResolveDuplicates == kind = "duplicate" /\ called' = called \cup cands
DiscardLead       == kind = "discard" /\ called' = called \cup cands
ReassignMessage   == kind = "reassign" /\ called' = called \cup cands

SingleCall(w) ==
    /\ wk[w].pc = "domain"
    /\ ResolveDuplicates \/ DiscardLead \/ ReassignMessage
    /\ Finish(w, TRUE)
    /\ UNCHANGED <<card, act, sel, saved, due, ob, reply, told, dir, tasks,
                   written, starts, clicks, faults>>

\* Any other exception of the domain service, before or after its effect.
DomainFails(w) ==
    /\ wk[w].pc \in {"domain", "written", "marked"} /\ Fault
    /\ wk' = [wk EXCEPT ![w].pc = "finish", ![w].ok = FALSE,
                        ![w].todo = {}, ![w].done = {}]
    /\ UNCHANGED <<card, act, sel, saved, due, ob, reply, told, dir, tasks,
                   written, hist, clicks>>

\* _finish_action compares status and token, not the lease.
FinishAction(w) ==
    /\ wk[w].pc = "finish" /\ Stale(w)
    /\ IF act = "processing" /\ ob.st = "processing" /\ ob.tok = wk[w].tok
       THEN /\ act' = IF wk[w].ok THEN "succeeded" ELSE "pending_recovery"
            /\ ob' = [ob EXCEPT !.st = IF wk[w].ok THEN "succeeded" ELSE "failed",
                                !.lease = "none"]
            /\ TellOnce(act')
       ELSE UNCHANGED <<act, ob, told>>
    /\ UNCHANGED <<card, sel, saved, due, reply, dir, tasks, written, hist,
                   clicks, faults>>

WorkerCrashes(w) ==
    /\ wk[w].pc # "idle" /\ Fault /\ Stale(w)
    /\ UNCHANGED <<card, act, sel, saved, due, ob, reply, told, dir, tasks,
                   written, hist, clicks>>

\* finalize_submission_confirmation reads the row again and finds the frozen
\* values there and no longer marked as pending.
TableConfirms == ob.started /\ written

\* reconcile_field_confirmation.
ReconcileField ==
    /\ kind = "field" /\ act = "pending_recovery" /\ TableConfirms
    /\ act' = "succeeded"
    /\ ob' = [ob EXCEPT !.st = "succeeded", !.effect = "succeeded", !.lease = "none"]
    /\ TellOnce("succeeded")
    /\ UNCHANGED <<card, sel, saved, due, reply, dir, tasks, wk, written,
                   hist, clicks, faults>>

------------------------------------------------------------------------------
(* Environment: withdrawal of the actor, loss of a lead, time *)

Withdraw ==
    /\ act \in {"none", "pending", "processing"}  \* later it is not looked at
    /\ active /\ active' = FALSE
    /\ UNCHANGED <<card, act, sel, saved, due, ob, reply, told, owned, tasks,
                   wk, written, hist, clicks, faults>>

LoseLead(l) ==
    /\ act = "pending"    \* before it changes the issue, later the CRM service
    /\ l \in owned /\ owned' = owned \ {l}
    /\ UNCHANGED <<card, act, sel, saved, due, ob, reply, told, active, tasks,
                   wk, written, hist, clicks, faults>>

CardExpires ==
    /\ act = "pending" /\ ~due /\ due' = TRUE
    /\ UNCHANGED <<card, act, sel, saved, ob, reply, told, dir, tasks, wk,
                   written, hist, clicks, faults>>

Callback == CloseCard \/ OnlyDelivery \/ ClaimCallback \/ AnswerCallback

Execute(w) == ExecuteNothing(w) \/ ExecuteRecover(w) \/ ExecuteDeny(w)
              \/ ExecuteClaim(w)

Work(w) ==
    \/ FieldPrecheck(w) \/ BeginDomain(w) \/ BeginStale(w)
    \/ (\E l \in Leads : SubmitLead(w, l) \/ SaveResult(w, l))
    \/ SaveStale(w) \/ SaveRefused(w) \/ DrainEnds(w) \/ AllSaved(w)
    \/ FieldWrite(w) \/ FieldMark(w) \/ FieldSubmit(w) \/ SingleCall(w)
    \/ DomainFails(w) \/ FinishAction(w)

Next ==
    \/ Issue \/ Callback
    \/ Scan \/ LoseTask \/ RepeatTask \/ DispatchLeaseExpires \/ LeaseExpires
    \/ (\E w \in Workers : Execute(w) \/ Work(w) \/ WorkerCrashes(w))
    \/ ReconcileField
    \/ Withdraw \/ (\E l \in Leads : LoseLead(l)) \/ CardExpires

Spec == Init /\ [][Next]_vars

\* Beat scans for ever, a queued task reaches some worker, a worker that is not
\* lost goes on, and a lease runs out.
FairSpec ==
    /\ Spec
    /\ WF_vars(Scan) /\ WF_vars(\E w \in Workers : Execute(w))
    /\ WF_vars(DispatchLeaseExpires) /\ WF_vars(LeaseExpires)
    /\ \A w \in Workers : WF_vars(Work(w))

------------------------------------------------------------------------------
(* Properties *)

\* However often a task is repeated, a worker lost or a lease taken over, the
\* domain operation of an action is entered at most once
\* (begin_domain_operation, execute_action).
OneDomainRun == starts <= 1

\* An action that was refused or has expired has had no effect and can have
\* none later, even from a worker that claimed it before (_deny_action, the
\* withdrawal branch of execute_action).
RefusedHasNoEffect == act \in {"denied", "expired"} => starts = 0 /\ called = {}

\* "Succeeded" of a submission covers every selected lead, also when it was
\* concluded from saved results after its worker was lost.
SuccessCoversSelection ==
    act = "succeeded" /\ KeepsResults => sel # {} /\ sel \subseteq saved

\* Every accepted click is decided and its actor is told.
ClicksAreDecided ==
    act = "processing" ~> act \in {"succeeded", "pending_recovery", "denied"}
                          /\ told # "none"

\* The card keeps the promise of a one-time action.
Promise == INSTANCE OneTimeAction WITH
    phase <- CASE act = "none" -> "absent"
               [] act = "pending" -> "open"
               [] act = "processing" -> "taken"
               [] act = "succeeded" -> "done"
               [] act = "pending_recovery" -> "unclear"
               [] OTHER -> "refused",
    started <- ob.started

\* Refinement, with its liveness: an action is offered, taken, started and
\* decided as OneTimeAction says.
KeepsPromise == Promise!FairSpec
==============================================================================
