--------------------------- MODULE ProtectedRetry ---------------------------
(***************************************************************************)
(* The manual retry of a failed message and the reassignment of a message    *)
(* to another lead (app/leads/service.py, retry_failed_message and          *)
(* LeadReassignmentService).  A retry is an attempt with a lease: an attempt *)
(* whose lease is over is taken up again under its own number.  The result  *)
(* is written into the attempt, the Outbox event and, for the lead the       *)
(* message made, the table synchronisation.                                  *)
(***************************************************************************)
EXTENDS ReviewPatch, Sequences

CONSTANTS
    MaxAttempts     \* bound: attempts of the message

VARIABLES
    event,          \* OutboxEvent.status: failed_pending_review or succeeded
    sync,           \* SmartTableSync.status by lead
    assigned,       \* LeadMessageResolution.lead_id, or None
    attempt         \* MessageRetryAttempt rows of the message, oldest first

retryVars == <<event, sync, assigned, attempt>>

NewAttempt(l, st) == [st |-> st, lead |-> l, fresh |-> st = "processing"]

\* A message that failed; releases before left successful attempts whose
\* event and synchronisation were not settled with them.
RetryInit ==
    /\ event = "failed_pending_review"
    /\ sync \in {[l \in Leads |-> IF l = Made THEN s ELSE "succeeded"] :
                   s \in {"retrying", "failed_pending_review"}}
    /\ assigned \in {None, Made}
    /\ attempt \in {<<>>, <<NewAttempt(Made, "succeeded")>>}

AskRetry(p) == Begin(p, "retry", None, None) /\ UNCHANGED retryVars

AskReassign(p, l) == Begin(p, "reassign", l, None) /\ UNCHANGED retryVars

Last == Len(attempt)

\* _retry_target_lead, for an administrator.
RetryTarget ==
    LET l == IF assigned = None THEN Made ELSE assigned
    IN  IF l \in discarded THEN None ELSE l

LatestIs(st) == Last > 0 /\ attempt[Last].st = st

Synced == attempt[Last].lead # None /\ sync[attempt[Last].lead] = "succeeded"

AllSucceeded ==
    LatestIs("succeeded") /\ event = "succeeded" /\ Synced

\* The latest attempt is in work, whether or not its lease is over.
AttemptOpen == LatestIs("processing")

\* The transaction is refused, or answers from what is recorded.
RetryAnswered(p) ==
    /\ At(p, "retry") /\ UNCHANGED attempt
    /\ \/ /\ \/ ~active
             \/ event = "succeeded" /\ ~AllSucceeded
          /\ Refuse(p)
       \/ /\ active /\ event # "succeeded"
          /\ AttemptOpen /\ attempt[Last].fresh
          /\ Answer(p, "processing")
       \/ active /\ AllSucceeded /\ Answer(p, "succeeded")
       \/ /\ active /\ event # "succeeded" /\ LatestIs("no_target")
          /\ Answer(p, "no_target")
    /\ UNCHANGED <<menu, audit, active, discarded, faults,
                   event, sync, assigned>>

\* An attempt whose lease is over is taken up again, if its lead is still the
\* one the message is about.
RetryTakesOver(p) ==
    LET same == RetryTarget # None /\ RetryTarget = attempt[Last].lead IN
    /\ At(p, "retry") /\ active /\ event # "succeeded"
    /\ AttemptOpen /\ ~attempt[Last].fresh
    /\ attempt' = [attempt EXCEPT ![Last] =
         IF same THEN [@ EXCEPT !.fresh = TRUE] ELSE [@ EXCEPT !.st = "no_target"]]
    /\ IF same
       THEN clerk' = [clerk EXCEPT ![p].pc = "supplement", ![p].op = Last]
       ELSE Answer(p, "no_target")
    /\ UNCHANGED <<menu, audit, active, discarded, faults,
                   event, sync, assigned>>

\* An attempt from before whose plan is recovered from the field sources.
PlanRecovered ==
    /\ RetryTarget # None /\ LatestIs("succeeded")
    /\ attempt[Last].lead = Made /\ sync[Made] # "succeeded"

\* A new attempt; a plan that lacks a source is refused.
RetryStarts(p) ==
    /\ At(p, "retry") /\ active /\ event # "succeeded"
    /\ ~AttemptOpen /\ ~LatestIs("no_target")
    /\ \/ PlanRecovered /\ Refuse(p) /\ UNCHANGED attempt
       \/ /\ Last < MaxAttempts
          /\ PlanRecovered => field[Made].val # Blank
          /\ attempt' = Append(attempt, NewAttempt(RetryTarget,
               IF RetryTarget = None THEN "no_target" ELSE "processing"))
          /\ IF RetryTarget = None
             THEN Answer(p, "no_target")
             ELSE clerk' = [clerk EXCEPT ![p] = [@ EXCEPT
                    !.pc = "supplement", !.op = Last + 1,
                    !.to = IF PlanRecovered THEN field[Made].val ELSE None]]
    /\ UNCHANGED <<menu, audit, active, discarded, faults,
                   event, sync, assigned>>

\* Parsing or the model, which may fail, and the call of _sync_ai_review_patch
\* as a supplement, without a transaction around them.
Supplement(p) ==
    LET l == attempt[clerk[p].op].lead  v == clerk[p].to IN
    /\ At(p, "supplement")
    /\ \/ Fault /\ Go(p, "retry_failed") /\ UNCHANGED <<field, draft>>
       \/ /\ UNCHANGED faults /\ Go(p, "patching")
          /\ StartDraft(p, l, IF v = None THEN Old ELSE v, TRUE, v # None)
    /\ UNCHANGED <<menu, audit, active, discarded, due, retryVars>>

\* The result goes into attempt, event and, for its own lead, sync; nothing
\* asks whether the attempt is still this request's.
Settle(n, st) ==
    /\ attempt' = [attempt EXCEPT ![n].st = st]
    /\ event' = st
    /\ sync' = IF attempt[n].lead = Made THEN [sync EXCEPT ![Made] = st]
               ELSE sync

RetryWritten(p) ==
    /\ \/ /\ At(p, "retry_done")
          /\ Settle(clerk[p].op, "succeeded") /\ Answer(p, "succeeded")
       \/ /\ At(p, "retry_failed")
          /\ Settle(clerk[p].op, "failed_pending_review")
          /\ Answer(p, "failed_pending_review")
    /\ UNCHANGED <<menu, audit, active, discarded, faults, assigned>>

OnAttempt(p) ==
    clerk[p].pc \in {"supplement", "patching", "retry_done", "retry_failed"}

AttemptLapses ==
    /\ AttemptOpen /\ attempt[Last].fresh
    /\ attempt' = [attempt EXCEPT ![Last].fresh = FALSE]
    /\ IF \E p \in Clerks : OnAttempt(p) /\ clerk[p].op = Last
       THEN Fault ELSE UNCHANGED faults
    /\ UNCHANGED <<menu, audit, clerk, active, discarded,
                   event, sync, assigned>>

\* _prepare_reassignment: facts and permissions, a processing audit row.
PrepareReassign(p) ==
    /\ At(p, "reassign")
    /\ IF active /\ assigned # None THEN Go(p, "assign") ELSE Refuse(p)
    /\ UNCHANGED <<menu, audit, active, discarded, faults, retryVars>>

\* reassign, the second transaction.
Assign(p) ==
    /\ At(p, "assign")
    /\ assigned' = clerk[p].op
    /\ Answer(p, "succeeded")
    /\ UNCHANGED <<menu, audit, active, discarded, faults,
                   event, sync, attempt>>

RetryNext ==
    \/ /\ \/ \E p \in Clerks :
               \/ AskRetry(p)
               \/ \E l \in Leads : AskReassign(p, l)
               \/ RetryAnswered(p) \/ RetryTakesOver(p) \/ RetryStarts(p)
               \/ RetryWritten(p)
               \/ PrepareReassign(p) \/ Assign(p)
          \/ AttemptLapses
       /\ UNCHANGED reviewVars
    \/ \E p \in Clerks : Supplement(p)

RetryTypeOK ==
    /\ event \in {"failed_pending_review", "succeeded"}
    /\ sync \in [Leads -> {"retrying", "failed_pending_review", "succeeded"}]
    /\ assigned \in Leads \cup {None}
    /\ \A n \in 1..Last :
         /\ attempt[n].st \in {"processing", "succeeded", "no_target",
                               "failed_pending_review"}
         /\ attempt[n].lead \in Leads \cup {None}
=============================================================================
