---------------------------- MODULE LeadCreation ----------------------------
(***************************************************************************)
(* Leads made by an administrator (app/leads/admin_create.py): lead and      *)
(* operation are committed, the row is created, its id is kept, and lead     *)
(* and operation are bound to it.  A request that got no answer is          *)
(* recovered by looking the row up, never by creating it again.             *)
(*                                                                         *)
(* All requests here are for one company and one owner, the case in which    *)
(* they can get in each other's way.  A lead, its operation and its row are  *)
(* named by the request that made them.  As in OwnerTransfer, the branches   *)
(* of create() for a repeated request id have no caller.                    *)
(***************************************************************************)
EXTENDS Desk

VARIABLES
    creation,       \* AdminLeadCreationOperation by request id
    bound,          \* Lead.smart_table_record_id of the lead of a request
    rows            \* rows that exist in the table

creationVars == <<creation, bound, rows>>

NoCreation == [st |-> "absent", remote |-> "pending", rec |-> None,
               fresh |-> FALSE]

CreationInit ==
    /\ creation = [r \in Requests |-> NoCreation]
    /\ bound = [r \in Requests |-> None]
    /\ rows = {}

OnCreation(p) == clerk[p].pc \in {"create_row", "keep", "find", "bind"}

AskCreate(p) == Begin(p, "create", None, None) /\ UNCHANGED creationVars

AskReconcileCreation(p, o) ==
    /\ creation[o].st # "absent"
    /\ Begin(p, "create_reconcile", o, None)
    /\ UNCHANGED creationVars

NoDuplicate == \A r \in Requests : creation[r].st = "absent"

\* _prepare looks for a lead of the same owner and company ...
CheckDuplicate(p) ==
    /\ At(p, "create")
    /\ IF active /\ NoDuplicate THEN Go(p, "insert") ELSE Refuse(p)
    /\ UNCHANGED <<menu, audit, active, discarded, faults, creationVars>>

\* ... and adds lead and operation; nothing is locked in between.
InsertLead(p) ==
    /\ At(p, "insert")
    /\ creation' = [creation EXCEPT ![clerk[p].req] =
                      [NoCreation EXCEPT !.st = "processing", !.fresh = TRUE]]
    /\ clerk' = [clerk EXCEPT ![p].pc = "create_row", ![p].op = clerk[p].req]
    /\ UNCHANGED <<menu, audit, active, discarded, faults, bound, rows>>

Outcome(p, pc, res, rec) ==
    clerk' = [clerk EXCEPT ![p] = [@ EXCEPT !.pc = pc, !.res = res, !.to = rec]]

\* create_record: made, refused for certain, made with a failed check and a
\* known id, or without an answer.
CreateRow(p) ==
    LET r == clerk[p].op IN
    /\ At(p, "create_row")
    /\ \/ /\ UNCHANGED faults /\ rows' = rows \cup {r}
          /\ Outcome(p, "keep", "made", r)
       \/ Fault /\ UNCHANGED rows /\ Outcome(p, "keep", "refused", None)
       \/ /\ Fault /\ rows' = rows \cup {r}
          /\ Outcome(p, "keep", "unverified", r)
       \/ /\ Fault /\ rows' \in {rows, rows \cup {r}}
          /\ Outcome(p, "keep", "unknown", None)
    /\ UNCHANGED <<menu, audit, active, discarded, creation, bound>>

\* _finish: a success is not taken back.
FinishCreation(c, st, remote, rec) ==
    IF c.st = "succeeded" THEN c
    ELSE [c EXCEPT !.st = st, !.remote = remote, !.fresh = TRUE,
                   !.rec = IF rec = None THEN @ ELSE rec]

\* What each outcome of a call is recorded as.
KeptStatus(res) ==
    CASE res = "made" -> "processing" [] res = "refused" -> "remote_failed"
      [] OTHER -> "pending_recovery"
KeptRemote(res) ==
    CASE res \in {"made", "unbound"} -> "succeeded" [] res = "refused" -> "failed"
      [] OTHER -> "unknown"

\* Lead.smart_table_record_id is unique.
Unique(r, rec) == \A q \in Requests \ {r} : bound[q] # rec

\* The record of the call.
KeepOutcome(p) ==
    LET r == clerk[p].op  res == clerk[p].res  rec == clerk[p].to IN
    /\ At(p, "keep") /\ res # "unverified"
    /\ creation' = [creation EXCEPT ![r] =
                      FinishCreation(@, KeptStatus(res), KeptRemote(res), rec)]
    /\ IF res = "made" THEN Go(p, "bind") ELSE Answer(p, KeptStatus(res))
    /\ UNCHANGED <<menu, audit, active, discarded, faults, bound, rows>>

\* An id that came with a failed check goes into the lead first.
KeepUnverified(p) ==
    LET r == clerk[p].op  rec == clerk[p].to IN
    /\ At(p, "keep") /\ clerk[p].res = "unverified"
    /\ IF Unique(r, rec)
       THEN /\ bound' = [bound EXCEPT ![r] = rec]
            /\ creation' = [creation EXCEPT ![r] =
                 FinishCreation(@, "pending_recovery", "unknown", rec)]
            /\ Answer(p, "pending_recovery")
       ELSE Refuse(p) /\ UNCHANGED <<bound, creation>>
    /\ UNCHANGED <<menu, audit, active, discarded, faults, rows>>

\* Mutant: a row of another lead is taken.
AnyRow(r, rec) == bound[r] \in {None, rec}

MayBind(r, rec) == bound[r] \in {None, rec} /\ Unique(r, rec)

\* _finalize_local_creation.
BindLead(p) ==
    LET r == clerk[p].op  rec == clerk[p].to IN
    /\ At(p, "bind")
    /\ IF MayBind(r, rec)
       THEN /\ bound' = [bound EXCEPT ![r] = rec]
            /\ creation' = [creation EXCEPT ![r] =
                 [@ EXCEPT !.st = "succeeded", !.remote = "succeeded",
                           !.rec = rec]]
            /\ Answer(p, "succeeded")
       ELSE /\ Outcome(p, "keep", "unbound", rec)
            /\ UNCHANGED <<creation, bound>>
    /\ UNCHANGED <<menu, audit, active, discarded, faults, rows>>

\* _claim_operation, judged by the status before the claim: an operation whose
\* first call is still out is left alone, whether or not its lease is over.
ClaimCreation(p) ==
    LET o == clerk[p].op  c == creation[o]
        kept == c.st = "succeeded" \/ (c.st = "processing" /\ c.fresh)
    IN
    /\ At(p, "create_reconcile")
    /\ creation' = IF kept \/ ~active THEN creation
                   ELSE [creation EXCEPT ![o].st = "processing",
                                         ![o].fresh = TRUE]
    /\ \/ ~active /\ Refuse(p)
       \/ active /\ c.st = "succeeded" /\ Answer(p, "succeeded")
       \/ /\ active /\ c.st = "processing" /\ c.remote = "pending"
          /\ Answer(p, "processing")
       \/ /\ active /\ c.st # "succeeded"
          /\ ~(c.st = "processing" /\ c.remote = "pending")
          /\ Outcome(p, "find", None, c.rec)
    /\ UNCHANGED <<menu, audit, active, discarded, faults, bound, rows>>

\* The row of a kept id, or all rows with the fields of the lead.
Matches(rec) == IF rec # None THEN {rec} \cap rows ELSE rows

\* reconcile: only one row that matches is proof.
FindRow(p) ==
    LET m == Matches(clerk[p].to) IN
    /\ At(p, "find")
    /\ \/ ~active /\ Refuse(p) /\ UNCHANGED faults
       \/ active /\ Fault /\ Outcome(p, "keep", "unknown", None)
       \/ /\ active /\ UNCHANGED faults
          /\ IF Cardinality(m) = 1
             THEN Outcome(p, "keep", "made", CHOOSE x \in m : TRUE)
             ELSE Outcome(p, "keep", "unknown", None)
    /\ UNCHANGED <<menu, audit, active, discarded, creationVars>>

\* _lease_expired.
CreationLapses(o) ==
    /\ creation[o].st = "processing" /\ creation[o].fresh
    /\ creation' = [creation EXCEPT ![o].fresh = FALSE]
    /\ IF \E p \in Clerks : OnCreation(p) /\ clerk[p].op = o
       THEN Fault ELSE UNCHANGED faults
    /\ UNCHANGED <<menu, audit, clerk, active, discarded, bound, rows>>

\* External: a row is deleted in the table.
DeleteRow(x) ==
    /\ x \in rows /\ Fault
    /\ rows' = rows \ {x}
    /\ UNCHANGED <<menu, audit, clerk, active, discarded, creation, bound>>

CreationNext ==
    \/ \E p \in Clerks :
         \/ AskCreate(p)
         \/ \E o \in Requests : AskReconcileCreation(p, o)
         \/ CheckDuplicate(p) \/ InsertLead(p) \/ CreateRow(p)
         \/ KeepOutcome(p) \/ KeepUnverified(p) \/ BindLead(p)
         \/ ClaimCreation(p) \/ FindRow(p)
    \/ \E o \in Requests : CreationLapses(o) \/ DeleteRow(o)

CreationTypeOK ==
    /\ \A r \in Requests :
         /\ creation[r].st \in {"absent", "processing", "pending_recovery",
                                "remote_failed", "succeeded"}
         /\ creation[r].remote \in {"pending", "unknown", "failed", "succeeded"}
         /\ creation[r].rec \in Requests \cup {None}
    /\ bound \in [Requests -> Requests \cup {None}]
    /\ rows \subseteq Requests
=============================================================================
