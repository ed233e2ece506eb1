--------------------------- MODULE OwnerTransfer ---------------------------
(***************************************************************************)
(* The transfer of a row to another salesperson (app/leads/transfer.py).    *)
(* An operation is committed before the table is written; the write, the    *)
(* proof that the new owner sees the row and the old one does not, and the   *)
(* change of the backend's owner follow one another, each committed on its  *)
(* own.  What is left open is taken up again by a reconcile request or by    *)
(* a second transfer request with the same target.                          *)
(*                                                                         *)
(* Operations are named by the request that made them.  The console answers *)
(* a repeated request id itself, so the branches of transfer() for an       *)
(* operation of the same request id, and the retry of a definite failure    *)
(* behind them, have no caller in the program.                              *)
(***************************************************************************)
EXTENDS Desk

CONSTANTS
    Sales,          \* salespeople a row may belong to
    Moved,          \* the lead whose row is transferred
    FirstOwner,     \* its owner before any transfer
    Twins,          \* salespeople who have a lead of the same company already
    Elsewhere       \* an owner the table's administrator sets by hand

VARIABLES
    owner,          \* Lead.smart_table_owner_user_id
    rowOwner,       \* the row's owner in the Smart Table
    transfer,       \* SmartTableOwnerTransferOperation by request id
    contexts,       \* salespeople whose SalesLeadContext is this lead
    raced           \* two requests have been in work on one operation

transferVars == <<owner, rowOwner, transfer, contexts, raced>>

NoTransfer == [st |-> "absent", remote |-> "pending", old |-> None,
               new |-> None, fresh |-> FALSE]

TransferInit ==
    /\ owner = FirstOwner /\ rowOwner = FirstOwner
    /\ transfer = [r \in Requests |-> NoTransfer]
    /\ contexts = {FirstOwner}
    /\ raced = FALSE

OpenTransfer(o) == transfer[o].st \in {"processing", "pending_recovery"}

OnTransfer(p) == clerk[p].pc \in {"read", "send", "mark", "verify", "settle",
                                  "close"}

AskTransfer(p, x) == Begin(p, "transfer", None, x) /\ UNCHANGED transferVars

AskReconcile(p, o) ==
    /\ transfer[o].st # "absent"
    /\ Begin(p, "transfer_reconcile", o, None)
    /\ UNCHANGED transferVars

\* _prepare_operation: the lead is locked, so one operation is open at most.
PrepareTransfer(p) ==
    LET r == clerk[p].req  n == clerk[p].to
        open == {o \in Requests : OpenTransfer(o)}
    IN
    /\ At(p, "transfer")
    /\ \/ /\ \/ ~active \/ n = owner \/ n \in Twins
             \/ \E o \in open : transfer[o].new # n
          /\ Refuse(p) /\ UNCHANGED transfer
       \/ /\ active /\ n # owner /\ n \notin Twins
          /\ \E o \in open :
               /\ \A q \in open : transfer[q].new = n
               /\ clerk' = [clerk EXCEPT ![p].pc = "transfer_reconcile",
                                         ![p].op = o]
          /\ UNCHANGED transfer
       \/ /\ active /\ n # owner /\ n \notin Twins /\ open = {}
          /\ transfer' = [transfer EXCEPT ![r] =
                [st |-> "processing", remote |-> "pending", old |-> owner,
                 new |-> n, fresh |-> TRUE]]
          /\ clerk' = [clerk EXCEPT ![p].pc = "send", ![p].op = r]
    /\ UNCHANGED <<menu, audit, active, discarded, faults,
                   owner, rowOwner, contexts, raced>>

\* Only an operation whose first write is still out is protected by its lease.
HeldByAnother(o) ==
    /\ transfer[o].st = "processing" /\ transfer[o].remote = "pending"
    /\ transfer[o].fresh

\* _claim_operation.
ClaimTransfer(p) ==
    LET o == clerk[p].op  t == transfer[o] IN
    /\ At(p, "transfer_reconcile")
    /\ \/ ~active /\ Refuse(p) /\ UNCHANGED <<transfer, raced>>
       \/ /\ active /\ t.st \in {"succeeded", "remote_failed"}
          /\ Answer(p, t.st) /\ UNCHANGED <<transfer, raced>>
       \/ /\ active /\ HeldByAnother(o)
          /\ Answer(p, "processing") /\ UNCHANGED <<transfer, raced>>
       \/ /\ active /\ OpenTransfer(o) /\ ~HeldByAnother(o)
          /\ transfer' = [transfer EXCEPT ![o].st = "processing",
                                          ![o].fresh = TRUE]
          /\ Go(p, "read")
          /\ raced' = (raced \/ \E q \in Clerks \ {p} :
                                   OnTransfer(q) /\ clerk[q].op = o)
    /\ UNCHANGED <<menu, audit, active, discarded, faults, owner, rowOwner,
                   contexts>>

\* The status that is to be written by CloseTransfer, and returned.
CloseWith(p, res) ==
    clerk' = [clerk EXCEPT ![p] = [@ EXCEPT !.pc = "close", !.res = res]]

\* reconcile: the members are resolved and the row is read.
ReadRow(p) ==
    LET t == transfer[clerk[p].op] IN
    /\ At(p, "read")
    /\ \/ Fault /\ CloseWith(p, "unknown")
       \/ UNCHANGED faults /\ rowOwner = t.new /\ Go(p, "mark")
       \/ UNCHANGED faults /\ rowOwner = t.old /\ Go(p, "send")
       \/ /\ UNCHANGED faults /\ rowOwner \notin {t.old, t.new}
          /\ CloseWith(p, "unknown")
    /\ UNCHANGED <<menu, audit, active, discarded, transferVars>>

\* Mutant: a call without an answer is taken for one that was refused.
Unanswered == "refused"

\* What a call that ended with neither an answer nor a refusal is closed with:
\* the operation waits for recovery.
NoAnswer == "unknown"

\* update_record: carried out, refused for certain, or left without an answer.
SendOwner(p) ==
    LET new == transfer[clerk[p].op].new IN
    /\ At(p, "send")
    /\ \/ rowOwner' = new /\ Go(p, "mark") /\ UNCHANGED faults
       \/ Fault /\ UNCHANGED rowOwner /\ CloseWith(p, "refused")
       \/ Fault /\ rowOwner' \in {rowOwner, new} /\ CloseWith(p, NoAnswer)
    /\ UNCHANGED <<menu, audit, active, discarded, owner, transfer,
                   contexts, raced>>

\* Mutant: the status is written whatever the operation has become.
Overwritten(t, st, remote) ==
    [t EXCEPT !.st = st, !.remote = remote, !.fresh = TRUE]

\* _finish_operation: a success is not taken back, and an operation that waits
\* for recovery is not put back to work by a late answer.
FinishTransfer(t, st, remote) ==
    IF t.st = "succeeded" \/ (t.st = "pending_recovery" /\ st = "processing")
    THEN t
    ELSE [t EXCEPT !.st = st, !.remote = remote, !.fresh = TRUE]

\* _mark_remote_succeeded.
MarkRemote(p) ==
    LET o == clerk[p].op IN
    /\ At(p, "mark")
    /\ transfer' = [transfer EXCEPT ![o] =
                      FinishTransfer(@, "processing", "succeeded")]
    /\ Go(p, "verify")
    /\ UNCHANGED <<menu, audit, active, discarded, faults,
                   owner, rowOwner, contexts, raced>>

\* The verifier looks at the row as the old and as the new owner.
PermissionVerified(t) == rowOwner = t.new

\* _verify_and_finalize: the verifier is away, fails, refuses or agrees.
VerifyPermission(p) ==
    /\ At(p, "verify")
    /\ \/ Fault /\ CloseWith(p, "unsettled")
       \/ /\ UNCHANGED faults
          /\ IF PermissionVerified(transfer[clerk[p].op])
             THEN Go(p, "settle") ELSE CloseWith(p, "unsettled")
    /\ UNCHANGED <<menu, audit, active, discarded, transferVars>>

MayMove(t) == owner = t.old /\ Moved \notin discarded

\* _finalize_local_transfer.
SettleTransfer(p) ==
    LET o == clerk[p].op  t == transfer[o] IN
    /\ At(p, "settle")
    /\ IF MayMove(t)
       THEN /\ owner' = t.new /\ contexts' = contexts \ {t.old}
            /\ transfer' = [transfer EXCEPT ![o].st = "succeeded"]
            /\ Answer(p, "succeeded")
       ELSE /\ CloseWith(p, "unsettled")
            /\ UNCHANGED <<owner, transfer, contexts>>
    /\ UNCHANGED <<menu, audit, active, discarded, faults, rowOwner, raced>>

\* The status and the remote state each way to end is recorded with.
ClosedStatus(res) ==
    IF res = "refused" THEN "remote_failed" ELSE "pending_recovery"
ClosedRemote(res) ==
    CASE res = "refused" -> "failed" [] res = "unknown" -> "unknown"
      [] OTHER -> "succeeded"

\* _finish_operation at the end of a request, and its result.
CloseTransfer(p) ==
    LET o == clerk[p].op  res == clerk[p].res IN
    /\ At(p, "close")
    /\ transfer' = [transfer EXCEPT ![o] =
          FinishTransfer(@, ClosedStatus(res), ClosedRemote(res))]
    /\ Answer(p, ClosedStatus(res))
    /\ UNCHANGED <<menu, audit, active, discarded, faults,
                   owner, rowOwner, contexts, raced>>

\* _operation_lease_expired: five minutes pass, with someone at work only as
\* a fault.
LeaseLapses(o) ==
    /\ transfer[o].st = "processing" /\ transfer[o].fresh
    /\ transfer' = [transfer EXCEPT ![o].fresh = FALSE]
    /\ IF \E p \in Clerks : OnTransfer(p) /\ clerk[p].op = o
       THEN Fault ELSE UNCHANGED faults
    /\ UNCHANGED <<menu, audit, clerk, active, discarded,
                   owner, rowOwner, contexts, raced>>

\* External: the row's owner is changed by hand in the table.
EditOwner ==
    /\ "transfer" \in menu /\ Fault
    /\ rowOwner' = Elsewhere
    /\ UNCHANGED <<menu, audit, clerk, active, discarded,
                   owner, transfer, contexts, raced>>

TransferNext ==
    \/ \E p \in Clerks :
         \/ \E x \in Sales : AskTransfer(p, x)
         \/ \E o \in Requests : AskReconcile(p, o)
         \/ PrepareTransfer(p) \/ ClaimTransfer(p) \/ ReadRow(p)
         \/ SendOwner(p) \/ MarkRemote(p) \/ VerifyPermission(p)
         \/ SettleTransfer(p) \/ CloseTransfer(p)
    \/ \E o \in Requests : LeaseLapses(o)
    \/ EditOwner

TransferTypeOK ==
    /\ owner \in Sales /\ rowOwner \in Sales \cup {Elsewhere}
    /\ \A r \in Requests :
         /\ transfer[r].st \in {"absent", "processing", "pending_recovery",
                                "remote_failed", "succeeded"}
         /\ transfer[r].remote \in {"pending", "unknown", "failed", "succeeded"}
         /\ transfer[r].st # "absent" =>
              transfer[r].old \in Sales /\ transfer[r].new \in Sales
    /\ contexts \subseteq Sales /\ raced \in BOOLEAN
=============================================================================
