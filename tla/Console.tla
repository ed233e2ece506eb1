------------------------------- MODULE Console -------------------------------
(***************************************************************************)
(* The console's maintenance operations together: transfers of a row,      *)
(* leads made by an administrator, retries and reassignments of a failed   *)
(* message beside the messages that follow it, and discards, in requests   *)
(* that overlap, crash and are recovered.  A scenario (menu) says which    *)
(* operations are asked for.                                               *)
(***************************************************************************)
EXTENDS OwnerTransfer, LeadCreation, ProtectedRetry

ASSUME ConsoleAssumption ==
    /\ Clerks # {} /\ IsFiniteSet(Clerks) /\ IsFiniteSet(Requests)
    /\ FirstOwner \in Sales /\ Twins \subseteq Sales /\ Elsewhere \notin Sales
    /\ Made \in Leads /\ Moved \in Leads /\ MaxFaults \in Nat /\ MaxAttempts \in Nat
    /\ \A m \in Menus : m \subseteq Operations
    /\ None \notin Requests /\ None \notin Leads
    /\ Pipeline \notin Clerks /\ Old # None /\ First # None
    /\ Hand \notin Values /\ Blank \notin Values /\ Gone \notin Values
    /\ Hand # Blank /\ Gone # Hand /\ Gone # Blank

vars == <<deskVars, transferVars, creationVars, reviewVars, retryVars>>

Init ==
    /\ DeskInit /\ TransferInit /\ CreationInit /\ ReviewInit
    /\ RetryInit
    /\ \A l \in Leads \ {Made} : field[l] = Filled
    /\ "retry" \notin menu =>
         assigned = None /\ attempt = <<>> /\ sync[Made] = "retrying"
    /\ IF "message" \in menu THEN assigned = None /\ sync[Made] = "retrying"
       ELSE field[Made] = Filled

DeskNext ==
    \/ \E p \in Clerks :
         \/ \E l \in Leads : AskDiscard(p, l)
         \/ Report(p) \/ DiscardLead(p)
    \/ WithdrawAdmin

Next ==
    \/ DeskNext /\ UNCHANGED <<transferVars, creationVars, reviewVars, retryVars>>
    \/ /\ \E p \in Clerks : ClerkCrashes(p) /\ DropDraft(p)
       /\ UNCHANGED <<transferVars, creationVars, due, retryVars>>
    \/ TransferNext /\ UNCHANGED <<creationVars, reviewVars, retryVars>>
    \/ CreationNext /\ UNCHANGED <<transferVars, reviewVars, retryVars>>
    \/ RetryNext /\ UNCHANGED <<transferVars, creationVars>>
    \/ ReviewNext /\ UNCHANGED <<transferVars, creationVars, retryVars>>

Spec == Init /\ [][Next]_vars

------------------------------------------------------------------------------

TypeOK ==
    /\ DeskTypeOK /\ TransferTypeOK /\ CreationTypeOK /\ ReviewTypeOK
    /\ RetryTypeOK

(* A recorded success is not taken back by a request that comes late with  *)
(* another result, neither of a transfer nor of a creation                 *)
(* (_finish_operation, _finish).                                           *)
SuccessIsFinal ==
    [][\A r \in Requests :
         /\ transfer[r].st = "succeeded" => transfer'[r].st = "succeeded"
         /\ creation[r].st = "succeeded" => creation'[r].st = "succeeded"]_vars

(* Once no transfer is open, the backend and the table name the same owner *)
(* and no one else keeps the lead in mind (ADR 0012), whatever was lost,   *)
(* refused or left without an answer on the way -- as long as nobody       *)
(* changed the row by hand and no two requests were in work on one         *)
(* operation.                                                              *)
OwnersAgree ==
    /\ \A o \in Requests : ~OpenTransfer(o)
    /\ ~raced /\ rowOwner # Elsewhere
    => owner = rowOwner /\ contexts \subseteq {owner}

(* A lead whose creation succeeded has the row whose id the operation      *)
(* keeps, and no other lead is bound to that row, even when two leads of   *)
(* one company were made at once and one of them found the other's row.    *)
CreatedLeadHasItsRow ==
    \A r \in Requests :
      creation[r].st = "succeeded" =>
        /\ bound[r] # None /\ bound[r] = creation[r].rec
        /\ \A q \in Requests \ {r} : bound[q] # bound[r]

(* A synchronisation that is about to write has not seen a person's value   *)
(* in the cell when it last read the row, and the retry of an old message   *)
(* has seen nothing there at all (_plan_safe_patch after the second read).  *)
(* What is written into the row after that read is not seen by anyone.      *)
SeenValueKept ==
    \A w \in Writers :
      draft[w].put /\ draft[w].pc \in {"save", "guard", "write"} =>
        draft[w].seen # Hand /\ (draft[w].sup => draft[w].seen = Blank)

(* A field is only taken to be edited by its salesperson (user_modified,    *)
(* which bars later messages from it for good) when a person has touched    *)
(* the row, or a value of the AI went into it without being recorded: its    *)
(* writer lost the answer, died, or was not alone (_detect_user_edits).     *)
EditsAreHuman ==
    \A l \in Leads : field[l].user => field[l].edited \/ field[l].torn
=============================================================================
