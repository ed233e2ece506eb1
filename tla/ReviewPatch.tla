----------------------------- MODULE ReviewPatch -----------------------------
(***************************************************************************)
(* The synchronisation of a message's fields into the row of a lead         *)
(* (app/leads/review.py, sync_ai_patch, with the recovery around it in       *)
(* app/leads/service.py, _sync_ai_review_patch).  The row is edited by its   *)
(* salesperson at the same time; what a person wrote there is not to be      *)
(* written over.  No transaction spans a call of the table: a synchronisation *)
(* reads the row, plans, reads again, saves its plan in the backend, writes   *)
(* the row, and records what it wrote.                                      *)
(*                                                                         *)
(* One field is followed, of leads whose row exists.  Those at work on it    *)
(* are the pipeline, one message at a time, and the retries of an old        *)
(* message, which no lock keeps apart from it.                               *)
(***************************************************************************)
EXTENDS Desk

CONSTANTS
    Made,           \* the lead that the messages are about
    Pipeline,       \* the worker of the salesperson's messages
    Old,            \* the value that the failed message proposes
    First,          \* the value an earlier message has written
    Later,          \* what later messages propose; None: nothing for this field
    Hand,           \* the value a person writes into the row
    Blank,          \* an empty cell, or no value yet
    Gone            \* the row was deleted

VARIABLES
    field,          \* the field of each lead, in row and backend
    draft,          \* synchronisations in work
    due             \* later messages yet to come

reviewVars == <<field, draft, due>>

Writers == Clerks \cup {Pipeline}

Values == (Later \cup {Old, First}) \ {None}

\* fact: Lead.field_values; val, synced, user: the latest LeadFieldProvenance
\* with value, last_ai_synced_value and is_user_modified or is_user_confirmed.
\* edited and torn are history: a person has touched the row; a value has been
\* written without being recorded, or beside another synchronisation.
Empty == [cell |-> Blank, fact |-> Blank, val |-> Blank, synced |-> Blank,
          user |-> FALSE, edited |-> FALSE, torn |-> FALSE]

Filled == [Empty EXCEPT !.cell = First, !.fact = First, !.val = First,
                        !.synced = First]

NoDraft == [pc |-> "none", lead |-> None, val |-> None, sup |-> FALSE,
            ack |-> FALSE, again |-> FALSE, remade |-> FALSE,
            seen |-> None, new |-> None, base |-> None, put |-> FALSE,
            keep |-> FALSE]

ReviewInit ==
    /\ field \in [Leads -> {Empty, Filled}]
    /\ draft = [w \in Writers |-> NoDraft]
    /\ due = IF "message" \in menu THEN Later ELSE {}

Drafting(w, pc) == draft[w].pc = pc

Step(w, pc) == draft' = [draft EXCEPT ![w].pc = pc]

InWork(l) == \E w \in Writers : draft[w].lead = l

\* sync_ai_patch is called with the value v for lead l.
StartDraft(w, l, v, sup, ack) ==
    /\ draft' = [draft EXCEPT ![w] = [NoDraft EXCEPT
         !.pc = "look", !.lead = l, !.val = v, !.sup = sup, !.ack = ack]]
    /\ field' = [field EXCEPT ![l].torn = @ \/ InWork(l)]

\* sync_ai_patch returns or raises to its caller.
EndDraft(w, ok) ==
    /\ draft' = [draft EXCEPT ![w] = NoDraft]
    /\ IF w \in Clerks THEN Go(w, IF ok THEN "retry_done" ELSE "retry_failed")
       ELSE UNCHANGED clerk

\* _sync_ai_review_patch starts once more after a RetryableTaskFailure.
TransientFailure(w) ==
    IF draft[w].again THEN EndDraft(w, FALSE)
    ELSE /\ draft' = [draft EXCEPT ![w] = [@ EXCEPT !.pc = "look", !.again = TRUE]]
         /\ UNCHANGED clerk

\* The row is gone: an ordinary message makes it again, once.
RowMissing(w) ==
    IF draft[w].sup \/ draft[w].remade THEN EndDraft(w, FALSE)
    ELSE Step(w, "remake") /\ UNCHANGED clerk

LeadDiscarded(w) == draft[w].lead \in discarded

\* A read of the row, after which the value is planned with, or a plan kept.
Read(w, next) ==
    LET f == field[draft[w].lead] IN
    \/ Fault /\ TransientFailure(w)
    \/ UNCHANGED faults /\ f.cell = Gone /\ RowMissing(w)
    \/ /\ UNCHANGED <<faults, clerk>> /\ f.cell # Gone
       /\ draft' = [draft EXCEPT ![w] =
                      [@ EXCEPT !.pc = next, !.seen = f.cell]]

\* The lead is checked and its row read.
Look(w) ==
    /\ Drafting(w, "look")
    /\ IF LeadDiscarded(w) THEN EndDraft(w, FALSE) /\ UNCHANGED faults
       ELSE Read(w, "plan")
    /\ UNCHANGED <<menu, audit, active, discarded, field, due>>

\* _detect_user_edits, in a row that was seen with the value s.
EditDetected(f, s, ack) ==
    \/ f.user
    \/ ~(ack /\ s = Blank) /\ f.synced # Blank /\ s # f.synced

\* The value of the message, or one left from a message that failed.
Candidate(f, v) == IF v # None THEN v ELSE IF f.val # f.synced THEN f.val ELSE None

\* Values that are not to be written over.
Protected(f, s, sup, ack) ==
    \/ EditDetected(f, s, ack)
    \/ s # Blank /\ s # f.synced
    \/ sup /\ s # Blank

\* _plan_safe_patch, on the row as it was read.
MakePlan(w) ==
    LET d == draft[w]  f == field[d.lead]  v == Candidate(f, d.val)
        free == v # None /\ ~Protected(f, d.seen, d.sup, d.ack)
    IN
    /\ d.pc \in {"plan", "replan"}
    /\ IF LeadDiscarded(w)
       THEN EndDraft(w, FALSE) /\ UNCHANGED field
       ELSE /\ field' = [field EXCEPT ![d.lead].user =
                           EditDetected(f, d.seen, d.ack)]
            /\ draft' = [draft EXCEPT ![w] = [d EXCEPT
                 !.pc = IF d.pc = "plan" THEN "reread" ELSE "save",
                 !.new = v, !.base = f.fact,
                 !.put = free /\ d.seen # v,
                 !.keep = free /\ (d.seen = v => f.fact # v)]]
            /\ UNCHANGED clerk
    /\ UNCHANGED <<menu, audit, active, discarded, faults, due>>

\* Mutant: a row that has changed does not lead to a new plan.
PlanKept(w) == "save"

\* What follows the second read.
AfterReread(w) ==
    IF field[draft[w].lead].cell = draft[w].seen THEN "save" ELSE "replan"

Reread(w) ==
    /\ Drafting(w, "reread") /\ Read(w, AfterReread(w))
    /\ UNCHANGED <<menu, audit, active, discarded, field, due>>

\* _persist_planned_snapshot: what is still to be written counts as unsynced;
\* nothing asks whether the plan is still right.
SavePlan(w) ==
    LET d == draft[w]  f == field[d.lead] IN
    /\ Drafting(w, "save")
    /\ field' = IF d.keep
                THEN [field EXCEPT ![d.lead] = [f EXCEPT
                        !.fact = d.new, !.val = d.new,
                        !.synced = IF d.put THEN f.synced ELSE d.new]]
                ELSE field
    /\ Step(w, "guard")
    /\ UNCHANGED <<menu, audit, clerk, active, discarded, faults, due>>

\* The last look at the lead before the row is written.
GuardWrite(w) ==
    /\ Drafting(w, "guard")
    /\ IF LeadDiscarded(w) THEN EndDraft(w, FALSE)
       ELSE Step(w, IF draft[w].put THEN "write" ELSE "record") /\ UNCHANGED clerk
    /\ UNCHANGED <<menu, audit, active, discarded, faults, field, due>>

\* update_record returns when the row was read back with the value; a call
\* that is given up may have been carried out.
WriteCell(w) ==
    LET d == draft[w]  l == d.lead IN
    /\ Drafting(w, "write")
    /\ \/ /\ field[l].cell # Gone /\ UNCHANGED <<faults, clerk>>
          /\ field' = [field EXCEPT ![l].cell = d.new] /\ Step(w, "record")
       \/ /\ field[l].cell # Gone /\ Fault /\ TransientFailure(w)
          /\ field' = [field EXCEPT ![l] =
                         [@ EXCEPT !.cell = d.new, !.torn = TRUE]]
       \/ Fault /\ TransientFailure(w) /\ UNCHANGED field
       \/ /\ field[l].cell = Gone /\ EndDraft(w, FALSE)
          /\ UNCHANGED <<faults, field>>
    /\ UNCHANGED <<menu, audit, active, discarded, due>>

\* Mutant: what was written is not kept as the last value of the AI.
Unrecorded(f, v) == [f EXCEPT !.fact = v, !.val = v]

Recorded(f, v) == [f EXCEPT !.fact = v, !.val = v, !.synced = v]

\* The last transaction: a field that another message has changed stays.
RecordPatch(w) ==
    LET d == draft[w]  f == field[d.lead] IN
    /\ Drafting(w, "record")
    /\ field' = IF ~LeadDiscarded(w) /\ d.keep /\ f.fact \in {d.base, d.new}
                THEN [field EXCEPT ![d.lead] = Recorded(f, d.new)]
                ELSE field
    /\ EndDraft(w, ~LeadDiscarded(w))
    /\ UNCHANGED <<menu, audit, active, discarded, faults, due>>

\* _recreate_missing_ai_review_record: a new row with the backend's values.
RemakeRow(w) ==
    LET l == draft[w].lead IN
    /\ Drafting(w, "remake")
    /\ \/ Fault /\ EndDraft(w, FALSE) /\ UNCHANGED field
       \/ /\ field' = [field EXCEPT ![l].cell = field[l].fact]
          /\ draft' = [draft EXCEPT ![w] =
                         [@ EXCEPT !.pc = "look", !.remade = TRUE]]
          /\ UNCHANGED <<clerk, faults>>
    /\ UNCHANGED <<menu, audit, active, discarded, due>>

\* The pipeline takes up the next message about lead l.
TakeMessage(l) ==
    /\ Drafting(Pipeline, "none")
    /\ \E v \in due :
         due' = due \ {v} /\ StartDraft(Pipeline, l, v, FALSE, FALSE)
    /\ UNCHANGED <<menu, audit, clerk, active, discarded, faults>>

\* A process dies in the middle of a synchronisation.
DropDraft(w) ==
    LET d == draft[w] IN
    /\ draft' = [draft EXCEPT ![w] = NoDraft]
    /\ field' = IF Drafting(w, "record") /\ d.put
                THEN [field EXCEPT ![d.lead].torn = TRUE] ELSE field

PipelineDies ==
    /\ ~Drafting(Pipeline, "none") /\ Fault /\ DropDraft(Pipeline)
    /\ UNCHANGED <<menu, audit, clerk, active, discarded, due>>

\* External: the salesperson fills, changes or clears the cell, or deletes
\* the row.
EditCell(l) ==
    /\ "edit" \in menu /\ field[l].cell # Gone
    /\ \E v \in {Hand, Blank, Gone} \ {field[l].cell} :
         field' = [field EXCEPT ![l] = [@ EXCEPT !.cell = v, !.edited = TRUE]]
    /\ Fault
    /\ UNCHANGED <<menu, audit, clerk, active, discarded, draft, due>>

ReviewNext ==
    \/ \E w \in Writers :
         \/ Look(w) \/ MakePlan(w) \/ Reread(w) \/ SavePlan(w) \/ GuardWrite(w)
         \/ WriteCell(w) \/ RecordPatch(w) \/ RemakeRow(w)
    \/ TakeMessage(Made) \/ EditCell(Made)
    \/ PipelineDies

ReviewTypeOK ==
    /\ \A l \in Leads :
         /\ field[l].cell \in Values \cup {Hand, Blank, Gone}
         /\ {field[l].fact, field[l].val, field[l].synced}
              \subseteq Values \cup {Blank}
         /\ {field[l].user, field[l].edited, field[l].torn} \subseteq BOOLEAN
    /\ \A w \in Writers :
         draft[w].pc \in {"none", "look", "plan", "reread", "replan", "save",
                          "guard", "write", "record", "remake"}
    /\ due \subseteq Later
=============================================================================
