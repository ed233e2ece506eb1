-------------------------------- MODULE Desk --------------------------------
(***************************************************************************)
(* The write side of the Operations Console (app/console/maintenance.py,   *)
(* app/console/routes.py).  Every maintenance request carries a request id; *)
(* its audit row is written before the domain service is called and keeps   *)
(* the outcome.  A second request under the same id is answered from that    *)
(* row and changes nothing, so it is not a step here.                       *)
(***************************************************************************)
EXTENDS Integers, FiniteSets

CONSTANTS
    Clerks,         \* console requests that may be in work at the same time
    Requests,       \* bound: request ids
    Leads,          \* leads the requests are about
    Menus,          \* scenarios: sets of operations that are asked for
    Quota(_),       \* bound: requests in a scenario
    MaxFaults,      \* bound: crashes, failed or unanswered calls, early lapses
    None

VARIABLES
    menu,           \* the scenario, never changed
    audit,          \* ConsoleMaintenanceAudit.result by request id
    clerk,          \* requests in work
    active,         \* the administrator's SalesAuthorization is active
    discarded,      \* leads with lifecycle_state discarded
    faults          \* faults left

deskVars == <<menu, audit, clerk, active, discarded, faults>>

Operations == {"transfer", "transfer_reconcile", "create", "create_reconcile",
               "retry", "reassign", "discard", "withdraw", "message", "edit"}

Idle == [pc |-> "idle", kind |-> None, req |-> None, op |-> None,
         to |-> None, res |-> None]

DeskInit ==
    /\ menu \in Menus
    /\ audit = [r \in Requests |-> "absent"]
    /\ clerk = [p \in Clerks |-> Idle]
    /\ active = TRUE /\ discarded = {} /\ faults = MaxFaults

Fault == faults > 0 /\ faults' = faults - 1

At(p, pc) == clerk[p].pc = pc

Go(p, pc) == clerk' = [clerk EXCEPT ![p].pc = pc]

\* The domain service returns; the outcome is still to be written.
Answer(p, res) ==
    clerk' = [clerk EXCEPT ![p] = [@ EXCEPT !.pc = "report", !.res = res]]

\* The domain service raises ValueError or PermissionError.
Refuse(p) == Answer(p, "failed")

\* _begin_audit finds no row under this request id.
NotBegun(r) == audit[r] = "absent"

\* require_admin and _begin_audit, before anything is done: a request of kind
\* k about operation or lead o with the argument x.
Begin(p, k, o, x) ==
    /\ k \in menu /\ clerk[p] = Idle /\ active
    /\ Cardinality({r \in Requests : ~NotBegun(r)}) < Quota(menu)
    /\ \E r \in Requests :
         /\ NotBegun(r)
         /\ audit' = [audit EXCEPT ![r] = "processing"]
         /\ clerk' = [clerk EXCEPT ![p] =
                        [pc |-> k, kind |-> k, req |-> r, op |-> o, to |-> x,
                         res |-> None]]
    /\ UNCHANGED <<menu, active, discarded, faults>>

\* _write_audit after the domain service has returned or raised.
Report(p) ==
    /\ At(p, "report")
    /\ audit' = [audit EXCEPT ![clerk[p].req] = clerk[p].res]
    /\ clerk' = [clerk EXCEPT ![p] = Idle]
    /\ UNCHANGED <<menu, active, discarded, faults>>

\* The process dies; what it has committed stays.
ClerkCrashes(p) ==
    /\ clerk[p] # Idle /\ Fault
    /\ clerk' = [clerk EXCEPT ![p] = Idle]
    /\ UNCHANGED <<menu, audit, active, discarded>>

\* The administrator loses the authorisation while requests are in work.
WithdrawAdmin ==
    /\ "withdraw" \in menu /\ active
    /\ active' = FALSE
    /\ UNCHANGED <<menu, audit, clerk, discarded, faults>>

AskDiscard(p, l) == Begin(p, "discard", l, None)

\* LeadDiscardService for a lead the CRM knows nothing of (CrmSubmission has
\* the race with a create); the row stays in the table.
DiscardLead(p) ==
    /\ At(p, "discard")
    /\ IF active
       THEN /\ discarded' = discarded \cup {clerk[p].op}
            /\ Answer(p, "succeeded")
       ELSE Refuse(p) /\ UNCHANGED discarded
    /\ UNCHANGED <<menu, audit, active, faults>>

Outcomes == {"absent", "processing", "failed", "succeeded", "pending_recovery",
             "remote_failed", "no_target", "failed_pending_review"}

DeskTypeOK ==
    /\ menu \in SUBSET Operations
    /\ audit \in [Requests -> Outcomes]
    /\ \A p \in Clerks :
         /\ clerk[p].kind \in Operations \cup {None}
         /\ clerk[p].req \in Requests \cup {None}
         /\ clerk[p].pc = "report" => clerk[p].res \in Outcomes
    /\ active \in BOOLEAN /\ discarded \subseteq Leads
    /\ faults \in 0..MaxFaults
=============================================================================
