--------------------------- MODULE OneTimeAction ---------------------------
(***************************************************************************)
(* What an interactive card promises, whatever callbacks, workers, leases  *)
(* and queues lie behind it: it is offered once, taken or refused, its     *)
(* domain operation starts at most once and only while it is taken, and    *)
(* what was taken is decided in the end.                                   *)
(***************************************************************************)
VARIABLES
    phase,      \* where the action stands
    started     \* the domain operation has been entered

vars == <<phase, started>>

Init == phase = "absent" /\ started = FALSE

Offer  == phase = "absent" /\ phase' = "open" /\ UNCHANGED started

Take   == phase = "open" /\ phase' = "taken" /\ UNCHANGED started

Start  == phase = "taken" /\ ~started /\ started' = TRUE /\ UNCHANGED phase

\* Refused before it was taken, or taken and found not permitted; never after
\* the operation has started.
Refuse == /\ phase \in {"open", "taken"} /\ ~started
          /\ phase' = "refused" /\ UNCHANGED started

\* "unclear" is left to a reconciliation, which can only find it done.
Decide == phase = "taken" /\ phase' \in {"done", "unclear"} /\ UNCHANGED started

Settle == phase = "unclear" /\ phase' = "done" /\ UNCHANGED started

Next == Offer \/ Take \/ Start \/ Refuse \/ Decide \/ Settle

Spec == Init /\ [][Next]_vars

FairSpec == Spec /\ WF_vars(Decide)
============================================================================
