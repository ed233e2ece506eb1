---------------------------- MODULE MCLeadOutbox ----------------------------
(* TLC instance of LeadOutbox: claim times are small numbers and worker    *)
(* slots are interchangeable.                                              *)
EXTENDS LeadOutbox, TLC

WorkerSymmetry == Permutations(Workers)
=============================================================================
