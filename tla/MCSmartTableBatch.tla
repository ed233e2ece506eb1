-------------------------- MODULE MCSmartTableBatch --------------------------
(* TLC instance of SmartTableBatch: a message of one lead, one of two leads *)
(* (more than the rest of a batch of two takes), and one that adds to the   *)
(* first lead.                                                              *)
EXTENDS SmartTableBatch, TLC

MCAbout == 1 :> {1} @@ 2 :> {2, 3} @@ 3 :> {1}
=============================================================================
