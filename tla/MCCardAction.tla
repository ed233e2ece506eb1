---------------------------- MODULE MCCardAction ----------------------------
(* Instances of CardAction for TLC. *)
EXTENDS CardAction
==============================================================================
