------------------------- MODULE MCMediaRetention --------------------------
(* Instance of MediaRetention for TLC. *)
EXTENDS MediaRetention
==============================================================================
