-------------------------- MODULE MCNotifications ---------------------------
(***************************************************************************)
(* Instance of Notifications for TLC: progress reports over a late intent   *)
(* and a demand, receipts over two messages, one message with everything    *)
(* enabled and a fault, a receipt with two bots, and a command with faults. *)
(***************************************************************************)
EXTENDS Notifications

S(kinds, receipts, progress, n, bots) ==
    [kinds |-> kinds, receipts |-> receipts, progress |-> progress,
     faults |-> n, bots |-> bots]

MCScenarios ==
    {S(<<"intent", "lead">>, FALSE, TRUE, 0, {"b1"}),
     S(<<"lead", "lead">>, TRUE, FALSE, 1, {"b1"}),
     S(<<"lead">>, TRUE, TRUE, 1, {"b1"}),
     S(<<"lead">>, TRUE, FALSE, 2, {"b1", "b2"}),
     S(<<"command">>, TRUE, TRUE, 2, {"b1"})}
==============================================================================
