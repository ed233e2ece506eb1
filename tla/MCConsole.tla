------------------------------ MODULE MCConsole ------------------------------
(* TLC instance of Console: four scenarios, explored side by side.         *)
EXTENDS Console, TLC

MCMenus == {{"transfer", "transfer_reconcile", "discard", "withdraw"},
            {"create", "create_reconcile", "withdraw"},
            {"retry", "reassign", "discard", "withdraw"},
            {"retry", "message", "edit"}}

MCQuota(m) ==
    IF "message" \in m THEN 1 ELSE IF "create" \in m THEN 4 ELSE 3

Interchangeable == Permutations(Clerks) \cup Permutations(Requests)
=============================================================================
