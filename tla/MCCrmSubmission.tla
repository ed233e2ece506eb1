--------------------------- MODULE MCCrmSubmission ---------------------------
(* TLC instance of CrmSubmission: every lead belongs to the same company.  *)
EXTENDS CrmSubmission, TLC

OneCompany == [l \in Leads |-> CHOOSE c \in Companies : TRUE]
WorkerSymmetry == Permutations(Workers)
=============================================================================
