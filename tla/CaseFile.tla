------------------------------ MODULE CaseFile ------------------------------
(***************************************************************************)
(* The assessments table: the rows the other tables refer to, and the one  *)
(* column that changes and that callers poll, status.                      *)
(***************************************************************************)
EXTENDS Workflow

CONSTANT Assessments

VARIABLE status     \* per case; "none" before the row is inserted

CaseFileTypeOK == status \in [Assessments -> Statuses \cup {"none"}]

CaseFileInit == status = [a \in Assessments |-> "none"]

\* ledger.create_assessment: the column's default is 'pending'.
InsertAssessment(a) ==
  /\ status[a] = "none"
  /\ status' = [status EXCEPT ![a] = "pending"]

\* No condition on the old status, in any caller.
update_assessment_status(a, to) == status' = [status EXCEPT ![a] = to]
=============================================================================
