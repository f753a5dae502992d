----------------------------- MODULE AuditTrail -----------------------------
(***************************************************************************)
(* What the ledger promises an auditor, independently of queues, workers   *)
(* and crashes: the rows of a case, read in seq order, replay one walk     *)
(* through the graph of app/agents/graph.py, at most one row longer at a   *)
(* time and never rewritten.  The routing rule is written out again here,  *)
(* so that Engine's router is checked against it.                          *)
(***************************************************************************)
EXTENDS Integers, Sequences, FiniteSets

CONSTANTS Assessments, MaxConflictRetries

VARIABLE trails     \* per case: the sequence of [node, outcome]

Rejections(trail) ==
  Cardinality({k \in 1..Len(trail) : trail[k].node = "risk_critic" /\ trail[k].outcome = "reject"})

\* The reviewer's answers recorded in a trail.
AnswersIn(trail) ==
  {trail[k].outcome : k \in {i \in 1..Len(trail) : trail[i].node = "human_escalation"}}

AfterCritic(verdict, rejections) ==
  IF verdict = "approve" THEN "finalize_decision"
  ELSE IF verdict = "reject" /\ rejections <= MaxConflictRetries THEN "data_engineer"
  ELSE "human_escalation"

\* The one node that may be recorded next.
Expected(trail) ==
  IF trail = <<>> THEN "supervisor"
  ELSE LET last == trail[Len(trail)]
       IN  CASE last.node = "supervisor"        -> "data_engineer"
             [] last.node = "data_engineer"     -> "financial_analyst"
             [] last.node = "financial_analyst" -> "risk_critic"
             [] last.node = "risk_critic"       -> AfterCritic(last.outcome, Rejections(trail))
             [] last.node = "human_escalation"  -> "finalize_decision"
             [] OTHER                           -> "end"

\* The verdict a decision publishes, from the reviewer's answers on record.
ClosingVerdict(answers) ==
  IF answers = {} THEN "approved"
  ELSE IF answers = {"approve"} THEN "approved_with_flags" ELSE "rejected"

\* What the row of a node may say.
Outcomes(trail, node) ==
  CASE node = "risk_critic"       -> {"approve", "reject", "escalate"}
    [] node = "human_escalation"  -> {"approve", "reject"}
    [] node = "finalize_decision" -> {ClosingVerdict(AnswersIn(trail))}
    [] OTHER                      -> {"none"}

Init == trails = [a \in Assessments |-> <<>>]

Record(a) ==
  LET node == Expected(trails[a])
  IN  /\ node # "end"
      /\ \E outcome \in Outcomes(trails[a], node) :
           trails' = [trails EXCEPT ![a] = Append(@, [node |-> node, outcome |-> outcome])]

Next == \E a \in Assessments : Record(a)

Spec == Init /\ [][Next]_trails
=============================================================================
