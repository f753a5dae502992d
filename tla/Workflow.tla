------------------------------ MODULE Workflow ------------------------------
(***************************************************************************)
(* The wiring of app/agents/graph.py and the one routing decision of the   *)
(* graph, route_after_risk_critic in app/agents/nodes.py.  Constant-level: *)
(* the single run (DecisionGraph), the ledger it leaves behind             *)
(* (AuditTrail) and the whole service (Engine) all use these operators.    *)
(***************************************************************************)
EXTENDS Integers

CONSTANT MaxConflictRetries     \* settings.max_conflict_retries

ASSUME RetriesAssumption == MaxConflictRetries \in Nat

Nodes == {"supervisor", "data_engineer", "financial_analyst", "risk_critic",
          "human_escalation", "finalize_decision"}

\* What a checkpoint's "next" may be: a node, or the end of the graph.
Positions == Nodes \cup {"end"}

\* RiskVerdict.verdict, and ResumeDecisionRequest.decision.
Verdicts == {"approve", "reject", "escalate"}
Answers  == {"approve", "reject"}

RequestTypes == {"esg_score", "fraud_risk", "combined"}

Statuses == {"pending", "in_progress", "escalated", "completed", "failed"}

\* The verdict finalize_decision_node publishes: the human's answer when there
\* is one ("none" when the case never reached a human), else a plain approval.
PublishedVerdict(human) ==
  IF human = "none" THEN "approved"
  ELSE IF human = "approve" THEN "approved_with_flags" ELSE "rejected"

\* A mutated router: one retry too many is granted before a human is asked.
RouteOneRetryTooMany(verdict, conflict_round) ==
  IF verdict = "approve" THEN "finalize_decision"
  ELSE IF verdict = "escalate" \/ conflict_round > MaxConflictRetries + 1
       THEN "human_escalation"
       ELSE "data_engineer"

\* A mutated router: a rejection always goes back to the Data Engineer.
RouteRetriesForever(verdict, conflict_round) ==
  IF verdict = "approve" THEN "finalize_decision"
  ELSE IF verdict = "escalate" THEN "human_escalation" ELSE "data_engineer"

\* A mutated router: an escalation is published like an approval.
RouteEscalationPublished(verdict, conflict_round) ==
  IF verdict # "reject" THEN "finalize_decision"
  ELSE IF conflict_round > MaxConflictRetries
       THEN "human_escalation"
       ELSE "data_engineer"

\* A mutated router: the answer of the critic taken for the name of a node.
RouteToUnknownNode(verdict, conflict_round) ==
  IF verdict = "approve" THEN "finalize" ELSE "human_escalation"

\* route_after_risk_critic: conflict_round already counts this rejection.
route_after_risk_critic(verdict, conflict_round) ==
  IF verdict = "approve" THEN "finalize_decision"
  ELSE IF verdict = "escalate" \/ conflict_round > MaxConflictRetries
       THEN "human_escalation"
       ELSE "data_engineer"

\* The straight-line edges of build_graph.
EdgeAfter ==
  [supervisor        |-> "data_engineer",
   data_engineer     |-> "financial_analyst",
   financial_analyst |-> "risk_critic",
   human_escalation  |-> "finalize_decision",
   finalize_decision |-> "end"]

\* How risk_critic_node closes the conflict row it opens for a rejection.
ConflictResolution(round) ==
  IF round <= MaxConflictRetries THEN "retried" ELSE "escalated_to_human"

\* _graph_config: the super-steps LangGraph grants one invocation.
RecursionLimit == (MaxConflictRetries + 1) * 3 + 6
=============================================================================
