--------------------------- MODULE DecisionGraph ----------------------------
(***************************************************************************)
(* One assessment driven through the graph of app/agents/graph.py by one   *)
(* worker that does not crash: the node bodies of app/agents/nodes.py with *)
(* their policy gates, the conflict loop between Risk/Critic and Data      *)
(* Engineer, the human interrupt and the published decision.  Each node is *)
(* one action; what happens between a node's own database statements, and  *)
(* between runs, is the business of Engine.                                *)
(***************************************************************************)
EXTENDS Workflow, Sequences, FiniteSets

CONSTANTS
  FiscalYears,      \* the fiscal years a fetch plan may name
  TargetYear,       \* AssessmentRequest.fiscal_year
  MaxFiscalYears,   \* max_length of FinancialStatementsQueryParams.fiscal_years
  Faults            \* which exceptions inside a node the environment produces

ASSUME YearsAssumption ==
  /\ FiscalYears \subseteq Int
  /\ TargetYear \in Int
  /\ MaxFiscalYears \in Nat
  /\ Faults \subseteq {"provider", "data"}

VARIABLES
  request_type,         \* set by the caller, never changed
  next,                 \* the node the checkpoint says runs next, or "end"
  paused,               \* the run sits in human_escalation_node's interrupt()
  status,               \* assessments.status
  event_seq,            \* ledger sequence; one event per completed node
  steps,                \* super-steps of the current graph.ainvoke
  periods,              \* financial_data: fiscal years of the rows fetched
  esg_data,             \* esg_data: a disclosure row was found
  financial_analysis,   \* what the formulas produced from them
  risk_verdict,         \* risk_assessment.verdict, "none" before the critic
  conflict_round,
  conflicts,            \* resolution column of the conflicts rows, by round
  human_decision,       \* the reviewer's answer, or "none"
  decisions             \* rows of the decisions table

control == <<next, paused, status, event_seq, steps>>
data    == <<periods, esg_data, financial_analysis>>
dispute == <<risk_verdict, conflict_round, conflicts>>
outcome == <<human_decision, decisions>>
vars    == <<request_type, control, data, dispute, outcome>>

-----------------------------------------------------------------------------
AllYears == FiscalYears \cup {TargetYear, TargetYear - 1}

FraudLevels   == {"low", "medium", "high", "critical"}
DistressZones == {"safe", "grey", "distress"}

\* Results present in financial_analysis; "none" and FALSE mean the key is
\* absent.  basis holds the fiscal years the Beneish score compared.
Analysis == [fraud    : FraudLevels \cup {"none"},
             distress : DistressZones \cup {"none"},
             esg      : BOOLEAN,
             basis    : SUBSET AllYears]

NoAnalysis == [fraud |-> "none", distress |-> "none", esg |-> FALSE, basis |-> {}]

Decision == [verdict           : {"approved", "approved_with_flags", "rejected"},
             reviewed_by_human : BOOLEAN,
             analysis          : Analysis,
             conflict_rounds   : Nat]

WantsFraud == request_type \in {"fraud_risk", "combined"}
WantsEsg   == request_type \in {"esg_score", "combined"}

Settled == status \in {"completed", "failed"}

TypeOK ==
  /\ request_type \in RequestTypes
  /\ next \in Positions
  /\ paused \in BOOLEAN
  /\ status \in Statuses
  /\ event_seq \in Nat
  /\ steps \in Nat
  /\ periods \in SUBSET AllYears
  /\ esg_data \in BOOLEAN
  /\ financial_analysis \in Analysis
  /\ risk_verdict \in Verdicts \cup {"none"}
  /\ conflict_round \in Nat
  /\ conflicts \in Seq({"retried", "escalated_to_human"})
  /\ human_decision \in Answers \cup {"none"}
  /\ decisions \subseteq Decision

Init ==
  /\ request_type \in RequestTypes
  /\ next = "supervisor" /\ paused = FALSE /\ status = "pending"
  /\ event_seq = 0 /\ steps = 0
  /\ periods = {} /\ esg_data = FALSE /\ financial_analysis = NoAnalysis
  /\ risk_verdict = "none" /\ conflict_round = 0 /\ conflicts = <<>>
  /\ human_decision = "none" /\ decisions = {}

-----------------------------------------------------------------------------
(* What every node has in common.                                           *)

Running(node) == next = node /\ ~paused /\ ~Settled

\* _log and the merge of the node's return value into the checkpointed state.
Advance(to) ==
  /\ next' = to
  /\ event_seq' = event_seq + 1
  /\ steps' = steps + 1

\* run_once's except branch: the exception ends the run, the case is failed,
\* and nothing the node had computed is kept.
RunFails ==
  /\ status' = "failed"
  /\ UNCHANGED <<request_type, next, paused, event_seq, steps, data, dispute, outcome>>

-----------------------------------------------------------------------------
supervisor_node ==
  /\ Running("supervisor")
  /\ status' = "in_progress"
  /\ Advance(EdgeAfter.supervisor)
  /\ UNCHANGED <<request_type, paused, data, dispute, outcome>>

\* The fiscal years requested: the LLM's plan, first or revised, with the
\* target year and the year before it always added.
FetchPlans == {plan \cup {TargetYear, TargetYear - 1} : plan \in SUBSET FiscalYears}

\* run_query validates its parameters before it runs a template.
Validated(years) == Cardinality(years) <= MaxFiscalYears

\* The two templates: such rows as the warehouse holds of the years asked for,
\* and one disclosure row or none.  Its content may change between two fetches
\* of one case.
get_financial_statements(years) == SUBSET years
get_esg_disclosures == BOOLEAN

data_engineer_node ==
  /\ Running("data_engineer")
  /\ \E years \in FetchPlans :
       /\ Validated(years)
       /\ periods' \in get_financial_statements(years)
  /\ esg_data' \in (IF WantsEsg THEN get_esg_disclosures ELSE {FALSE})
  /\ Advance(EdgeAfter.data_engineer)
  /\ UNCHANGED <<request_type, paused, status, financial_analysis, dispute, outcome>>

\* A plan of too many years raises.
FetchPlanRefused ==
  /\ Running("data_engineer")
  /\ \E years \in FetchPlans : ~Validated(years)
  /\ RunFails

\* periods[0] and periods[1]: the rows come ordered by fiscal_year DESC.
LatestTwo(years) == {y \in years : Cardinality({z \in years : z > y}) <= 1}

CanScoreFraud    == WantsFraud /\ Cardinality(periods) >= 2
CanScoreDistress == WantsFraud /\ periods # {}
CanScoreEsg      == WantsEsg /\ esg_data /\ periods # {}

FraudBasis == IF CanScoreFraud THEN LatestTwo(periods) ELSE {}

Results(f, d) == [fraud |-> f, distress |-> d, esg |-> CanScoreEsg, basis |-> FraudBasis]

\* The scores the formulas may give: any band, but exactly the computable ones.
Computable ==
  {Results(f, d) : f \in (IF CanScoreFraud THEN FraudLevels ELSE {"none"}),
                   d \in (IF CanScoreDistress THEN DistressZones ELSE {"none"})}

\* A mutated analyst: results of an earlier round survive when the new data
\* does not let the formula run again.
ComputableKeepingOld ==
  {Results(f, d) : f \in (IF CanScoreFraud THEN FraudLevels ELSE {financial_analysis.fraud}),
                   d \in (IF CanScoreDistress THEN DistressZones ELSE {"none"})}

\* The nested financial_analysis dict is rebuilt from scratch on every round.
NewAnalysis == Computable

financial_analyst_node ==
  /\ Running("financial_analyst")
  /\ financial_analysis' \in NewAnalysis
  /\ Advance(EdgeAfter.financial_analyst)
  /\ UNCHANGED <<request_type, paused, status, periods, esg_data, dispute, outcome>>

\* NULL columns, a zero receivables or expense ratio in the prior year, an
\* infinite index that has no JSON form: the formula or its logging raises.
FormulaRaises ==
  /\ Running("financial_analyst")
  /\ "data" \in Faults
  /\ CanScoreDistress \/ CanScoreEsg
  /\ RunFails

-----------------------------------------------------------------------------
\* The completeness gate of the critic.
Incomplete ==
  \/ WantsFraud /\ financial_analysis.fraud = "none"
  \/ WantsEsg /\ ~financial_analysis.esg

\* The two mandatory-escalation gates.
Alarming ==
  \/ financial_analysis.fraud = "critical"
  \/ financial_analysis.distress = "distress"

\* A mutated critic: the LLM is consulted first and may wave an alarm through.
VerdictsWithoutAlarmGate == IF Incomplete THEN {"reject"} ELSE Verdicts

\* The verdicts risk_critic_node can reach: the gates in their order, then,
\* only in the judgment zone, whatever the LLM answers.
PossibleVerdicts ==
  IF Incomplete THEN {"reject"} ELSE IF Alarming THEN {"escalate"} ELSE Verdicts

ConsultsLlm == ~Incomplete /\ ~Alarming

risk_critic_node ==
  /\ Running("risk_critic")
  /\ \E verdict \in PossibleVerdicts :
       LET rejected == verdict = "reject"
           round    == IF rejected THEN conflict_round + 1 ELSE conflict_round
       IN  /\ risk_verdict' = verdict
           /\ conflict_round' = round
           /\ conflicts' = IF rejected
                           THEN Append(conflicts, ConflictResolution(round))
                           ELSE conflicts
           /\ Advance(route_after_risk_critic(verdict, round))
  /\ UNCHANGED <<request_type, paused, status, data, outcome>>

\* The LLM call of a node raises: an outage, a timeout, an unparsable answer.
ProviderOutage ==
  /\ "provider" \in Faults
  /\ \/ Running("data_engineer")
     \/ Running("financial_analyst")
     \/ Running("risk_critic") /\ ConsultsLlm
  /\ RunFails

\* First pass through human_escalation_node: the status is written, then
\* interrupt() ends the invocation with the node still to run.
human_escalation_node ==
  /\ Running("human_escalation")
  /\ status' = "escalated"
  /\ paused' = TRUE
  /\ steps' = steps + 1
  /\ UNCHANGED <<request_type, next, event_seq, data, dispute, outcome>>

\* A reviewer's answer reaches the paused case in a new invocation, which
\* runs the node from the top and this time past interrupt().
ReviewerAnswers ==
  /\ paused
  /\ paused' = FALSE
  /\ status' = "in_progress"
  /\ human_decision' \in Answers
  /\ next' = EdgeAfter.human_escalation
  /\ event_seq' = event_seq + 1
  /\ steps' = 1
  /\ UNCHANGED <<request_type, data, dispute, decisions>>

PublishedRow ==
  [verdict           |-> PublishedVerdict(human_decision),
   reviewed_by_human |-> human_decision # "none",
   analysis          |-> financial_analysis,
   conflict_rounds   |-> conflict_round]

\* A mutated Finalize: the decision is written but the case is not closed.
FinalizeLeavesOpen ==
  /\ Running("finalize_decision")
  /\ decisions' = decisions \cup {PublishedRow}
  /\ Advance(EdgeAfter.finalize_decision)
  /\ UNCHANGED <<request_type, paused, status, data, dispute, human_decision>>

\* One transaction: closing event, decision row, status.
finalize_decision_node ==
  /\ Running("finalize_decision")
  /\ decisions' = decisions \cup {PublishedRow}
  /\ status' = "completed"
  /\ Advance(EdgeAfter.finalize_decision)
  /\ UNCHANGED <<request_type, paused, data, dispute, human_decision>>

\* A score too large for its NUMERIC(5,2) or NUMERIC(6,3) column: the
\* transaction is rolled back and the exception ends the run.
DecisionRowRefused ==
  /\ Running("finalize_decision")
  /\ "data" \in Faults
  /\ financial_analysis.fraud # "none" \/ financial_analysis.distress # "none"
  /\ RunFails

\* The job is done and nothing re-opens the case.
Terminating == Settled /\ UNCHANGED vars

RunStep ==
  \/ supervisor_node
  \/ data_engineer_node \/ FetchPlanRefused
  \/ financial_analyst_node \/ FormulaRaises
  \/ risk_critic_node \/ ProviderOutage
  \/ human_escalation_node
  \/ finalize_decision_node \/ DecisionRowRefused

Next == RunStep \/ ReviewerAnswers \/ Terminating

\* The worker keeps executing the run it holds; nothing obliges a reviewer.
Spec == Init /\ [][Next]_vars /\ WF_vars(RunStep)

-----------------------------------------------------------------------------
(* Properties.                                                              *)

\* Nothing clears a case on its own authority except a plain approval by the
\* critic of a complete, unalarming analysis: every other decision, and every
\* "rejected" or "approved_with_flags", carries a reviewer's answer, and that
\* answer is the verdict published.  (The gates of risk_critic_node, the
\* router, and the two branches of finalize_decision_node, taken together.)
NoUnilateralClearance ==
  \A d \in decisions :
    /\ d.verdict = "approved" => /\ ~d.reviewed_by_human
                                 /\ risk_verdict = "approve"
                                 /\ d.analysis.fraud # "critical"
                                 /\ d.analysis.distress # "distress"
                                 /\ WantsFraud => d.analysis.fraud # "none"
                                 /\ WantsEsg => d.analysis.esg
    /\ d.verdict = "approved_with_flags" => human_decision = "approve"
    /\ d.verdict = "rejected"            => human_decision = "reject"
    /\ d.reviewed_by_human <=> human_decision # "none"

\* Every rejection has its conflicts row, and the resolution written in that
\* row tells what the router did afterwards: a "retried" dispute is back with
\* the Data Engineer until the critic has judged again, an "escalated_to_human"
\* dispute is the last one and waits for, or has had, a reviewer's answer.
\* (risk_critic_node decides the resolution and route_after_risk_critic the
\* route, each with a comparison of its own against max_conflict_retries.)
ConflictsAreSettled ==
  LET n == Len(conflicts)
  IN  /\ n = conflict_round
      /\ \A r \in 1..n : conflicts[r] = "escalated_to_human" =>
           /\ r = n
           /\ risk_verdict = "reject"
           /\ next = "human_escalation" \/ human_decision # "none"
      /\ risk_verdict = "reject" /\ conflicts[n] = "retried" =>
           next \in {"data_engineer", "financial_analyst", "risk_critic"}
      /\ \A d \in decisions : d.conflict_rounds = n

\* The verdict is about the data on file: from the critic on, the analysis holds
\* exactly the scores that the rows of the latest fetch support, and the fraud
\* score compares the two most recent of those rows.  (data_engineer_node and
\* financial_analyst_node replace their part of the state on every retry.)
AnalysisMatchesEvidence ==
  next \in {"risk_critic", "human_escalation", "finalize_decision", "end"} =>
    /\ financial_analysis.fraud # "none" <=> CanScoreFraud
    /\ financial_analysis.distress # "none" <=> CanScoreDistress
    /\ financial_analysis.esg <=> CanScoreEsg
    /\ financial_analysis.basis = FraudBasis

\* GraphRecursionError is only ever a backstop: the conflict loop, with the
\* supervisor and the closing node, fits in the super-steps _graph_config grants
\* one invocation, and the ledger of a whole case in that number of events.
WithinRecursionLimit == steps < RecursionLimit /\ event_seq < RecursionLimit

\* A run that a worker has taken always comes to rest: closed with a decision,
\* failed, or waiting for a reviewer; so does the run of the reviewer's answer.
RunSettles == ~paused ~> (paused \/ Settled)

\* "If the LLM call fails or times out, the numeric fields are already computed
\* and correct -- only the narrative degrades" (nodes.py, Financial Analyst):
\* with data the formulas accept, nothing fails the case while the analyst runs.
OnlyNarrativeDegrades ==
  [][next = "financial_analyst" /\ CanScoreFraud => status' # "failed"]_vars

\* "Beneish asks does this year's accounting look manipulated relative to last
\* year's" (nodes.py, formulas.py), this year being the one under assessment:
\* a fraud score compares TargetYear with the year before it.
FraudScoreIsAboutTargetYear ==
  financial_analysis.fraud # "none" =>
    financial_analysis.basis = {TargetYear, TargetYear - 1}
=============================================================================
