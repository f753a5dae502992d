------------------------- MODULE DecisionGraphProofs ------------------------
(***************************************************************************)
(* Proofs about DecisionGraph, for every retry limit, every set of fiscal  *)
(* years and every selection of faults.                                    *)
(*                                                                         *)
(* The inductive invariant GraphInv has three parts beside the types.      *)
(* LoopInv ties conflict_round, the conflicts rows and the position of the *)
(* run together; CountInv gives the ledger sequence at every position;     *)
(* VerdictInv says what the critic has established when the run is past    *)
(* it.  To these EvidenceIsCurrent adds AnalysisMatchesEvidence.            *)
(***************************************************************************)
EXTENDS DecisionGraph, SequenceTheorems, TLAPS

InLoop == next \in {"data_engineer", "financial_analyst", "risk_critic"}

\* The position in the conflict loop, and what the conflicts table says of it.
LoopInv ==
  /\ Len(conflicts) = conflict_round
  /\ \A r \in 1..conflict_round : conflicts[r] = ConflictResolution(r)
  /\ conflict_round <= MaxConflictRetries + 1
  /\ next = "supervisor" \/ InLoop => human_decision = "none" /\ decisions = {}
  /\ next = "supervisor" => conflict_round = 0 /\ risk_verdict = "none"
  /\ conflict_round = 0 => risk_verdict # "reject"
  /\ risk_verdict = "reject" => (InLoop <=> conflict_round <= MaxConflictRetries)
  /\ conflict_round > MaxConflictRetries => risk_verdict = "reject" /\ ~InLoop

\* One event per completed node: its number at every position.
CountInv ==
  /\ next = "supervisor" => event_seq = 0
  /\ next = "data_engineer" => event_seq = 3 * conflict_round + 1
  /\ next = "financial_analyst" => event_seq = 3 * conflict_round + 2
  /\ next = "risk_critic" => event_seq = 3 * conflict_round + 3
  /\ next = "human_escalation" => event_seq <= 3 * MaxConflictRetries + 4
  /\ next = "finalize_decision" => event_seq <= 3 * MaxConflictRetries + 5
  /\ next = "end" => event_seq <= 3 * MaxConflictRetries + 6
  /\ steps <= event_seq + (IF paused THEN 1 ELSE 0)

\* Past the critic without a reviewer: its approval, and the gates it passed.
Cleared == risk_verdict = "approve" /\ ~Incomplete /\ ~Alarming

VerdictInv ==
  /\ paused => next = "human_escalation"
  /\ next = "human_escalation" => human_decision = "none" /\ decisions = {}
  /\ next = "finalize_decision" => decisions = {}
  /\ next \in {"finalize_decision", "end"} => human_decision # "none" \/ Cleared
  /\ \A d \in decisions : next = "end" /\ d = PublishedRow

GraphInv == TypeOK /\ LoopInv /\ CountInv /\ VerdictInv

USE RetriesAssumption, YearsAssumption

-----------------------------------------------------------------------------
\* The router sends a run back to the Data Engineer exactly for a rejection that
\* is still within the retry limit, and never anywhere but to a successor of
\* the critic in build_graph.
LEMMA RouterLemma ==
  ASSUME NEW verdict \in Verdicts, NEW round \in Nat
  PROVE  /\ route_after_risk_critic(verdict, round)
              \in {"finalize_decision", "human_escalation", "data_engineer"}
         /\ route_after_risk_critic(verdict, round) = "data_engineer"
              <=> verdict = "reject" /\ round <= MaxConflictRetries
         /\ route_after_risk_critic(verdict, round) = "finalize_decision"
              <=> verdict = "approve"
BY DEF route_after_risk_critic, Verdicts

\* The verdicts the gates leave possible; an approval proves the gates passed.
LEMMA GatesLemma ==
  ASSUME NEW verdict \in PossibleVerdicts
  PROVE  /\ verdict \in Verdicts
         /\ verdict = "approve" => ~Incomplete /\ ~Alarming
BY DEF PossibleVerdicts, Verdicts

\* The initial states satisfy the inductive invariant.
LEMMA InitGraphInv == Init => GraphInv
<1> SUFFICES ASSUME Init PROVE GraphInv
  OBVIOUS
<1>1. TypeOK
  <2>1. conflicts \in Seq({"retried", "escalated_to_human"})
    BY DEF Init
  <2>2. financial_analysis \in Analysis
    BY DEF Init, NoAnalysis, Analysis
  <2> QED
    BY <2>1, <2>2 DEF Init, TypeOK, Positions, Nodes, Statuses
<1>2. LoopInv
  BY DEF Init, LoopInv, InLoop
<1>3. CountInv
  BY DEF Init, CountInv
<1>4. VerdictInv
  BY DEF Init, VerdictInv
<1> QED
  BY <1>1, <1>2, <1>3, <1>4 DEF GraphInv

-----------------------------------------------------------------------------
\* Every action keeps the types.
LEMMA TypeStep == TypeOK /\ [Next]_vars => TypeOK'
<1> SUFFICES ASSUME TypeOK, [Next]_vars PROVE TypeOK'
  OBVIOUS
<1> USE DEF TypeOK
<1>1. CASE supervisor_node
  BY <1>1 DEF supervisor_node, Advance, EdgeAfter, Positions, Nodes, Statuses, data, dispute, outcome
<1>2. CASE data_engineer_node
  <2>1. periods' \in SUBSET AllYears
    BY <1>2 DEF data_engineer_node, get_financial_statements, FetchPlans, AllYears
  <2>2. esg_data' \in BOOLEAN
    BY <1>2 DEF data_engineer_node, get_esg_disclosures
  <2> QED
    BY <1>2, <2>1, <2>2 DEF data_engineer_node, Advance, EdgeAfter, Positions, Nodes, dispute, outcome
<1>3. CASE financial_analyst_node
  <2>1. FraudBasis \in SUBSET AllYears
    BY DEF FraudBasis, LatestTwo
  <2>2. PICK f \in (IF CanScoreFraud THEN FraudLevels ELSE {"none"}),
             d \in (IF CanScoreDistress THEN DistressZones ELSE {"none"}) :
          financial_analysis' = Results(f, d)
    BY <1>3 DEF financial_analyst_node, NewAnalysis, Computable
  <2>3. CanScoreEsg \in BOOLEAN
    BY DEF CanScoreEsg, WantsEsg
  <2>4. financial_analysis' \in Analysis
    BY <2>1, <2>2, <2>3 DEF Results, Analysis
  <2> QED
    BY <1>3, <2>4 DEF financial_analyst_node, Advance, EdgeAfter, Positions, Nodes, dispute, outcome
<1>4. CASE risk_critic_node
  <2> PICK verdict \in PossibleVerdicts :
        LET rejected == verdict = "reject"
            round    == IF rejected THEN conflict_round + 1 ELSE conflict_round
        IN  /\ risk_verdict' = verdict
            /\ conflict_round' = round
            /\ conflicts' = IF rejected
                            THEN Append(conflicts, ConflictResolution(round))
                            ELSE conflicts
            /\ Advance(route_after_risk_critic(verdict, round))
    BY <1>4 DEF risk_critic_node
  <2>1. verdict \in Verdicts /\ conflict_round' \in Nat
    BY GatesLemma
  <2>2. next' \in Positions
    BY <2>1, RouterLemma DEF Advance, Positions, Nodes
  <2>3. conflicts' \in Seq({"retried", "escalated_to_human"})
    BY DEF ConflictResolution
  <2> QED
    BY <1>4, <2>1, <2>2, <2>3 DEF risk_critic_node, Advance, data, outcome
<1>5. CASE human_escalation_node
  BY <1>5 DEF human_escalation_node, Statuses, data, dispute, outcome
<1>6. CASE ReviewerAnswers
  <2>1. next' \in Positions /\ status' \in Statuses
    BY <1>6 DEF ReviewerAnswers, EdgeAfter, Positions, Nodes, Statuses
  <2>2. /\ event_seq' = event_seq + 1 /\ steps' = 1 /\ paused' = FALSE
        /\ human_decision' \in Answers
        /\ UNCHANGED <<request_type, data, dispute, decisions>>
    BY <1>6 DEF ReviewerAnswers
  <2>3. UNCHANGED <<request_type, periods, esg_data, financial_analysis, risk_verdict,
                    conflict_round, conflicts, decisions>>
    BY <2>2 DEF data, dispute
  <2>4. steps' \in Nat /\ event_seq' \in Nat
    BY <2>2
  <2>5. paused' \in BOOLEAN
    BY <2>2, Zenon
  <2> QED
    BY <2>1, <2>2, <2>3, <2>4, <2>5
<1>7. CASE finalize_decision_node
  <2>1. PublishedRow \in Decision
    BY DEF PublishedRow, PublishedVerdict, Decision, Answers
  <2> QED
    BY <1>7, <2>1 DEF finalize_decision_node, Advance, EdgeAfter, Positions, Nodes, Statuses,
                      data, dispute
<1>8. CASE RunFails
  BY <1>8 DEF RunFails, Statuses, data, dispute, outcome
<1>9. CASE UNCHANGED vars
  BY <1>9 DEF vars, control, data, dispute, outcome
<1> QED
  BY <1>1, <1>2, <1>3, <1>4, <1>5, <1>6, <1>7, <1>8, <1>9
  DEF Next, RunStep, FetchPlanRefused, FormulaRaises, ProviderOutage, DecisionRowRefused, Terminating

\* Every action keeps the inductive invariant.
LEMMA StepGraphInv == GraphInv /\ [Next]_vars => GraphInv'
<1> SUFFICES ASSUME GraphInv, [Next]_vars PROVE GraphInv'
  OBVIOUS
<1> TypeOK /\ TypeOK'
  BY TypeStep DEF GraphInv
<1> USE DEF GraphInv, InLoop
<1>1. CASE supervisor_node
  <2> USE <1>1 DEF supervisor_node, Running, Advance, EdgeAfter, data, dispute, outcome
  <2>1. LoopInv'
    BY DEF LoopInv, TypeOK
  <2>2. CountInv'
    BY DEF CountInv, LoopInv, TypeOK
  <2>3. VerdictInv'
    BY DEF VerdictInv, LoopInv
  <2> QED
    BY <2>1, <2>2, <2>3
<1>2. CASE data_engineer_node
  <2> USE <1>2 DEF data_engineer_node, Running, Advance, EdgeAfter, dispute, outcome
  <2>1. LoopInv'
    BY DEF LoopInv, TypeOK
  <2>2. CountInv'
    BY DEF CountInv, TypeOK
  <2>3. VerdictInv'
    BY DEF VerdictInv, LoopInv
  <2> QED
    BY <2>1, <2>2, <2>3
<1>3. CASE financial_analyst_node
  <2> USE <1>3 DEF financial_analyst_node, Running, Advance, EdgeAfter, dispute, outcome
  <2>1. LoopInv'
    BY DEF LoopInv, TypeOK
  <2>2. CountInv'
    BY DEF CountInv, TypeOK
  <2>3. VerdictInv'
    BY DEF VerdictInv, LoopInv
  <2> QED
    BY <2>1, <2>2, <2>3
<1>4. CASE risk_critic_node
  <2> PICK verdict \in PossibleVerdicts :
        LET rejected == verdict = "reject"
            round    == IF rejected THEN conflict_round + 1 ELSE conflict_round
        IN  /\ risk_verdict' = verdict
            /\ conflict_round' = round
            /\ conflicts' = IF rejected
                            THEN Append(conflicts, ConflictResolution(round))
                            ELSE conflicts
            /\ Advance(route_after_risk_critic(verdict, round))
    BY <1>4 DEF risk_critic_node
  <2>0. /\ next = "risk_critic" /\ ~paused /\ paused' = paused
        /\ UNCHANGED <<human_decision, decisions, financial_analysis, request_type>>
    BY <1>4 DEF risk_critic_node, Running, data, outcome
  <2>1. /\ verdict \in Verdicts
        /\ verdict = "approve" => ~Incomplete /\ ~Alarming
    BY GatesLemma
  <2>2. /\ conflict_round' = (IF verdict = "reject" THEN conflict_round + 1 ELSE conflict_round)
        /\ risk_verdict' = verdict
        /\ event_seq' = event_seq + 1 /\ steps' = steps + 1
        /\ next' = route_after_risk_critic(verdict, conflict_round')
    BY DEF Advance
  <2>3. /\ next' \in {"finalize_decision", "human_escalation", "data_engineer"}
        /\ next' = "data_engineer" <=> verdict = "reject" /\ conflict_round' <= MaxConflictRetries
        /\ next' = "finalize_decision" <=> verdict = "approve"
    BY <2>1, <2>2, RouterLemma DEF TypeOK
  <2>4. conflict_round \in Nat /\ conflict_round <= MaxConflictRetries
    BY <2>0 DEF LoopInv, TypeOK
  <2>5. LoopInv'
    <3>1. /\ Len(conflicts') = conflict_round'
          /\ \A r \in 1..conflict_round' : conflicts'[r] = ConflictResolution(r)
      <4>1. CASE verdict = "reject"
        BY <2>2, <4>1 DEF LoopInv, TypeOK
      <4>2. CASE verdict # "reject"
        BY <2>2, <4>2 DEF LoopInv
      <4> QED
        BY <4>1, <4>2
    <3> QED
      BY <2>0, <2>1, <2>2, <2>3, <2>4, <3>1 DEF LoopInv
  <2>6. CountInv'
    BY <2>0, <2>2, <2>3, <2>4 DEF CountInv, TypeOK
  <2>7. VerdictInv'
    BY <2>0, <2>1, <2>2, <2>3 DEF VerdictInv, LoopInv, Cleared, Incomplete, Alarming,
                                  WantsFraud, WantsEsg
  <2> QED
    BY <2>5, <2>6, <2>7
<1>5. CASE human_escalation_node
  <2> USE <1>5 DEF human_escalation_node, Running, data, dispute, outcome
  <2>1. LoopInv'
    BY DEF LoopInv, TypeOK
  <2>2. CountInv'
    BY DEF CountInv, TypeOK
  <2>3. VerdictInv'
    BY DEF VerdictInv
  <2> QED
    BY <2>1, <2>2, <2>3
<1>6. CASE ReviewerAnswers
  <2> USE <1>6 DEF ReviewerAnswers, EdgeAfter, data, dispute
  <2>1. LoopInv'
    BY DEF LoopInv, TypeOK, VerdictInv
  <2>2. CountInv'
    BY DEF CountInv, TypeOK, VerdictInv
  <2>3. VerdictInv'
    BY DEF VerdictInv, Answers
  <2> QED
    BY <2>1, <2>2, <2>3
<1>7. CASE finalize_decision_node
  <2> USE <1>7 DEF finalize_decision_node, Running, Advance, EdgeAfter, data, dispute
  <2>1. LoopInv'
    BY DEF LoopInv, TypeOK
  <2>2. CountInv'
    BY DEF CountInv, TypeOK
  <2>3. VerdictInv'
    BY DEF VerdictInv, PublishedRow, Cleared, Incomplete, Alarming, WantsFraud, WantsEsg
  <2> QED
    BY <2>1, <2>2, <2>3
<1>8. CASE RunFails
  <2> USE <1>8 DEF RunFails, data, dispute, outcome
  <2>1. LoopInv'
    BY DEF LoopInv
  <2>2. CountInv'
    BY DEF CountInv
  <2>3. VerdictInv'
    BY DEF VerdictInv, PublishedRow, Cleared, Incomplete, Alarming, WantsFraud, WantsEsg
  <2> QED
    BY <2>1, <2>2, <2>3
<1>9. CASE UNCHANGED vars
  <2> USE <1>9 DEF vars, control, data, dispute, outcome
  <2>1. LoopInv'
    BY DEF LoopInv
  <2>2. CountInv'
    BY DEF CountInv
  <2>3. VerdictInv'
    BY DEF VerdictInv, PublishedRow, Cleared, Incomplete, Alarming, WantsFraud, WantsEsg
  <2> QED
    BY <2>1, <2>2, <2>3
<1> QED
  BY <1>1, <1>2, <1>3, <1>4, <1>5, <1>6, <1>7, <1>8, <1>9
  DEF Next, RunStep, FetchPlanRefused, FormulaRaises, ProviderOutage, DecisionRowRefused, Terminating

-----------------------------------------------------------------------------
\* The inductive invariant holds throughout.
THEOREM GraphInvariant == Spec => []GraphInv
BY InitGraphInv, StepGraphInv, PTL DEF Spec

\* Type correctness of a run.
THEOREM TypeCorrect == Spec => []TypeOK
<1>1. GraphInv => TypeOK
  BY DEF GraphInv
<1> QED
  BY <1>1, GraphInvariant, PTL

\* No case is cleared without either a passed gate and a plain approval by the
\* critic, or a reviewer's answer: for every retry limit and any faults.
THEOREM UnilateralClearance == Spec => []NoUnilateralClearance
<1>1. GraphInv => NoUnilateralClearance
  <2> SUFFICES ASSUME GraphInv, NEW d \in decisions
               PROVE /\ d.verdict = "approved" => /\ ~d.reviewed_by_human
                                                  /\ risk_verdict = "approve"
                                                  /\ d.analysis.fraud # "critical"
                                                  /\ d.analysis.distress # "distress"
                                                  /\ WantsFraud => d.analysis.fraud # "none"
                                                  /\ WantsEsg => d.analysis.esg
                     /\ d.verdict = "approved_with_flags" => human_decision = "approve"
                     /\ d.verdict = "rejected" => human_decision = "reject"
                     /\ d.reviewed_by_human <=> human_decision # "none"
    BY DEF NoUnilateralClearance
  <2>1. /\ d = PublishedRow
        /\ human_decision \in {"none", "approve", "reject"}
        /\ human_decision = "none" => Cleared
    BY DEF GraphInv, TypeOK, VerdictInv, Answers
  <2>2. /\ d.verdict = PublishedVerdict(human_decision)
        /\ d.reviewed_by_human = (human_decision # "none")
        /\ d.analysis = financial_analysis
    BY <2>1 DEF PublishedRow
  <2>3. d.verdict = "approved" => human_decision = "none"
    BY <2>1, <2>2 DEF PublishedVerdict
  <2>4. d.verdict = "approved" => Cleared
    BY <2>1, <2>3
  <2> QED
    BY <2>1, <2>2, <2>3, <2>4 DEF PublishedVerdict, Cleared, Incomplete, Alarming
<1> QED
  BY <1>1, GraphInvariant, PTL

\* The conflicts table agrees with what the router did, whatever the limit.
THEOREM ConflictAccounting == Spec => []ConflictsAreSettled
<1>1. GraphInv => ConflictsAreSettled
  <2> SUFFICES ASSUME GraphInv PROVE ConflictsAreSettled
    OBVIOUS
  <2> USE DEF GraphInv
  <2>1. Len(conflicts) = conflict_round /\ conflict_round \in Nat
    BY DEF LoopInv, TypeOK
  <2>2. ASSUME NEW r \in 1..conflict_round, conflicts[r] = "escalated_to_human"
        PROVE  /\ r = conflict_round
               /\ risk_verdict = "reject"
               /\ next = "human_escalation" \/ human_decision # "none"
    <3>1. r > MaxConflictRetries /\ r = conflict_round
      BY <2>1, <2>2 DEF LoopInv, ConflictResolution
    <3>2. risk_verdict = "reject" /\ ~InLoop /\ next # "supervisor"
      BY <3>1, <2>1 DEF LoopInv
    <3> QED
      BY <3>1, <3>2 DEF VerdictInv, Cleared, InLoop, TypeOK, Positions, Nodes
  <2>3. risk_verdict = "reject" /\ conflicts[conflict_round] = "retried" => InLoop
    BY <2>1 DEF LoopInv, ConflictResolution
  <2>4. \A d \in decisions : d.conflict_rounds = conflict_round
    BY DEF VerdictInv, PublishedRow
  <2> QED
    BY <2>1, <2>2, <2>3, <2>4 DEF ConflictsAreSettled, InLoop
<1> QED
  BY <1>1, GraphInvariant, PTL

\* The recursion limit of _graph_config is never reached, whatever
\* max_conflict_retries is configured.
THEOREM RecursionLimitSuffices == Spec => []WithinRecursionLimit
<1>1. GraphInv => WithinRecursionLimit
  BY DEF GraphInv, TypeOK, LoopInv, InLoop, CountInv, VerdictInv, WithinRecursionLimit,
         RecursionLimit, Positions, Nodes
<1> QED
  BY <1>1, GraphInvariant, PTL

-----------------------------------------------------------------------------
\* The analysis on record is always that of the rows on record: the analyst
\* makes it so, and the data changes only ahead of the next analysis.
THEOREM EvidenceIsCurrent == Spec => []AnalysisMatchesEvidence
<1> DEFINE Dated == AnalysisMatchesEvidence /\ GraphInv
<1>1. Init => Dated
  BY InitGraphInv DEF Init, AnalysisMatchesEvidence
<1>2. Dated /\ [Next]_vars => Dated'
  <2> SUFFICES ASSUME Dated, [Next]_vars PROVE AnalysisMatchesEvidence'
    BY StepGraphInv
  <2> USE DEF AnalysisMatchesEvidence
  <2>1. CASE financial_analyst_node
    <3>1. UNCHANGED <<CanScoreFraud, CanScoreDistress, CanScoreEsg, FraudBasis>>
      BY <2>1 DEF financial_analyst_node, CanScoreFraud, CanScoreDistress, CanScoreEsg,
                  WantsFraud, WantsEsg, FraudBasis
    <3>2. PICK f \in (IF CanScoreFraud THEN FraudLevels ELSE {"none"}),
               d \in (IF CanScoreDistress THEN DistressZones ELSE {"none"}) :
            financial_analysis' = Results(f, d)
      BY <2>1 DEF financial_analyst_node, NewAnalysis, Computable
    <3>3. /\ f # "none" <=> CanScoreFraud
          /\ d # "none" <=> CanScoreDistress
      BY DEF FraudLevels, DistressZones
    <3>4. /\ financial_analysis'.fraud = f /\ financial_analysis'.distress = d
          /\ financial_analysis'.esg = CanScoreEsg
          /\ financial_analysis'.basis = FraudBasis
      BY <3>2 DEF Results
    <3>5. /\ CanScoreFraud' <=> CanScoreFraud
          /\ CanScoreDistress' <=> CanScoreDistress
          /\ FraudBasis' = FraudBasis /\ CanScoreEsg' = CanScoreEsg
      BY <3>1
    <3> QED
      BY <3>3, <3>4, <3>5
  <2>2. CASE supervisor_node \/ data_engineer_node
    BY <2>2 DEF supervisor_node, data_engineer_node, Advance, EdgeAfter
  <2>3. CASE \/ risk_critic_node \/ human_escalation_node \/ finalize_decision_node
             \/ ReviewerAnswers \/ RunFails \/ UNCHANGED vars
    <3>1. UNCHANGED <<request_type, periods, esg_data, financial_analysis>>
      BY <2>3 DEF risk_critic_node, human_escalation_node, finalize_decision_node,
                  ReviewerAnswers, RunFails, vars, control, data
    <3>2. UNCHANGED <<CanScoreFraud, CanScoreDistress, CanScoreEsg, FraudBasis>>
      BY <3>1 DEF CanScoreFraud, CanScoreDistress, CanScoreEsg, WantsFraud, WantsEsg, FraudBasis
    <3>3. \/ next \in {"risk_critic", "human_escalation", "finalize_decision", "end"}
          \/ next' = next
      BY <2>3 DEF risk_critic_node, human_escalation_node, finalize_decision_node, Running,
                  ReviewerAnswers, RunFails, vars, control, GraphInv, VerdictInv
    <3> QED
      BY <3>1, <3>2, <3>3
  <2> QED
    BY <2>1, <2>2, <2>3
    DEF Next, RunStep, FetchPlanRefused, FormulaRaises, ProviderOutage, DecisionRowRefused,
        Terminating
<1>3. Spec => []Dated
  BY <1>1, <1>2, PTL DEF Spec
<1> QED
  BY <1>3, PTL
=============================================================================
