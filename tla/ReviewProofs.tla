---------------------------- MODULE ReviewProofs ----------------------------
(***************************************************************************)
(* Proofs about the human in the loop of Reader: for every set of cases,   *)
(* workers, requests and keys, and any number of crashes.                  *)
(*                                                                         *)
(* An answer is checked once, in the API, and then copied: into the queue, *)
(* from there into a run, and from the run into the ledger.  AnswersInv    *)
(* says of each of the copies what AnswersComeFromReviewers says of the    *)
(* last one.                                                               *)
(*                                                                         *)
(* The dispute is written twice too: into the ledger, and into the         *)
(* interrupt a GET shows.  AskedInv compares the two, and KeptInv compares *)
(* the interrupt with the checkpoint it was stored beside.                 *)
(***************************************************************************)
EXTENDS ReaderProofs, SettlingProofs

USE RetriesAssumption, EngineAssumption, ScopesAssumption

-----------------------------------------------------------------------------
(* Who has answered.                                                        *)

Reviewer(q) == by[q] \in DOMAIN Scopes /\ "reviewer" \in Scopes[by[q]]

\* An accepted call of a reviewer gave this answer about this case.
Given(a, decision) ==
  \E q \in Requests : /\ request[q].stage = "accepted"
                      /\ request[q].assessment = a /\ request[q].decision = decision
                      /\ Reviewer(q)

AnswersInv ==
  /\ \A q \in Requests : request[q].stage # "idle" => Reviewer(q)
  /\ \A j \in Jobs : run_queue[j].kind = "resume" =>
                       Given(run_queue[j].assessment, run_queue[j].payload)
  /\ \A w \in Workers : answer[w] # "none" => pc[w] # "poll" /\ Given(Case(w), answer[w])
  /\ \A a \in Assessments : \A k \in Recorded(a) :
       audit_events[a][k].node = "human_escalation" => Given(a, audit_events[a][k].outcome)

\* resume_assessment is the only handler that concerns requests and their keys.
LEMMA RequestKinds ==
  ASSUME [ReaderNext]_readerVars
  PROVE  \/ UNCHANGED <<request, by>>
         \/ \E q \in Requests : Resume(q)
         \/ \E q \in Requests : AcceptResume(q) /\ UNCHANGED by
<1>1. ASSUME NEW w \in Workers, WorkerStep(w) \/ Persist(w) \/ Crash(w)
      PROVE  UNCHANGED request
  BY <1>1
  DEF WorkerStep, Persist, Crash, Reclaim, ClaimOneJob, InvokeStart, InvokeResume, MarkDone,
      JobRaises, MarkJobFailed, MarkCaseFailed, RunStep, SupervisorStarts, SupervisorLogs,
      data_engineer_node, financial_analyst_node, CriticPasses, CriticRejects,
      CriticOpensConflict, CriticResolves, EscalationStarts, EscalationPauses,
      EscalationResumes, EscalationLogs, finalize_decision_node, GraphEnds, SeqTaken, NodeRaises
<1> QED
  BY <1>1 DEF ReaderNext, readerVars, vars, Submit, create_assessment, ResumeAccepted, Work,
              StoreInterrupt, TimePasses, JobAges, GetFirstRow, GetTrace, GetSecondRow, GetReview

\* A reviewer who has called has called for good, and an accepted answer is not
\* taken back: what was given stays given.
LEMMA GivenStays ==
  ASSUME EngineInv, ReaderTypes, [ReaderNext]_readerVars
  PROVE  /\ \A q \in Requests : request[q].stage # "idle" /\ Reviewer(q) => Reviewer(q)'
         /\ \A a, decision : Given(a, decision) => Given(a, decision)'
<1>1. /\ request \in [Requests -> Request]
      /\ by \in [Requests -> Keys \cup {"none"}]
  BY DEF EngineInv, TypeOK, Request, ReaderTypes
<1>2. CASE \E q \in Requests : Resume(q)
  <2>1. PICK p, key, r : /\ p \in Requests /\ request[p].stage = "idle"
                        /\ request' = [request EXCEPT ![p] = r]
                        /\ by' = [by EXCEPT ![p] = key]
    BY <1>2 DEF Resume, RequestResume
  <2>2. \A q \in Requests : request[q].stage # "idle" => request'[q] = request[q] /\ by'[q] = by[q]
    BY <1>1, <2>1
  <2> QED
    BY <2>2 DEF Reviewer, Given
<1>3. CASE \E q \in Requests : AcceptResume(q) /\ UNCHANGED by
  <2>1. PICK p \in Requests : /\ request[p].stage = "checked"
                              /\ request' = [request EXCEPT ![p].stage = "accepted"]
    BY <1>3 DEF AcceptResume
  <2>2. \A q \in Requests : request[q].stage = "accepted" => request'[q] = request[q]
    BY <1>1, <2>1
  <2> QED
    BY <1>3, <2>2 DEF Reviewer, Given
<1>4. CASE UNCHANGED <<request, by>>
  BY <1>4 DEF Reviewer, Given
<1> QED
  BY <1>2, <1>3, <1>4, RequestKinds

\* Past its check a call came with a reviewer's key.
LEMMA RequestsReviewed ==
  ASSUME EngineInv, ReaderTypes, AnswersInv, [ReaderNext]_readerVars,
         NEW q \in Requests, request'[q].stage # "idle"
  PROVE  Reviewer(q)'
<1>1. /\ request \in [Requests -> Request]
      /\ by \in [Requests -> Keys \cup {"none"}]
  BY DEF EngineInv, TypeOK, Request, ReaderTypes
<1>2. CASE request[q].stage # "idle"
  BY <1>2, GivenStays DEF AnswersInv
<1>3. CASE request[q].stage = "idle"
  <2>1. CASE \E p \in Requests : Resume(p)
    <3>1. PICK p, key, r : /\ key \in DOMAIN Scopes /\ "reviewer" \in Scopes[key]
                          /\ request' = [request EXCEPT ![p] = r]
                          /\ by' = [by EXCEPT ![p] = key]
      BY <2>1 DEF Resume, RequestResume, Authorised
    <3>2. p = q
      BY <1>1, <1>3, <3>1
    <3> QED
      BY <1>1, <3>1, <3>2 DEF Reviewer
  <2>2. CASE \E p \in Requests : AcceptResume(p)
    <3>1. PICK p \in Requests : /\ request[p].stage = "checked"
                                /\ request' = [request EXCEPT ![p].stage = "accepted"]
      BY <2>2 DEF AcceptResume
    <3>2. p # q
      BY <1>3, <3>1
    <3> QED
      BY <1>1, <1>3, <3>1, <3>2
  <2> QED
    BY <1>3, <2>1, <2>2, RequestKinds
<1> QED
  BY <1>2, <1>3

-----------------------------------------------------------------------------
(* The answer in the queue.                                                 *)

\* Every resume job carries an answer that was given about its case.
LEMMA JobsGiven ==
  ASSUME EngineInv, ReaderTypes, AnswersInv, [ReaderNext]_readerVars,
         NEW j \in Jobs', run_queue'[j].kind = "resume"
  PROVE  Given(run_queue[j].assessment, run_queue[j].payload)'
<1>1. CASE SameJob(j)
  <2>1. PICK a, decision : a = run_queue[j].assessment /\ decision = run_queue[j].payload
    OBVIOUS
  <2>2. a = run_queue'[j].assessment /\ decision = run_queue'[j].payload
    BY <1>1, <2>1 DEF SameJob
  <2>3. Given(a, decision)'
    BY <1>1, <2>1, GivenStays DEF SameJob, AnswersInv
  <2> QED
    BY <2>2, <2>3 DEF Given
<1>2. CASE \E q \in Requests : /\ AcceptResume(q)
                               /\ run_queue'[j].assessment = request[q].assessment
                               /\ run_queue'[j].payload = request[q].decision
  <2>1. PICK q \in Requests : /\ AcceptResume(q)
                              /\ run_queue'[j].assessment = request[q].assessment
                              /\ run_queue'[j].payload = request[q].decision
    BY <1>2
  <2>2. /\ request[q].stage = "checked" /\ request[q] \in Request
        /\ request' = [request EXCEPT ![q] = [request[q] EXCEPT !.stage = "accepted"]]
        /\ request \in [Requests -> Request]
    BY <2>1 DEF AcceptResume, EngineInv, TypeOK, Request
  <2>3. /\ request'[q].stage = "accepted"
        /\ request'[q].assessment = request[q].assessment
        /\ request'[q].decision = request[q].decision
    BY <2>2 DEF Request
  <2>4. Reviewer(q)'
    BY <2>3, RequestsReviewed
  <2> QED
    BY <2>1, <2>3, <2>4 DEF Given
<1> QED
  BY <1>1, <1>2, JobKinds, ReaderStepIsEngineStep

-----------------------------------------------------------------------------
(* The answer in a run, and in the ledger.                                  *)

\* The answer interrupt() returns is the one the job carries, about its case.
LEMMA AnswersGiven ==
  ASSUME EngineInv, ReaderTypes, AnswersInv, [ReaderNext]_readerVars,
         NEW w \in Workers, answer'[w] # "none"
  PROVE  pc'[w] # "poll" /\ Given(Case(w), answer[w])'
<1>1. [Next]_vars /\ QueueGrows
  BY ReaderStepIsEngineStep, QueueStep DEF EngineInv
<1>2. pc[w] = "poll" => answer[w] = "none"
  BY DEF AnswersInv
<1>3. /\ pc[w] # "poll" /\ pc'[w] # "poll" /\ job'[w] = job[w]
      /\ answer'[w] = answer[w] \/ InvokeResume(w)
  BY <1>1, <1>2, AnswerKinds
<1>4. PICK a, decision : a = Case(w) /\ decision = answer'[w]
  OBVIOUS
<1>5. Case(w)' = a
  BY <1>1, <1>3, <1>4, CaseKept
<1>6. Given(a, decision)
  <2>1. CASE answer'[w] = answer[w]
    BY <1>4, <2>1 DEF AnswersInv
  <2>2. CASE InvokeResume(w)
    <3>1. job[w] \in Jobs /\ run_queue[job[w]].kind = "resume" /\ decision = run_queue[job[w]].payload
      BY <1>3, <1>4, <2>2, CaseLemma, PartsLemma DEF InvokeResume, WorkerTypes
    <3> QED
      BY <1>4, <3>1 DEF AnswersInv, Case
  <2> QED
    BY <1>3, <2>1, <2>2
<1>7. Given(a, decision)'
  BY <1>6, GivenStays
<1>8. Given(Case(w), answer[w])'
  <2>1. PICK b, d : b = Case(w)' /\ d = answer'[w]
    OBVIOUS
  <2>2. Given(b, d)'
    BY <1>4, <1>5, <1>7, <2>1
  <2> QED
    BY <2>1, <2>2 DEF Given
<1> QED
  BY <1>3, <1>8

\* A human's row is written from the answer the worker was given.
LEMMA RowsGiven ==
  ASSUME EngineInv, ReplayInv, ReaderTypes, AnswersInv, [ReaderNext]_readerVars,
         NEW a \in Assessments, NEW k \in Recorded(a)',
         audit_events'[a][k].node = "human_escalation"
  PROVE  Given(a, audit_events[a][k].outcome)'
<1>1. [Next]_vars
  BY ReaderStepIsEngineStep
<1>2. PICK decision : decision = audit_events'[a][k].outcome
  OBVIOUS
<1>3. Given(a, decision)
  <2>1. CASE k \in Recorded(a) /\ audit_events'[a][k] = audit_events[a][k]
    BY <1>2, <2>1 DEF AnswersInv
  <2>2. CASE \E w \in Workers : Logging(w)
    <3>1. PICK w \in Workers : Logging(w) /\ pc[w] \in InRun
      BY <2>2, LoggingLemma DEF InRun, InNode
    <3>2. PICK c \in Assessments, n \in Nat, s \in GraphState :
            c = Case(w) /\ n = state[w].event_seq /\ s = state[w]
      BY <3>1, CaseLemma, PartsLemma DEF WorkerTypes, GraphState, InRun, InNode
    <3>3. PICK outcome \in Outcome : Log(w, s.next, outcome) /\ s.next \in Nodes
      BY <3>1, <3>2, LoggedRow DEF ReplayInv
    <3>4. /\ n \in Nat /\ n = Rows(c) /\ Recorded(c)' = 1..(n + 1)
          /\ \A i \in 1..n : audit_events'[c][i] = audit_events[c][i]
          /\ Row(c, n + 1)' = [node |-> s.next, outcome |-> outcome]
          /\ \A b \in Assessments : b # c => audit_events'[b] = audit_events[b]
      BY <3>1, <3>2, <3>3, LogEffect
    <3>5. Recorded(c) = 1..n
      BY <3>4, RowsLemma
    <3>6. CASE a = c /\ k = n + 1
      <4>1. s.next = "human_escalation" /\ decision = outcome
        BY <1>2, <3>4, <3>6 DEF Row
      <4>2. EscalationLogs(w)
        BY <3>1, <3>2, <4>1
        DEF Logging, SupervisorLogs, data_engineer_node, financial_analyst_node, CriticPasses,
            CriticRejects, finalize_decision_node, At
      <4>3. answer[w] # "none"
        BY <3>1, <4>2 DEF EscalationLogs, ReplayInv, Working
      <4>4. PICK r \in Outcome : r = answer[w] /\ Log(w, "human_escalation", r)
        BY <4>2, PartsLemma DEF EscalationLogs, WorkerTypes, Outcome
      <4>5. Row(c, n + 1)' = [node |-> "human_escalation", outcome |-> r]
        BY <3>1, <3>2, <4>4, LogEffect DEF Nodes
      <4>6. decision = r
        BY <1>2, <3>6, <4>5 DEF Row
      <4> QED
        BY <3>2, <3>6, <4>3, <4>4, <4>6 DEF AnswersInv
    <3>7. CASE a = c /\ k # n + 1
      <4>1. k \in 1..n
        BY <3>4, <3>7
      <4> QED
        BY <2>1, <3>4, <3>5, <3>7, <4>1
    <3>8. CASE a # c
      BY <2>1, <3>4, <3>8 DEF Recorded
    <3> QED
      BY <3>6, <3>7, <3>8
  <2>3. CASE UNCHANGED audit_events
    BY <2>1, <2>3 DEF Recorded
  <2> QED
    BY <1>1, <2>2, <2>3, LedgerKinds DEF ledger, CriticOpensConflict, CriticResolves
<1>4. Given(a, decision)'
  BY <1>3, GivenStays
<1> QED
  BY <1>2, <1>4 DEF Given

\* In every reachable state each copy of an answer, in the queue, in a run or in
\* the ledger, was given in these words, about that case, by a reviewer.
THEOREM AnswersInvariant == ReaderSpec => []AnswersInv
<1>1. ReaderInit => AnswersInv
  BY DEF ReaderInit, Init, NoRequest, Jobs, LedgerInit, Recorded, AnswersInv
<1>2. (EngineInv /\ ReplayInv /\ CompletedHasDecision) /\ ReaderInv /\ AnswersInv
        /\ [ReaderNext]_readerVars => AnswersInv'
  <2> SUFFICES ASSUME EngineInv, ReplayInv, ReaderTypes, AnswersInv, [ReaderNext]_readerVars
               PROVE  AnswersInv'
    BY DEF ReaderInv
  <2>1. \A q \in Requests : request'[q].stage # "idle" => Reviewer(q)'
    BY RequestsReviewed
  <2>2. \A j \in Jobs' : run_queue'[j].kind = "resume" =>
                           Given(run_queue[j].assessment, run_queue[j].payload)'
    BY JobsGiven
  <2>3. \A w \in Workers : answer'[w] # "none" => pc'[w] # "poll" /\ Given(Case(w), answer[w])'
    BY AnswersGiven
  <2>4. \A a \in Assessments : \A k \in Recorded(a)' :
          audit_events'[a][k].node = "human_escalation" => Given(a, audit_events[a][k].outcome)'
    BY RowsGiven
  <2> QED
    BY <2>1, <2>2, <2>3, <2>4 DEF AnswersInv
<1> QED
  BY <1>1, <1>2, ReaderKeepsEngine, ReaderInvariant, PTL DEF ReaderSpec

\* Every answer in the ledger was given, in these words and about this case, by a
\* caller whose key has the reviewer scope, whatever queue, worker, crash or
\* second delivery it went through on its way.
THEOREM ReviewersAnswer == ReaderSpec => []AnswersComeFromReviewers
<1>1. EngineInv /\ AnswersInv => AnswersComeFromReviewers
  <2> SUFFICES ASSUME EngineInv, AnswersInv,
                      NEW a \in Assessments, NEW given \in Audit!AnswersIn(Trail(a))
               PROVE  Given(a, given)
    BY DEF AnswersComeFromReviewers, Given, Reviewer
  <2>1. PICK n : n = Rows(a) /\ n \in Nat /\ Recorded(a) = 1..n /\ Trail(a) = Prefix(a, n)
                 /\ Len(Prefix(a, n)) = n
    BY RowsLemma, PrefixLemma
  <2>2. PICK k \in 1..n : Trail(a)[k].node = "human_escalation" /\ given = Trail(a)[k].outcome
    BY <2>1 DEF Audit!AnswersIn
  <2>3. Trail(a)[k] = Row(a, k)
    BY <2>1 DEF Prefix
  <2> QED
    BY <2>1, <2>2, <2>3 DEF AnswersInv, Row
<1> QED
  BY <1>1, ReaderKeepsEngine, AnswersInvariant, PTL

-----------------------------------------------------------------------------
(* What a reviewer is asked.                                                *)

\* The ledger has come to a point where a human had to decide after so many
\* rejections.
Asked(a, round) ==
  \E n \in Recorded(a) : /\ Audit!Expected(Prefix(a, n)) = "human_escalation"
                         /\ Audit!Rejections(Prefix(a, n)) = round

AskedInv ==
  /\ \A a \in Assessments : interrupts[a].id > 0 => Asked(a, interrupts[a].conflict_round)
  /\ \A a \in Assessments : \A round \in shown[a].review : Asked(a, round)

\* From there on neither the count of rejections nor the need of a review changes
\* any more.
LEMMA AskedSettles ==
  ASSUME EngineInv, ReplayInv, NEW a \in Assessments, Walk(a), NEW round, Asked(a, round)
  PROVE  /\ round = Audit!Rejections(Trail(a))
         /\ \A d \in decisions[a] : d.reviewed_by_human
<1>1. PICK n \in Recorded(a) : /\ Audit!Expected(Prefix(a, n)) = "human_escalation"
                               /\ Audit!Rejections(Prefix(a, n)) = round
  BY DEF Asked
<1>2. /\ Audit!Rejections(Trail(a)) = round
      /\ Audit!Expected(Trail(a)) # "human_escalation" => Audit!AnswersIn(Trail(a)) # {}
  BY <1>1, AfterHuman
<1>3. ASSUME NEW d \in decisions[a] PROVE d.reviewed_by_human
  <2>1. PICK t : t = Trail(a) /\ t # <<>> /\ t[Len(t)].node = "finalize_decision"
    <3>1. PICK t : t = Trail(a)
      OBVIOUS
    <3>2. t # <<>> /\ t[Len(t)] = [node |-> "finalize_decision", outcome |-> d.verdict]
      BY <3>1, TrailExplains
    <3> QED
      BY <3>1, <3>2
  <2>2. Audit!Expected(Trail(a)) = "end"
    BY <2>1 DEF Audit!Expected
  <2>3. Audit!AnswersIn(Trail(a)) # {}
    BY <1>2, <2>2
  <2> QED
    BY <2>3 DEF ReplayInv, DecisionTable
<1> QED
  BY <1>2, <1>3

\* What was asked remains asked.
LEMMA AskedStays ==
  ASSUME EngineInv, ReplayInv, [Next]_vars, NEW a \in Assessments
  PROVE  \A round : Asked(a, round) => Asked(a, round)'
<1>1. PICK m \in Nat : Recorded(a) = 1..m
  BY RowsLemma
<1>2. \A k \in 1..m : k \in Recorded(a)' /\ audit_events'[a][k] = audit_events[a][k]
  BY <1>1, LedgerExtendsStep DEF LedgerExtends
<1>3. \A n \in 1..m : Prefix(a, n)' = Prefix(a, n)
  BY <1>1, <1>2, PrefixKept
<1> SUFFICES ASSUME NEW round, Asked(a, round) PROVE Asked(a, round)'
  OBVIOUS
<1>4. PICK n \in 1..m : /\ Audit!Expected(Prefix(a, n)) = "human_escalation"
                        /\ Audit!Rejections(Prefix(a, n)) = round
  BY <1>1 DEF Asked
<1>5. PICK t : t = Prefix(a, n) /\ t = Prefix(a, n)'
  BY <1>3
<1> QED
  BY <1>2, <1>4, <1>5 DEF Asked

\* interrupt() stores the dispute its node was sent to settle.
LEMMA InterruptsAsked ==
  ASSUME EngineInv, ReplayInv, ReaderTypes, AskedInv, [ReaderNext]_readerVars,
         NEW a \in Assessments, NEW i, i = interrupts'[a], i.id > 0
  PROVE  Asked(a, i.conflict_round)
<1>1. interrupts \in [Assessments -> Interrupt]
  BY DEF ReaderTypes
<1>2. CASE interrupts'[a] = interrupts[a]
  BY <1>2 DEF AskedInv
<1>3. CASE interrupts'[a] # interrupts[a]
  <2>1. PICK w \in Workers : /\ pc[w] = "interrupt" /\ interrupts' = Stored(w)
    BY <1>3
    DEF ReaderNext, readerVars, Submit, Resume, ResumeAccepted, Work, StoreInterrupt, TimePasses,
        GetFirstRow, GetTrace, GetSecondRow, GetReview, InterruptKept, Pausing
  <2>2. PICK c \in Assessments, s \in GraphState : c = Case(w) /\ s = state[w]
    BY <2>1, CaseLemma, PartsLemma DEF WorkerTypes
  <2>3. Replays(s, c) /\ s.next = "human_escalation"
    BY <2>1, <2>2 DEF ReplayInv, Working, InRun, InNode
  <2>4. c = a /\ i.conflict_round = s.conflict_round
    <3> DEFINE new == [id |-> s.id, conflict_round |-> s.conflict_round]
    <3>1. interrupts' = [interrupts EXCEPT ![c] = new]
      BY <2>1, <2>2 DEF Stored
    <3>2. new.conflict_round = s.conflict_round
      OBVIOUS
    <3> HIDE DEF new
    <3> QED
      BY <1>1, <1>3, <3>1, <3>2
  <2>5. s.event_seq # 0 /\ s.event_seq \in Recorded(c) /\ Summary(s, c)
    BY <2>3 DEF Replays, Fresh, Carried
  <2> QED
    BY <2>3, <2>4, <2>5 DEF Summary, Asked
<1> QED
  BY <1>2, <1>3

\* A response shows the review that is stored, or none, or goes on showing what
\* it showed.
LEMMA ReviewsAsked ==
  ASSUME EngineInv, ReaderTypes, AskedInv, [ReaderNext]_readerVars,
         NEW a \in Assessments, NEW round \in shown'[a].review
  PROVE  Asked(a, round)
<1>1. shown \in [Assessments -> Response] /\ interrupts \in [Assessments -> Interrupt]
  BY DEF ReaderTypes
<1>2. CASE shown'[a].review = shown[a].review
  BY <1>2 DEF AskedInv
<1>3. ASSUME NEW c \in Assessments, ReadsDecision(c), shown' # shown
      PROVE  shown'[a].review \subseteq shown[a].review
  <2> DEFINE r == [status |-> view.status, decision |-> decisions[c], review |-> {}, traced |-> FALSE]
  <2>1. shown' = [shown EXCEPT ![c] = r]
    BY <1>3 DEF ReadsDecision, Shows
  <2>2. r.review = {}
    OBVIOUS
  <2> HIDE DEF r
  <2> QED
    BY <1>1, <2>1, <2>2
<1>4. ASSUME NEW c \in Assessments, ReadsReview(c)
      PROVE  shown'[a].review = shown[a].review \/ (c = a /\ shown'[a].review = PendingReview(a))
  <2> DEFINE r == [status |-> view.status, decision |-> view.decision, review |-> PendingReview(c),
                   traced |-> FALSE]
  <2>1. shown' = [shown EXCEPT ![c] = r]
    BY <1>4 DEF ReadsReview, Shows
  <2>2. r.review = PendingReview(c)
    OBVIOUS
  <2> HIDE DEF r
  <2> QED
    BY <1>1, <2>1, <2>2
<1>5. ASSUME NEW c \in Assessments, ReadsTrace(c)
      PROVE  shown'[a].review = shown[a].review
  <2>1. PICK r \in Response : r = shown[c]
    BY <1>1
  <2>2. [r EXCEPT !.traced = TRUE].review = r.review
    BY DEF Response
  <2> QED
    BY <1>1, <1>5, <2>1, <2>2 DEF ReadsTrace
<1>6. round \in PendingReview(a) => Asked(a, round)
  <2>1. checkpoints[a].id \in Nat
    BY PartsLemma DEF CheckpointsInv, GraphState
  <2> QED
    BY <2>1 DEF PendingReview, AskedInv
<1> QED
  BY <1>2, <1>3, <1>4, <1>5, <1>6, ClientSteps DEF AskedInv, observer, ReadsRow

\* In every reachable state what the checkpointer holds for a reviewer, or a
\* client has been shown, is a dispute the walk has come to.
THEOREM AskedInvariant == ReaderSpec => []AskedInv
<1>1. ReaderInit => AskedInv
  <2>1. NoInterrupt.id = 0 /\ NoResponse.review = {}
    BY DEF NoInterrupt, NoResponse
  <2> QED
    BY <2>1 DEF ReaderInit, AskedInv
<1>2. (EngineInv /\ ReplayInv /\ CompletedHasDecision) /\ ReaderInv /\ AskedInv
        /\ [ReaderNext]_readerVars => AskedInv'
  <2> SUFFICES ASSUME EngineInv, ReplayInv, ReaderTypes, AskedInv, [ReaderNext]_readerVars
               PROVE  AskedInv'
    BY DEF ReaderInv
  <2>1. [Next]_vars
    BY ReaderStepIsEngineStep
  <2>2. ASSUME NEW a \in Assessments, interrupts'[a].id > 0
        PROVE  Asked(a, interrupts[a].conflict_round)'
    <3>1. PICK i : i = interrupts'[a]
      OBVIOUS
    <3>2. PICK round : round = i.conflict_round /\ Asked(a, round)
      BY <2>2, <3>1, InterruptsAsked
    <3>3. Asked(a, round)'
      BY <2>1, <3>2, AskedStays
    <3> QED
      BY <3>1, <3>2, <3>3 DEF Asked
  <2>3. ASSUME NEW a \in Assessments, NEW round \in shown'[a].review
        PROVE  Asked(a, round)'
    BY <2>1, <2>3, ReviewsAsked, AskedStays
  <2> QED
    BY <2>2, <2>3 DEF AskedInv
<1> QED
  BY <1>1, <1>2, ReaderKeepsEngine, ReaderInvariant, PTL DEF ReaderSpec

\* A review once shown is not bypassed: whatever is started, resumed, delivered
\* twice or crashed afterwards, the case gets no decision but one a human
\* reviewed, and the dispute shown is the one on record.
THEOREM ReviewIsHonoured == ReaderSpec => []ShownReviewIsHonoured
<1>1. EngineInv /\ ReplayInv /\ (\A a \in Assessments : Walk(a)) /\ AskedInv
        => ShownReviewIsHonoured
  BY AskedSettles DEF AskedInv, ShownReviewIsHonoured
<1> QED
  BY <1>1, ReaderRunsEngine, ReaderKeepsEngine, LedgerWalks, AskedInvariant, PTL

-----------------------------------------------------------------------------
(* What a case that waits shows, while nothing crashes.                     *)

\* The stored interrupt is that of the one checkpoint that has the case at the
\* human, and a case that waits has one, or will have when its run returns.
Kept(a) ==
  interrupts[a].id # 0 =>
    \E n \in Recorded(a) : /\ interrupts[a].id = n + 1
                           /\ Audit!Expected(Prefix(a, n)) = "human_escalation"

Promised(a) ==
  status[a] = "escalated" =>
    \/ interrupts[a].id # 0
    \/ Owed(a)
    \/ \E w \in Workers : On(w, a) /\ AtInterrupt(w)

KeptInv == crashes = 0 => \A a \in Assessments : Kept(a) /\ Promised(a)

\* An interrupt is stored for a case by a run of it that is at interrupt(), with
\* the number its checkpoint will have.
LEMMA InterruptKinds ==
  ASSUME EngineInv, ReaderTypes, [ReaderNext]_readerVars, NEW a \in Assessments,
         interrupts'[a] # interrupts[a]
  PROVE  \E w \in Workers : On(w, a) /\ AtInterrupt(w) /\ interrupts'[a].id = state[w].id
<1>1. interrupts \in [Assessments -> Interrupt]
  BY DEF ReaderTypes
<1>2. PICK w \in Workers : AtInterrupt(w) /\ interrupts' = Stored(w)
  BY DEF ReaderNext, readerVars, Submit, Resume, ResumeAccepted, Work, StoreInterrupt, TimePasses,
         GetFirstRow, GetTrace, GetSecondRow, GetReview, InterruptKept, Pausing, AtInterrupt
<1>3. PICK c \in Assessments, s \in GraphState : c = Case(w) /\ s = state[w]
  BY <1>2, CaseLemma, PartsLemma DEF WorkerTypes, AtInterrupt
<1> DEFINE new == [id |-> s.id, conflict_round |-> s.conflict_round]
<1>4. interrupts' = [interrupts EXCEPT ![c] = new]
  BY <1>2, <1>3 DEF Stored
<1>5. new.id = s.id
  OBVIOUS
<1> HIDE DEF new
<1> QED
  BY <1>1, <1>2, <1>3, <1>4, <1>5 DEF On, AtInterrupt

\* A run that is at interrupt() has seen the case come to the human.
LEMMA AtInterruptLemma ==
  ASSUME Sound, Calm, NEW a \in Assessments, NEW w \in Workers, On(w, a), AtInterrupt(w)
  PROVE  \E n \in Recorded(a) : /\ n \in Nat /\ state[w].id = n + 1
                                /\ Audit!Expected(Prefix(a, n)) = "human_escalation"
<1>1. PICK s : /\ s = state[w] /\ s.next = "human_escalation" /\ Replays(s, a)
               /\ Num(s, created[a])
  BY DEF AtInterrupt, InRun, InNode, Sound, ReplayInv, Working, On, Calm, NumberedRun
<1>2. s.event_seq \in Recorded(a) /\ s.next = Audit!Expected(Prefix(a, s.event_seq))
  BY <1>1, PastSupervisor DEF Sound
<1> QED
  BY <1>1, <1>2 DEF Num, Replays, GraphState

\* EscalationPauses returns with the interrupt stored.
LEMMA PauseStores ==
  ASSUME EngineInv, [ReaderNext]_readerVars, NEW w \in Workers, AtInterrupt(w), EscalationPauses(w)
  PROVE  interrupts' = Stored(w)
<1>1. WorkerTypes
  BY PartsLemma
<1>2. pc'[w] = "done" /\ pc'[w] # pc[w]
  BY <1>1 DEF EscalationPauses, EndRun, WorkerTypes, AtInterrupt
<1>3. PICK v \in Workers : Work(v)
  BY <1>2 DEF ReaderNext, readerVars, vars, workerVars, Submit, create_assessment, Resume,
              RequestResume, ResumeAccepted, AcceptResume, StoreInterrupt, TimePasses, JobAges,
              GetFirstRow, GetTrace, GetSecondRow, GetReview
<1>4. v = w
  BY <1>2, <1>3, OthersStill DEF Work, Persist, workerVars, Still
<1> QED
  BY <1>2, <1>3, <1>4 DEF Work, InterruptKept, Pausing, AtInterrupt

\* What is stored stays the interrupt of a walk that has come to the human.
LEMMA KeptStep ==
  ASSUME Sound, Calm, ReaderTypes, [ReaderNext]_readerVars, NEW a \in Assessments, Kept(a)
  PROVE  Kept(a)'
<1> SUFFICES ASSUME interrupts'[a].id # 0 PROVE Kept(a)'
  BY DEF Kept
<1>1. EngineInv /\ ReplayInv /\ [Next]_vars
  BY ReaderStepIsEngineStep DEF Sound
<1>2. PICK n \in Recorded(a) : /\ interrupts'[a].id = n + 1
                               /\ Audit!Expected(Prefix(a, n)) = "human_escalation"
  <2>1. CASE interrupts'[a] = interrupts[a]
    BY <2>1 DEF Kept
  <2>2. CASE interrupts'[a] # interrupts[a]
    <3>1. PICK w \in Workers : On(w, a) /\ AtInterrupt(w) /\ interrupts'[a].id = state[w].id
      BY <1>1, <2>2, InterruptKinds
    <3> QED
      BY <3>1, AtInterruptLemma
  <2> QED
    BY <2>1, <2>2
<1>3. LedgerExtends
  BY <1>1, LedgerExtendsStep
<1>4. n \in Recorded(a)' /\ n \in Nat /\ \A k \in 1..n : audit_events'[a][k] = audit_events[a][k]
  <2>1. PICK m \in Nat : Recorded(a) = 1..m
    BY <1>1, RowsLemma
  <2> QED
    BY <1>3, <2>1 DEF LedgerExtends
<1>5. Prefix(a, n)' = Prefix(a, n)
  BY <1>4, PrefixKept
<1> QED
  BY <1>2, <1>4, <1>5 DEF Kept

\* A run that returns from interrupt() has it stored; one that raises instead
\* owes its case the status "failed".
LEMMA PromisedStep ==
  ASSUME Sound, Calm, CalmStep, ReaderTypes, [ReaderNext]_readerVars,
         NEW a \in Assessments, Promised(a)
  PROVE  Promised(a)'
<1> DEFINE Paused == \E w \in Workers : On(w, a) /\ AtInterrupt(w)
<1> SUFFICES ASSUME status'[a] = "escalated", interrupts'[a].id = 0
             PROVE  Owed(a)' \/ Paused'
  BY DEF Promised
<1>1. EngineInv /\ ReplayInv /\ WorkerTypes /\ [Next]_vars /\ QueueGrows
  BY PartsLemma, QueueStep DEF Sound, CalmStep, EngineInv
<1>2. ASSUME NEW w \in Workers, On(w, a), EscalationStarts(w)
      PROVE  Owed(a)' \/ Paused'
  <2>1. CASE answer[w] # "none"
    BY <1>1, <1>2, <2>1, StartsOwe
  <2>2. CASE answer[w] = "none"
    <3>1. pc'[w] = "interrupt" /\ job'[w] = job[w] /\ answer'[w] = "none"
      BY <1>1, <1>2, <2>2 DEF EscalationStarts, WorkerTypes
    <3>2. Case(w)' = a
      BY <1>1, <1>2, <3>1, CaseKept DEF On
    <3>3. On(w, a)' /\ AtInterrupt(w)'
      BY <3>1, <3>2 DEF On, AtInterrupt
    <3> QED
      BY <3>3
  <2> QED
    BY <2>1, <2>2
<1>3. CASE status[a] # "escalated"
  <2>1. PICK w \in Workers : On(w, a) /\ EscalationStarts(w)
    BY <1>1, <1>3, StatusKinds, StatusWritten DEF On
  <2> QED
    BY <1>2, <2>1
<1>4. CASE Owed(a)
  <2>1. ASSUME NEW w \in Workers, On(w, a), Rests(w) PROVE Owed(a)' \/ Paused'
    BY <1>1, <1>2, <2>1, RestStatus
  <2> QED
    BY <1>1, <1>4, <2>1, OwedStep
<1>5. interrupts'[a] = interrupts[a]
  <2> SUFFICES ASSUME interrupts'[a] # interrupts[a] PROVE FALSE
    OBVIOUS
  <2>1. PICK w \in Workers : On(w, a) /\ AtInterrupt(w) /\ interrupts'[a].id = state[w].id
    BY <1>1, InterruptKinds
  <2>2. PICK n \in Nat : interrupts'[a].id = n + 1
    BY <2>1, AtInterruptLemma
  <2> QED
    BY <2>2
<1>6. ASSUME NEW w \in Workers, On(w, a), AtInterrupt(w)
      PROVE  Owed(a)' \/ Paused'
  <2>1. CASE Still(w)
    <3>1. On(w, a)' /\ AtInterrupt(w)'
      BY <1>1, <1>6, <2>1, CaseKept DEF On, AtInterrupt, Still
    <3> QED
      BY <3>1
  <2>2. CASE NodeRaises(w) \/ JobRaises(w)
    <3>1. pc'[w] = "failed" /\ job'[w] = job[w]
      BY <1>1, <2>2 DEF NodeRaises, JobRaises, EndRun, WorkerTypes
    <3>2. On(w, a)' /\ Owes(w)'
      BY <1>1, <1>6, <3>1, CaseKept DEF On, Owes
    <3> QED
      BY <3>2 DEF Owed
  <2>3. CASE EscalationPauses(w)
    <3>1. interrupts' = Stored(w)
      BY <1>1, <1>6, <2>3, PauseStores
    <3>2. PICK n \in Nat : state[w].id = n + 1
      BY <1>6, AtInterruptLemma
    <3>3. interrupts'[a].id = state[w].id
      BY <1>6, <3>1 DEF Stored, On, ReaderTypes
    <3> QED
      BY <3>2, <3>3
  <2> QED
    BY <1>1, <1>6, <2>1, <2>2, <2>3, AtInterruptKinds
<1> QED
  BY <1>3, <1>4, <1>5, <1>6 DEF Promised

\* In every reachable state before the first crash, provided no run is slow, what
\* the checkpointer holds for a reviewer is of the checkpoint at the human.
THEOREM KeptInvariant == ~SlowRuns /\ ReaderSpec => []KeptInv
<1> SUFFICES ASSUME ~SlowRuns PROVE ReaderSpec => []KeptInv
  OBVIOUS
<1>1. ReaderInit => KeptInv
  BY DEF ReaderInit, Init, CaseFileInit, NoInterrupt, KeptInv, Kept, Promised
<1>2. Sound /\ CalmInv /\ ReaderInv /\ KeptInv /\ [ReaderNext]_readerVars => KeptInv'
  <2> SUFFICES ASSUME Sound, CalmInv, ReaderTypes, KeptInv, [ReaderNext]_readerVars, crashes' = 0,
                      NEW a \in Assessments
               PROVE  Kept(a)' /\ Promised(a)'
    BY DEF ReaderInv, KeptInv
  <2>1. [Next]_vars /\ EngineInv
    BY ReaderStepIsEngineStep DEF Sound
  <2>2. crashes = 0 /\ \A w \in Workers : ~Crash(w)
    BY <2>1, CrashesCount
  <2>3. Calm /\ Kept(a) /\ Promised(a)
    BY <2>2 DEF CalmInv, KeptInv
  <2>4. CalmStep
    BY <2>1, <2>2, <2>3, NothingAges DEF CalmStep, Calm
  <2> QED
    BY <2>3, <2>4, KeptStep, PromisedStep
<1>3. EngineInv /\ ReplayInv /\ RunnerInv /\ (\A a \in Assessments : Walk(a)) => Sound
  BY DEF Sound
<1> QED
  BY <1>1, <1>2, <1>3, ReaderRunsEngine, ReaderKeepsEngine, RunnerInvariant, LedgerWalks,
     CalmInvariant, ReaderInvariant, PTL DEF ReaderSpec

\* As long as no worker has crashed and no run is slow, a case at rest in
\* "escalated" would be shown with its review: nobody is asked to decide on
\* nothing.
THEOREM WaitingCasesShowReviews == ~SlowRuns /\ ReaderSpec => []WaitingCaseShowsReview
<1> SUFFICES ASSUME ~SlowRuns PROVE ReaderSpec => []WaitingCaseShowsReview
  OBVIOUS
<1>1. Sound /\ CalmInv /\ KeptInv => WaitingCaseShowsReview
  <2> SUFFICES ASSUME Sound, CalmInv, KeptInv, crashes = 0, NEW a \in Assessments, Quiet(a),
                      status[a] = "escalated"
               PROVE  PendingReview(a) # {}
    BY DEF WaitingCaseShowsReview
  <2>1. \A w \in Workers : ~On(w, a)
    BY CaseLemma DEF Quiet, On, Sound, EngineInv, TypeOK, RunQueueTypeOK, Jobs
  <2>2. Calm /\ Kept(a) /\ interrupts[a].id # 0 /\ checkpoints[a].next = "human_escalation"
    BY <2>1 DEF CalmInv, KeptInv, Promised, Owed, StatusInv, Awaits
  <2>3. PICK n \in Recorded(a) : /\ interrupts[a].id = n + 1
                                 /\ Audit!Expected(Prefix(a, n)) = "human_escalation"
    BY <2>2 DEF Kept
  <2>4. PICK c : c = checkpoints[a] /\ c.next = "human_escalation"
    BY <2>2
  <2>5. /\ Num(c, created[a]) /\ c.event_seq \in Recorded(a)
        /\ Audit!Expected(Prefix(a, c.event_seq)) = "human_escalation"
    BY <2>2, <2>4, NumberedCheckpoint
  <2>6. PICK m : m = c.event_seq
    OBVIOUS
  <2>7. PICK r \in Nat : Recorded(a) = 1..r
    BY RowsLemma DEF Sound
  <2>8. m \in Recorded(a) /\ m \in Nat /\ n \in Nat
    BY <2>5, <2>6, <2>7
  <2>9. m = n
    <3>1. CASE n <= m
      BY <2>3, <2>5, <2>6, <2>8, <3>1, HumanBehind DEF Sound
    <3>2. CASE m <= n
      BY <2>3, <2>5, <2>6, <2>8, <3>2, HumanBehind DEF Sound
    <3> QED
      BY <2>8, <3>1, <3>2
  <2> QED
    BY <2>3, <2>4, <2>5, <2>6, <2>8, <2>9 DEF PendingReview, Num
<1>2. EngineInv /\ ReplayInv /\ RunnerInv /\ (\A a \in Assessments : Walk(a)) => Sound
  BY DEF Sound
<1> QED
  BY <1>1, <1>2, ReaderRunsEngine, ReaderKeepsEngine, RunnerInvariant, LedgerWalks, CalmInvariant,
     KeptInvariant, PTL
=============================================================================
