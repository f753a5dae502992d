---------------------------- MODULE LedgerProofs ----------------------------
(***************************************************************************)
(* Engine implements AuditTrail, and the checkpoints, the conflicts and    *)
(* the decisions agree with the ledger: for every set of cases, workers    *)
(* and requests, any number of crashes and any retry limit.                *)
(*                                                                         *)
(* None of these is inductive.  What a run does next comes from its copy   *)
(* of the state, of which there are many, old ones among them: in workers, *)
(* in checkpoints, and in the run a crash or a second resume leaves        *)
(* behind.  ReplayInv says that every copy is the summary of the prefix of *)
(* the ledger it was made from (Replays), and that a run half-way through  *)
(* a rejection, its row written and its conflict not yet closed, keeps     *)
(* every other run of the case from writing (OpenInv).                     *)
(***************************************************************************)
EXTENDS EngineProofs, FiniteSetTheorems

\* The rows of a case: their number, and the first n of them as an auditor reads
\* them.
Rows(a) == Cardinality(Recorded(a))

Row(a, k) == [node |-> audit_events[a][k].node, outcome |-> audit_events[a][k].outcome]

Prefix(a, n) == [k \in 1..n |-> Row(a, k)]

\* The row is a rejection.
Rejected(a, k) == Row(a, k) = [node |-> "risk_critic", outcome |-> "reject"]

\* A state past the supervisor: its channels say what the first event_seq rows
\* say, and it has a reviewer's answer only where there is but the end to come.
Summary(s, a) ==
  LET prefix == Prefix(a, s.event_seq)
  IN  /\ s.next = Audit!Expected(prefix)
      /\ s.conflict_round = Audit!Rejections(prefix)
      /\ Audit!AnswersIn(prefix) = (IF s.human_decision = "none" THEN {} ELSE {s.human_decision})
      /\ s.human_decision # "none" => s.next \in {"finalize_decision", "end"}

\* A state of a run that starts.  A start over an old checkpoint keeps the old
\* answer, but then the ledger is no longer empty, and the run will not get far.
Fresh(s, a) ==
  /\ s.next = "supervisor" /\ s.conflict_round = 0
  /\ s.human_decision # "none" => Recorded(a) # {}

Replays(s, a) ==
  /\ s \in GraphState
  /\ s.event_seq \in Carried(a)
  /\ IF s.event_seq = 0 THEN Fresh(s, a) ELSE Summary(s, a)
  /\ \A k \in 1..s.event_seq : Rejected(a, k) => Indexed(a, k)

\* A worker inside a run: where it is within a node is a place in that node.
Working(w) ==
  pc[w] \in InRun =>
    /\ Replays(state[w], Case(w))
    /\ pc[w] = "log" => \/ state[w].next = "supervisor"
                        \/ state[w].next = "human_escalation" /\ answer[w] # "none"
    /\ pc[w] = "interrupt" => state[w].next = "human_escalation"

\* Between the row of a rejection and the resolution of its conflict.
Open(w) == pc[w] \in {"conflict", "resolve"}

OpenInv(w) ==
  Open(w) =>
    LET a     == Case(w)
        round == state[w].conflict_round + 1
    IN  /\ state[w].next = "risk_critic"
        /\ Recorded(a) = 1..(state[w].event_seq + 1)
        /\ Rejected(a, state[w].event_seq + 1)
        /\ pc[w] = "conflict" => \A c \in conflicts[a] : c.event # state[w].event_seq + 1
        /\ pc[w] = "resolve" =>
             [event |-> state[w].event_seq + 1, round |-> round, resolution |-> "pending"]
               \in conflicts[a]
        /\ \A v \in Workers : Open(v) /\ Case(v) = a => v = w

\* The conflicts table against the rejections of the ledger.
ConflictTable(a) ==
  /\ \A c \in conflicts[a] :
       /\ c.event \in Recorded(a) /\ Rejected(a, c.event)
       /\ c.round = Audit!Rejections(Prefix(a, c.event))
       /\ \A d \in conflicts[a] : d.event = c.event => d = c
  /\ \A k \in Recorded(a) : Rejected(a, k) /\ k + 1 \in Recorded(a) => Indexed(a, k)

\* A decision against the last row of the ledger.
DecisionTable(a) ==
  /\ \A k \in Recorded(a) :
       audit_events[a][k].node = "finalize_decision" => k = Rows(a) /\ decisions[a] # {}
  /\ \A d \in decisions[a] :
       /\ Rows(a) > 0
       /\ Row(a, Rows(a)) = [node |-> "finalize_decision", outcome |-> d.verdict]
       /\ d.reviewed_by_human <=> Audit!AnswersIn(Trail(a)) # {}
       /\ d.conflict_rounds = Audit!Rejections(Trail(a))

ReplayInv ==
  /\ \A a \in Assessments : Replays(checkpoints[a], a) /\ ConflictTable(a) /\ DecisionTable(a)
  /\ \A w \in Workers : Working(w) /\ OpenInv(w)

USE RetriesAssumption, EngineAssumption

-----------------------------------------------------------------------------
(* Trails, whatever they are trails of.                                     *)

TrailRow == [node : Nodes, outcome : Outcome]

\* AuditTrail counts as Engine does.
LEMMA SameCardinality == \A S : Audit!Cardinality(S) = Cardinality(S)
BY DEF Audit!Cardinality, Cardinality

\* One more row is one more rejection, or none.
LEMMA RejectionsAppend ==
  ASSUME NEW t \in Seq(TrailRow), NEW row \in TrailRow
  PROVE  /\ Audit!Rejections(t) \in Nat
         /\ Audit!Rejections(Append(t, row)) =
              Audit!Rejections(t) + (IF row.node = "risk_critic" /\ row.outcome = "reject"
                                     THEN 1 ELSE 0)
<1> DEFINE rejected(u) == {k \in 1..Len(u) : u[k].node = "risk_critic" /\ u[k].outcome = "reject"}
           n == Len(t)
           longer == Append(t, row)
<1>1. /\ n \in Nat /\ Len(longer) = n + 1
      /\ longer[n + 1] = row /\ \A k \in 1..n : longer[k] = t[k]
  OBVIOUS
<1>2. IsFiniteSet(rejected(t)) /\ Cardinality(rejected(t)) \in Nat
  <2>1. IsFiniteSet(1..n) /\ rejected(t) \in SUBSET (1..n)
    BY <1>1, FS_Interval
  <2>2. IsFiniteSet(rejected(t))
    BY <2>1, FS_Subset
  <2> QED
    BY <2>2, FS_CardinalityType
<1>3. /\ Audit!Rejections(t) = Cardinality(rejected(t))
      /\ Audit!Rejections(longer) = Cardinality(rejected(longer))
  BY SameCardinality DEF Audit!Rejections
<1> HIDE DEF longer
<1>4. CASE row.node = "risk_critic" /\ row.outcome = "reject"
  <2>1. rejected(longer) = rejected(t) \cup {n + 1} /\ n + 1 \notin rejected(t)
    BY <1>1, <1>4
  <2>2. Cardinality(rejected(longer)) = Cardinality(rejected(t)) + 1
    BY <1>2, <2>1, FS_AddElement
  <2> QED
    <3> HIDE DEF rejected
    <3>1. /\ Audit!Rejections(t) \in Nat
          /\ Audit!Rejections(longer) = Audit!Rejections(t) + 1
      BY <1>2, <1>3, <2>2
    <3> QED
      BY <1>4, <3>1 DEF longer
<1>5. CASE ~(row.node = "risk_critic" /\ row.outcome = "reject")
  <2>1. rejected(longer) = rejected(t)
    BY <1>1, <1>5
  <2>2. Cardinality(rejected(longer)) = Cardinality(rejected(t))
    BY <2>1
  <2> HIDE DEF rejected
  <2>3. Audit!Rejections(t) \in Nat /\ Audit!Rejections(longer) = Audit!Rejections(t)
    BY <1>2, <1>3, <2>2
  <2>4. Audit!Rejections(longer) = Audit!Rejections(t) + 0
    BY <2>3
  <2> QED
    BY <1>5, <2>3, <2>4 DEF longer
<1> QED
  BY <1>4, <1>5

\* One more row is one more answer, or none.
LEMMA AnswersAppend ==
  ASSUME NEW t \in Seq(TrailRow), NEW row \in TrailRow
  PROVE  Audit!AnswersIn(Append(t, row)) =
           Audit!AnswersIn(t) \cup (IF row.node = "human_escalation" THEN {row.outcome} ELSE {})
<1> DEFINE n == Len(t)
           longer == Append(t, row)
<1>1. /\ n \in Nat /\ Len(longer) = n + 1
      /\ longer[n + 1] = row /\ \A k \in 1..n : longer[k] = t[k]
  OBVIOUS
<1> HIDE DEF longer, n
<1>2. Audit!AnswersIn(longer) =
        {longer[k].outcome : k \in {i \in 1..(n + 1) : longer[i].node = "human_escalation"}}
  BY <1>1 DEF Audit!AnswersIn
<1>3. Audit!AnswersIn(t) = {t[k].outcome : k \in {i \in 1..n : t[i].node = "human_escalation"}}
  BY DEF Audit!AnswersIn, n
<1>4. 1..(n + 1) = (1..n) \cup {n + 1}
  BY <1>1
<1> QED
  BY <1>1, <1>2, <1>3, <1>4 DEF longer

\* The node after a row follows from the row and the count of rejections.
LEMMA ExpectedAppend ==
  ASSUME NEW t \in Seq(TrailRow), NEW row \in TrailRow,
         row.node = "risk_critic" => row.outcome \in Verdicts
  PROVE  Audit!Expected(Append(t, row)) =
           IF row.node = "risk_critic"
           THEN route_after_risk_critic(row.outcome, Audit!Rejections(Append(t, row)))
           ELSE EdgeAfter[row.node]
<1> DEFINE longer == Append(t, row)
<1>1. longer # <<>> /\ longer[Len(longer)] = row
  OBVIOUS
<1>2. row.node \in Nodes
  BY DEF TrailRow
<1> HIDE DEF longer
<1>3. Audit!Rejections(longer) \in Int
  BY RejectionsAppend DEF longer
<1> QED
  BY <1>1, <1>2, <1>3
  DEF Audit!Expected, Audit!AfterCritic, route_after_risk_critic, EdgeAfter, Nodes, Verdicts, longer

-----------------------------------------------------------------------------
(* Prefixes of the trail of a case.                                         *)

\* A prefix is a trail; a longer one has one row appended.
LEMMA PrefixLemma ==
  ASSUME NEW a, NEW n \in Nat, \A k \in 1..n : Row(a, k) \in TrailRow
  PROVE  /\ Prefix(a, n) \in Seq(TrailRow)
         /\ Len(Prefix(a, n)) = n
         /\ n > 0 => Prefix(a, n) = Append(Prefix(a, n - 1), Row(a, n))
<1>1. Prefix(a, n) \in Seq(TrailRow) /\ Len(Prefix(a, n)) = n
  <2>1. Prefix(a, n) \in [1..n -> TrailRow]
    BY DEF Prefix
  <2> QED
    BY <2>1, SeqDef
<1>2. CASE n > 0
  <2>1. Prefix(a, n - 1) \in [1..(n - 1) -> TrailRow] /\ n - 1 \in Nat
    BY <1>2 DEF Prefix
  <2>2. Prefix(a, n - 1) \in Seq(TrailRow) /\ Len(Prefix(a, n - 1)) = n - 1
    BY <2>1, SeqDef
  <2> DEFINE longer == Append(Prefix(a, n - 1), Row(a, n))
  <2>3. longer \in Seq(TrailRow) /\ Len(longer) = n
    BY <1>2, <2>2
  <2>4. \A k \in 1..n : longer[k] = Prefix(a, n)[k]
    BY <1>2, <2>2 DEF Prefix
  <2> HIDE DEF longer
  <2>5. longer = Prefix(a, n)
    BY <1>1, <2>3, <2>4, SeqEqual
  <2> QED
    BY <1>1, <2>5 DEF longer
<1> QED
  BY <1>1, <1>2

\* The rows of a case are 1..Rows(a), and its trail is the prefix of that length.
LEMMA RowsLemma ==
  ASSUME EngineInv, NEW a \in Assessments
  PROVE  /\ Rows(a) \in Nat
         /\ Recorded(a) = 1..Rows(a)
         /\ Trail(a) = Prefix(a, Rows(a))
         /\ \A k \in 1..Rows(a) : Row(a, k) \in TrailRow
<1>1. PICK n \in Nat : Recorded(a) = 1..n
  BY DEF EngineInv, SeqInv, Chained
<1>2. Rows(a) = n
  BY <1>1, FS_Interval DEF Rows
<1>3. \A k \in 1..n : audit_events[a][k] \in Event
  BY <1>1 DEF EngineInv, TypeOK, LedgerTypeOK, Recorded
<1>4. \A k \in 1..n : Row(a, k) \in TrailRow
  BY <1>3 DEF Row, TrailRow, Event, Outcome
<1>5. Trail(a) = Prefix(a, n)
  BY <1>2 DEF Trail, Prefix, Row, Rows
<1> QED
  BY <1>1, <1>2, <1>4, <1>5

\* A prefix is what an auditor sees who stops reading early.
LEMMA SubTrail ==
  ASSUME EngineInv, NEW a \in Assessments, NEW k \in Recorded(a)
  PROVE  SubSeq(Trail(a), 1, k) = Prefix(a, k)
<1>1. k \in 1..Rows(a) /\ Rows(a) \in Nat
  BY RowsLemma
<1>2. /\ Trail(a) = Prefix(a, Rows(a)) /\ \A i \in 1..Rows(a) : Row(a, i) \in TrailRow
  BY RowsLemma
<1>3. Trail(a) \in Seq(TrailRow) /\ Len(Trail(a)) = Rows(a)
  BY <1>1, <1>2, PrefixLemma
<1>4. SubSeq(Trail(a), 1, k) = [i \in 1..k |-> Trail(a)[i]]
  BY <1>1, <1>3
<1>5. \A i \in 1..k : Trail(a)[i] = Row(a, i)
  BY <1>1, <1>2 DEF Prefix
<1> QED
  BY <1>4, <1>5 DEF Prefix

\* What an insert through _log does to the rows of the cases: the worker's
\* event_seq is the number of rows, and the case has one more.
LEMMA LogEffect ==
  ASSUME EngineInv, NEW w \in Workers, pc[w] \in InRun,
         NEW c \in Assessments, c = Case(w), NEW n, n = state[w].event_seq,
         NEW node \in Nodes, NEW outcome \in Outcome, Log(w, node, outcome)
  PROVE  /\ n \in Nat /\ n = Rows(c)
         /\ Recorded(c)' = 1..(n + 1) /\ Rows(c)' = n + 1
         /\ \A k \in 1..n : audit_events'[c][k] = audit_events[c][k]
         /\ Row(c, n + 1)' = [node |-> node, outcome |-> outcome]
         /\ \A b \in Assessments : b # c => audit_events'[b] = audit_events[b]
<1>1. PICK seq \in Nat : seq = n /\ seq \in Carried(c)
  BY DEF EngineInv, TypeOK, SeqInv, GraphState
<1>2. PICK m \in Nat : Recorded(c) = 1..m /\ \A k \in 1..m : audit_events[c][k].prev = k - 1
  BY DEF EngineInv, SeqInv, Chained
<1>3. DOMAIN audit_events = Assessments
  BY DEF EngineInv, TypeOK, LedgerTypeOK
<1>4. PICK type \in EventTypes :
        /\ n = m
        /\ Recorded(c)' = 1..(n + 1)
        /\ \A k \in 1..n : audit_events'[c][k] = audit_events[c][k]
        /\ audit_events'[c][n + 1] =
             [prev |-> n, event_type |-> type, node |-> node, outcome |-> outcome]
        /\ \A b \in Assessments : b # c => audit_events'[b] = audit_events[b]
  <2>1. PICK type \in EventTypes : RecordEvent(c, seq + 1, type, node, outcome)
    BY <1>1 DEF Log, NextSeq, EventTypeOf, EventTypes, Nodes
  <2>2. RecordEvent(c, seq + 1, type, node, outcome)
    BY <2>1
  <2>3. Recorded(c) = 1..m /\ (\A k \in 1..m : audit_events[c][k].prev = k - 1) /\ seq \in Carried(c)
    BY <1>1, <1>2
  <2>4. /\ seq = m
        /\ Recorded(c)' = 1..(m + 1)
        /\ \A k \in 1..m : audit_events'[c][k] = audit_events[c][k]
        /\ audit_events'[c][m + 1] =
             [prev |-> m, event_type |-> type, node |-> node, outcome |-> outcome]
        /\ \A b \in Assessments : b # c => audit_events'[b] = audit_events[b]
    BY <1>3, <2>2, <2>3, RecordExtendsChain
  <2> QED
    BY <1>1, <2>4
<1>5. Rows(c) = n
  BY <1>2, <1>4, FS_Interval DEF Rows
<1>6. Rows(c)' = n + 1
  <2>1. PICK k \in Nat : k = n + 1 /\ k > 0
    BY <1>1
  <2>2. Cardinality(1..k) = k
    BY <2>1, FS_Interval
  <2> QED
    BY <1>4, <2>1, <2>2 DEF Rows
<1> QED
  BY <1>1, <1>4, <1>5, <1>6 DEF Row

\* A prefix of recorded rows never changes.
LEMMA PrefixKept ==
  ASSUME NEW a, NEW n \in Nat, \A k \in 1..n : audit_events'[a][k] = audit_events[a][k]
  PROVE  Prefix(a, n)' = Prefix(a, n) /\ \A k \in 1..n : Row(a, k)' = Row(a, k)
BY DEF Prefix, Row

\* The trail of the case grows by the row, the other trails stay.
LEMMA TrailEffect ==
  ASSUME EngineInv, NEW w \in Workers, pc[w] \in InRun,
         NEW c \in Assessments, c = Case(w),
         NEW node \in Nodes, NEW outcome \in Outcome, Log(w, node, outcome)
  PROVE  /\ Trail(c) \in Seq(TrailRow) /\ [node |-> node, outcome |-> outcome] \in TrailRow
         /\ Trail(c)' = Append(Trail(c), [node |-> node, outcome |-> outcome])
         /\ \A b \in Assessments : b # c => Trail(b)' = Trail(b)
<1> DEFINE row == [node |-> node, outcome |-> outcome]
<1>1. PICK n : n = state[w].event_seq
  OBVIOUS
<1>2. /\ n \in Nat /\ n = Rows(c)
      /\ Recorded(c)' = 1..(n + 1) /\ Rows(c)' = n + 1
      /\ \A k \in 1..n : audit_events'[c][k] = audit_events[c][k]
      /\ Row(c, n + 1)' = row
      /\ \A b \in Assessments : b # c => audit_events'[b] = audit_events[b]
  BY <1>1, LogEffect
<1>3. row \in TrailRow
  BY DEF TrailRow
<1>4. \A k \in 1..n : Row(c, k) \in TrailRow
  BY <1>2, RowsLemma
<1>5. Prefix(c, n) \in Seq(TrailRow) /\ Len(Prefix(c, n)) = n /\ Trail(c) = Prefix(c, n)
  BY <1>2, <1>4, PrefixLemma, RowsLemma
<1> HIDE DEF row
<1>6. Trail(c)' = Append(Prefix(c, n), row)
  <2> DEFINE longer == Append(Prefix(c, n), row)
  <2>1. \A k \in 1..(n + 1) : Row(c, k)' = longer[k]
    <3>1. \A k \in 1..n : Row(c, k)' = Prefix(c, n)[k]
      BY <1>2, PrefixKept DEF Prefix
    <3> QED
      BY <1>2, <1>3, <1>5, <3>1
  <2>2. longer = [k \in 1..(n + 1) |-> longer[k]]
    <3>1. longer \in Seq(TrailRow) /\ Len(longer) = n + 1
      BY <1>2, <1>3, <1>5
    <3> HIDE DEF longer
    <3> QED
      BY <3>1, LenProperties
  <2>3. Trail(c)' = [k \in 1..(n + 1) |-> Row(c, k)']
    BY <1>2 DEF Trail, Rows, Row
  <2> HIDE DEF longer
  <2>4. Trail(c)' = longer
    BY <2>1, <2>2, <2>3
  <2> QED
    BY <2>4 DEF longer
<1>7. \A b \in Assessments : b # c => Trail(b)' = Trail(b)
  BY <1>2 DEF Trail, Recorded
<1> QED
  BY <1>3, <1>5, <1>6, <1>7 DEF row

-----------------------------------------------------------------------------
(* What a state says stays true while the ledger grows.                     *)

\* Rows are kept as they are, and what is indexed stays so.
LedgerExtends ==
  \A a \in Assessments :
    /\ \A k \in Recorded(a) : k \in Recorded(a)' /\ audit_events'[a][k] = audit_events[a][k]
    /\ \A k \in Recorded(a) : Indexed(a, k) => Indexed(a, k)'

\* A summary of a prefix is not outdated by later rows.
LEMMA ReplaysKept ==
  ASSUME EngineInv, LedgerExtends, NEW a \in Assessments, NEW s, Replays(s, a)
  PROVE  Replays(s, a)'
<1>1. PICK n \in Nat : n = s.event_seq /\ s \in GraphState /\ n \in Carried(a)
  BY DEF Replays, GraphState
<1>2. /\ Recorded(a) \subseteq Recorded(a)'
      /\ \A k \in Recorded(a) : audit_events'[a][k] = audit_events[a][k]
  BY DEF LedgerExtends
<1>3. s.event_seq \in Carried(a)'
  BY <1>1, <1>2 DEF Carried
<1>4. 1..n \subseteq Recorded(a)
  BY <1>1, RowsLemma DEF Carried
<1>5. Prefix(a, n)' = Prefix(a, n) /\ \A k \in 1..n : Row(a, k)' = Row(a, k)
  BY <1>2, <1>4, PrefixKept
<1>6. \A k \in 1..s.event_seq : Rejected(a, k)' => Indexed(a, k)'
  BY <1>1, <1>4, <1>5 DEF Replays, LedgerExtends, Rejected
<1>7. CASE n = 0
  BY <1>1, <1>2, <1>3, <1>6, <1>7 DEF Replays, Fresh
<1>8. CASE n # 0
  BY <1>1, <1>3, <1>5, <1>6, <1>8 DEF Replays, Summary
<1> QED
  BY <1>7, <1>8

\* A state the ledger agrees with, the first of a run included, as long as that
\* one has no answer from an earlier run.
LEMMA SummaryOfPrefix ==
  ASSUME EngineInv, NEW a \in Assessments, NEW s, Replays(s, a),
         s.event_seq = 0 => s.human_decision = "none"
  PROVE  Summary(s, a)
<1>1. CASE s.event_seq = 0
  <2>1. Prefix(a, 0) = <<>>
    BY DEF Prefix
  <2>2. /\ Audit!Expected(<<>>) = "supervisor"
        /\ Audit!AnswersIn(<<>>) = {}
    BY DEF Audit!Expected, Audit!AnswersIn
  <2>3. Audit!Rejections(<<>>) = 0
    <3> DEFINE none == {k \in 1..Len(<<>>) : <<>>[k].node = "risk_critic" /\ <<>>[k].outcome = "reject"}
    <3>1. none = {}
      OBVIOUS
    <3>2. Audit!Rejections(<<>>) = Cardinality(none)
      BY SameCardinality DEF Audit!Rejections
    <3> QED
      BY <3>1, <3>2, FS_EmptySet
  <2> QED
    BY <1>1, <2>1, <2>2, <2>3 DEF Replays, Fresh, Summary
<1>2. CASE s.event_seq # 0
  BY <1>2 DEF Replays
<1> QED
  BY <1>1, <1>2

\* What a node returns once its row is written: the counters, the answer and the
\* next node that go with the row.
Follows(u, s, outcome) ==
  /\ u \in GraphState
  /\ u.event_seq = s.event_seq + 1
  /\ u.conflict_round = s.conflict_round + (IF s.next = "risk_critic" /\ outcome = "reject"
                                            THEN 1 ELSE 0)
  /\ u.next = (IF s.next = "risk_critic" THEN route_after_risk_critic(outcome, u.conflict_round)
               ELSE EdgeAfter[s.next])
  /\ u.human_decision = (IF s.next = "human_escalation" THEN outcome ELSE s.human_decision)

\* The state a node returns summarises the ledger with its row.
LEMMA FollowsReplays ==
  ASSUME EngineInv, LedgerExtends, NEW c \in Assessments, NEW s, Replays(s, c),
         s.event_seq = 0 => s.human_decision = "none", s.next \in Nodes,
         NEW n \in Nat, n = s.event_seq, n + 1 \in Recorded(c)', Recorded(c)' \subseteq Nat,
         NEW outcome \in Outcome,
         Row(c, n + 1)' = [node |-> s.next, outcome |-> outcome],
         s.next = "risk_critic" => outcome \in Verdicts,
         s.next = "human_escalation" => outcome \in Answers,
         NEW u, Follows(u, s, outcome),
         s.next = "risk_critic" /\ outcome = "reject" => Indexed(c, n + 1)'
  PROVE  Replays(u, c)'
<1> DEFINE row == [node |-> s.next, outcome |-> outcome]
           longer == Append(Prefix(c, n), row)
<1>1. Summary(s, c)
  BY SummaryOfPrefix
<1>2. 1..n \subseteq Recorded(c)
  BY RowsLemma DEF Replays, Carried
<1>3. /\ row \in TrailRow
      /\ \A k \in 1..n : Row(c, k) \in TrailRow
      /\ Prefix(c, n) \in Seq(TrailRow) /\ Len(Prefix(c, n)) = n
  BY <1>2, RowsLemma, PrefixLemma DEF TrailRow
<1>4. Prefix(c, n + 1)' = longer
  <2>1. /\ Prefix(c, n + 1)' = [k \in 1..(n + 1) |-> Row(c, k)']
        /\ \A k \in 1..n : Row(c, k)' = Row(c, k)
    BY <1>2 DEF Prefix, Row, LedgerExtends
  <2>2. longer \in Seq(TrailRow) /\ Len(longer) = n + 1
    BY <1>3
  <2>3. \A k \in 1..(n + 1) : longer[k] = Row(c, k)'
    BY <1>3, <2>1 DEF Prefix
  <2> HIDE DEF longer
  <2>4. longer = [k \in 1..(n + 1) |-> longer[k]]
    BY <2>2, LenProperties
  <2> QED
    BY <2>1, <2>3, <2>4
<1>5. /\ s.conflict_round = Audit!Rejections(Prefix(c, n))
      /\ s.next = Audit!Expected(Prefix(c, n))
      /\ Audit!AnswersIn(Prefix(c, n)) = (IF s.human_decision = "none" THEN {} ELSE {s.human_decision})
      /\ s.human_decision # "none" => s.next \in {"finalize_decision", "end"}
  BY <1>1 DEF Summary
<1>6. /\ row.node = s.next /\ row.outcome = outcome
      /\ u \in GraphState /\ u.event_seq = n + 1
  BY DEF Follows
<1> HIDE DEF row, longer
<1>7. u.conflict_round = Audit!Rejections(longer)
  BY <1>3, <1>5, <1>6, RejectionsAppend DEF longer, Follows
<1>8. u.next = Audit!Expected(longer)
  BY <1>3, <1>6, <1>7, ExpectedAppend DEF longer, Follows
<1>9. /\ Audit!AnswersIn(longer) = (IF u.human_decision = "none" THEN {} ELSE {u.human_decision})
      /\ u.human_decision # "none" => u.next \in {"finalize_decision", "end"}
  <2>1. Audit!AnswersIn(longer) = Audit!AnswersIn(Prefix(c, n)) \cup
          (IF s.next = "human_escalation" THEN {outcome} ELSE {})
    BY <1>3, <1>6, AnswersAppend DEF longer
  <2> QED
    BY <1>5, <2>1 DEF Follows, EdgeAfter, Answers, Nodes
<1>10. \A k \in 1..u.event_seq : Rejected(c, k)' => Indexed(c, k)'
  <2>1. ASSUME NEW k \in 1..n, Rejected(c, k)' PROVE Indexed(c, k)'
    <3>1. Row(c, k)' = Row(c, k)
      BY <1>2, <2>1 DEF Row, LedgerExtends
    <3> QED
      BY <1>2, <2>1, <3>1 DEF Rejected, Replays, LedgerExtends
  <2>2. Rejected(c, n + 1)' => Indexed(c, n + 1)'
    BY DEF Rejected
  <2> QED
    BY <1>6, <2>1, <2>2
<1>11. u.event_seq \in Carried(c)' /\ u.event_seq # 0
  BY <1>6 DEF Carried
<1> QED
  BY <1>4, <1>6, <1>7, <1>8, <1>9, <1>10, <1>11 DEF Replays, Summary

-----------------------------------------------------------------------------
(* What kinds of steps there are.                                           *)

\* The three tables are written by _log and by the two conflict statements, and
\* by nothing else.
LEMMA LedgerKinds ==
  ASSUME [Next]_vars
  PROVE  \/ \E w \in Workers : Logging(w) /\ UNCHANGED conflicts
         \/ \E w \in Workers : CriticOpensConflict(w) \/ CriticResolves(w)
         \/ UNCHANGED ledger
<1>1. ASSUME NEW w \in Workers, Logging(w)
      PROVE  UNCHANGED conflicts
  BY <1>1 DEF Logging, SupervisorLogs, data_engineer_node, financial_analyst_node, CriticPasses,
              CriticRejects, EscalationLogs, finalize_decision_node
<1>2. CASE ~ \E w \in Workers : Logging(w) \/ CriticOpensConflict(w) \/ CriticResolves(w)
  BY <1>2
  DEF Next, vars, ledger, create_assessment, RequestResume, AcceptResume, WorkerStep, Persist,
      Crash, JobAges, Reclaim, ClaimOneJob, InvokeStart, InvokeResume, MarkDone, JobRaises,
      MarkJobFailed, MarkCaseFailed, RunStep, Logging, SupervisorStarts, EscalationStarts,
      EscalationPauses, EscalationResumes, GraphEnds, SeqTaken, NodeRaises
<1> QED
  BY <1>1, <1>2

\* The row j of the queue asks for what it asked for.
SameJob(j) ==
  /\ j \in Jobs
  /\ run_queue'[j].kind = run_queue[j].kind
  /\ run_queue'[j].payload = run_queue[j].payload
  /\ run_queue'[j].assessment = run_queue[j].assessment

\* What a step may have done to the status of a row it found.
Reclaimed(j) ==
  /\ \E w \in Workers : Reclaim(w)
  /\ ~run_queue[j].stale => run_queue'[j] = run_queue[j]
Claimed(j) ==
  \E w \in Workers : /\ ClaimOneJob(w) /\ job'[w] = j
                     /\ run_queue[j].status = "queued"
                     /\ run_queue'[j].status = "claimed" /\ ~run_queue'[j].stale
Settled(j) ==
  \E w \in Workers : /\ MarkDone(w) \/ MarkJobFailed(w)
                     /\ job[w] = j
                     /\ run_queue'[j].status \in {"done", "failed"}
                     /\ run_queue'[j].stale = run_queue[j].stale

\* A row of the queue keeps what it asks for; new ones come from the two handlers.
LEMMA JobKinds ==
  ASSUME EngineInv, [Next]_vars, NEW j \in Jobs'
  PROVE  \/ /\ SameJob(j)
            /\ \/ run_queue'[j] = run_queue[j]
               \/ Reclaimed(j) \/ Claimed(j) \/ Settled(j)
               \/ \E i \in Jobs : JobAges(i)
         \/ \E a \in Assessments : /\ create_assessment(a) /\ j \notin Jobs
                                   /\ run_queue'[j].kind = "start"
                                   /\ run_queue'[j].assessment = a
                                   /\ run_queue'[j].status = "queued" /\ ~run_queue'[j].stale
         \/ \E q \in Requests : /\ AcceptResume(q) /\ j \notin Jobs
                                /\ run_queue'[j].kind = "resume"
                                /\ run_queue'[j].assessment = request[q].assessment
                                /\ run_queue'[j].payload = request[q].decision
                                /\ run_queue'[j].status = "queued" /\ ~run_queue'[j].stale
<1>1. run_queue \in Seq(Job)
  BY DEF EngineInv, TypeOK, RunQueueTypeOK
<1>2. PICK n \in Nat : Jobs = 1..n /\ run_queue \in [1..n -> Job]
  BY <1>1, SeqDef DEF Jobs
<1>3. ASSUME NEW r \in Job, NEW to, NEW old
      PROVE  /\ [r EXCEPT !.status = to, !.stale = old].kind = r.kind
             /\ [r EXCEPT !.status = to, !.stale = old].payload = r.payload
             /\ [r EXCEPT !.status = to, !.stale = old].assessment = r.assessment
             /\ [r EXCEPT !.status = to, !.stale = old].status = to
             /\ [r EXCEPT !.status = to, !.stale = old].stale = old
             /\ [r EXCEPT !.status = to].kind = r.kind
             /\ [r EXCEPT !.status = to].payload = r.payload
             /\ [r EXCEPT !.status = to].assessment = r.assessment
             /\ [r EXCEPT !.status = to].status = to
             /\ [r EXCEPT !.status = to].stale = r.stale
             /\ [r EXCEPT !.stale = old].kind = r.kind
             /\ [r EXCEPT !.stale = old].payload = r.payload
             /\ [r EXCEPT !.stale = old].assessment = r.assessment
  BY DEF Job
<1>4. ASSUME NEW a, NEW kind, NEW payload, Enqueue(a, kind, payload)
      PROVE  \/ SameJob(j) /\ run_queue'[j] = run_queue[j]
             \/ /\ run_queue'[j].kind = kind /\ run_queue'[j].assessment = a /\ j \notin Jobs
                /\ run_queue'[j].payload = payload
                /\ run_queue'[j].status = "queued" /\ ~run_queue'[j].stale
  <2> DEFINE row == [assessment |-> a, kind |-> kind, payload |-> payload,
                     status |-> "queued", stale |-> FALSE]
  <2>1. run_queue' = Append(run_queue, row)
    BY <1>4 DEF Enqueue
  <2>2. /\ row.kind = kind /\ row.assessment = a /\ row.payload = payload
        /\ row.status = "queued" /\ ~row.stale
    OBVIOUS
  <2> HIDE DEF row
  <2>3. /\ DOMAIN run_queue' = 1..(n + 1) /\ run_queue'[n + 1] = row
        /\ \A i \in 1..n : run_queue'[i] = run_queue[i]
    BY <1>1, <1>2, <2>1 DEF Jobs
  <2>4. CASE j \in 1..n
    BY <1>2, <2>3, <2>4 DEF Jobs, SameJob
  <2>5. CASE j = n + 1
    BY <1>2, <2>2, <2>3, <2>5 DEF Jobs
  <2> QED
    BY <2>3, <2>4, <2>5 DEF Jobs
<1>5. ASSUME NEW i, NEW r, run_queue' = [run_queue EXCEPT ![i] = r],
             i \in Jobs => r.kind = run_queue[i].kind /\ r.payload = run_queue[i].payload
                           /\ r.assessment = run_queue[i].assessment
      PROVE  SameJob(j) /\ run_queue'[j] = (IF j = i THEN r ELSE run_queue[j])
  <2>1. j \in Jobs
    BY <1>2, <1>5 DEF Jobs
  <2> QED
    BY <1>2, <1>5, <2>1 DEF SameJob
<1>6. CASE \E a \in Assessments : create_assessment(a)
  BY <1>4, <1>6 DEF create_assessment
<1>7. CASE \E q \in Requests : AcceptResume(q)
  <2>1. PICK q \in Requests :
          AcceptResume(q) /\ Enqueue(request[q].assessment, "resume", request[q].decision)
    BY <1>7 DEF AcceptResume
  <2> QED
    BY <1>4, <2>1
<1>8. CASE \E w \in Workers : Reclaim(w)
  <2>1. run_queue' = [i \in Jobs |->
          IF run_queue[i].status = "claimed" /\ run_queue[i].stale
          THEN [run_queue[i] EXCEPT !.status = "queued", !.stale = FALSE]
          ELSE run_queue[i]]
    BY <1>8 DEF Reclaim, ReclaimStale
  <2>2. j \in Jobs
    BY <2>1 DEF Jobs
  <2>3. PICK r \in Job : r = run_queue[j]
    BY <1>2, <2>2
  <2> DEFINE u == [r EXCEPT !.status = "queued", !.stale = FALSE]
  <2>4. u.kind = r.kind /\ u.payload = r.payload /\ u.assessment = r.assessment
    BY <1>3
  <2>5. (run_queue'[j] = u /\ run_queue[j].stale) \/ run_queue'[j] = r
    BY <2>1, <2>2, <2>3
  <2> HIDE DEF u
  <2> QED
    BY <1>8, <2>2, <2>3, <2>4, <2>5 DEF SameJob, Reclaimed
<1>9. CASE \E w \in Workers : ClaimOneJob(w)
  <2>1. PICK w \in Workers, i \in Jobs : ClaimOneJob(w) /\ Claim(i) /\ job' = [job EXCEPT ![w] = i]
    BY <1>9 DEF ClaimOneJob
  <2>2. run_queue' = [run_queue EXCEPT ![i] = [run_queue[i] EXCEPT !.status = "claimed", !.stale = FALSE]]
    BY <1>2, <2>1 DEF Claim
  <2>3. PICK r \in Job : r = run_queue[i]
    BY <1>2
  <2> DEFINE u == [r EXCEPT !.status = "claimed", !.stale = FALSE]
  <2>4. /\ u.kind = r.kind /\ u.payload = r.payload /\ u.assessment = r.assessment
        /\ u.status = "claimed" /\ ~u.stale
    BY <1>3
  <2>5. run_queue' = [run_queue EXCEPT ![i] = u]
    BY <2>2, <2>3
  <2> HIDE DEF u
  <2>6. SameJob(j) /\ run_queue'[j] = (IF j = i THEN u ELSE run_queue[j])
    BY <1>5, <2>3, <2>4, <2>5
  <2>7. job'[w] = i /\ run_queue[i].status = "queued"
    BY <2>1 DEF Claim, EngineInv, TypeOK
  <2>8. j = i => Claimed(j)
    BY <2>1, <2>4, <2>6, <2>7 DEF Claimed
  <2> QED
    BY <2>6, <2>8
<1>10. CASE \E w \in Workers : MarkDone(w) \/ MarkJobFailed(w)
  <2>1. PICK w \in Workers, outcome \in {"done", "failed"} :
          /\ MarkDone(w) \/ MarkJobFailed(w)
          /\ run_queue' = [run_queue EXCEPT ![job[w]] = [run_queue[job[w]] EXCEPT !.status = outcome]]
    BY <1>10 DEF MarkDone, MarkJobFailed, Settle
  <2>2. PICK i \in Jobs, r \in Job : i = job[w] /\ r = run_queue[i]
    BY <1>2, <2>1 DEF EngineInv, TypeOK, MarkDone, MarkJobFailed
  <2> DEFINE u == [r EXCEPT !.status = outcome]
  <2>3. /\ u.kind = r.kind /\ u.payload = r.payload /\ u.assessment = r.assessment
        /\ u.status = outcome /\ u.stale = r.stale
    BY <1>3
  <2>4. run_queue' = [run_queue EXCEPT ![i] = u]
    BY <2>1, <2>2
  <2> HIDE DEF u
  <2>5. /\ u.kind = run_queue[i].kind /\ u.payload = run_queue[i].payload
        /\ u.assessment = run_queue[i].assessment
    BY <2>2, <2>3
  <2>6. SameJob(j) /\ run_queue'[j] = (IF j = i THEN u ELSE run_queue[j])
    BY <1>5, <2>4, <2>5
  <2>7. j = i => Settled(j)
    BY <2>1, <2>2, <2>3, <2>6 DEF Settled
  <2> QED
    BY <2>6, <2>7
<1>11. CASE \E i \in Jobs : JobAges(i)
  <2>1. PICK i \in Jobs : run_queue' = [run_queue EXCEPT ![i] = [run_queue[i] EXCEPT !.stale = TRUE]]
    BY <1>11 DEF JobAges, ClaimAges
  <2>2. PICK r \in Job : r = run_queue[i]
    BY <1>2
  <2> DEFINE u == [r EXCEPT !.stale = TRUE]
  <2>3. u.kind = r.kind /\ u.payload = r.payload /\ u.assessment = r.assessment
    BY <1>3
  <2>4. run_queue' = [run_queue EXCEPT ![i] = u]
    BY <2>1, <2>2
  <2> HIDE DEF u
  <2>5. SameJob(j)
    BY <1>5, <2>2, <2>3, <2>4
  <2> QED
    BY <1>11, <2>5
<1>12. CASE \/ \E q \in Requests : RequestResume(q)
            \/ \E w \in Workers : \/ RunStep(w) \/ Persist(w) \/ Crash(w)
                                  \/ InvokeStart(w) \/ InvokeResume(w) \/ MarkCaseFailed(w)
                                  \/ JobRaises(w)
            \/ UNCHANGED vars
  <2>1. UNCHANGED run_queue
    BY <1>12 DEF RequestResume, RunStep, Persist, Crash, InvokeStart, InvokeResume,
         MarkCaseFailed, JobRaises, vars, SupervisorStarts, SupervisorLogs, data_engineer_node,
         financial_analyst_node, CriticPasses, CriticRejects, CriticOpensConflict,
         CriticResolves, EscalationStarts, EscalationPauses, EscalationResumes,
         EscalationLogs, finalize_decision_node, GraphEnds, SeqTaken, NodeRaises
  <2> QED
    BY <2>1 DEF SameJob, Jobs
<1> QED
  BY <1>6, <1>7, <1>8, <1>9, <1>10, <1>11, <1>12 DEF Next, WorkerStep

\* Checkpoints are written by the background write of a run and by nothing else.
LEMMA CheckpointKinds ==
  ASSUME [Next]_vars
  PROVE  \/ UNCHANGED checkpoints
         \/ \E w \in Workers : pc[w] \in InRun /\ checkpoints' = Saved(w)
<1>1. CASE \E w \in Workers : \/ GraphEnds(w) \/ EscalationPauses(w) \/ SeqTaken(w)
                              \/ NodeRaises(w) \/ Persist(w)
  BY <1>1 DEF GraphEnds, EscalationPauses, SeqTaken, NodeRaises, Persist, AtInsert, At, EndRun,
              InRun, InNode
<1>2. ASSUME NEW w \in Workers,
             \/ SupervisorStarts(w) \/ SupervisorLogs(w) \/ data_engineer_node(w)
             \/ financial_analyst_node(w) \/ CriticPasses(w) \/ CriticRejects(w)
             \/ CriticOpensConflict(w) \/ CriticResolves(w) \/ EscalationStarts(w)
             \/ EscalationResumes(w) \/ EscalationLogs(w) \/ finalize_decision_node(w)
      PROVE  UNCHANGED checkpoints
  BY <1>2
  DEF SupervisorLogs, data_engineer_node, financial_analyst_node, CriticPasses, CriticRejects,
      CriticOpensConflict, CriticResolves, EscalationLogs, finalize_decision_node,
      SupervisorStarts, EscalationStarts, EscalationResumes, CompleteNode
<1>3. ASSUME NEW w \in Workers,
             \/ Crash(w) \/ Reclaim(w) \/ ClaimOneJob(w) \/ InvokeStart(w)
             \/ InvokeResume(w) \/ MarkDone(w) \/ JobRaises(w) \/ MarkJobFailed(w) \/ MarkCaseFailed(w)
      PROVE  UNCHANGED checkpoints
  BY <1>3
  DEF Crash, Reclaim, ClaimOneJob, InvokeStart, InvokeResume, MarkDone, JobRaises, MarkJobFailed,
      MarkCaseFailed
<1>4. ASSUME \/ \E a \in Assessments : create_assessment(a)
             \/ \E q \in Requests : RequestResume(q) \/ AcceptResume(q)
             \/ \E j \in Jobs : JobAges(j)
             \/ UNCHANGED vars
      PROVE  UNCHANGED checkpoints
  BY <1>4 DEF create_assessment, RequestResume, AcceptResume, JobAges, vars
<1>5. CASE \E w \in Workers : RunStep(w)
  BY <1>1, <1>2, <1>5 DEF RunStep
<1> QED
  BY <1>1, <1>3, <1>4, <1>5 DEF Next, WorkerStep

\* The UPDATE that resolves a conflict, in full: the one row about the rejection
\* gets the resolution of its round, all others stay.
LEMMA ResolveEffect ==
  ASSUME EngineInv, ReplayInv, NEW w \in Workers, CriticResolves(w)
  PROVE  \E c \in Assessments, open \in Conflict, closed \in Conflict :
           /\ c = Case(w) /\ open \in conflicts[c]
           /\ open.event = NextSeq(w) /\ open.round = NewRound(w)
           /\ closed.event = open.event /\ closed.round = open.round
           /\ closed.resolution = ConflictResolution(open.round)
           /\ \A d \in conflicts[c] : d.event = open.event => d = open
           /\ conflicts' = [conflicts EXCEPT ![c] = (@ \ {open}) \cup {closed}]
<1>1. pc[w] = "resolve" /\ pc[w] # "poll" /\ Open(w)
  BY DEF CriticResolves, Open
<1>2. PICK c \in Assessments, n \in Nat, round \in Nat :
        c = Case(w) /\ n = NextSeq(w) /\ round = NewRound(w)
  BY <1>1, CaseLemma, PartsLemma DEF WorkerTypes, GraphState, NextSeq, NewRound
<1>3. conflicts \in [Assessments -> SUBSET Conflict]
  BY DEF EngineInv, TypeOK, LedgerTypeOK
<1>4. PICK open \in conflicts[c] : open = [event |-> n, round |-> round, resolution |-> "pending"]
  BY <1>1, <1>2 DEF ReplayInv, OpenInv, NextSeq, NewRound
<1>5. PICK r \in {"retried", "escalated_to_human"} :
        r = ConflictResolution(round) /\ resolve_conflict(c, n, r)
  BY <1>2 DEF CriticResolves, ConflictResolution
<1>6. PICK closed \in Conflict : closed = [event |-> n, round |-> round, resolution |-> r]
  BY DEF Conflict
<1>7. \A d \in conflicts[c] : d.event = n => d = open
  BY <1>4 DEF ReplayInv, ConflictTable
<1>8. [open EXCEPT !.resolution = r] = closed
  BY <1>4, <1>6
<1>9. {IF d.event = n THEN [d EXCEPT !.resolution = r] ELSE d : d \in conflicts[c]}
        = (conflicts[c] \ {open}) \cup {closed}
  <2>1. open.event = n
    BY <1>4
  <2> QED
    BY <1>4, <1>7, <1>8, <2>1
<1>10. conflicts' = [conflicts EXCEPT ![c] = (@ \ {open}) \cup {closed}]
  BY <1>3, <1>5, <1>9 DEF resolve_conflict
<1> QED
  BY <1>2, <1>3, <1>4, <1>5, <1>6, <1>7, <1>10

\* It takes no dispute out of the index.
LEMMA ResolveKeepsIndexed ==
  ASSUME EngineInv, ReplayInv, NEW w \in Workers, CriticResolves(w),
         NEW a \in Assessments, NEW k, Indexed(a, k)
  PROVE  Indexed(a, k)'
<1>1. PICK c \in Assessments, open \in Conflict, closed \in Conflict :
        /\ closed.event = open.event /\ closed.round = open.round
        /\ closed.resolution = ConflictResolution(open.round)
        /\ conflicts' = [conflicts EXCEPT ![c] = (@ \ {open}) \cup {closed}]
  BY ResolveEffect
<1>2. PICK d \in conflicts[a] : d.event = k /\ d.resolution = ConflictResolution(d.round)
  BY DEF Indexed
<1>3. DOMAIN conflicts = Assessments
  BY DEF EngineInv, TypeOK, LedgerTypeOK
<1>4. CASE a # c \/ d # open
  <2>1. d \in conflicts'[a]
    BY <1>1, <1>2, <1>3, <1>4
  <2> QED
    BY <1>2, <2>1 DEF Indexed
<1>5. CASE a = c /\ d = open
  <2>1. closed \in conflicts'[a]
    BY <1>1, <1>3, <1>5
  <2> QED
    BY <1>1, <1>2, <1>5, <2>1 DEF Indexed
<1> QED
  BY <1>4, <1>5

\* Rows and indexed disputes stay, whoever takes the step.
LEMMA LedgerExtendsStep ==
  ASSUME EngineInv, ReplayInv, [Next]_vars
  PROVE  LedgerExtends
<1>1. CASE \E w \in Workers : Logging(w) /\ UNCHANGED conflicts
  <2>1. PICK w \in Workers : Logging(w) /\ UNCHANGED conflicts
    BY <1>1
  <2>2. PICK node \in Nodes, outcome \in Outcome : pc[w] \in InRun /\ Log(w, node, outcome)
    BY <2>1, LoggingLemma DEF InRun, InNode
  <2>3. PICK c \in Assessments, n \in Nat : c = Case(w) /\ n = state[w].event_seq
    BY <2>2, CaseLemma, PartsLemma DEF WorkerTypes, GraphState, InRun, InNode
  <2>4. /\ n \in Nat /\ n = Rows(c)
        /\ Recorded(c)' = 1..(n + 1) /\ Rows(c)' = n + 1
        /\ \A k \in 1..n : audit_events'[c][k] = audit_events[c][k]
        /\ Row(c, n + 1)' = [node |-> node, outcome |-> outcome]
        /\ \A b \in Assessments : b # c => audit_events'[b] = audit_events[b]
    BY <2>2, <2>3, LogEffect
  <2>5. Recorded(c) = 1..n
    BY <2>4, RowsLemma
  <2>6. \A k \in Recorded(c) : k \in Recorded(c)' /\ audit_events'[c][k] = audit_events[c][k]
    BY <2>4, <2>5
  <2>7. \A b \in Assessments : b # c =>
          \A k \in Recorded(b) : k \in Recorded(b)' /\ audit_events'[b][k] = audit_events[b][k]
    BY <2>4 DEF Recorded
  <2> QED
    BY <2>1, <2>6, <2>7 DEF LedgerExtends, Indexed
<1>2. CASE \E w \in Workers : CriticOpensConflict(w)
  <2>1. PICK w \in Workers : /\ UNCHANGED audit_events
                             /\ record_conflict(Case(w), NextSeq(w), NewRound(w))
    BY <1>2 DEF CriticOpensConflict
  <2>2. conflicts \in [Assessments -> SUBSET Conflict]
    BY DEF EngineInv, TypeOK, LedgerTypeOK
  <2>3. \A a \in Assessments : conflicts[a] \subseteq conflicts'[a]
    BY <2>1, <2>2 DEF record_conflict
  <2> QED
    BY <2>1, <2>3 DEF LedgerExtends, Indexed, Recorded
<1>3. CASE \E w \in Workers : CriticResolves(w)
  <2>1. PICK w \in Workers : CriticResolves(w)
    BY <1>3
  <2>2. ASSUME NEW a \in Assessments, NEW k, Indexed(a, k)
        PROVE  Indexed(a, k)'
    BY <2>1, <2>2, ResolveKeepsIndexed
  <2> QED
    BY <2>1, <2>2 DEF CriticResolves, LedgerExtends, Recorded
<1>4. CASE UNCHANGED ledger
  BY <1>4 DEF ledger, LedgerExtends, Indexed, Recorded
<1> QED
  BY <1>1, <1>2, <1>3, <1>4, LedgerKinds

\* A worker that keeps its job keeps its case.
LEMMA CaseKept ==
  ASSUME EngineInv, QueueGrows, NEW w \in Workers, pc[w] # "poll", job'[w] = job[w]
  PROVE  Case(w)' = Case(w)
BY CaseLemma DEF QueueGrows, Case

-----------------------------------------------------------------------------
(* The checkpoints.                                                         *)

\* What is saved is a state some worker holds, so the checkpoints stay summaries.
LEMMA CheckpointsReplay ==
  ASSUME EngineInv, ReplayInv, [Next]_vars, NEW a \in Assessments
  PROVE  Replays(checkpoints[a], a)'
<1>1. LedgerExtends /\ checkpoints \in [Assessments -> GraphState]
  BY LedgerExtendsStep DEF EngineInv, TypeOK
<1>2. PICK s : s = checkpoints'[a] /\ Replays(s, a)
  <2>1. CASE checkpoints'[a] = checkpoints[a]
    BY <2>1 DEF ReplayInv
  <2>2. CASE checkpoints'[a] # checkpoints[a]
    <3>1. PICK w \in Workers : pc[w] \in InRun /\ checkpoints' = Saved(w)
      BY <2>2, CheckpointKinds
    <3>2. Case(w) = a /\ checkpoints'[a] = state[w]
      BY <1>1, <2>2, <3>1 DEF Saved
    <3> QED
      BY <3>1, <3>2 DEF ReplayInv, Working
  <2> QED
    BY <2>1, <2>2
<1>3. Replays(s, a)'
  BY <1>1, <1>2, ReplaysKept
<1> QED
  BY <1>2, <1>3

-----------------------------------------------------------------------------
(* The workers.                                                             *)

\* What a worker has in its hands does not change.
Still(w) == pc'[w] = pc[w] /\ job'[w] = job[w] /\ state'[w] = state[w] /\ answer'[w] = answer[w]

\* A worker that takes no step goes on summarising a prefix of its case's ledger.
LEMMA StillWorking ==
  ASSUME EngineInv, QueueGrows, LedgerExtends, NEW w \in Workers, Working(w), Still(w)
  PROVE  Working(w)'
<1>1. CASE pc[w] \notin InRun
  BY <1>1 DEF Still, Working, InRun, InNode
<1>2. CASE pc[w] \in InRun
  <2>1. PICK c \in Assessments, s \in GraphState : c = Case(w) /\ s = state[w]
    BY <1>2, CaseLemma, PartsLemma DEF WorkerTypes, InRun, InNode
  <2>2. Case(w)' = c /\ state'[w] = s
    BY <1>2, <2>1, CaseKept DEF Still, InRun, InNode
  <2>3. Replays(s, c)'
    BY <1>2, <2>1, ReplaysKept DEF Working
  <2> QED
    BY <1>2, <2>1, <2>2, <2>3 DEF Still, Working
<1> QED
  BY <1>1, <1>2

\* The state after InvokeStart replays the empty prefix, whatever was saved.
LEMMA StartReplays ==
  ASSUME EngineInv, NEW c \in Assessments, Replays(checkpoints[c], c), NEW id \in Nat,
         NEW s, s = [checkpoints[c] EXCEPT !.id = id, !.next = "supervisor",
                                           !.event_seq = 0, !.conflict_round = 0]
  PROVE  Replays(s, c)
<1>1. PICK k : k = checkpoints[c] /\ k \in GraphState
  BY DEF Replays
<1>2. /\ s \in GraphState /\ s.event_seq = 0 /\ s.conflict_round = 0
      /\ s.next = "supervisor" /\ s.human_decision = k.human_decision
  BY <1>1 DEF GraphState, Positions, Nodes
<1>3. k.human_decision # "none" => Recorded(c) # {}
  BY <1>1 DEF Replays, Fresh, Summary, Carried, GraphState
<1> QED
  BY <1>2, <1>3 DEF Replays, Fresh, Carried

\* The node a worker is at, the row it writes, and the state it returns: for the
\* nodes whose row is their last statement.
LEMMA NodeFollows ==
  ASSUME EngineInv, NEW w \in Workers, Working(w), Logging(w), ~CriticRejects(w)
  PROVE  \E outcome \in Outcome, u \in GraphState :
           /\ Log(w, state[w].next, outcome)
           /\ state[w].next \in Nodes
           /\ state[w].next = "risk_critic" => outcome \in {"approve", "escalate"}
           /\ state[w].next = "human_escalation" => outcome \in Answers
           /\ Follows(u, state[w], outcome)
           /\ state' = [state EXCEPT ![w] = u] /\ pc' = [pc EXCEPT ![w] = "node"]
           /\ UNCHANGED job
<1> DEFINE Goal == \E outcome \in Outcome, u \in GraphState :
                     /\ Log(w, state[w].next, outcome)
                     /\ state[w].next \in Nodes
                     /\ state[w].next = "risk_critic" => outcome \in {"approve", "escalate"}
                     /\ state[w].next = "human_escalation" => outcome \in Answers
                     /\ Follows(u, state[w], outcome)
                     /\ state' = [state EXCEPT ![w] = u] /\ pc' = [pc EXCEPT ![w] = "node"]
                     /\ UNCHANGED job
<1> SUFFICES Goal
  OBVIOUS
<1>1. PICK s \in GraphState : s = state[w]
  BY PartsLemma DEF WorkerTypes
<1>2. pc[w] \in {"node", "log"} /\ pc[w] \in InRun /\ Case(w) \in Assessments
  BY LoggingLemma, CaseLemma DEF InRun, InNode
<1>3. PICK id \in Nat : id = created[Case(w)] + 1
  BY <1>2, PartsLemma DEF CheckpointsInv
<1>4. ASSUME NEW outcome \in Outcome, NEW update, Follows(update, s, outcome),
             Log(w, s.next, outcome), s.next \in Nodes,
             s.next = "risk_critic" => outcome \in {"approve", "escalate"},
             s.next = "human_escalation" => outcome \in Answers,
             CompleteNode(w, update)
      PROVE  Goal
  <2>1. PICK u : u = [update EXCEPT !.id = id]
    OBVIOUS
  <2>2. Follows(u, s, outcome)
    BY <1>4, <2>1 DEF Follows, GraphState
  <2>3. state' = [state EXCEPT ![w] = u] /\ pc' = [pc EXCEPT ![w] = "node"] /\ UNCHANGED job
    BY <1>3, <1>4, <2>1 DEF CompleteNode
  <2>4. u \in GraphState
    BY <2>2 DEF Follows
  <2> QED
    BY <1>1, <1>4, <2>2, <2>3, <2>4
<1>5. ASSUME NEW to \in Positions
      PROVE  /\ Returned(w, to) \in GraphState
             /\ Returned(w, to).next = to
             /\ Returned(w, to).event_seq = s.event_seq + 1
             /\ Returned(w, to).conflict_round = s.conflict_round
             /\ Returned(w, to).human_decision = s.human_decision
  <2>1. Returned(w, to) \in GraphState /\ Returned(w, to).event_seq = s.event_seq + 1
    BY <1>1, ReturnedLemma DEF Verdicts
  <2>2. Returned(w, to) = [s EXCEPT !.next = to, !.event_seq = @ + 1]
    BY <1>1 DEF Returned
  <2>3. ASSUME NEW seq
        PROVE  LET r == [s EXCEPT !.next = to, !.event_seq = seq]
               IN  /\ r.next = to /\ r.conflict_round = s.conflict_round
                   /\ r.human_decision = s.human_decision
    BY DEF GraphState
  <2> QED
    BY <2>1, <2>2, <2>3
<1> HIDE DEF Goal
<1>6. CASE SupervisorLogs(w)
  <2>1. /\ s.next = "supervisor" /\ Log(w, s.next, "none")
        /\ CompleteNode(w, Returned(w, "data_engineer"))
    BY <1>1, <1>6 DEF SupervisorLogs, EdgeAfter
  <2>2. Follows(Returned(w, "data_engineer"), s, "none")
    BY <1>5, <2>1 DEF Follows, EdgeAfter, Positions, Nodes, GraphState
  <2> QED
    BY <1>4, <2>1, <2>2 DEF Outcome, Nodes
<1>7. CASE data_engineer_node(w)
  <2>1. /\ s.next = "data_engineer" /\ Log(w, s.next, "none")
        /\ CompleteNode(w, Returned(w, "financial_analyst"))
    BY <1>1, <1>7 DEF data_engineer_node, At, EdgeAfter
  <2>2. Follows(Returned(w, "financial_analyst"), s, "none")
    BY <1>5, <2>1 DEF Follows, EdgeAfter, Positions, Nodes, GraphState
  <2> QED
    BY <1>4, <2>1, <2>2 DEF Outcome, Nodes
<1>8. CASE financial_analyst_node(w)
  <2>1. /\ s.next = "financial_analyst" /\ Log(w, s.next, "none")
        /\ CompleteNode(w, Returned(w, "risk_critic"))
    BY <1>1, <1>8 DEF financial_analyst_node, At, EdgeAfter
  <2>2. Follows(Returned(w, "risk_critic"), s, "none")
    BY <1>5, <2>1 DEF Follows, EdgeAfter, Positions, Nodes, GraphState
  <2> QED
    BY <1>4, <2>1, <2>2 DEF Outcome, Nodes
<1>9. CASE CriticPasses(w)
  <2>1. PICK verdict \in {"approve", "escalate"}, to \in Positions :
          /\ s.next = "risk_critic" /\ Log(w, s.next, verdict)
          /\ to = route_after_risk_critic(verdict, s.conflict_round)
          /\ CompleteNode(w, [Returned(w, to) EXCEPT !.verdict = verdict])
    BY <1>1, <1>9, RoutedLemma DEF CriticPasses, At
  <2>2. Follows([Returned(w, to) EXCEPT !.verdict = verdict], s, verdict)
    BY <1>5, <2>1 DEF Follows, GraphState, Verdicts
  <2> QED
    BY <1>4, <2>1, <2>2 DEF Outcome, Verdicts, Nodes
<1>10. CASE EscalationLogs(w)
  <2>1. /\ s.next = "human_escalation" /\ Log(w, s.next, answer[w])
        /\ CompleteNode(w, [Returned(w, "finalize_decision") EXCEPT !.human_decision = answer[w]])
    BY <1>1, <1>10 DEF EscalationLogs, EdgeAfter
  <2>2. answer[w] \in Answers
    BY <1>1, <1>2, <1>10, <2>1, PartsLemma DEF Working, WorkerTypes, EscalationLogs
  <2>3. Follows([Returned(w, "finalize_decision") EXCEPT !.human_decision = answer[w]], s, answer[w])
    BY <1>5, <2>1, <2>2 DEF Follows, EdgeAfter, Positions, Nodes, GraphState
  <2> QED
    BY <1>4, <2>1, <2>2, <2>3 DEF Outcome, Nodes
<1>11. CASE finalize_decision_node(w)
  <2>1. PICK verdict \in PublishedVerdicts :
          /\ s.next = "finalize_decision" /\ Log(w, s.next, verdict)
          /\ CompleteNode(w, Returned(w, "end"))
    BY <1>1, <1>11 DEF finalize_decision_node, At, EdgeAfter, PublishedVerdict, PublishedVerdicts
  <2>2. Follows(Returned(w, "end"), s, verdict)
    BY <1>5, <2>1 DEF Follows, EdgeAfter, Positions, Nodes, GraphState
  <2> QED
    BY <1>4, <2>1, <2>2 DEF Outcome, Nodes
<1> QED
  BY <1>6, <1>7, <1>8, <1>9, <1>10, <1>11 DEF Logging

\* What a worker does moves no other worker.
LEMMA OthersStill ==
  ASSUME EngineInv, NEW w \in Workers, WorkerStep(w) \/ Crash(w)
  PROVE  \A v \in Workers \ {w} : Still(v)
<1>1. WorkerTypes
  BY PartsLemma
<1>2. ASSUME Idle(w)
      PROVE  \A v \in Workers \ {w} : Still(v)
  BY <1>1, <1>2 DEF Idle, Still, WorkerTypes
<1>3. ASSUME NEW update, CompleteNode(w, update)
      PROVE  \A v \in Workers \ {w} : Still(v)
  BY <1>1, <1>3 DEF CompleteNode, Still, WorkerTypes
<1>4. ASSUME NEW to, pc' = [pc EXCEPT ![w] = to], UNCHANGED <<job, state, answer>>
      PROVE  \A v \in Workers \ {w} : Still(v)
  BY <1>1, <1>4 DEF Still, WorkerTypes
<1>5. ASSUME ClaimOneJob(w) \/ InvokeStart(w) \/ InvokeResume(w)
      PROVE  \A v \in Workers \ {w} : Still(v)
  <2>1. CASE ClaimOneJob(w)
    <3>1. PICK j : job' = [job EXCEPT ![w] = j] /\ pc' = [pc EXCEPT ![w] = "invoke"] /\ UNCHANGED <<state, answer>>
      BY <2>1 DEF ClaimOneJob
    <3> QED
      BY <1>1, <3>1 DEF Still, WorkerTypes
  <2>2. CASE InvokeStart(w)
    <3>1. PICK s : state' = [state EXCEPT ![w] = s] /\ pc' = [pc EXCEPT ![w] = "node"] /\ UNCHANGED <<job, answer>>
      BY <2>2 DEF InvokeStart
    <3> QED
      BY <1>1, <3>1 DEF Still, WorkerTypes
  <2>3. CASE InvokeResume(w)
    <3>1. PICK s, r, to : /\ state' = [state EXCEPT ![w] = s] /\ pc' = [pc EXCEPT ![w] = to]
                          /\ answer' = [answer EXCEPT ![w] = r] /\ UNCHANGED job
      BY <2>3 DEF InvokeResume
    <3> QED
      BY <1>1, <3>1 DEF Still, WorkerTypes
  <2> QED
    BY <1>5, <2>1, <2>2, <2>3
<1>6. CASE ~UNCHANGED workerVars
  <2>1. CASE MarkDone(w) \/ MarkCaseFailed(w) \/ Crash(w)
    BY <1>2, <2>1 DEF MarkDone, MarkCaseFailed, Crash
  <2>2. CASE \/ SupervisorLogs(w) \/ data_engineer_node(w) \/ financial_analyst_node(w)
             \/ CriticPasses(w) \/ CriticResolves(w) \/ EscalationLogs(w) \/ finalize_decision_node(w)
    BY <1>3, <2>2 DEF SupervisorLogs, data_engineer_node, financial_analyst_node, CriticPasses,
                      CriticResolves, EscalationLogs, finalize_decision_node
  <2>3. CASE \/ SupervisorStarts(w) \/ CriticRejects(w) \/ CriticOpensConflict(w)
             \/ EscalationStarts(w) \/ EscalationResumes(w) \/ EscalationPauses(w)
             \/ GraphEnds(w) \/ SeqTaken(w) \/ NodeRaises(w) \/ JobRaises(w) \/ MarkJobFailed(w)
    BY <1>4, <2>3 DEF SupervisorStarts, CriticRejects, CriticOpensConflict, EscalationStarts,
                      EscalationResumes, EscalationPauses, GraphEnds, SeqTaken, NodeRaises,
                      JobRaises, MarkJobFailed, EndRun
  <2>4. ~Reclaim(w)
    BY <1>6 DEF Reclaim
  <2> QED
    BY <1>5, <1>6, <2>1, <2>2, <2>3, <2>4 DEF WorkerStep, RunStep
<1>7. CASE UNCHANGED workerVars
  BY <1>7 DEF workerVars, Still
<1> QED
  BY <1>6, <1>7

\* A step moves one worker, or none.
LEMMA OneActor ==
  ASSUME EngineInv, [Next]_vars
  PROVE  \/ UNCHANGED workerVars
         \/ \E w \in Workers : /\ WorkerStep(w) \/ Crash(w)
                               /\ \A v \in Workers \ {w} : Still(v)
<1>1. CASE \E w \in Workers : WorkerStep(w) \/ Crash(w)
  BY <1>1, OthersStill
<1>2. CASE ~ \E w \in Workers : WorkerStep(w) \/ Crash(w)
  BY <1>2 DEF Next, vars, create_assessment, RequestResume, AcceptResume, Persist, JobAges
<1> QED
  BY <1>1, <1>2

\* Only a worker that invokes a resume job comes by an answer; it loses it with
\* the node that returns, or with the job.
LEMMA AnswerKinds ==
  ASSUME EngineInv, [Next]_vars, NEW w \in Workers
  PROVE  \/ answer'[w] = "none"
         \/ pc[w] = "poll" /\ answer'[w] = answer[w]
         \/ /\ pc[w] # "poll" /\ pc'[w] # "poll" /\ job'[w] = job[w]
            /\ answer'[w] = answer[w] \/ InvokeResume(w)
<1>1. WorkerTypes /\ \A v \in Workers : Held(v)
  BY PartsLemma
<1>2. CASE Still(w) \/ UNCHANGED workerVars
  BY <1>2 DEF Still, workerVars
<1>3. CASE WorkerStep(w) \/ Crash(w)
  <2>1. CASE MarkDone(w) \/ MarkCaseFailed(w) \/ Crash(w)
    BY <1>1, <2>1 DEF MarkDone, MarkCaseFailed, Crash, Idle, WorkerTypes
  <2>2. CASE \/ SupervisorLogs(w) \/ data_engineer_node(w) \/ financial_analyst_node(w)
             \/ CriticPasses(w) \/ CriticResolves(w) \/ EscalationLogs(w) \/ finalize_decision_node(w)
    <3>1. PICK update : CompleteNode(w, update)
      BY <2>2 DEF SupervisorLogs, data_engineer_node, financial_analyst_node, CriticPasses,
                  CriticResolves, EscalationLogs, finalize_decision_node
    <3> QED
      BY <1>1, <3>1 DEF CompleteNode, WorkerTypes
  <2>3. CASE \/ SupervisorStarts(w) \/ CriticRejects(w) \/ CriticOpensConflict(w)
             \/ EscalationStarts(w) \/ EscalationResumes(w) \/ EscalationPauses(w)
             \/ GraphEnds(w) \/ SeqTaken(w) \/ NodeRaises(w) \/ JobRaises(w) \/ MarkJobFailed(w)
    <3>1. \E to \in PcValues \ {"poll"} : pc' = [pc EXCEPT ![w] = to] /\ UNCHANGED <<job, answer>>
      BY <2>3 DEF SupervisorStarts, CriticRejects, CriticOpensConflict, EscalationStarts,
                  EscalationResumes, EscalationPauses, GraphEnds, SeqTaken, NodeRaises, JobRaises,
                  MarkJobFailed, EndRun, PcValues, InRun, InNode
    <3> QED
      BY <1>1, <3>1 DEF WorkerTypes
  <2>4. CASE Reclaim(w) \/ ClaimOneJob(w)
    BY <2>4 DEF Reclaim, ClaimOneJob, workerVars
  <2>5. CASE InvokeStart(w)
    BY <1>1, <2>5 DEF InvokeStart, WorkerTypes
  <2>6. CASE InvokeResume(w)
    BY <1>1, <2>6 DEF InvokeResume, WorkerTypes
  <2> QED
    BY <1>3, <2>1, <2>2, <2>3, <2>4, <2>5, <2>6 DEF WorkerStep, RunStep
<1> QED
  BY <1>2, <1>3, OneActor

\* The row an open rejection ends its ledger with is the rejection of the round
\* its run is about to close.
LEMMA OpenRound ==
  ASSUME EngineInv, ReplayInv, NEW v \in Workers, Open(v),
         NEW c \in Assessments, c = Case(v),
         NEW n \in Nat, n = state[v].event_seq, NEW round, round = state[v].conflict_round + 1
  PROVE  /\ round \in Nat /\ round > 0
         /\ Rows(c) = n + 1 /\ Audit!Rejections(Prefix(c, n + 1)) = round
<1>1. PICK t \in GraphState : t = state[v]
  BY PartsLemma DEF WorkerTypes
<1>2. round \in Nat /\ round > 0
  BY <1>1 DEF GraphState
<1>3. /\ t.next = "risk_critic" /\ Replays(t, c)
      /\ Recorded(c) = 1..(n + 1)
      /\ Row(c, n + 1) = [node |-> "risk_critic", outcome |-> "reject"]
  BY <1>1 DEF ReplayInv, OpenInv, Rejected, Working, Open, InRun, InNode
<1>4. Rows(c) = n + 1 /\ \A k \in 1..(n + 1) : Row(c, k) \in TrailRow
  <2>1. Cardinality(1..(n + 1)) = n + 1
    BY FS_Interval
  <2> QED
    BY <1>3, <2>1, RowsLemma DEF Rows
<1>5. t.conflict_round = Audit!Rejections(Prefix(c, n))
  BY <1>1, <1>3 DEF Replays, Fresh, Summary
<1>6. Audit!Rejections(Prefix(c, n + 1)) = round
  <2>1. Prefix(c, n) \in Seq(TrailRow) /\ Prefix(c, n + 1) = Append(Prefix(c, n), Row(c, n + 1))
    BY <1>4, PrefixLemma
  <2> DEFINE row == Row(c, n + 1)
  <2>2. row \in TrailRow /\ row.node = "risk_critic" /\ row.outcome = "reject"
    BY <1>3, <1>4
  <2> HIDE DEF row
  <2>3. Audit!Rejections(Append(Prefix(c, n), row)) = Audit!Rejections(Prefix(c, n)) + 1
    BY <2>1, <2>2, RejectionsAppend
  <2> QED
    BY <1>1, <1>5, <2>1, <2>3 DEF row
<1> QED
  BY <1>2, <1>4, <1>6

\* While a rejection is open nobody else is at the end of the ledger of its case:
\* whoever was would have seen its conflict closed.
LEMMA NobodyAtTheEnd ==
  ASSUME EngineInv, ReplayInv, NEW v \in Workers, Open(v),
         NEW c \in Assessments, c = Case(v), NEW s, Replays(s, c)
  PROVE  s.event_seq # Rows(c)
<1>1. PICK n \in Nat, round \in Nat : n = state[v].event_seq /\ round = state[v].conflict_round + 1
  BY PartsLemma DEF WorkerTypes, GraphState
<1>2. Rows(c) = n + 1
  BY <1>1, OpenRound
<1> DEFINE open == [event |-> n + 1, round |-> round, resolution |-> "pending"]
<1>3. /\ Rejected(c, n + 1)
      /\ pc[v] = "conflict" => \A d \in conflicts[c] : d.event # n + 1
      /\ pc[v] = "resolve" => open \in conflicts[c]
  BY <1>1 DEF ReplayInv, OpenInv
<1>4. SUFFICES ASSUME s.event_seq = n + 1 PROVE FALSE
  BY <1>2
<1>5. n + 1 \in 1..(n + 1)
  OBVIOUS
<1>6. PICK d \in conflicts[c] : d.event = n + 1 /\ d.resolution = ConflictResolution(d.round)
  BY <1>3, <1>4, <1>5 DEF Replays, Indexed
<1>7. d.resolution # "pending"
  BY <1>6 DEF ConflictResolution
<1>8. open.event = n + 1 /\ open.resolution = "pending"
  OBVIOUS
<1>9. \A e \in conflicts[c] : e.event = d.event => e = d
  BY <1>6 DEF ReplayInv, ConflictTable
<1> HIDE DEF open
<1> QED
  BY <1>3, <1>6, <1>7, <1>8, <1>9 DEF Open

\* A worker that is handed another state of its case that replays the ledger.
LEMMA HandedWorking ==
  ASSUME EngineInv, QueueGrows, NEW w \in Workers, pc[w] # "poll", job'[w] = job[w],
         NEW c \in Assessments, c = Case(w), NEW s, s = state'[w], Replays(s, c)',
         pc'[w] \notin {"log", "interrupt"}
  PROVE  Working(w)'
<1>1. Case(w)' = c
  BY CaseKept
<1> QED
  BY <1>1 DEF Working

\* A worker that only moves within its run.
LEMMA MovedWorking ==
  ASSUME EngineInv, QueueGrows, LedgerExtends, NEW w \in Workers, Working(w), pc[w] \in InRun,
         UNCHANGED <<job, state, answer>>,
         pc'[w] = "log" => \/ state[w].next = "supervisor"
                           \/ state[w].next = "human_escalation" /\ answer[w] # "none",
         pc'[w] = "interrupt" => state[w].next = "human_escalation"
  PROVE  Working(w)'
<1>1. PICK c \in Assessments, s \in GraphState : c = Case(w) /\ s = state[w]
  BY CaseLemma, PartsLemma DEF WorkerTypes, InRun, InNode
<1>2. Case(w)' = c /\ state'[w] = s /\ answer'[w] = answer[w]
  BY <1>1, CaseKept DEF InRun, InNode
<1>3. Replays(s, c)'
  BY <1>1, ReplaysKept DEF Working
<1> QED
  BY <1>1, <1>2, <1>3 DEF Working

\* A node whose row was its last statement.
LEMMA LoggedWorking ==
  ASSUME EngineInv, QueueGrows, LedgerExtends, NEW w \in Workers, Working(w),
         Logging(w), ~CriticRejects(w)
  PROVE  Working(w)'
<1>1. pc[w] \in InRun
  BY LoggingLemma DEF InRun, InNode
<1>2. PICK c \in Assessments, s \in GraphState : c = Case(w) /\ s = state[w] /\ Replays(s, c)
  BY <1>1, CaseLemma, PartsLemma DEF WorkerTypes, Working, InRun, InNode
<1>3. PICK outcome \in Outcome, u \in GraphState :
        /\ Log(w, s.next, outcome)
        /\ s.next \in Nodes
        /\ s.next = "risk_critic" => outcome \in {"approve", "escalate"}
        /\ s.next = "human_escalation" => outcome \in Answers
        /\ Follows(u, s, outcome)
        /\ state' = [state EXCEPT ![w] = u] /\ pc' = [pc EXCEPT ![w] = "node"]
        /\ UNCHANGED job
  BY <1>2, NodeFollows
<1>4. PICK n \in Nat : n = s.event_seq
  BY DEF GraphState
<1>5. /\ n = Rows(c) /\ Recorded(c)' = 1..(n + 1)
      /\ Row(c, n + 1)' = [node |-> s.next, outcome |-> outcome]
  BY <1>1, <1>2, <1>3, <1>4, LogEffect
<1>6. s.event_seq = 0 => s.human_decision = "none"
  <2>1. Recorded(c) = 1..n
    BY <1>5, RowsLemma
  <2> QED
    BY <1>2, <1>4, <2>1 DEF Replays, Fresh
<1>7. n + 1 \in Recorded(c)' /\ Recorded(c)' \subseteq Nat
  BY <1>5
<1>8. Replays(u, c)'
  BY <1>2, <1>3, <1>4, <1>5, <1>6, <1>7, FollowsReplays DEF Verdicts
<1>9. state'[w] = u /\ pc'[w] = "node"
  BY <1>3, PartsLemma DEF WorkerTypes
<1> QED
  BY <1>1, <1>2, <1>3, <1>8, <1>9, HandedWorking DEF InRun, InNode

\* risk_critic_node after a rejection, its conflict closed.
LEMMA ResolvedWorking ==
  ASSUME EngineInv, ReplayInv, QueueGrows, LedgerExtends, NEW w \in Workers, Working(w),
         OpenInv(w), CriticResolves(w)
  PROVE  Working(w)'
<1>1. pc[w] = "resolve" /\ pc[w] \in InRun /\ Open(w)
  BY DEF CriticResolves, InRun, InNode, Open
<1>2. PICK c \in Assessments, s \in GraphState : c = Case(w) /\ s = state[w] /\ Replays(s, c)
  BY <1>1, CaseLemma, PartsLemma DEF WorkerTypes, Working
<1>3. PICK n \in Nat, round \in Nat : n = s.event_seq /\ round = s.conflict_round + 1
  BY DEF GraphState
<1>4. /\ s.next = "risk_critic" /\ Recorded(c) = 1..(n + 1)
      /\ Row(c, n + 1) = [node |-> "risk_critic", outcome |-> "reject"]
  BY <1>1, <1>2, <1>3 DEF OpenInv, Rejected
<1>5. UNCHANGED audit_events
  BY DEF CriticResolves
<1>6. PICK to \in Positions : to = route_after_risk_critic("reject", round)
  BY RoutedLemma
<1>7. PICK update : /\ update \in GraphState /\ update.event_seq = n + 1
                    /\ update.conflict_round = round /\ update.next = to
                    /\ update.human_decision = s.human_decision
                    /\ CompleteNode(w, update)
  <2> DEFINE update == [Returned(w, to) EXCEPT !.verdict = "reject", !.conflict_round = round]
  <2>1. /\ Returned(w, to) \in GraphState /\ update \in GraphState
        /\ update.event_seq = state[w].event_seq + 1
    BY ReturnedLemma DEF Verdicts
  <2>2. PICK seq : seq = s.event_seq + 1
    OBVIOUS
  <2>3. PICK r \in GraphState : r = [s EXCEPT !.next = to, !.event_seq = seq]
    BY <1>2, <2>1, <2>2 DEF Returned
  <2>4. update = [r EXCEPT !.verdict = "reject", !.conflict_round = round]
    BY <1>2, <2>2, <2>3 DEF Returned
  <2>5. r.next = to /\ r.human_decision = s.human_decision
    BY <2>3 DEF GraphState
  <2>6. /\ update.next = to /\ update.conflict_round = round
        /\ update.human_decision = s.human_decision
    BY <2>4, <2>5 DEF GraphState
  <2>7. CompleteNode(w, update)
    BY <1>2, <1>3, <1>6 DEF CriticResolves, NewRound
  <2> HIDE DEF update
  <2> QED
    BY <1>2, <1>3, <2>1, <2>6, <2>7
<1>8. PICK u : /\ Follows(u, s, "reject")
               /\ state' = [state EXCEPT ![w] = u] /\ pc' = [pc EXCEPT ![w] = "node"]
               /\ UNCHANGED job
  <2>1. PICK id \in Nat : id = created[c] + 1
    BY PartsLemma DEF CheckpointsInv
  <2>2. PICK u : u = [update EXCEPT !.id = id]
    OBVIOUS
  <2>3. state' = [state EXCEPT ![w] = u] /\ pc' = [pc EXCEPT ![w] = "node"] /\ UNCHANGED job
    BY <1>2, <1>7, <2>1, <2>2 DEF CompleteNode
  <2>4. Follows(u, s, "reject")
    BY <1>3, <1>4, <1>6, <1>7, <2>2 DEF Follows, GraphState
  <2> QED
    BY <2>3, <2>4
<1>9. Indexed(c, n + 1)'
  <2>1. PICK open \in Conflict, closed \in Conflict :
          /\ open.event = n + 1
          /\ closed.event = open.event /\ closed.round = open.round
          /\ closed.resolution = ConflictResolution(open.round)
          /\ conflicts' = [conflicts EXCEPT ![c] = (@ \ {open}) \cup {closed}]
    BY <1>2, <1>3, ResolveEffect DEF NextSeq
  <2>2. DOMAIN conflicts = Assessments
    BY DEF EngineInv, TypeOK, LedgerTypeOK
  <2>3. closed \in conflicts'[c]
    BY <2>1, <2>2
  <2> QED
    BY <2>1, <2>3 DEF Indexed
<1>10. /\ Recorded(c)' = Recorded(c) /\ Row(c, n + 1)' = Row(c, n + 1)
  BY <1>5 DEF Recorded, Row
<1>11. s.event_seq # 0
  BY <1>2, <1>4 DEF Replays, Fresh
<1>12. Replays(u, c)'
  <2>1. n + 1 \in Recorded(c)' /\ Recorded(c)' \subseteq Nat /\ "reject" \in Outcome
    BY <1>4, <1>10 DEF Outcome, Verdicts
  <2> QED
    BY <1>2, <1>3, <1>4, <1>8, <1>9, <1>10, <1>11, <2>1, FollowsReplays DEF Verdicts, Nodes
<1>13. state'[w] = u /\ pc'[w] = "node" /\ job'[w] = job[w]
  BY <1>8, PartsLemma DEF WorkerTypes
<1> QED
  BY <1>1, <1>2, <1>12, <1>13, HandedWorking

\* A run that starts or goes on from the checkpoint.
LEMMA InvokedWorking ==
  ASSUME EngineInv, ReplayInv, QueueGrows, LedgerExtends, NEW w \in Workers,
         InvokeStart(w) \/ InvokeResume(w)
  PROVE  Working(w)'
<1>1. pc[w] = "invoke"
  BY DEF InvokeStart, InvokeResume
<1>2. PICK c \in Assessments : c = Case(w)
  BY <1>1, CaseLemma
<1>3. Replays(checkpoints[c], c) /\ checkpoints[c] \in GraphState /\ WorkerTypes
  BY PartsLemma DEF ReplayInv, CheckpointsInv
<1>4. PICK s, to : /\ Replays(s, c) /\ to \in {"node", "failed", "done"}
                   /\ state' = [state EXCEPT ![w] = s] /\ pc' = [pc EXCEPT ![w] = to]
                   /\ UNCHANGED job
  <2>1. CASE InvokeStart(w)
    <3>1. PICK id \in Nat : id = created[c] + 1
      BY PartsLemma DEF CheckpointsInv
    <3>2. PICK s : s = [checkpoints[c] EXCEPT !.id = id, !.next = "supervisor",
                                              !.event_seq = 0, !.conflict_round = 0]
      OBVIOUS
    <3>3. Replays(s, c)
      BY <1>3, <3>2, StartReplays
    <3>4. state' = [state EXCEPT ![w] = s] /\ pc' = [pc EXCEPT ![w] = "node"] /\ UNCHANGED job
      BY <1>2, <2>1, <3>1, <3>2 DEF InvokeStart
    <3> QED
      BY <3>3, <3>4
  <2>2. CASE InvokeResume(w)
    <3>1. PICK s, to : /\ s = checkpoints[c] /\ to \in {"node", "failed", "done"}
                       /\ state' = [state EXCEPT ![w] = s] /\ pc' = [pc EXCEPT ![w] = to]
                       /\ UNCHANGED job
      BY <1>2, <2>2 DEF InvokeResume
    <3> QED
      BY <1>3, <3>1
  <2> QED
    BY <2>1, <2>2
<1>5. state'[w] = s /\ pc'[w] = to /\ job'[w] = job[w]
  BY <1>3, <1>4 DEF WorkerTypes
<1>6. Replays(s, c)'
  BY <1>4, ReplaysKept
<1> QED
  BY <1>1, <1>2, <1>4, <1>5, <1>6, HandedWorking

\* Every step keeps every worker a summary of its ledger.
LEMMA WorkersReplay ==
  ASSUME EngineInv, ReplayInv, [Next]_vars
  PROVE  \A w \in Workers : Working(w)'
<1>1. QueueGrows /\ LedgerExtends /\ WorkerTypes
  BY QueueStep, LedgerExtendsStep, PartsLemma DEF EngineInv
<1>2. \A v \in Workers : Working(v) /\ OpenInv(v)
  BY DEF ReplayInv
<1>3. ASSUME NEW v \in Workers, Still(v) PROVE Working(v)'
  BY <1>1, <1>2, <1>3, StillWorking
<1>4. ASSUME UNCHANGED workerVars PROVE \A v \in Workers : Working(v)'
  BY <1>3, <1>4 DEF workerVars, Still
<1>5. ASSUME NEW w \in Workers, WorkerStep(w) \/ Crash(w), \A v \in Workers \ {w} : Still(v)
      PROVE  \A v \in Workers : Working(v)'
  <2>1. SUFFICES Working(w)' \/ UNCHANGED workerVars
    BY <1>3, <1>4, <1>5
  <2>2. ASSUME NEW to \in PcValues \ InRun, pc' = [pc EXCEPT ![w] = to]
        PROVE  Working(w)'
    BY <1>1, <2>2 DEF WorkerTypes, Working
  <2>3. CASE \/ ClaimOneJob(w) \/ MarkDone(w) \/ JobRaises(w) \/ MarkJobFailed(w)
             \/ MarkCaseFailed(w) \/ Crash(w) \/ EscalationPauses(w) \/ GraphEnds(w)
             \/ SeqTaken(w) \/ NodeRaises(w)
    BY <2>2, <2>3 DEF ClaimOneJob, MarkDone, JobRaises, MarkJobFailed, MarkCaseFailed, Crash, Idle,
                      EscalationPauses, GraphEnds, SeqTaken, NodeRaises, EndRun,
                      PcValues, InRun, InNode
  <2>4. CASE \/ SupervisorStarts(w) \/ EscalationStarts(w) \/ EscalationResumes(w)
             \/ CriticRejects(w) \/ CriticOpensConflict(w)
    <3>1. /\ pc[w] \in InRun /\ UNCHANGED <<job, state, answer>>
          /\ pc'[w] = "log" => \/ state[w].next = "supervisor"
                               \/ state[w].next = "human_escalation" /\ answer[w] # "none"
          /\ pc'[w] = "interrupt" => state[w].next = "human_escalation"
      BY <1>1, <1>2, <2>4
      DEF WorkerTypes, SupervisorStarts, EscalationStarts, EscalationResumes, CriticRejects,
          CriticOpensConflict, At, InRun, InNode, Working
    <3> QED
      BY <1>1, <1>2, <3>1, MovedWorking
  <2>5. CASE Logging(w) /\ ~CriticRejects(w)
    BY <1>1, <1>2, <2>5, LoggedWorking
  <2>6. CASE CriticResolves(w)
    BY <1>1, <1>2, <2>6, ResolvedWorking
  <2>7. CASE InvokeStart(w) \/ InvokeResume(w)
    BY <1>1, <2>7, InvokedWorking
  <2>8. CASE Reclaim(w)
    BY <2>8 DEF Reclaim
  <2> QED
    BY <1>5, <2>3, <2>4, <2>5, <2>6, <2>7, <2>8 DEF WorkerStep, RunStep, Logging
<1> QED
  BY <1>4, <1>5, OneActor

-----------------------------------------------------------------------------
(* Rejections on their way.                                                 *)

\* How a worker comes to be between the row of a rejection and its resolution.
LEMMA OpenKinds ==
  ASSUME EngineInv, [Next]_vars, NEW v \in Workers, Open(v)'
  PROVE  Still(v) \/ CriticRejects(v) \/ CriticOpensConflict(v)
<1>1. WorkerTypes
  BY PartsLemma
<1>2. CASE Still(v) \/ UNCHANGED workerVars
  BY <1>2 DEF Still, workerVars
<1>3. ASSUME NEW to, to \notin {"conflict", "resolve"}, pc' = [pc EXCEPT ![v] = to]
      PROVE  FALSE
  BY <1>1, <1>3 DEF WorkerTypes, Open
<1>4. CASE WorkerStep(v) \/ Crash(v)
  <2>1. CASE \/ ClaimOneJob(v) \/ MarkDone(v) \/ JobRaises(v) \/ MarkJobFailed(v)
             \/ MarkCaseFailed(v) \/ Crash(v) \/ EscalationPauses(v) \/ GraphEnds(v)
             \/ SeqTaken(v) \/ NodeRaises(v) \/ InvokeStart(v)
    BY <1>3, <2>1 DEF ClaimOneJob, MarkDone, JobRaises, MarkJobFailed, MarkCaseFailed, Crash, Idle,
                      EscalationPauses, GraphEnds, SeqTaken, NodeRaises, EndRun, InvokeStart
  <2>2. CASE InvokeResume(v)
    <3>1. PICK to \in {"failed", "done", "node"} : pc' = [pc EXCEPT ![v] = to]
      BY <2>2 DEF InvokeResume
    <3> QED
      BY <1>3, <3>1
  <2>3. CASE SupervisorStarts(v) \/ EscalationStarts(v) \/ EscalationResumes(v)
    BY <1>3, <2>3 DEF SupervisorStarts, EscalationStarts, EscalationResumes
  <2>4. ASSUME NEW update, CompleteNode(v, update) PROVE FALSE
    BY <1>3, <2>4 DEF CompleteNode
  <2>5. CASE \/ SupervisorLogs(v) \/ data_engineer_node(v) \/ financial_analyst_node(v)
             \/ CriticPasses(v) \/ CriticResolves(v) \/ EscalationLogs(v) \/ finalize_decision_node(v)
    BY <2>4, <2>5 DEF SupervisorLogs, data_engineer_node, financial_analyst_node, CriticPasses,
                      CriticResolves, EscalationLogs, finalize_decision_node
  <2>6. CASE Reclaim(v)
    BY <2>6, <1>2 DEF Reclaim
  <2> QED
    BY <1>4, <2>1, <2>2, <2>3, <2>5, <2>6 DEF WorkerStep, RunStep
<1> QED
  BY <1>2, <1>4, OneActor

\* While a rejection is open and its run takes no step, nobody writes to the
\* ledger or the conflicts of its case.
LEMMA OpenKept ==
  ASSUME EngineInv, ReplayInv, [Next]_vars, NEW v \in Workers, Open(v), Still(v),
         NEW c \in Assessments, c = Case(v)
  PROVE  audit_events'[c] = audit_events[c] /\ conflicts'[c] = conflicts[c]
<1>1. WorkerTypes /\ DOMAIN conflicts = Assessments
  BY PartsLemma DEF EngineInv, TypeOK, LedgerTypeOK
<1>2. CASE \E w \in Workers : Logging(w) /\ UNCHANGED conflicts
  <2>1. PICK w \in Workers : Logging(w) /\ UNCHANGED conflicts
    BY <1>2
  <2>2. PICK node \in Nodes, outcome \in Outcome : pc[w] \in InRun /\ Log(w, node, outcome)
    BY <2>1, LoggingLemma DEF InRun, InNode
  <2>3. PICK b \in Assessments, s \in GraphState : b = Case(w) /\ s = state[w] /\ Replays(s, b)
    BY <2>2, CaseLemma, PartsLemma DEF WorkerTypes, ReplayInv, Working, InRun, InNode
  <2>4. PICK n : n = state[w].event_seq
    OBVIOUS
  <2>5. n = Rows(b) /\ \A a \in Assessments : a # b => audit_events'[a] = audit_events[a]
    BY <2>2, <2>3, <2>4, LogEffect
  <2>6. b # c
    BY <2>3, <2>4, <2>5, NobodyAtTheEnd
  <2> QED
    BY <2>1, <2>5, <2>6
<1>3. CASE \E w \in Workers : CriticOpensConflict(w) \/ CriticResolves(w)
  <2>1. PICK w \in Workers : CriticOpensConflict(w) \/ CriticResolves(w)
    BY <1>3
  <2>2. Open(w) /\ w # v
    BY <1>1, <2>1 DEF CriticOpensConflict, CriticResolves, CompleteNode, Open, Still, WorkerTypes
  <2>3. Case(w) # c
    BY <2>2 DEF ReplayInv, OpenInv
  <2> QED
    BY <1>1, <2>1, <2>3 DEF CriticOpensConflict, CriticResolves, record_conflict, resolve_conflict
<1>4. CASE UNCHANGED ledger
  BY <1>4 DEF ledger
<1> QED
  BY <1>2, <1>3, <1>4, LedgerKinds

\* Nobody joins the run that is between its rejection and its resolution.
LEMMA OpenAlone ==
  ASSUME EngineInv, ReplayInv, [Next]_vars, NEW v \in Workers, NEW c \in Assessments, c = Case(v),
         pc[v] # "poll", job'[v] = job[v],
         Open(v) \/ CriticRejects(v), NEW u \in Workers \ {v}, Open(u)', Case(u)' = c
  PROVE  FALSE
<1>1. QueueGrows /\ WorkerTypes
  BY QueueStep, PartsLemma DEF EngineInv
<1>2. ASSUME NEW w \in Workers, CriticRejects(w), Case(w) = c
      PROVE  \A x \in Workers : Open(x) => Case(x) # c
  <2>1. pc[w] \in InRun /\ pc[w] # "poll" /\ Log(w, "risk_critic", "reject")
    BY <1>2 DEF CriticRejects, At, InRun, InNode
  <2>2. PICK s, n : s = state[w] /\ n = s.event_seq /\ Replays(s, c)
    BY <1>2, <2>1 DEF ReplayInv, Working
  <2>3. PICK node \in Nodes, outcome \in Outcome : Log(w, node, outcome)
    <3>1. "risk_critic" \in Nodes /\ "reject" \in Outcome
      BY DEF Nodes, Outcome, Verdicts
    <3> QED
      BY <2>1, <3>1
  <2>4. n = Rows(c)
    <3>1. n = state[w].event_seq /\ c = Case(w) /\ pc[w] \in InRun
      BY <1>2, <2>1, <2>2
    <3> QED
      BY <2>3, <3>1, LogEffect
  <2> QED
    BY <2>2, <2>4, NobodyAtTheEnd
<1>3. Still(u) \/ CriticRejects(u) \/ CriticOpensConflict(u)
  BY OpenKinds
<1>4. CASE CriticRejects(u)
  <2>1. pc[u] # "poll" /\ job'[u] = job[u] /\ v # u
    BY <1>4 DEF CriticRejects, At
  <2>2. Case(u) = c
    BY <1>1, <2>1, CaseKept
  <2>3. ~CriticRejects(v)
    BY <1>1, <1>4, <2>1 DEF CriticRejects, At, WorkerTypes
  <2> QED
    BY <1>2, <1>4, <2>2, <2>3
<1>5. CASE Still(u) \/ CriticOpensConflict(u)
  <2>1. Open(u) /\ pc[u] # "poll" /\ job'[u] = job[u]
    BY <1>5 DEF Still, CriticOpensConflict, Open
  <2>2. Case(u) = c
    BY <1>1, <2>1, CaseKept
  <2>3. ~Open(v)
    BY <2>1, <2>2 DEF ReplayInv, OpenInv
  <2> QED
    BY <1>2, <2>1, <2>2, <2>3
<1> QED
  BY <1>3, <1>4, <1>5

\* The critic's row of a rejection opens it.
LEMMA RejectOpens ==
  ASSUME EngineInv, ReplayInv, [Next]_vars, NEW v \in Workers, CriticRejects(v)
  PROVE  OpenInv(v)'
<1>1. QueueGrows /\ WorkerTypes
  BY QueueStep, PartsLemma DEF EngineInv
<1>2. /\ pc[v] = "node" /\ pc[v] \in InRun /\ state[v].next = "risk_critic"
      /\ Log(v, "risk_critic", "reject") /\ pc'[v] = "conflict"
      /\ UNCHANGED <<job, state, conflicts>>
  BY <1>1 DEF CriticRejects, At, InRun, InNode, WorkerTypes
<1>3. PICK c \in Assessments, s \in GraphState : c = Case(v) /\ s = state[v] /\ Replays(s, c)
  BY <1>1, <1>2, CaseLemma DEF WorkerTypes, ReplayInv, Working
<1>4. PICK n \in Nat : n = s.event_seq
  BY DEF GraphState
<1>5. /\ n = Rows(c) /\ Recorded(c)' = 1..(n + 1)
      /\ Row(c, n + 1)' = [node |-> "risk_critic", outcome |-> "reject"]
  <2>1. PICK node \in Nodes, outcome \in Outcome : node = "risk_critic" /\ outcome = "reject"
    BY DEF Nodes, Outcome, Verdicts
  <2>2. Log(v, node, outcome) /\ pc[v] \in InRun
    BY <1>2, <2>1
  <2>3. c = Case(v) /\ n = state[v].event_seq
    BY <1>3, <1>4
  <2>4. /\ n = Rows(c) /\ Recorded(c)' = 1..(n + 1)
        /\ Row(c, n + 1)' = [node |-> node, outcome |-> outcome]
    BY <2>2, <2>3, LogEffect
  <2> QED
    BY <2>1, <2>4
<1>6. \A d \in conflicts[c] : d.event # n + 1
  <2>1. Recorded(c) = 1..n
    BY <1>5, RowsLemma
  <2> QED
    BY <2>1 DEF ReplayInv, ConflictTable
<1>7. Case(v)' = c /\ state'[v] = s
  BY <1>1, <1>2, <1>3, CaseKept
<1>8. \A u \in Workers : Open(u)' /\ Case(u)' = c => u = v
  BY <1>2, <1>3, OpenAlone
<1> QED
  BY <1>2, <1>4, <1>5, <1>6, <1>7, <1>8 DEF OpenInv, Rejected

\* Every open rejection stays the last row of its case, and its own run's.
LEMMA OpenStep ==
  ASSUME EngineInv, ReplayInv, [Next]_vars, NEW v \in Workers
  PROVE  OpenInv(v)'
<1>1. QueueGrows /\ WorkerTypes
  BY QueueStep, PartsLemma DEF EngineInv
<1>2. CASE ~Open(v)'
  BY <1>2 DEF OpenInv
<1>3. CASE CriticRejects(v)
  BY <1>3, RejectOpens
<1>4. CASE Open(v) /\ Open(v)' /\ (Still(v) \/ CriticOpensConflict(v))
  <2>1. pc[v] # "poll" /\ job'[v] = job[v] /\ state'[v] = state[v]
    BY <1>4 DEF Open, Still, CriticOpensConflict
  <2>2. PICK c \in Assessments, s \in GraphState : c = Case(v) /\ s = state[v]
    BY <1>1, <2>1, CaseLemma DEF WorkerTypes
  <2>3. Case(v)' = c /\ state'[v] = s
    BY <1>1, <2>1, <2>2, CaseKept
  <2>4. PICK n \in Nat, round \in Nat : n = s.event_seq /\ round = s.conflict_round + 1
    BY DEF GraphState
  <2> DEFINE open == [event |-> n + 1, round |-> round, resolution |-> "pending"]
  <2>5. /\ s.next = "risk_critic" /\ Recorded(c) = 1..(n + 1)
        /\ Rejected(c, n + 1)
        /\ pc[v] = "conflict" => \A d \in conflicts[c] : d.event # n + 1
        /\ pc[v] = "resolve" => open \in conflicts[c]
    BY <1>4, <2>2, <2>4 DEF ReplayInv, OpenInv
  <2>6. \A u \in Workers : Open(u)' /\ Case(u)' = c => u = v
    BY <1>4, <2>1, <2>2, OpenAlone
  <2>7. /\ audit_events'[c] = audit_events[c]
        /\ pc'[v] = "conflict" => \A d \in conflicts'[c] : d.event # n + 1
        /\ pc'[v] = "resolve" => open \in conflicts'[c]
    <3>1. CASE Still(v)
      <4>1. audit_events'[c] = audit_events[c] /\ conflicts'[c] = conflicts[c]
        BY <1>4, <2>2, <3>1, OpenKept
      <4> QED
        BY <2>5, <3>1, <4>1 DEF Still
    <3>2. CASE CriticOpensConflict(v)
      <4>1. /\ UNCHANGED audit_events /\ pc'[v] = "resolve"
            /\ record_conflict(c, n + 1, round)
        BY <1>1, <2>2, <2>4, <3>2 DEF CriticOpensConflict, WorkerTypes, NextSeq, NewRound
      <4>2. DOMAIN conflicts = Assessments
        BY DEF EngineInv, TypeOK, LedgerTypeOK
      <4> QED
        BY <4>1, <4>2 DEF record_conflict
    <3> QED
      BY <1>4, <3>1, <3>2
  <2>8. Recorded(c)' = Recorded(c) /\ Rejected(c, n + 1)'
    BY <2>5, <2>7 DEF Recorded, Rejected, Row
  <2> QED
    BY <2>3, <2>4, <2>5, <2>6, <2>7, <2>8 DEF OpenInv
<1>5. Open(v)' => CriticRejects(v) \/ (Open(v) /\ (Still(v) \/ CriticOpensConflict(v)))
  BY OpenKinds DEF Still, CriticOpensConflict, Open
<1> QED
  BY <1>2, <1>3, <1>4, <1>5

-----------------------------------------------------------------------------
(* The conflicts and the decisions.                                         *)

\* Who writes a row has the whole ledger of the case in its state: every dispute
\* in it is indexed.
LEMMA WriterSeesAll ==
  ASSUME EngineInv, ReplayInv, NEW w \in Workers, pc[w] \in InRun,
         NEW c \in Assessments, c = Case(w), NEW node \in Nodes, NEW outcome \in Outcome,
         Log(w, node, outcome),
         NEW s, s = state[w]
  PROVE  /\ s \in GraphState /\ s.event_seq = Rows(c)
         /\ Summary(s, c) /\ Trail(c) = Prefix(c, s.event_seq)
         /\ s.conflict_round = Audit!Rejections(Trail(c))
         /\ \A k \in 1..s.event_seq : Rejected(c, k) => Indexed(c, k)
<1>1. Replays(s, c) /\ s \in GraphState
  BY DEF ReplayInv, Working, Replays
<1>2. PICK n \in Nat : n = s.event_seq
  BY <1>1 DEF GraphState
<1>3. n = Rows(c)
  BY <1>2, LogEffect
<1>4. Recorded(c) = 1..n /\ Trail(c) = Prefix(c, n)
  BY <1>3, RowsLemma
<1>5. s.event_seq = 0 => s.human_decision = "none"
  BY <1>1, <1>2, <1>4 DEF Replays, Fresh
<1>6. Summary(s, c)
  BY <1>1, <1>5, SummaryOfPrefix
<1>7. s.conflict_round = Audit!Rejections(Trail(c))
  BY <1>2, <1>4, <1>6 DEF Summary
<1> QED
  BY <1>1, <1>2, <1>3, <1>4, <1>6, <1>7 DEF Replays

\* The conflicts table stays an index over the rejections.
LEMMA ConflictStep ==
  ASSUME EngineInv, ReplayInv, [Next]_vars, NEW a \in Assessments
  PROVE  ConflictTable(a)'
<1>1. ConflictTable(a) /\ conflicts \in [Assessments -> SUBSET Conflict] /\ LedgerExtends
  BY LedgerExtendsStep DEF ReplayInv, EngineInv, TypeOK, LedgerTypeOK
<1>2. PICK n \in Nat : Recorded(a) = 1..n
  BY RowsLemma
<1>3. ASSUME NEW k \in 1..n
      PROVE  /\ k \in Recorded(a)' /\ (Rejected(a, k)' <=> Rejected(a, k))
             /\ Prefix(a, k)' = Prefix(a, k)
  <2>1. \A i \in 1..n : i \in Recorded(a)' /\ audit_events'[a][i] = audit_events[a][i]
    BY <1>1, <1>2 DEF LedgerExtends
  <2> QED
    BY <2>1, PrefixKept DEF Rejected, Row
<1>4. \A k \in 1..n : Indexed(a, k) => Indexed(a, k)'
  BY <1>1, <1>2 DEF LedgerExtends
<1>5. \A k \in 1..n : Rejected(a, k) /\ k + 1 \in 1..n => Indexed(a, k)
  BY <1>1, <1>2 DEF ConflictTable
\* A row stays in the table: what is left to show is that of a new one.
<1>6. ASSUME NEW d \in conflicts[a]
      PROVE  /\ d.event \in Recorded(a)' /\ Rejected(a, d.event)'
             /\ d.round = Audit!Rejections(Prefix(a, d.event))'
  <2>1. /\ d.event \in 1..n /\ Rejected(a, d.event)
        /\ d.round = Audit!Rejections(Prefix(a, d.event))
    BY <1>1, <1>2 DEF ConflictTable
  <2>2. PICK k \in 1..n : k = d.event
    BY <2>1
  <2> QED
    BY <1>3, <2>1, <2>2
<1>7. ASSUME Recorded(a)' = Recorded(a), conflicts'[a] = conflicts[a]
      PROVE  ConflictTable(a)'
  BY <1>1, <1>2, <1>3, <1>4, <1>5, <1>6, <1>7 DEF ConflictTable
<1>8. CASE \E w \in Workers : Logging(w) /\ UNCHANGED conflicts
  <2>1. PICK w \in Workers : Logging(w) /\ UNCHANGED conflicts
    BY <1>8
  <2>2. PICK node \in Nodes, outcome \in Outcome : pc[w] \in InRun /\ Log(w, node, outcome)
    BY <2>1, LoggingLemma DEF InRun, InNode
  <2>3. PICK c \in Assessments, s \in {state[w]} : c = Case(w) /\ s = state[w]
    BY <2>2, CaseLemma DEF InRun, InNode
  <2>4. CASE a # c
    <3>1. PICK m : m = state[w].event_seq
      OBVIOUS
    <3>2. \A b \in Assessments : b # c => audit_events'[b] = audit_events[b]
      BY <2>2, <2>3, <3>1, LogEffect
    <3>3. Recorded(a)' = Recorded(a)
      BY <2>4, <3>2 DEF Recorded
    <3> QED
      BY <1>7, <2>1, <3>3
  <2>5. CASE a = c
    <3>1. s.event_seq = n /\ \A k \in 1..n : Rejected(a, k) => Indexed(a, k)
      <4>1. /\ s \in GraphState /\ s.event_seq = Rows(a)
            /\ \A k \in 1..s.event_seq : Rejected(a, k) => Indexed(a, k)
        BY <2>2, <2>3, <2>5, WriterSeesAll
      <4>2. Rows(a) = n
        BY <1>2, RowsLemma, FS_Interval DEF Rows
      <4> QED
        BY <4>1, <4>2
    <3>2. Recorded(a)' = 1..(n + 1)
      BY <2>2, <2>3, <2>5, <3>1, LogEffect
    <3>3. \A k \in Recorded(a)' : k + 1 \in Recorded(a)' => k \in 1..n
      BY <3>2
    <3> QED
      BY <1>1, <1>3, <1>4, <1>6, <2>1, <3>1, <3>3 DEF ConflictTable
  <2> QED
    BY <2>4, <2>5
<1>9. CASE \E w \in Workers : CriticOpensConflict(w)
  <2>1. PICK w \in Workers : CriticOpensConflict(w)
    BY <1>9
  <2>2. Open(w) /\ pc[w] = "conflict" /\ pc[w] # "poll" /\ Recorded(a)' = Recorded(a)
    BY <2>1 DEF CriticOpensConflict, Open, Recorded
  <2>3. PICK c \in Assessments, m \in Nat, round \in Nat :
          c = Case(w) /\ m = state[w].event_seq /\ round = state[w].conflict_round + 1
    BY <2>2, CaseLemma, PartsLemma DEF WorkerTypes, GraphState
  <2> DEFINE row == [event |-> m + 1, round |-> round, resolution |-> "pending"]
  <2>4. conflicts' = [conflicts EXCEPT ![c] = @ \cup {row}]
    BY <2>1, <2>3 DEF CriticOpensConflict, record_conflict, NextSeq, NewRound
  <2>5. CASE a # c
    BY <1>1, <1>7, <2>2, <2>4, <2>5
  <2>6. CASE a = c
    <3>1. Rows(a) = m + 1 /\ Audit!Rejections(Prefix(a, m + 1)) = round
      BY <2>2, <2>3, <2>6, OpenRound
    <3>2. /\ Recorded(a) = 1..(m + 1) /\ Rejected(a, m + 1)
          /\ \A d \in conflicts[a] : d.event # m + 1
      BY <2>2, <2>3, <2>6 DEF ReplayInv, OpenInv
    <3>3. row.event = m + 1 /\ row.round = round
      OBVIOUS
    <3> HIDE DEF row
    <3>4. conflicts'[a] = conflicts[a] \cup {row}
      BY <1>1, <2>4, <2>6
    <3>5. m + 1 \in 1..n
      BY <1>2, <3>2
    <3>6. /\ row.event \in Recorded(a)' /\ Rejected(a, row.event)'
          /\ row.round = Audit!Rejections(Prefix(a, row.event))'
      BY <1>3, <3>1, <3>2, <3>3, <3>5
    <3>7. \A d, e \in conflicts'[a] : e.event = d.event => e = d
      BY <1>1, <3>2, <3>3, <3>4 DEF ConflictTable
    <3> QED
      BY <1>2, <1>3, <1>4, <1>5, <1>6, <2>2, <3>4, <3>6, <3>7 DEF ConflictTable
  <2> QED
    BY <2>5, <2>6
<1>10. CASE \E w \in Workers : CriticResolves(w)
  <2>1. PICK w \in Workers : CriticResolves(w)
    BY <1>10
  <2>2. Recorded(a)' = Recorded(a)
    BY <2>1 DEF CriticResolves, Recorded
  <2>3. PICK c \in Assessments, open \in Conflict, closed \in Conflict :
           /\ open \in conflicts[c]
           /\ closed.event = open.event /\ closed.round = open.round
           /\ conflicts' = [conflicts EXCEPT ![c] = (@ \ {open}) \cup {closed}]
    BY <2>1, ResolveEffect
  <2>4. CASE a # c
    BY <1>1, <1>7, <2>2, <2>3, <2>4
  <2>5. CASE a = c
    <3>1. conflicts'[a] = (conflicts[a] \ {open}) \cup {closed} /\ open \in conflicts[a]
      BY <1>1, <2>3, <2>5
    <3>2. /\ closed.event \in Recorded(a)' /\ Rejected(a, closed.event)'
          /\ closed.round = Audit!Rejections(Prefix(a, closed.event))'
      <4>1. PICK k : k = closed.event /\ k = open.event
        BY <2>3
      <4>2. /\ k \in Recorded(a)' /\ Rejected(a, k)'
            /\ closed.round = Audit!Rejections(Prefix(a, k))'
        BY <1>6, <2>3, <3>1, <4>1
      <4> QED
        BY <4>1, <4>2
    <3>3. \A d, e \in conflicts'[a] : e.event = d.event => e = d
      BY <1>1, <2>3, <3>1 DEF ConflictTable
    <3> QED
      BY <1>2, <1>3, <1>4, <1>5, <1>6, <2>2, <3>1, <3>2, <3>3 DEF ConflictTable
  <2> QED
    BY <2>4, <2>5
<1>11. CASE UNCHANGED ledger
  BY <1>7, <1>11 DEF ledger, Recorded
<1> QED
  BY <1>8, <1>9, <1>10, <1>11, LedgerKinds

\* The row each node writes, in full.
LEMMA LoggedRow ==
  ASSUME EngineInv, NEW w \in Workers, Working(w), Logging(w), NEW s, s = state[w]
  PROVE  \E outcome \in Outcome :
           /\ Log(w, s.next, outcome) /\ s.next \in Nodes
           /\ s.next = "finalize_decision" => /\ finalize_decision_node(w)
                                              /\ outcome = PublishedVerdict(s.human_decision)
           /\ s.next # "finalize_decision" => UNCHANGED decisions
           /\ s.next = "risk_critic" => outcome \in Verdicts
           /\ s.next = "human_escalation" => outcome \in Answers
           /\ s.next \in {"supervisor", "data_engineer", "financial_analyst"} => outcome = "none"
<1> USE DEF Nodes
<1>1. CASE SupervisorLogs(w) \/ data_engineer_node(w) \/ financial_analyst_node(w)
  BY <1>1 DEF SupervisorLogs, data_engineer_node, financial_analyst_node, At, Outcome
<1>2. CASE CriticPasses(w) \/ CriticRejects(w)
  <2>1. PICK outcome \in Verdicts :
          s.next = "risk_critic" /\ Log(w, "risk_critic", outcome) /\ UNCHANGED decisions
    BY <1>2 DEF CriticPasses, CriticRejects, At, Verdicts
  <2> QED
    BY <2>1 DEF Outcome
<1>3. CASE EscalationLogs(w)
  <2>1. s.next = "human_escalation" /\ Log(w, "human_escalation", answer[w]) /\ UNCHANGED decisions
    BY <1>3 DEF EscalationLogs
  <2>2. answer[w] \in Answers
    BY <1>3, <2>1, PartsLemma DEF Working, WorkerTypes, EscalationLogs, InRun, InNode
  <2> QED
    BY <2>1, <2>2 DEF Outcome
<1>4. CASE finalize_decision_node(w)
  BY <1>4 DEF finalize_decision_node, At, Outcome, PublishedVerdict, PublishedVerdicts
<1> QED
  BY <1>1, <1>2, <1>3, <1>4 DEF Logging

\* A decision is written by the finalize node and by nothing else.
LEMMA DecisionKinds ==
  ASSUME [Next]_vars
  PROVE  UNCHANGED decisions \/ \E w \in Workers : finalize_decision_node(w)
BY DEF Next, vars, ledger, create_assessment, RequestResume, AcceptResume, WorkerStep, Persist,
       Crash, JobAges, Reclaim, ClaimOneJob, InvokeStart, InvokeResume, MarkDone, JobRaises,
       MarkJobFailed, MarkCaseFailed, RunStep, SupervisorStarts, SupervisorLogs,
       data_engineer_node, financial_analyst_node, CriticPasses, CriticRejects,
       CriticOpensConflict, CriticResolves, EscalationStarts, EscalationPauses,
       EscalationResumes, EscalationLogs, GraphEnds, SeqTaken, NodeRaises

\* After the closing row there is nothing left to write, so whoever writes a row
\* finds the case without a decision, and without a closing row.
LEMMA WriterFindsNoDecision ==
  ASSUME EngineInv, ReplayInv, NEW w \in Workers, pc[w] \in InRun,
         NEW c \in Assessments, c = Case(w), NEW outcome \in Outcome,
         NEW s, s = state[w], s.next \in Nodes, Log(w, s.next, outcome)
  PROVE  /\ decisions[c] = {}
         /\ \A k \in Recorded(c) : audit_events[c][k].node # "finalize_decision"
<1>1. /\ s \in GraphState /\ s.event_seq = Rows(c) /\ Summary(s, c)
  BY WriterSeesAll
<1>2. PICK n \in Nat : n = s.event_seq
  BY <1>1 DEF GraphState
<1>3. ASSUME NEW d \in decisions[c] PROVE FALSE
  <2>1. n > 0 /\ Row(c, n).node = "finalize_decision"
    BY <1>1, <1>2 DEF ReplayInv, DecisionTable
  <2>2. \A k \in 1..n : Row(c, k) \in TrailRow
    BY <1>1, <1>2, RowsLemma
  <2>3. Len(Prefix(c, n)) = n /\ Prefix(c, n)[n] = Row(c, n)
    BY <2>1, <2>2, PrefixLemma DEF Prefix
  <2>4. Audit!Expected(Prefix(c, n)) = "end"
    <3>1. Prefix(c, n) # <<>>
      BY <2>1, <2>3
    <3> QED
      BY <2>1, <2>3, <3>1 DEF Audit!Expected
  <2> QED
    BY <1>1, <1>2, <2>4 DEF Summary, Nodes
<1> QED
  BY <1>3 DEF ReplayInv, DecisionTable

\* The decisions table stays what the closing rows say.
LEMMA DecisionStep ==
  ASSUME EngineInv, ReplayInv, [Next]_vars, NEW a \in Assessments
  PROVE  DecisionTable(a)'
<1>1. DecisionTable(a) /\ decisions \in [Assessments -> SUBSET DecisionRow]
  BY DEF ReplayInv, EngineInv, TypeOK, LedgerTypeOK
<1>2. ASSUME audit_events'[a] = audit_events[a], decisions'[a] = decisions[a]
      PROVE  DecisionTable(a)'
  <2>1. /\ Recorded(a)' = Recorded(a) /\ Rows(a)' = Rows(a) /\ Trail(a)' = Trail(a)
        /\ Row(a, Rows(a))' = Row(a, Rows(a))
    BY <1>2 DEF Recorded, Rows, Trail, Row
  <2> QED
    BY <1>1, <1>2, <2>1 DEF DecisionTable
<1>3. CASE \E w \in Workers : Logging(w) /\ UNCHANGED conflicts
  <2>1. PICK w \in Workers : Logging(w) /\ UNCHANGED conflicts
    BY <1>3
  <2>2. pc[w] \in InRun /\ Working(w)
    BY <2>1, LoggingLemma DEF InRun, InNode, ReplayInv
  <2>3. PICK c \in Assessments, s \in GraphState : c = Case(w) /\ s = state[w]
    BY <2>2, CaseLemma, PartsLemma DEF WorkerTypes, InRun, InNode
  <2>4. PICK outcome \in Outcome :
           /\ Log(w, s.next, outcome) /\ s.next \in Nodes
           /\ s.next = "finalize_decision" => /\ finalize_decision_node(w)
                                              /\ outcome = PublishedVerdict(s.human_decision)
           /\ s.next # "finalize_decision" => UNCHANGED decisions
    BY <2>1, <2>2, <2>3, LoggedRow
  <2>5. /\ s \in GraphState /\ s.event_seq = Rows(c)
        /\ Summary(s, c) /\ Trail(c) = Prefix(c, s.event_seq)
        /\ s.conflict_round = Audit!Rejections(Trail(c))
    BY <2>2, <2>3, <2>4, WriterSeesAll
  <2>6. PICK n \in Nat : n = s.event_seq
    BY <2>5 DEF GraphState
  <2>7. /\ Recorded(c)' = 1..(n + 1) /\ Rows(c)' = n + 1
        /\ \A k \in 1..n : audit_events'[c][k] = audit_events[c][k]
        /\ Row(c, n + 1)' = [node |-> s.next, outcome |-> outcome]
        /\ \A b \in Assessments : b # c => audit_events'[b] = audit_events[b]
    BY <2>2, <2>3, <2>4, <2>6, LogEffect
  <2>8. decisions[c] = {} /\ \A k \in 1..n : audit_events[c][k].node # "finalize_decision"
    <3>1. Recorded(c) = 1..n
      BY <2>5, <2>6, RowsLemma
    <3> QED
      BY <2>2, <2>3, <2>4, <3>1, WriterFindsNoDecision
  <2>9. audit_events'[c][n + 1].node = s.next
    BY <2>7 DEF Row
  <2>10. CASE a # c
    <3>1. decisions'[a] = decisions[a]
      BY <1>1, <2>3, <2>4, <2>10 DEF finalize_decision_node, record_decision
    <3> QED
      BY <1>2, <2>7, <2>10, <3>1
  <2>11. CASE a = c /\ s.next # "finalize_decision"
    BY <2>4, <2>7, <2>8, <2>9, <2>11 DEF DecisionTable
  <2>12. CASE a = c /\ s.next = "finalize_decision"
    <3> DEFINE row == [node |-> s.next, outcome |-> outcome]
               d == [verdict |-> PublishedVerdict(s.human_decision),
                     reviewed_by_human |-> s.human_decision # "none",
                     conflict_rounds |-> s.conflict_round]
    <3>1. decisions'[a] = {d}
      BY <1>1, <2>3, <2>4, <2>12 DEF finalize_decision_node, record_decision
    <3>2. /\ Trail(a) \in Seq(TrailRow) /\ row \in TrailRow
          /\ Trail(a)' = Append(Trail(a), row)
      BY <2>2, <2>3, <2>4, <2>12, TrailEffect
    <3>3. row.node = "finalize_decision" /\ row.outcome = d.verdict
      BY <2>4, <2>12
    <3>4. d.conflict_rounds = s.conflict_round /\ (d.reviewed_by_human <=> s.human_decision # "none")
      OBVIOUS
    <3> HIDE DEF row, d
    <3>5. /\ Audit!Rejections(Append(Trail(a), row)) = s.conflict_round
          /\ Audit!AnswersIn(Append(Trail(a), row)) = Audit!AnswersIn(Trail(a))
      <4>1. /\ Audit!Rejections(Trail(a)) \in Nat
            /\ Audit!Rejections(Append(Trail(a), row)) = Audit!Rejections(Trail(a))
        <5>1. Audit!Rejections(Trail(a)) \in Nat
          BY <3>2, RejectionsAppend
        <5>2. Audit!Rejections(Append(Trail(a), row)) = Audit!Rejections(Trail(a)) + 0
          BY <3>2, <3>3, RejectionsAppend
        <5> QED
          BY <5>1, <5>2
      <4>2. Audit!AnswersIn(Append(Trail(a), row)) = Audit!AnswersIn(Trail(a)) \cup {}
        BY <3>2, <3>3, AnswersAppend
      <4> QED
        BY <2>5, <2>12, <4>1, <4>2
    <3>6. Audit!AnswersIn(Trail(a)) # {} <=> s.human_decision # "none"
      BY <2>5, <2>12 DEF Summary
    <3>7. Row(a, n + 1)' = [node |-> "finalize_decision", outcome |-> d.verdict]
      BY <2>4, <2>7, <2>12, <3>3 DEF row
    <3> QED
      BY <2>7, <2>8, <2>12, <3>1, <3>2, <3>4, <3>5, <3>6, <3>7 DEF DecisionTable
  <2> QED
    BY <2>10, <2>11, <2>12
<1>4. CASE UNCHANGED audit_events
  <2>1. UNCHANGED decisions
    <3>1. ASSUME NEW w \in Workers, finalize_decision_node(w) PROVE FALSE
      <4>1. Logging(w) /\ pc[w] \in InRun
        BY <3>1 DEF Logging, finalize_decision_node, At, InRun, InNode
      <4>2. PICK c \in Assessments, n \in Nat : c = Case(w) /\ n = state[w].event_seq
        BY <4>1, CaseLemma, PartsLemma DEF WorkerTypes, GraphState, InRun, InNode
      <4>3. PICK node \in Nodes, outcome \in Outcome : Log(w, node, outcome)
        BY <4>1, LoggingLemma
      <4>4. n \in Nat /\ n = Rows(c) /\ Recorded(c)' = 1..(n + 1)
        BY <4>1, <4>2, <4>3, LogEffect
      <4>5. Recorded(c) = 1..n
        BY <4>4, RowsLemma
      <4> QED
        BY <1>4, <4>4, <4>5 DEF Recorded
    <3> QED
      BY <3>1, DecisionKinds
  <2> QED
    BY <1>2, <1>4, <2>1
<1> QED
  BY <1>3, <1>4, LedgerKinds DEF CriticOpensConflict, CriticResolves, ledger

-----------------------------------------------------------------------------
(* The invariant.                                                           *)

\* No case, no run: the empty ledger is replayed by the empty checkpoints.
LEMMA InitReplayInv == Init => ReplayInv
<1> SUFFICES ASSUME Init PROVE ReplayInv
  OBVIOUS
<1>1. /\ \A a \in Assessments : /\ checkpoints[a] = NoCheckpoint /\ Recorded(a) = {}
                                /\ conflicts[a] = {} /\ decisions[a] = {}
      /\ \A w \in Workers : pc[w] = "poll"
  BY DEF Init, LedgerInit, Recorded
<1>2. \A a \in Assessments : Replays(checkpoints[a], a)
  <2>1. /\ NoCheckpoint.event_seq = 0 /\ NoCheckpoint.conflict_round = 0
        /\ NoCheckpoint.next = "supervisor" /\ NoCheckpoint.human_decision = "none"
    BY DEF NoCheckpoint
  <2> QED
    BY <1>1, <2>1, NoCheckpointType DEF Replays, Fresh, Carried
<1>3. \A a \in Assessments : ConflictTable(a) /\ DecisionTable(a)
  BY <1>1 DEF ConflictTable, DecisionTable
<1>4. \A w \in Workers : Working(w) /\ OpenInv(w)
  BY <1>1 DEF Working, OpenInv, Open, InRun, InNode
<1> QED
  BY <1>2, <1>3, <1>4 DEF ReplayInv

\* Every step keeps it.
LEMMA StepReplayInv == EngineInv /\ ReplayInv /\ [Next]_vars => ReplayInv'
<1> SUFFICES ASSUME EngineInv, ReplayInv, [Next]_vars PROVE ReplayInv'
  OBVIOUS
<1>1. \A a \in Assessments : Replays(checkpoints[a], a)'
  BY CheckpointsReplay
<1>2. \A a \in Assessments : ConflictTable(a)' /\ DecisionTable(a)'
  BY ConflictStep, DecisionStep
<1>3. \A w \in Workers : Working(w)' /\ OpenInv(w)'
  BY WorkersReplay, OpenStep
<1> QED
  BY <1>1, <1>2, <1>3 DEF ReplayInv

\* In every reachable state every copy of a case's state, in a worker or in a
\* checkpoint, however old, is the summary of the prefix of the ledger it was
\* made from; a rejection whose conflict is not yet closed is the last row of its
\* case and has one run; conflicts and decisions are what the ledger says.
THEOREM ReplayInvariant == Spec => []ReplayInv
<1>1. Init => EngineInv /\ ReplayInv
  BY InitEngineInv, InitReplayInv
<1>2. (EngineInv /\ ReplayInv) /\ [Next]_vars => (EngineInv /\ ReplayInv)'
  BY StepEngineInv, StepReplayInv
<1> QED
  BY <1>1, <1>2, PTL DEF Spec

-----------------------------------------------------------------------------
(* What follows.                                                            *)

\* A step of the service is a step of the audit trail, or none.
LEMMA StepIsRecord ==
  ASSUME EngineInv, ReplayInv, [Next]_vars
  PROVE  [Audit!Next]_([a \in Assessments |-> Trail(a)])
<1> DEFINE trails == [a \in Assessments |-> Trail(a)]
<1>1. CASE \E w \in Workers : Logging(w)
  <2>1. PICK w \in Workers : Logging(w)
    BY <1>1
  <2>2. pc[w] \in InRun /\ Working(w)
    BY <2>1, LoggingLemma DEF InRun, InNode, ReplayInv
  <2>3. PICK c \in Assessments, s \in GraphState : c = Case(w) /\ s = state[w]
    BY <2>2, CaseLemma, PartsLemma DEF WorkerTypes, InRun, InNode
  <2>4. PICK outcome \in Outcome :
           /\ Log(w, s.next, outcome) /\ s.next \in Nodes
           /\ s.next = "finalize_decision" => outcome = PublishedVerdict(s.human_decision)
           /\ s.next = "risk_critic" => outcome \in Verdicts
           /\ s.next = "human_escalation" => outcome \in Answers
           /\ s.next \in {"supervisor", "data_engineer", "financial_analyst"} => outcome = "none"
    BY <2>1, <2>2, <2>3, LoggedRow
  <2> DEFINE row == [node |-> s.next, outcome |-> outcome]
  <2>5. /\ Trail(c)' = Append(Trail(c), row)
        /\ \A b \in Assessments : b # c => Trail(b)' = Trail(b)
    BY <2>2, <2>3, <2>4, TrailEffect
  <2>6. /\ s \in GraphState /\ Audit!Expected(Trail(c)) = s.next
        /\ Audit!AnswersIn(Trail(c)) = (IF s.human_decision = "none" THEN {} ELSE {s.human_decision})
    <3>1. s \in GraphState /\ Summary(s, c) /\ Trail(c) = Prefix(c, s.event_seq)
      BY <2>2, <2>3, <2>4, WriterSeesAll
    <3> QED
      BY <3>1 DEF Summary
  <2>7. outcome \in Audit!Outcomes(Trail(c), s.next)
    <3>1. CASE s.next = "finalize_decision"
      <4>1. PublishedVerdict(s.human_decision) = Audit!ClosingVerdict(Audit!AnswersIn(Trail(c)))
        <5>1. s.human_decision \in {"none", "approve", "reject"}
          BY <2>6 DEF GraphState, Answers
        <5> QED
          BY <2>6, <5>1 DEF PublishedVerdict, Audit!ClosingVerdict
      <4> QED
        BY <2>4, <3>1, <4>1 DEF Audit!Outcomes
    <3>2. CASE s.next # "finalize_decision"
      BY <2>4, <3>2 DEF Audit!Outcomes, Verdicts, Answers, Nodes
    <3> QED
      BY <3>1, <3>2
  <2>8. trails' = [trails EXCEPT ![c] = Append(@, row)]
    <3>1. trails' = [a \in Assessments |-> IF a = c THEN Append(Trail(c), row) ELSE Trail(a)]
      BY <2>5
    <3> HIDE DEF row
    <3> QED
      BY <3>1
  <2>9. s.next # "end" /\ trails[c] = Trail(c)
    BY <2>4 DEF Nodes
  <2>10. Audit!Record(c)
    BY <2>6, <2>7, <2>8, <2>9 DEF Audit!Record
  <2> QED
    BY <2>10 DEF Audit!Next
<1>2. CASE UNCHANGED audit_events
  BY <1>2 DEF Trail, Recorded
<1> QED
  BY <1>1, <1>2, LedgerKinds DEF CriticOpensConflict, CriticResolves, ledger

\* The ledger implements AuditTrail: whatever the queue, the workers, crashes and
\* repeated resumes do, the rows of a case only ever grow by the next row of one
\* legal walk through the graph (_log, UNIQUE (assessment_id, seq) and the
\* writes of the checkpointer together).
THEOREM LedgerImplementsAuditTrail == Spec => LedgerIsLegalWalk
<1>1. Init => Audit!Init
  <2> SUFFICES ASSUME Init, NEW a \in Assessments PROVE Trail(a) = <<>>
    BY DEF Audit!Init
  <2>1. Recorded(a) = {}
    BY DEF Init, LedgerInit, Recorded
  <2>2. Cardinality(Recorded(a)) = 0
    BY <2>1, FS_EmptySet
  <2> QED
    BY <2>2 DEF Trail
<1>2. EngineInv /\ ReplayInv /\ [Next]_vars => [Audit!Next]_([a \in Assessments |-> Trail(a)])
  BY StepIsRecord
<1> QED
  BY <1>1, <1>2, EngineInvariant, ReplayInvariant, PTL DEF Spec, LedgerIsLegalWalk, Audit!Spec

\* A checkpoint, whoever wrote it and however late, is the summary of a prefix of
\* the ledger: a resume goes on where some run of the case has been.
THEOREM CheckpointsAreSummaries == Spec => []CheckpointsReplayLedger
<1>1. EngineInv /\ ReplayInv => CheckpointsReplayLedger
  <2> SUFFICES ASSUME EngineInv, ReplayInv, NEW a \in Assessments,
                      NEW s, s = checkpoints[a], NEW k, k = s.event_seq, k > 0
               PROVE  LET prefix == SubSeq(Trail(a), 1, k)
                      IN  /\ k \in Recorded(a)
                          /\ s.next = Audit!Expected(prefix)
                          /\ s.conflict_round = Audit!Rejections(prefix)
                          /\ Audit!AnswersIn(prefix) = (IF s.human_decision = "none" THEN {}
                                                        ELSE {s.human_decision})
    BY DEF CheckpointsReplayLedger
  <2>1. Replays(s, a) /\ k \in Nat
    BY DEF ReplayInv, Replays, GraphState
  <2>2. k \in Recorded(a) /\ Summary(s, a)
    BY <2>1 DEF Replays, Carried
  <2>3. SubSeq(Trail(a), 1, k) = Prefix(a, k)
    BY <2>2, SubTrail
  <2> QED
    BY <2>2, <2>3 DEF Summary
<1> QED
  BY <1>1, EngineInvariant, ReplayInvariant, PTL

\* A decision and a closing row come together and say the same: its verdict, the
\* human's part in it and its conflict rounds are those of the ledger, although
\* the finalize node takes them from the state it happens to hold.
THEOREM DecisionIsTheLedgers == Spec => []DecisionMatchesLedger
<1>1. EngineInv /\ ReplayInv => DecisionMatchesLedger
  <2> SUFFICES ASSUME EngineInv, ReplayInv, NEW a \in Assessments
               PROVE  LET closing == {k \in Recorded(a) : audit_events[a][k].node = "finalize_decision"}
                      IN  /\ decisions[a] # {} <=> closing # {}
                          /\ \A d \in decisions[a] :
                               /\ \A k \in closing : audit_events[a][k].outcome = d.verdict
                               /\ d.reviewed_by_human <=> Audit!AnswersIn(Trail(a)) # {}
                               /\ d.conflict_rounds = Audit!Rejections(Trail(a))
    BY DEF DecisionMatchesLedger
  <2>1. DecisionTable(a) /\ Rows(a) \in Nat /\ Recorded(a) = 1..Rows(a)
    BY RowsLemma DEF ReplayInv
  <2>2. PICK n : n = Rows(a) /\ n \in Nat /\ Recorded(a) = 1..n
    BY <2>1
  <2>3. \A k \in Recorded(a) :
          audit_events[a][k].node = "finalize_decision" => k = n /\ decisions[a] # {}
    BY <2>1, <2>2 DEF DecisionTable
  <2>4. ASSUME NEW d \in decisions[a]
        PROVE  /\ n \in Recorded(a)
               /\ audit_events[a][n].node = "finalize_decision"
               /\ audit_events[a][n].outcome = d.verdict
               /\ d.reviewed_by_human <=> Audit!AnswersIn(Trail(a)) # {}
               /\ d.conflict_rounds = Audit!Rejections(Trail(a))
    <3>1. /\ n > 0 /\ Row(a, n) = [node |-> "finalize_decision", outcome |-> d.verdict]
          /\ d.reviewed_by_human <=> Audit!AnswersIn(Trail(a)) # {}
          /\ d.conflict_rounds = Audit!Rejections(Trail(a))
      BY <2>1, <2>2 DEF DecisionTable
    <3> QED
      BY <2>2, <3>1 DEF Row
  <2> QED
    BY <2>3, <2>4
<1> QED
  BY <1>1, EngineInvariant, ReplayInvariant, PTL

\* The conflicts table is an index over the rejections of the ledger, each under
\* its round, and a case whose latest rejection is not yet indexed and resolved
\* gets no further row: the three statements of a rejection commit one by one, and
\* whatever crash or other run comes between them, the case goes on with all of
\* them done or not at all.
THEOREM ConflictsAreAnIndex == Spec => []ConflictsIndexRejections
<1>1. EngineInv /\ ReplayInv => ConflictsIndexRejections
  <2> SUFFICES ASSUME EngineInv, ReplayInv, NEW a \in Assessments
               PROVE  /\ \A c \in conflicts[a] :
                           /\ c.event \in Disputes(a)
                           /\ c.round = Audit!Rejections(SubSeq(Trail(a), 1, c.event))
                           /\ \A d \in conflicts[a] : d.event = c.event => d = c
                      /\ \A k \in Disputes(a) : k + 1 \in Recorded(a) => Indexed(a, k)
    BY DEF ConflictsIndexRejections
  <2>1. \A k \in Recorded(a) : Rejected(a, k) <=> k \in Disputes(a)
    BY DEF Rejected, Row, Disputes
  <2>2. \A k \in Recorded(a) : SubSeq(Trail(a), 1, k) = Prefix(a, k)
    BY SubTrail
  <2>3. ASSUME NEW c \in conflicts[a]
        PROVE  /\ c.event \in Disputes(a)
               /\ c.round = Audit!Rejections(SubSeq(Trail(a), 1, c.event))
               /\ \A d \in conflicts[a] : d.event = c.event => d = c
    <3>1. PICK k \in Recorded(a) : k = c.event
      BY DEF ReplayInv, ConflictTable
    <3>2. /\ Rejected(a, k) /\ c.round = Audit!Rejections(Prefix(a, k))
          /\ \A d \in conflicts[a] : d.event = c.event => d = c
      BY <3>1 DEF ReplayInv, ConflictTable
    <3> QED
      BY <2>1, <2>2, <3>1, <3>2
  <2>4. \A k \in Disputes(a) : k + 1 \in Recorded(a) => Indexed(a, k)
    BY <2>1 DEF ReplayInv, ConflictTable, Disputes
  <2> QED
    BY <2>3, <2>4
<1> QED
  BY <1>1, EngineInvariant, ReplayInvariant, PTL

-----------------------------------------------------------------------------
(* The walk, as one reads it backwards.                                     *)

\* Every row of the ledger is the one its predecessors call for.
Walk(a) == \A k \in Recorded(a) : Row(a, k).node = Audit!Expected(Prefix(a, k - 1))

\* _log writes the row of the node the state is at, and the state of a run that
\* gets its row in has seen all rows before it.
LEMMA WalkStep ==
  ASSUME EngineInv, ReplayInv, [Next]_vars, NEW a \in Assessments, Walk(a)
  PROVE  Walk(a)'
<1>1. PICK m \in Nat : m = Rows(a) /\ Recorded(a) = 1..m /\ Trail(a) = Prefix(a, m)
  BY RowsLemma
<1>2. \A k \in 1..m : k \in Recorded(a)' /\ audit_events'[a][k] = audit_events[a][k]
  BY <1>1, LedgerExtendsStep DEF LedgerExtends
<1>3. \A n \in 0..m : Prefix(a, n)' = Prefix(a, n)
  BY <1>1, <1>2, PrefixKept
<1>4. ASSUME NEW k \in 1..m PROVE Row(a, k)'.node = Audit!Expected(Prefix(a, k - 1))'
  <2>1. Row(a, k)' = Row(a, k)
    BY <1>2 DEF Row
  <2>2. PICK t : t = Prefix(a, k - 1) /\ t = Prefix(a, k - 1)'
    BY <1>3
  <2>3. Row(a, k).node = Audit!Expected(t)
    BY <1>1, <2>2 DEF Walk
  <2> QED
    BY <2>1, <2>2, <2>3
<1>5. CASE audit_events'[a] = audit_events[a]
  BY <1>1, <1>4, <1>5 DEF Walk, Recorded
<1>6. CASE audit_events'[a] # audit_events[a]
  <2>1. PICK w \in Workers : Logging(w) /\ pc[w] \in InRun
    BY <1>6, LedgerKinds, LoggingLemma
    DEF CriticOpensConflict, CriticResolves, ledger, InRun, InNode
  <2>2. PICK c \in Assessments, s \in GraphState, n \in Nat :
          c = Case(w) /\ s = state[w] /\ n = state[w].event_seq
    BY <2>1, CaseLemma, PartsLemma DEF WorkerTypes, GraphState, InRun, InNode
  <2>3. PICK outcome \in Outcome : Log(w, s.next, outcome) /\ s.next \in Nodes
    BY <2>1, <2>2, LoggedRow DEF ReplayInv
  <2>4. /\ n \in Nat /\ n = Rows(c)
        /\ Recorded(c)' = 1..(n + 1) /\ Rows(c)' = n + 1
        /\ \A k \in 1..n : audit_events'[c][k] = audit_events[c][k]
        /\ Row(c, n + 1)' = [node |-> s.next, outcome |-> outcome]
        /\ \A b \in Assessments : b # c => audit_events'[b] = audit_events[b]
    BY <2>1, <2>2, <2>3, LogEffect
  <2>5. a = c /\ n = m
    BY <1>1, <1>6, <2>4
  <2>6. s.next = Audit!Expected(Prefix(a, m))
    <3>1. Summary(s, c) /\ Trail(c) = Prefix(c, s.event_seq)
      BY <2>1, <2>2, <2>3, WriterSeesAll
    <3> QED
      BY <1>1, <2>2, <2>5, <3>1 DEF Summary
  <2>7. Row(a, m + 1)'.node = Audit!Expected(Prefix(a, (m + 1) - 1))'
    <3>1. PICK t : t = Prefix(a, m) /\ t = Prefix(a, m)'
      BY <1>1, <1>3
    <3>2. Row(a, m + 1)'.node = Audit!Expected(t)
      BY <2>4, <2>5, <2>6, <3>1
    <3>3. (m + 1) - 1 = m
      BY <1>1
    <3> QED
      BY <3>1, <3>2, <3>3
  <2>8. \A k \in Recorded(a)' : k \in 1..m \/ k = m + 1
    BY <1>1, <2>4, <2>5
  <2> QED
    BY <1>4, <2>7, <2>8 DEF Walk
<1> QED
  BY <1>5, <1>6

\* In every reachable state each row of a ledger is the one that the rows before
\* it call for, however many runs have had a part in writing them.
THEOREM LedgerWalks == Spec => [](\A a \in Assessments : Walk(a))
<1>1. Init => \A a \in Assessments : Walk(a)
  BY DEF Init, LedgerInit, Recorded, Walk
<1>2. EngineInv /\ ReplayInv /\ (\A a \in Assessments : Walk(a)) /\ [Next]_vars
        => (\A a \in Assessments : Walk(a))'
  BY WalkStep
<1> QED
  BY <1>1, <1>2, EngineInvariant, ReplayInvariant, PTL DEF Spec

\* Where a human had to decide, the walk goes through the reviewer's row to the
\* closing one, and by no other way.
LEMMA AfterHuman ==
  ASSUME EngineInv, NEW a \in Assessments, Walk(a),
         NEW n \in Recorded(a), Audit!Expected(Prefix(a, n)) = "human_escalation"
  PROVE  /\ Audit!Rejections(Trail(a)) = Audit!Rejections(Prefix(a, n))
         /\ Audit!Expected(Trail(a)) \in {"human_escalation", "finalize_decision", "end"}
         /\ Audit!Expected(Trail(a)) = "human_escalation" => Rows(a) = n
         /\ Audit!Expected(Trail(a)) # "human_escalation" => Audit!AnswersIn(Trail(a)) # {}
<1>1. PICK m \in Nat : /\ m = Rows(a) /\ Recorded(a) = 1..m /\ Trail(a) = Prefix(a, m)
                       /\ \A k \in 1..m : Row(a, k) \in TrailRow
  BY RowsLemma
<1>2. n \in 1..m
  BY <1>1
<1>3. \A k \in 1..m : Prefix(a, k) \in Seq(TrailRow)
  BY <1>1, PrefixLemma
<1>4. \A k \in 1..m : k + 1 \in 1..m => Prefix(a, k + 1) = Append(Prefix(a, k), Row(a, k + 1))
  BY <1>1, PrefixLemma
<1>5. ASSUME NEW k \in 1..m, k + 1 \in 1..m
      PROVE  Row(a, k + 1).node = Audit!Expected(Prefix(a, k))
  <2>1. (k + 1) - 1 = k
    OBVIOUS
  <2> QED
    BY <1>1, <1>5, <2>1 DEF Walk
<1>6. CASE m = n
  BY <1>1, <1>6
<1>7. CASE m > n
  <2>1. PICK t \in Seq(TrailRow), row \in TrailRow :
          /\ t = Prefix(a, n) /\ row = Row(a, n + 1) /\ row.node = "human_escalation"
          /\ Prefix(a, n + 1) = Append(t, row)
    BY <1>1, <1>2, <1>3, <1>4, <1>5, <1>7
  <2>2. PICK u \in Seq(TrailRow) :
          /\ u = Prefix(a, n + 1)
          /\ Audit!Rejections(u) = Audit!Rejections(t)
          /\ Audit!AnswersIn(u) # {}
          /\ Audit!Expected(u) = "finalize_decision"
    <3>1. Audit!Rejections(Append(t, row)) = Audit!Rejections(t) /\ Audit!Rejections(t) \in Nat
      BY <2>1, RejectionsAppend
    <3>2. Audit!AnswersIn(Append(t, row)) # {}
      BY <2>1, AnswersAppend
    <3>3. Audit!Expected(Append(t, row)) = "finalize_decision"
      BY <2>1, ExpectedAppend DEF EdgeAfter
    <3>4. Prefix(a, n + 1) \in Seq(TrailRow)
      BY <1>2, <1>3, <1>7
    <3> QED
      BY <2>1, <3>1, <3>2, <3>3, <3>4
  <2>3. CASE m = n + 1
    BY <1>1, <2>1, <2>2, <2>3
  <2>4. CASE m > n + 1
    <3>1. PICK end \in TrailRow :
            /\ end = Row(a, n + 2) /\ end.node = "finalize_decision"
            /\ Prefix(a, n + 2) = Append(u, end)
      <4>1. n + 1 \in 1..m /\ (n + 1) + 1 \in 1..m /\ (n + 1) + 1 = n + 2
        BY <1>2, <2>4
      <4> QED
        BY <1>1, <1>4, <1>5, <2>2, <4>1
    <3>2. /\ Audit!Rejections(Append(u, end)) = Audit!Rejections(t)
          /\ Audit!AnswersIn(Append(u, end)) # {}
          /\ Audit!Expected(Append(u, end)) = "end"
      <4>1. /\ Audit!Rejections(Append(u, end)) = Audit!Rejections(u) /\ Audit!Rejections(u) \in Nat
        BY <3>1, RejectionsAppend
      <4>2. Audit!AnswersIn(Append(u, end)) # {}
        BY <2>2, <3>1, AnswersAppend
      <4>3. Audit!Expected(Append(u, end)) = "end"
        BY <3>1, ExpectedAppend DEF EdgeAfter
      <4> QED
        BY <2>2, <4>1, <4>2, <4>3
    <3>3. m = n + 2
      <4>1. SUFFICES ASSUME m # n + 2 PROVE FALSE
        OBVIOUS
      <4>2. n + 2 \in 1..m /\ (n + 2) + 1 \in 1..m
        BY <1>2, <2>4, <4>1
      <4>3. Row(a, (n + 2) + 1).node = "end"
        BY <1>5, <3>1, <3>2, <4>2
      <4> QED
        BY <1>1, <4>2, <4>3 DEF TrailRow, Nodes
    <3> QED
      BY <1>1, <2>1, <3>1, <3>2, <3>3
  <2> QED
    BY <1>2, <1>7, <2>3, <2>4
<1> QED
  BY <1>2, <1>6, <1>7
=============================================================================
