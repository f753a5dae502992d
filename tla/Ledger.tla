------------------------------- MODULE Ledger -------------------------------
(***************************************************************************)
(* The tables app/db/ledger.py writes, with the constraints and triggers   *)
(* of app/db/schema.sql: audit_events (UNIQUE on the case and seq, hashes  *)
(* chained by a BEFORE INSERT trigger, no update, no delete), conflicts    *)
(* (only resolution may change) and decisions (UNIQUE on case and version, *)
(* and every version written is 1).                                        *)
(***************************************************************************)
EXTENDS CaseFile, Sequences, FiniteSets

VARIABLES
  audit_events,   \* per case: the rows, by seq
  conflicts,      \* per case: the set of conflicts rows
  decisions       \* per case: the set of decisions rows

ledger == <<audit_events, conflicts, decisions>>

PublishedVerdicts == {"approved", "approved_with_flags", "rejected"}

EventTypes == {"routing_decision", "agent_call", "tool_call", "conflict", "human_decision",
               "final_decision"}

\* prev is the seq of the row whose record_hash was read into prev_hash, 0 for
\* the genesis hash: equal hashes mean the same row.
Event == [prev : Nat, event_type : EventTypes, node : Nodes,
          outcome : Verdicts \cup Answers \cup PublishedVerdicts \cup {"none"}]

\* event is the seq of the row audit_event_id refers to.
Conflict == [event : Nat, round : Nat,
             resolution : {"pending", "retried", "escalated_to_human"}]

DecisionRow == [verdict : PublishedVerdicts, reviewed_by_human : BOOLEAN, conflict_rounds : Nat]

LedgerTypeOK ==
  /\ \A a \in Assessments :
       /\ DOMAIN audit_events[a] \subseteq Nat
       /\ \A k \in DOMAIN audit_events[a] : audit_events[a][k] \in Event
  /\ DOMAIN audit_events = Assessments
  /\ conflicts \in [Assessments -> SUBSET Conflict]
  /\ decisions \in [Assessments -> SUBSET DecisionRow]

LedgerInit ==
  /\ audit_events = [a \in Assessments |-> <<>>]
  /\ conflicts = [a \in Assessments |-> {}]
  /\ decisions = [a \in Assessments |-> {}]

-----------------------------------------------------------------------------
Recorded(a) == DOMAIN audit_events[a]

\* ORDER BY seq DESC LIMIT 1, or the genesis row.
LastSeq(a) ==
  IF Recorded(a) = {} THEN 0
  ELSE CHOOSE k \in Recorded(a) : \A i \in Recorded(a) : i <= k

\* A mutated table without UNIQUE (assessment_id, seq): a re-run node
\* overwrites nothing but hides the row it repeats.
AlwaysFree(a, seq) == TRUE

\* UNIQUE (assessment_id, seq) lets the insert through.
SeqFree(a, seq) == seq \notin Recorded(a)

\* record_event with the trigger audit_events_chain_hash.
RecordEvent(a, seq, event_type, node, outcome) ==
  /\ SeqFree(a, seq)
  /\ audit_events' = [audit_events EXCEPT ![a] =
       [k \in Recorded(a) \cup {seq} |->
          IF k = seq
          THEN [prev |-> LastSeq(a), event_type |-> event_type, node |-> node, outcome |-> outcome]
          ELSE audit_events[a][k]]]

record_conflict(a, event, round) ==
  conflicts' = [conflicts EXCEPT ![a] =
    @ \cup {[event |-> event, round |-> round, resolution |-> "pending"]}]

\* A mutated resolution that updates no row: the conflict stays pending.
ConflictStaysOpen(a, event, resolution) == conflicts' = conflicts

\* The UPDATE by id: the caller has just inserted the row, the only one about
\* this event.
resolve_conflict(a, event, resolution) ==
  conflicts' = [conflicts EXCEPT ![a] =
    {IF c.event = event THEN [c EXCEPT !.resolution = resolution] ELSE c : c \in @}]

\* A mutated insert that is lost: the case is closed without its decision.
DecisionNotWritten(a, row) == decisions' = decisions

\* UNIQUE (assessment_id, version), and version is always 1.
record_decision(a, row) ==
  /\ decisions[a] = {}
  /\ decisions' = [decisions EXCEPT ![a] = {row}]
=============================================================================
