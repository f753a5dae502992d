------------------------------- MODULE Scoring ------------------------------
(***************************************************************************)
(* From figures to a published score: the formulas of app/tools/formulas.py *)
(* and what becomes of their results in one round of financial_analyst,    *)
(* risk_critic and finalize_decision: rounded, logged as JSON, judged by   *)
(* the mandatory gates, and rounded again into the columns of decisions.   *)
(* The round has all the data it needs; incomplete data is the business of *)
(* DecisionGraph, which lets a score fall in any band.                     *)
(*                                                                         *)
(* Numbers are fixed point: indices, ratios and band scores in hundredths, *)
(* weighted sums exact, the numbers compared and rounded ten times finer,  *)
(* M-scores and Z-scores in 10^-6 and composites in 10^-4.                 *)
(***************************************************************************)
EXTENDS Integers, Sequences

CONSTANT Evidence    \* what the warehouse may hold of a subject

VARIABLES
  stage,      \* the node that runs next, or how the round ended
  evidence,   \* the rows fetched
  analysis,   \* financial_analysis, once it has been logged
  reviewed,   \* a human has answered
  decisions   \* rows of the decisions table

vars == <<stage, evidence, analysis, reviewed, decisions>>

-----------------------------------------------------------------------------
(* What the formulas are given.                                             *)

BeneishIndices == {"DSRI", "GMI", "AQI", "SGI", "DEPI", "SGAI", "TATA", "LVGI"}
AltmanRatios   == {"X1", "X2", "X3", "X4"}

\* The four indices whose division by zero the code replaces by infinity.
Guarded == {"GMI", "AQI", "DEPI", "LVGI"}

\* Emissions in t per million of revenue, injuries in tenths, independence in
\* per cent.
Disclosure == [emissions : Nat, injuries : Nat, independence : 0..100, flags : Nat]

\* invalid: a NULL or out of its range, which the input models refuse.
\* zero_prior: no receivables, or no SG&A expense, in the prior year.
\* infinite: the guarded indices that have no divisor.  An index or ratio that
\* does not exist has a number here which nothing reads.
EvidenceType ==
  [request    : {"esg_score", "fraud_risk", "combined"},
   invalid    : BOOLEAN,
   indices    : [BeneishIndices -> Int],
   zero_prior : BOOLEAN,
   infinite   : SUBSET Guarded,
   ratios     : [AltmanRatios -> Int],
   debt_free  : BOOLEAN,
   disclosure : Disclosure]

ASSUME EvidenceAssumption == Evidence \subseteq EvidenceType

WantsFraud(e) == e.request \in {"fraud_risk", "combined"}
WantsEsg(e)   == e.request \in {"esg_score", "combined"}

-----------------------------------------------------------------------------
(* Floating-point numbers, as far as they matter.                           *)

Score == [kind : {"finite", "inf", "-inf", "nan"}, at : Int]

Finite(x)     == [kind |-> "finite", at |-> x]
Infinity      == [kind |-> "inf", at |-> 0]
MinusInfinity == [kind |-> "-inf", at |-> 0]
NotANumber    == [kind |-> "nan", at |-> 0]

\* A sum of floats lies a little beside the exact sum x, on either side: much
\* less than half a unit of any rounding, but enough to cross a boundary that x
\* lies on.
Computed(x) == {Finite(10 * x + drift) : drift \in {-1, 0, 1}}

\* score > bound; every comparison with NaN is false.
Exceeds(score, bound) ==
  \/ score.kind = "inf"
  \/ score.kind = "finite" /\ score.at > bound

\* The nearest multiples of unit: two when x lies half way, because the binary
\* number behind x may be on either side.
Nearest(x, unit) ==
  LET low == unit * (x \div unit)
  IN  {y \in {low, low + unit} : 2 * (y - x) <= unit /\ 2 * (x - y) <= unit}

Rounded(score, unit) ==
  IF score.kind = "finite" THEN {Finite(y) : y \in Nearest(score.at, unit)} ELSE {score}

-----------------------------------------------------------------------------
(* Beneish M-score.                                                         *)

WeightedIndices(i) ==
  -484000 + 920 * i["DSRI"] + 528 * i["GMI"] + 404 * i["AQI"] + 892 * i["SGI"]
          + 115 * i["DEPI"] - 172 * i["SGAI"] + 4679 * i["TATA"] - 327 * i["LVGI"]

\* Only LVGI has a negative coefficient among the indices that may be infinite.
MScores(e) ==
  CASE e.infinite = {}                             -> Computed(WeightedIndices(e.indices))
    [] e.infinite # {} /\ "LVGI" \notin e.infinite -> {Infinity}
    [] e.infinite = {"LVGI"}                       -> {MinusInfinity}
    [] OTHER                                       -> {NotANumber}

\* A mutated band edge: medium begins half a point too high.
FraudLevelWrongEdge(m) ==
  IF Exceeds(m, -1780000) THEN IF Exceeds(m, -1000000) THEN "critical" ELSE "high"
  ELSE IF Exceeds(m, -2000000) THEN "medium" ELSE "low"

FraudLevel(m) ==
  IF Exceeds(m, -1780000) THEN IF Exceeds(m, -1000000) THEN "critical" ELSE "high"
  ELSE IF Exceeds(m, -2500000) THEN "medium" ELSE "low"

-----------------------------------------------------------------------------
(* Altman Z''-score.                                                        *)

WeightedRatios(r) == 6560 * r["X1"] + 3260 * r["X2"] + 6720 * r["X3"] + 1050 * r["X4"]

ZScores(e) == IF e.debt_free THEN {Infinity} ELSE Computed(WeightedRatios(e.ratios))

\* A mutated band edge: the distress zone ends a little too low.
DistressZoneWrongEdge(z) ==
  IF Exceeds(z, 2600000) THEN "safe" ELSE IF Exceeds(z, 1000000) THEN "grey" ELSE "distress"

DistressZone(z) ==
  IF Exceeds(z, 2600000) THEN "safe" ELSE IF Exceeds(z, 1100000) THEN "grey" ELSE "distress"

-----------------------------------------------------------------------------
(* The ESG composite and ESG_RUBRIC_DEFAULT.                                *)

Point(boundary, score) == [boundary |-> boundary, score |-> score]

emissions_intensity_thresholds ==
  <<Point(50, 100), Point(150, 70), Point(400, 40), Point(1000, 10)>>
injury_rate_thresholds ==
  <<Point(5, 100), Point(20, 70), Point(50, 40), Point(100, 10)>>
board_independence_thresholds ==
  <<Point(30, 10), Point(50, 40), Point(70, 70), Point(90, 100)>>

\* On the line from p to q.
Interpolated(value, p, q) ==
  100 * p.score + (100 * (q.score - p.score) * (value - p.boundary)) \div (q.boundary - p.boundary)

\* The segment a value between the first and the last boundary falls in.
Segment(value, thresholds) ==
  CHOOSE k \in 1..(Len(thresholds) - 1) :
    thresholds[k].boundary <= value /\ value <= thresholds[k + 1].boundary

\* The earlier version of _band_score its docstring tells of: falling scores
\* are taken for a list to be reversed first.
BandScoreReversing(value, thresholds) ==
  LET n == Len(thresholds)
      t == IF thresholds[1].score < thresholds[n].score THEN thresholds
           ELSE [k \in 1..n |-> thresholds[n + 1 - k]]
  IN  IF value <= t[1].boundary THEN 100 * t[1].score
      ELSE IF value >= t[n].boundary THEN 100 * t[n].score
      ELSE LET k == Segment(value, t) IN Interpolated(value, t[k], t[k + 1])

BandScore(value, thresholds) ==
  LET n == Len(thresholds)
  IN  IF value <= thresholds[1].boundary THEN 100 * thresholds[1].score
      ELSE IF value >= thresholds[n].boundary THEN 100 * thresholds[n].score
      ELSE LET k == Segment(value, thresholds)
           IN  Interpolated(value, thresholds[k], thresholds[k + 1])

EnvironmentalScore(d) == BandScore(d.emissions, emissions_intensity_thresholds)
GovernanceScore(d)    == BandScore(d.independence, board_independence_thresholds)

Penalty(flags) == IF 15 * flags < 60 THEN 1500 * flags ELSE 6000

\* A mutated social pillar: the penalty may take it below zero.
SocialScoreUnfloored(d) == BandScore(d.injuries, injury_rate_thresholds) - Penalty(d.flags)

SocialScore(d) ==
  LET penalised == BandScore(d.injuries, injury_rate_thresholds) - Penalty(d.flags)
  IN  IF penalised > 0 THEN penalised ELSE 0

Composite(d) == 4 * EnvironmentalScore(d) + 3 * SocialScore(d) + 3 * GovernanceScore(d)

rating_bands ==
  <<[from |-> 80, label |-> "AAA"], [from |-> 65, label |-> "AA"], [from |-> 50, label |-> "A"],
    [from |-> 35, label |-> "BB"], [from |-> 20, label |-> "B"], [from |-> 0, label |-> "CCC"]>>

Ratings == {rating_bands[k].label : k \in 1..6}

Cleared(composite) == {k \in 1..6 : composite.at >= 10000 * rating_bands[k].from}

\* The first band the composite clears.
Rating(composite) ==
  rating_bands[CHOOSE k \in Cleared(composite) : \A i \in Cleared(composite) : k <= i].label

-----------------------------------------------------------------------------
(* Results.                                                                 *)

FraudLevels   == {"low", "medium", "high", "critical"}
DistressZones == {"safe", "grey", "distress"}
Levels        == FraudLevels \cup DistressZones \cup Ratings \cup {"none"}

Result   == [score : Score, level : Levels]
NoResult == [score |-> Finite(0), level |-> "none"]

Parts      == {"fraud", "distress", "esg"}
NoAnalysis == [part \in Parts |-> NoResult]

\* Each level is taken from the computed score, and the score is rounded after.
Levelled(scores, Level(_)) ==
  UNION {{[score |-> r, level |-> Level(s)] : r \in Rounded(s, 100)} : s \in scores}

FraudResults(e) == IF WantsFraud(e) THEN Levelled(MScores(e), FraudLevel) ELSE {NoResult}

DistressResults(e) == IF WantsFraud(e) THEN Levelled(ZScores(e), DistressZone) ELSE {NoResult}

EsgResults(e) ==
  IF WantsEsg(e) THEN Levelled(Computed(Composite(e.disclosure)), Rating) ELSE {NoResult}

\* No formula is registered that survives these.
Raises(e) ==
  \/ e.invalid
  \/ WantsFraud(e) /\ e.zero_prior
  \/ WantsEsg(e) /\ \E c \in Computed(Composite(e.disclosure)) : Cleared(c) = {}

\* A mutated codec that has a form for every float.
EncodesAnything(score) == TRUE

\* json.dumps writes Infinity and NaN, the pool's codec passes the text on, and
\* jsonb takes neither.
JsonAccepts(score) == score.kind = "finite"

-----------------------------------------------------------------------------
Row == [score : Int, level : Levels]

Published == [fraud : Row, distress : Row, esg : Row, reviewed_by_human : BOOLEAN]

\* What a NUMERIC column of two, or three, decimals holds.
Columns(part) == IF part = "distress" THEN 999999000 ELSE IF part = "fraud" THEN 999990000 ELSE 9999900

TypeOK ==
  /\ stage \in {"financial_analyst", "risk_critic", "human_escalation", "finalize_decision",
                "data_engineer", "end", "failed"}
  /\ evidence \in EvidenceType
  /\ analysis \in [Parts -> Result]
  /\ reviewed \in BOOLEAN
  /\ decisions \subseteq Published
  /\ \A d \in decisions : \A part \in Parts :
       -Columns(part) <= d[part].score /\ d[part].score <= Columns(part)

Init ==
  /\ stage = "financial_analyst"
  /\ evidence \in Evidence
  /\ analysis = NoAnalysis
  /\ reviewed = FALSE
  /\ decisions = {}

\* The results are computed, logged, and only then part of the state.
financial_analyst_node ==
  /\ stage = "financial_analyst"
  /\ ~Raises(evidence)
  /\ \E f \in FraudResults(evidence), z \in DistressResults(evidence), c \in EsgResults(evidence) :
       /\ JsonAccepts(f.score) /\ JsonAccepts(z.score) /\ JsonAccepts(c.score)
       /\ analysis' = [fraud |-> f, distress |-> z, esg |-> c]
  /\ stage' = "risk_critic"
  /\ UNCHANGED <<evidence, reviewed, decisions>>

FormulaRaises ==
  /\ stage = "financial_analyst"
  /\ Raises(evidence)
  /\ stage' = "failed"
  /\ UNCHANGED <<evidence, analysis, reviewed, decisions>>

\* _log raises: the insert has an argument that is not JSON.
LogRefused ==
  /\ stage = "financial_analyst"
  /\ ~Raises(evidence)
  /\ \E f \in FraudResults(evidence), z \in DistressResults(evidence), c \in EsgResults(evidence) :
       ~(JsonAccepts(f.score) /\ JsonAccepts(z.score) /\ JsonAccepts(c.score))
  /\ stage' = "failed"
  /\ UNCHANGED <<evidence, analysis, reviewed, decisions>>

Alarming == analysis.fraud.level = "critical" \/ analysis.distress.level = "distress"

\* With an alarm, a human; without one, wherever the LLM's verdict leads.
risk_critic_node ==
  /\ stage = "risk_critic"
  /\ stage' \in (IF Alarming THEN {"human_escalation"}
                 ELSE {"finalize_decision", "human_escalation", "data_engineer"})
  /\ UNCHANGED <<evidence, analysis, reviewed, decisions>>

human_escalation_node ==
  /\ stage = "human_escalation"
  /\ reviewed' = TRUE
  /\ stage' = "finalize_decision"
  /\ UNCHANGED <<evidence, analysis, decisions>>

\* The second rounding, to the column's decimals.
ColumnUnit(part) == IF part = "distress" THEN 1000 ELSE IF part = "fraud" THEN 10000 ELSE 100

PublishedAs(part) ==
  {[score |-> y, level |-> analysis[part].level] :
     y \in Nearest(analysis[part].score.at, ColumnUnit(part))}

\* A mutated table whose columns have room for any number.
RoomForAnything(part, score) == TRUE

FitsColumn(part, score) == -Columns(part) <= score /\ score <= Columns(part)

finalize_decision_node ==
  /\ stage = "finalize_decision"
  /\ \E f \in PublishedAs("fraud"), z \in PublishedAs("distress"), c \in PublishedAs("esg") :
       /\ FitsColumn("fraud", f.score)
       /\ FitsColumn("distress", z.score)
       /\ FitsColumn("esg", c.score)
       /\ decisions' = {[fraud |-> f, distress |-> z, esg |-> c, reviewed_by_human |-> reviewed]}
  /\ stage' = "end"
  /\ UNCHANGED <<evidence, analysis, reviewed>>

\* numeric field overflow: the publishing transaction is rolled back.
DecisionRowRefused ==
  /\ stage = "finalize_decision"
  /\ \E part \in Parts : \E row \in PublishedAs(part) : ~FitsColumn(part, row.score)
  /\ stage' = "failed"
  /\ UNCHANGED <<evidence, analysis, reviewed, decisions>>

Next ==
  \/ financial_analyst_node \/ FormulaRaises \/ LogRefused
  \/ risk_critic_node \/ human_escalation_node
  \/ finalize_decision_node \/ DecisionRowRefused

Spec == Init /\ [][Next]_vars

-----------------------------------------------------------------------------
(* Properties.                                                              *)

\* A level the critic judges, and a decision repeats, rests on ratios that
\* exist: no "safe" because there is no debt to divide by, no "low" because an
\* index that is subtracted is infinite or because NaN exceeds nothing.  (The
\* formulas hand such levels out; that the case fails instead is left to the
\* JSON column the results must pass through first.)
NoLevelFromUndefinedRatio ==
  /\ analysis.fraud.level # "none" => evidence.infinite = {} /\ ~evidence.zero_prior
  /\ analysis.distress.level # "none" => ~evidence.debt_free

\* Who reads only the numbers of a decision finds no alarm that went past the
\* reviewers: an M-score published above -1.00 or a Z-score below 1.100 is in a
\* row reviewed by a human.  (The gates compare levels, taken before either
\* rounding, with words; the row shows numbers rounded twice.)
PublishedAlarmWasReviewed ==
  \A d \in decisions :
    \/ d.fraud.level # "none" /\ d.fraud.score > -1000000
    \/ d.distress.level # "none" /\ d.distress.score < 1100000
    => d.reviewed_by_human

TellsScore(d) ==
  /\ d.fraud.level = "low"      => d.fraud.score <= -2500000
  /\ d.fraud.level = "medium"   => -2500000 <= d.fraud.score /\ d.fraud.score <= -1780000
  /\ d.fraud.level = "high"     => -1780000 <= d.fraud.score /\ d.fraud.score <= -1000000
  /\ d.fraud.level = "critical" => d.fraud.score >= -1000000
  /\ d.distress.level = "safe"     => d.distress.score >= 2600000
  /\ d.distress.level = "grey"     => 1100000 <= d.distress.score /\ d.distress.score <= 2600000
  /\ d.distress.level = "distress" => d.distress.score <= 1100000
  /\ \A k \in 1..6 : d.esg.level = rating_bands[k].label =>
       /\ d.esg.score >= 10000 * rating_bands[k].from
       /\ k > 1 => d.esg.score <= 10000 * rating_bands[k - 1].from

\* A level and the score published beside it are on the same side of every
\* boundary, unless the rounded score is the boundary itself.
LevelsTellPublishedScores == \A d \in decisions : TellsScore(d)

\* The disclosures that are worse in one figure.
Worsened(d) ==
  {[d EXCEPT !.emissions = @ + 1], [d EXCEPT !.injuries = @ + 1], [d EXCEPT !.flags = @ + 1]}
  \cup (IF d.independence > 0 THEN {[d EXCEPT !.independence = @ - 1]} ELSE {})

\* Nothing a subject does worse improves its composite, on any segment of any
\* rubric line and at any cap.  (_band_score leaves the direction of each
\* figure to the order of the scores in its thresholds.)
NoCreditForWorseFigures ==
  \A worse \in Worsened(evidence.disclosure) :
    Composite(worse) <= Composite(evidence.disclosure)

\* An ESG request fails for no other reason than a row the input model refuses:
\* every disclosure clears some band of rating_bands, and its composite fits.
EveryDisclosureIsRated ==
  stage = "failed" /\ evidence.request = "esg_score" => evidence.invalid
=============================================================================
