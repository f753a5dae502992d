--------------------------- MODULE ScoringProofs ----------------------------
(***************************************************************************)
(* What Scoring guarantees for every set of figures a warehouse may hold.  *)
(***************************************************************************)
EXTENDS Scoring, TLAPS

-----------------------------------------------------------------------------
(* Rounding.                                                                *)

Units == {100, 1000, 10000}

\* Rounding an integer to a multiple of a unit gives an integer.
LEMMA NearestIsInt ==
  ASSUME NEW x \in Int, NEW unit \in Units, NEW y \in Nearest(x, unit)
  PROVE  y \in Int
<1>1. unit \in Int /\ x \div unit \in Int
  BY DEF Units
<1> QED
  BY <1>1 DEF Nearest

-----------------------------------------------------------------------------
(* The lines of the rubric, written out.                                    *)

\* _band_score of an emissions intensity, segment by segment.
LEMMA EmissionsLine ==
  ASSUME NEW v \in Int
  PROVE  BandScore(v, emissions_intensity_thresholds) =
           IF v <= 50 THEN 10000 ELSE IF v <= 150 THEN 10000 - 30 * (v - 50)
           ELSE IF v <= 400 THEN 7000 - 12 * (v - 150)
           ELSE IF v <= 1000 THEN 4000 - 5 * (v - 400) ELSE 1000
<1> DEFINE t == emissions_intensity_thresholds
           k == Segment(v, t)
<1>1. /\ Len(t) = 4
      /\ t[1] = Point(50, 100) /\ t[2] = Point(150, 70)
      /\ t[3] = Point(400, 40) /\ t[4] = Point(1000, 10)
  BY DEF emissions_intensity_thresholds
<1>2. /\ t[1].boundary = 50 /\ t[1].score = 100 /\ t[2].boundary = 150 /\ t[2].score = 70
      /\ t[3].boundary = 400 /\ t[3].score = 40 /\ t[4].boundary = 1000 /\ t[4].score = 10
  BY <1>1 DEF Point
<1> HIDE DEF t
<1>3. CASE v <= 50
  BY <1>1, <1>2, <1>3 DEF BandScore, t
<1>4. CASE v >= 1000
  BY <1>1, <1>2, <1>4 DEF BandScore, t
<1>5. CASE 50 < v /\ v < 1000
  <2>1. \E i \in 1..3 : t[i].boundary <= v /\ v <= t[i + 1].boundary
    <3>1. CASE v <= 150
      BY <1>2, <1>5, <3>1
    <3>2. CASE 150 < v /\ v <= 400
      BY <1>2, <1>5, <3>2
    <3>3. CASE 400 < v
      BY <1>2, <1>5, <3>3
    <3> QED
      BY <3>1, <3>2, <3>3
  <2>2. k \in 1..3 /\ t[k].boundary <= v /\ v <= t[k + 1].boundary
    BY <1>1, <2>1 DEF Segment
  <2>3. BandScore(v, t) = Interpolated(v, t[k], t[k + 1])
    BY <1>1, <1>2, <1>5 DEF BandScore
  <2> HIDE DEF k
  <2>4. CASE k = 1
    BY <1>2, <1>5, <2>2, <2>3, <2>4 DEF Interpolated, t
  <2>5. CASE k = 2
    BY <1>2, <1>5, <2>2, <2>3, <2>5 DEF Interpolated, t
  <2>6. CASE k = 3
    BY <1>2, <1>5, <2>2, <2>3, <2>6 DEF Interpolated, t
  <2> QED
    BY <2>2, <2>4, <2>5, <2>6
<1> QED
  BY <1>3, <1>4, <1>5

\* _band_score of an injury rate, segment by segment.
LEMMA InjuriesLine ==
  ASSUME NEW v \in Int
  PROVE  BandScore(v, injury_rate_thresholds) =
           IF v <= 5 THEN 10000 ELSE IF v <= 20 THEN 10000 - 200 * (v - 5)
           ELSE IF v <= 50 THEN 7000 - 100 * (v - 20)
           ELSE IF v <= 100 THEN 4000 - 60 * (v - 50) ELSE 1000
<1> DEFINE t == injury_rate_thresholds
           k == Segment(v, t)
<1>1. /\ Len(t) = 4
      /\ t[1] = Point(5, 100) /\ t[2] = Point(20, 70)
      /\ t[3] = Point(50, 40) /\ t[4] = Point(100, 10)
  BY DEF injury_rate_thresholds
<1>2. /\ t[1].boundary = 5 /\ t[1].score = 100 /\ t[2].boundary = 20 /\ t[2].score = 70
      /\ t[3].boundary = 50 /\ t[3].score = 40 /\ t[4].boundary = 100 /\ t[4].score = 10
  BY <1>1 DEF Point
<1> HIDE DEF t
<1>3. CASE v <= 5
  BY <1>1, <1>2, <1>3 DEF BandScore, t
<1>4. CASE v >= 100
  BY <1>1, <1>2, <1>4 DEF BandScore, t
<1>5. CASE 5 < v /\ v < 100
  <2>1. \E i \in 1..3 : t[i].boundary <= v /\ v <= t[i + 1].boundary
    <3>1. CASE v <= 20
      BY <1>2, <1>5, <3>1
    <3>2. CASE 20 < v /\ v <= 50
      BY <1>2, <1>5, <3>2
    <3>3. CASE 50 < v
      BY <1>2, <1>5, <3>3
    <3> QED
      BY <3>1, <3>2, <3>3
  <2>2. k \in 1..3 /\ t[k].boundary <= v /\ v <= t[k + 1].boundary
    BY <1>1, <2>1 DEF Segment
  <2>3. BandScore(v, t) = Interpolated(v, t[k], t[k + 1])
    BY <1>1, <1>2, <1>5 DEF BandScore
  <2> HIDE DEF k
  <2>4. CASE k = 1
    BY <1>2, <1>5, <2>2, <2>3, <2>4 DEF Interpolated, t
  <2>5. CASE k = 2
    BY <1>2, <1>5, <2>2, <2>3, <2>5 DEF Interpolated, t
  <2>6. CASE k = 3
    <3>1. Interpolated(v, t[k], t[k + 1]) = 4000 + ((-60) * (v - 50) * 50) \div 50
      BY <1>2, <1>5, <2>6 DEF Interpolated
    <3>2. ((-60) * (v - 50) * 50) \div 50 = (-60) * (v - 50)
      OBVIOUS
    <3> QED
      BY <1>5, <2>2, <2>3, <2>6, <3>1, <3>2, <1>2 DEF t
  <2> QED
    BY <2>2, <2>4, <2>5, <2>6
<1> QED
  BY <1>3, <1>4, <1>5

\* _band_score of a share of independent directors, segment by segment.
LEMMA IndependenceLine ==
  ASSUME NEW v \in Int
  PROVE  BandScore(v, board_independence_thresholds) =
           IF v <= 30 THEN 1000 ELSE IF v <= 50 THEN 1000 + 150 * (v - 30)
           ELSE IF v <= 70 THEN 4000 + 150 * (v - 50)
           ELSE IF v <= 90 THEN 7000 + 150 * (v - 70) ELSE 10000
<1> DEFINE t == board_independence_thresholds
           k == Segment(v, t)
<1>1. /\ Len(t) = 4
      /\ t[1] = Point(30, 10) /\ t[2] = Point(50, 40)
      /\ t[3] = Point(70, 70) /\ t[4] = Point(90, 100)
  BY DEF board_independence_thresholds
<1>2. /\ t[1].boundary = 30 /\ t[1].score = 10 /\ t[2].boundary = 50 /\ t[2].score = 40
      /\ t[3].boundary = 70 /\ t[3].score = 70 /\ t[4].boundary = 90 /\ t[4].score = 100
  BY <1>1 DEF Point
<1> HIDE DEF t
<1>3. CASE v <= 30
  BY <1>1, <1>2, <1>3 DEF BandScore, t
<1>4. CASE v >= 90
  BY <1>1, <1>2, <1>4 DEF BandScore, t
<1>5. CASE 30 < v /\ v < 90
  <2>1. \E i \in 1..3 : t[i].boundary <= v /\ v <= t[i + 1].boundary
    <3>1. CASE v <= 50
      BY <1>2, <1>5, <3>1
    <3>2. CASE 50 < v /\ v <= 70
      BY <1>2, <1>5, <3>2
    <3>3. CASE 70 < v
      BY <1>2, <1>5, <3>3
    <3> QED
      BY <3>1, <3>2, <3>3
  <2>2. k \in 1..3 /\ t[k].boundary <= v /\ v <= t[k + 1].boundary
    BY <1>1, <2>1 DEF Segment
  <2>3. BandScore(v, t) = Interpolated(v, t[k], t[k + 1])
    BY <1>1, <1>2, <1>5 DEF BandScore
  <2> HIDE DEF k
  <2>4. CASE k = 1
    BY <1>2, <1>5, <2>2, <2>3, <2>4 DEF Interpolated, t
  <2>5. CASE k = 2
    BY <1>2, <1>5, <2>2, <2>3, <2>5 DEF Interpolated, t
  <2>6. CASE k = 3
    BY <1>2, <1>5, <2>2, <2>3, <2>6 DEF Interpolated, t
  <2> QED
    BY <2>2, <2>4, <2>5, <2>6
<1> QED
  BY <1>3, <1>4, <1>5

InBand(x) == x \in Int /\ 1000 <= x /\ x <= 10000

\* Every line stays between 10 and 100 and keeps its direction.
LEMMA LinesBounded ==
  ASSUME NEW v \in Int
  PROVE  /\ InBand(BandScore(v, emissions_intensity_thresholds))
         /\ InBand(BandScore(v, injury_rate_thresholds))
         /\ InBand(BandScore(v, board_independence_thresholds))
<1>1. InBand(BandScore(v, emissions_intensity_thresholds))
  BY EmissionsLine DEF InBand
<1>2. InBand(BandScore(v, injury_rate_thresholds))
  BY InjuriesLine DEF InBand
<1>3. InBand(BandScore(v, board_independence_thresholds))
  BY IndependenceLine DEF InBand
<1> QED
  BY <1>1, <1>2, <1>3

\* Worse never scores higher on any line.
LEMMA LinesMonotone ==
  ASSUME NEW v \in Int, NEW w \in Int, v <= w
  PROVE  /\ BandScore(w, emissions_intensity_thresholds) <= BandScore(v, emissions_intensity_thresholds)
         /\ BandScore(w, injury_rate_thresholds) <= BandScore(v, injury_rate_thresholds)
         /\ BandScore(v, board_independence_thresholds) <= BandScore(w, board_independence_thresholds)
<1>1. BandScore(w, emissions_intensity_thresholds) <= BandScore(v, emissions_intensity_thresholds)
  BY EmissionsLine
<1>2. BandScore(w, injury_rate_thresholds) <= BandScore(v, injury_rate_thresholds)
  BY InjuriesLine
<1>3. BandScore(v, board_independence_thresholds) <= BandScore(w, board_independence_thresholds)
  BY IndependenceLine
<1> QED
  BY <1>1, <1>2, <1>3

-----------------------------------------------------------------------------
(* The composite.                                                           *)

\* Every pillar is an integer between 0 and 100 points.
LEMMA PillarsBounded ==
  ASSUME NEW d \in Disclosure
  PROVE  /\ InBand(EnvironmentalScore(d))
         /\ InBand(GovernanceScore(d))
         /\ SocialScore(d) \in Int /\ 0 <= SocialScore(d) /\ SocialScore(d) <= 10000
<1>1. d.emissions \in Int /\ d.injuries \in Int /\ d.independence \in Int /\ d.flags \in Nat
  BY DEF Disclosure
<1>2. InBand(EnvironmentalScore(d))
  BY <1>1, LinesBounded DEF EnvironmentalScore
<1>3. InBand(GovernanceScore(d))
  BY <1>1, LinesBounded DEF GovernanceScore
<1>4. InBand(BandScore(d.injuries, injury_rate_thresholds))
  BY <1>1, LinesBounded
<1>5. Penalty(d.flags) \in Int /\ 0 <= Penalty(d.flags)
  BY <1>1 DEF Penalty
<1>6. SocialScore(d) \in Int /\ 0 <= SocialScore(d) /\ SocialScore(d) <= 10000
  BY <1>4, <1>5 DEF SocialScore, InBand
<1> QED
  BY <1>2, <1>3, <1>6

\* The composite lies between 7 points, every line at its lowest, and 100.
LEMMA CompositeBounded ==
  ASSUME NEW d \in Disclosure
  PROVE  Composite(d) \in Int /\ 7000 <= Composite(d) /\ Composite(d) <= 100000
BY PillarsBounded DEF Composite, InBand

\* A disclosure that is no better in any figure has no better composite.
THEOREM CompositeMonotone ==
  ASSUME NEW d \in Disclosure, NEW e \in Disclosure,
         d.emissions <= e.emissions, d.injuries <= e.injuries,
         e.independence <= d.independence, d.flags <= e.flags
  PROVE  Composite(e) <= Composite(d)
<1>1. /\ d.emissions \in Int /\ d.injuries \in Int /\ d.independence \in Int /\ d.flags \in Nat
      /\ e.emissions \in Int /\ e.injuries \in Int /\ e.independence \in Int /\ e.flags \in Nat
  BY DEF Disclosure
<1>2. EnvironmentalScore(e) <= EnvironmentalScore(d)
  BY <1>1, LinesMonotone DEF EnvironmentalScore
<1>3. GovernanceScore(e) <= GovernanceScore(d)
  BY <1>1, LinesMonotone DEF GovernanceScore
<1>4. SocialScore(e) <= SocialScore(d)
  <2>1. BandScore(e.injuries, injury_rate_thresholds) <= BandScore(d.injuries, injury_rate_thresholds)
    BY <1>1, LinesMonotone
  <2>2. InBand(BandScore(d.injuries, injury_rate_thresholds))
    BY <1>1, LinesBounded
  <2>3. InBand(BandScore(e.injuries, injury_rate_thresholds))
    BY <1>1, LinesBounded
  <2>4. Penalty(d.flags) <= Penalty(e.flags) /\ Penalty(d.flags) \in Int /\ Penalty(e.flags) \in Int
    BY <1>1 DEF Penalty
  <2> QED
    BY <2>1, <2>2, <2>3, <2>4 DEF SocialScore, InBand
<1> QED
  BY <1>2, <1>3, <1>4, PillarsBounded DEF Composite, InBand

-----------------------------------------------------------------------------
(* Results of the formulas.  Sides: a score is not beyond the boundaries of *)
(* its level.                                                              *)

FraudSides(x, level) ==
  /\ level = "low"      => x <= -2500000
  /\ level = "medium"   => -2500000 <= x /\ x <= -1780000
  /\ level = "high"     => -1780000 <= x /\ x <= -1000000
  /\ level = "critical" => -1000000 <= x

DistressSides(x, level) ==
  /\ level = "safe"     => 2600000 <= x
  /\ level = "grey"     => 1100000 <= x /\ x <= 2600000
  /\ level = "distress" => x <= 1100000

EsgSides(x, level) ==
  /\ level = "AAA" => 800000 <= x
  /\ level = "AA"  => 650000 <= x /\ x <= 800000
  /\ level = "A"   => 500000 <= x /\ x <= 650000
  /\ level = "BB"  => 350000 <= x /\ x <= 500000
  /\ level = "B"   => 200000 <= x /\ x <= 350000
  /\ level = "CCC" => 0 <= x /\ x <= 200000

\* Sides survive a rounding: every boundary is a multiple of every unit.
LEMMA FraudSidesKept ==
  ASSUME NEW x \in Int, NEW unit \in Units, NEW y \in Nearest(x, unit), NEW level, FraudSides(x, level)
  PROVE  FraudSides(y, level)
<1>1. CASE unit = 100
  BY <1>1 DEF Nearest, FraudSides
<1>2. CASE unit = 1000
  BY <1>2 DEF Nearest, FraudSides
<1>3. CASE unit = 10000
  BY <1>3 DEF Nearest, FraudSides
<1> QED
  BY <1>1, <1>2, <1>3 DEF Units

\* The same of the zones of the Z-score.
LEMMA DistressSidesKept ==
  ASSUME NEW x \in Int, NEW unit \in Units, NEW y \in Nearest(x, unit), NEW level, DistressSides(x, level)
  PROVE  DistressSides(y, level)
<1>1. CASE unit = 100
  BY <1>1 DEF Nearest, DistressSides
<1>2. CASE unit = 1000
  BY <1>2 DEF Nearest, DistressSides
<1>3. CASE unit = 10000
  BY <1>3 DEF Nearest, DistressSides
<1> QED
  BY <1>1, <1>2, <1>3 DEF Units

\* The same of the rating bands.
LEMMA EsgSidesKept ==
  ASSUME NEW x \in Int, NEW unit \in Units, NEW y \in Nearest(x, unit), NEW level, EsgSides(x, level)
  PROVE  EsgSides(y, level)
<1>1. CASE unit = 100
  BY <1>1 DEF Nearest, EsgSides
<1>2. CASE unit = 1000
  BY <1>2 DEF Nearest, EsgSides
<1>3. CASE unit = 10000
  BY <1>3 DEF Nearest, EsgSides
<1> QED
  BY <1>1, <1>2, <1>3 DEF Units

\* A finite result of the Beneish formula is on the side its level says.
LEMMA FraudResultsSound ==
  ASSUME NEW e \in EvidenceType, NEW r \in FraudResults(e)
  PROVE  /\ r \in Result /\ r.level \in FraudLevels \cup {"none"}
         /\ r.score.kind = "finite" => FraudSides(r.score.at, r.level)
         /\ r.score.kind = "finite" /\ r.level # "none" => e.infinite = {}
         /\ ~WantsFraud(e) => r = NoResult
<1>1. CASE ~WantsFraud(e)
  BY <1>1 DEF FraudResults, NoResult, Finite, Result, Score, Levels, FraudSides
<1>2. CASE WantsFraud(e)
  <2>1. PICK s \in MScores(e) : \E q \in Rounded(s, 100) : r = [score |-> q, level |-> FraudLevel(s)]
    BY <1>2 DEF FraudResults, Levelled
  <2>2. PICK q \in Rounded(s, 100) : r = [score |-> q, level |-> FraudLevel(s)]
    BY <2>1
  <2>3. FraudLevel(s) \in FraudLevels
    BY DEF FraudLevel, FraudLevels
  <2>4. CASE e.infinite = {}
    <3>1. WeightedIndices(e.indices) \in Int
      BY DEF EvidenceType, WeightedIndices, BeneishIndices
    <3>2. PICK x \in Int : s = Finite(x)
      BY <2>4, <3>1 DEF MScores, Computed
    <3>3. PICK y \in Nearest(x, 100) : q = Finite(y)
      BY <2>2, <3>2 DEF Rounded, Finite
    <3>4. y \in Int
      BY <3>3, NearestIsInt DEF Units
    <3>5. FraudSides(x, FraudLevel(s))
      BY <3>2 DEF FraudSides, FraudLevel, Exceeds, Finite
    <3>6. FraudSides(y, FraudLevel(s))
      BY <3>3, <3>5, FraudSidesKept DEF Units
    <3> QED
      BY <1>2, <2>2, <2>3, <2>4, <3>3, <3>4, <3>6 DEF Result, Score, Levels, Finite
  <2>5. CASE e.infinite # {}
    <3>1. s \in {Infinity, MinusInfinity, NotANumber}
      BY <2>5 DEF MScores
    <3>2. q = s /\ q \in Score /\ q.kind # "finite"
      BY <2>2, <3>1 DEF Rounded, Infinity, MinusInfinity, NotANumber, Score
    <3> QED
      BY <1>2, <2>2, <2>3, <3>2 DEF Result, Levels
  <2> QED
    BY <2>4, <2>5
<1> QED
  BY <1>1, <1>2

\* A finite result of the Altman formula is on the side its zone says.
LEMMA DistressResultsSound ==
  ASSUME NEW e \in EvidenceType, NEW r \in DistressResults(e)
  PROVE  /\ r \in Result /\ r.level \in DistressZones \cup {"none"}
         /\ r.score.kind = "finite" => DistressSides(r.score.at, r.level)
         /\ r.score.kind = "finite" /\ r.level # "none" => ~e.debt_free
         /\ ~WantsFraud(e) => r = NoResult
<1>1. CASE ~WantsFraud(e)
  BY <1>1 DEF DistressResults, NoResult, Finite, Result, Score, Levels, DistressSides
<1>2. CASE WantsFraud(e)
  <2>1. PICK s \in ZScores(e) : \E q \in Rounded(s, 100) : r = [score |-> q, level |-> DistressZone(s)]
    BY <1>2 DEF DistressResults, Levelled
  <2>2. PICK q \in Rounded(s, 100) : r = [score |-> q, level |-> DistressZone(s)]
    BY <2>1
  <2>3. DistressZone(s) \in DistressZones
    BY DEF DistressZone, DistressZones
  <2>4. CASE ~e.debt_free
    <3>1. WeightedRatios(e.ratios) \in Int
      BY DEF EvidenceType, WeightedRatios, AltmanRatios
    <3>2. PICK x \in Int : s = Finite(x)
      BY <2>4, <3>1 DEF ZScores, Computed
    <3>3. PICK y \in Nearest(x, 100) : q = Finite(y)
      BY <2>2, <3>2 DEF Rounded, Finite
    <3>4. y \in Int
      BY <3>3, NearestIsInt DEF Units
    <3>5. DistressSides(x, DistressZone(s))
      BY <3>2 DEF DistressSides, DistressZone, Exceeds, Finite
    <3>6. DistressSides(y, DistressZone(s))
      BY <3>3, <3>5, DistressSidesKept DEF Units
    <3> QED
      BY <1>2, <2>2, <2>3, <2>4, <3>3, <3>4, <3>6 DEF Result, Score, Levels, Finite
  <2>5. CASE e.debt_free
    <3>1. s = Infinity
      BY <2>5 DEF ZScores
    <3>2. q = s /\ q \in Score /\ q.kind # "finite"
      BY <2>2, <3>1 DEF Rounded, Infinity, Score
    <3> QED
      BY <1>2, <2>2, <2>3, <3>2 DEF Result, Levels
  <2> QED
    BY <2>4, <2>5
<1> QED
  BY <1>1, <1>2

\* The first band cleared is the one the composite lies in.
LEMMA RatingSound ==
  ASSUME NEW x \in Int, 0 <= x
  PROVE  Rating(Finite(x)) \in Ratings /\ EsgSides(x, Rating(Finite(x)))
<1> DEFINE C == Cleared(Finite(x))
<1>1. /\ rating_bands[1] = [from |-> 80, label |-> "AAA"]
      /\ rating_bands[2] = [from |-> 65, label |-> "AA"]
      /\ rating_bands[3] = [from |-> 50, label |-> "A"]
      /\ rating_bands[4] = [from |-> 35, label |-> "BB"]
      /\ rating_bands[5] = [from |-> 20, label |-> "B"]
      /\ rating_bands[6] = [from |-> 0, label |-> "CCC"]
  BY DEF rating_bands
<1>2. \A k \in 1..6 : k \in C <=> 10000 * rating_bands[k].from <= x
  BY <1>1 DEF Cleared, Finite
<1>3. C \subseteq 1..6
  BY DEF Cleared
<1> HIDE DEF C
<1>4. PICK m \in 1..6 : m \in C /\ \A i \in C : m <= i
  <2>1. 6 \in C
    BY <1>1, <1>2
  <2> QED
    BY <1>3, <2>1
<1>5. Rating(Finite(x)) = rating_bands[m].label
  <2> DEFINE P(k) == \A i \in C : k <= i
  <2>1. m \in C /\ P(m)
    BY <1>4
  <2>2. \A k \in C : P(k) => k = m
    BY <1>3, <1>4
  <2>3. (CHOOSE k \in C : P(k)) = m
    BY <2>1, <2>2
  <2> QED
    BY <2>3 DEF Rating, C
<1>6. CASE m = 1
  BY <1>1, <1>2, <1>4, <1>5, <1>6 DEF EsgSides, Ratings
<1>7. CASE m = 2
  BY <1>1, <1>2, <1>4, <1>5, <1>7 DEF EsgSides, Ratings
<1>8. CASE m = 3
  BY <1>1, <1>2, <1>4, <1>5, <1>8 DEF EsgSides, Ratings
<1>9. CASE m = 4
  BY <1>1, <1>2, <1>4, <1>5, <1>9 DEF EsgSides, Ratings
<1>10. CASE m = 5
  BY <1>1, <1>2, <1>4, <1>5, <1>10 DEF EsgSides, Ratings
<1>11. CASE m = 6
  BY <1>1, <1>2, <1>4, <1>5, <1>11 DEF EsgSides, Ratings
<1> QED
  BY <1>4, <1>6, <1>7, <1>8, <1>9, <1>10, <1>11

\* Every result of the ESG formula is finite, has a rating, and is in its band.
LEMMA EsgResultsSound ==
  ASSUME NEW e \in EvidenceType, NEW r \in EsgResults(e)
  PROVE  /\ r \in Result /\ r.level \in Ratings \cup {"none"}
         /\ r.score.kind = "finite"
         /\ 0 <= r.score.at /\ r.score.at <= 1000000
         /\ EsgSides(r.score.at, r.level)
<1>1. CASE ~WantsEsg(e)
  BY <1>1 DEF EsgResults, NoResult, Finite, Result, Score, Levels, EsgSides
<1>2. CASE WantsEsg(e)
  <2>1. /\ Composite(e.disclosure) \in Int
        /\ 7000 <= Composite(e.disclosure) /\ Composite(e.disclosure) <= 100000
    BY CompositeBounded DEF EvidenceType
  <2>2. PICK s \in Computed(Composite(e.disclosure)) :
          \E q \in Rounded(s, 100) : r = [score |-> q, level |-> Rating(s)]
    BY <1>2 DEF EsgResults, Levelled
  <2>3. PICK x \in Int : s = Finite(x) /\ 0 <= x /\ x <= 1000001
    BY <2>1, <2>2 DEF Computed
  <2>4. PICK y \in Nearest(x, 100) : r = [score |-> Finite(y), level |-> Rating(s)]
    BY <2>2, <2>3 DEF Rounded, Finite
  <2>5. y \in Int /\ 0 <= y /\ y <= 1000000
    BY <2>3, <2>4 DEF Nearest
  <2>6. Rating(s) \in Ratings /\ EsgSides(x, Rating(s))
    BY <2>3, RatingSound
  <2>7. EsgSides(y, Rating(s))
    BY <2>4, <2>6, EsgSidesKept DEF Units
  <2> QED
    BY <2>4, <2>5, <2>6, <2>7 DEF Result, Score, Levels, Finite
<1> QED
  BY <1>1, <1>2

-----------------------------------------------------------------------------
(* The inductive invariant.                                                 *)

Judged(e, a) ==
  /\ a \in [Parts -> Result]
  /\ \A part \in Parts : a[part].score.kind = "finite"
  /\ a["fraud"].level \in FraudLevels \cup {"none"}
  /\ a["distress"].level \in DistressZones \cup {"none"}
  /\ a["esg"].level \in Ratings \cup {"none"}
  /\ FraudSides(a["fraud"].score.at, a["fraud"].level)
  /\ DistressSides(a["distress"].score.at, a["distress"].level)
  /\ EsgSides(a["esg"].score.at, a["esg"].level)
  /\ 0 <= a["esg"].score.at /\ a["esg"].score.at <= 1000000
  /\ ~WantsFraud(e) => a["fraud"] = NoResult /\ a["distress"] = NoResult
  /\ a["fraud"].level # "none" => e.infinite = {} /\ ~e.zero_prior
  /\ a["distress"].level # "none" => ~e.debt_free

\* A row as it may stand in the table, beside the analysis it publishes.
Faithful(d, a) ==
  /\ d \in Published
  /\ \A part \in Parts :
       /\ d[part].level = a[part].level
       /\ -Columns(part) <= d[part].score /\ d[part].score <= Columns(part)
  /\ FraudSides(d.fraud.score, d.fraud.level)
  /\ DistressSides(d.distress.score, d.distress.level)
  /\ EsgSides(d.esg.score, d.esg.level)
  /\ a["fraud"].level = "critical" \/ a["distress"].level = "distress" => d.reviewed_by_human

Inv ==
  /\ stage \in {"financial_analyst", "risk_critic", "human_escalation", "finalize_decision",
                "data_engineer", "end", "failed"}
  /\ evidence \in Evidence
  /\ reviewed \in BOOLEAN
  /\ Judged(evidence, analysis)
  /\ stage = "finalize_decision" /\ Alarming => reviewed
  /\ stage # "end" => decisions = {}
  /\ \A d \in decisions : Faithful(d, analysis)
  /\ EveryDisclosureIsRated

\* The invariant holds initially.
LEMMA InitInv == Init => Inv
<1> SUFFICES ASSUME Init PROVE Inv
  OBVIOUS
<1>1. \A part \in Parts : NoAnalysis[part] = NoResult
  BY DEF NoAnalysis
<1>2. NoResult \in Result /\ NoResult.level = "none" /\ NoResult.score.kind = "finite" /\ NoResult.score.at = 0
  BY DEF NoResult, Result, Score, Levels, Finite
<1>3. NoAnalysis \in [Parts -> Result]
  BY <1>2 DEF NoAnalysis
<1>4. Judged(evidence, NoAnalysis)
  BY <1>1, <1>2, <1>3 DEF Judged, Parts, FraudSides, DistressSides, EsgSides
<1> QED
  BY <1>4 DEF Init, Inv, EveryDisclosureIsRated

\* Rounding into a column.
LEMMA PublishedSound ==
  ASSUME NEW part \in Parts, NEW e, Judged(e, analysis), NEW row \in PublishedAs(part)
  PROVE  /\ row \in Row
         /\ row.level = analysis[part].level
         /\ part = "fraud" => FraudSides(row.score, row.level)
         /\ part = "distress" => DistressSides(row.score, row.level)
         /\ part = "esg" => EsgSides(row.score, row.level)
<1>1. PICK y \in Nearest(analysis[part].score.at, ColumnUnit(part)) :
        row = [score |-> y, level |-> analysis[part].level]
  BY DEF PublishedAs
<1>2. analysis[part].score.at \in Int /\ analysis[part].level \in Levels
  BY DEF Judged, Result, Score
<1>3. ColumnUnit(part) \in Units
  BY DEF ColumnUnit, Units
<1>4. y \in Int
  BY <1>1, <1>2, <1>3, NearestIsInt
<1>5. CASE part = "fraud"
  BY <1>1, <1>2, <1>3, <1>4, <1>5, FraudSidesKept DEF Judged, Row
<1>6. CASE part = "distress"
  BY <1>1, <1>2, <1>3, <1>4, <1>6, DistressSidesKept DEF Judged, Row
<1>7. CASE part = "esg"
  BY <1>1, <1>2, <1>3, <1>4, <1>7, EsgSidesKept DEF Judged, Row
<1> QED
  BY <1>5, <1>6, <1>7 DEF Parts

\* Of an ESG request every column has room for the scores.
LEMMA EsgRowFits ==
  ASSUME NEW e, Judged(e, analysis), ~WantsFraud(e),
         NEW part \in Parts, NEW row \in PublishedAs(part)
  PROVE  FitsColumn(part, row.score)
<1>1. PICK y \in Nearest(analysis[part].score.at, ColumnUnit(part)) :
        row = [score |-> y, level |-> analysis[part].level]
  BY DEF PublishedAs
<1>2. CASE part = "esg"
  <2>1. /\ analysis["esg"].score.at \in Int
        /\ 0 <= analysis["esg"].score.at /\ analysis["esg"].score.at <= 1000000
    BY <1>2 DEF Judged, Result, Score
  <2>2. y \in Int /\ 0 <= y /\ y <= 1000000
    BY <1>1, <1>2, <2>1 DEF Nearest, ColumnUnit
  <2> QED
    BY <1>1, <1>2, <2>2 DEF FitsColumn, Columns
<1>3. CASE part # "esg"
  <2>1. analysis[part].score.at = 0
    BY <1>3 DEF Judged, Parts, NoResult, Finite
  <2>2. y = 0
    BY <1>1, <2>1 DEF Nearest, ColumnUnit
  <2> QED
    BY <1>1, <2>2 DEF FitsColumn, Columns
<1> QED
  BY <1>2, <1>3

\* Every step keeps the invariant: one case per action of Next.
LEMMA StepInv == Inv /\ [Next]_vars => Inv'
<1> SUFFICES ASSUME Inv, [Next]_vars PROVE Inv'
  OBVIOUS
<1>0. evidence \in EvidenceType
  BY EvidenceAssumption DEF Inv
<1>1. CASE financial_analyst_node
  <2>1. PICK f \in FraudResults(evidence), z \in DistressResults(evidence), c \in EsgResults(evidence) :
          /\ JsonAccepts(f.score) /\ JsonAccepts(z.score) /\ JsonAccepts(c.score)
          /\ analysis' = [fraud |-> f, distress |-> z, esg |-> c]
    BY <1>1 DEF financial_analyst_node
  <2>2. /\ f \in Result /\ f.level \in FraudLevels \cup {"none"} /\ f.score.kind = "finite"
        /\ FraudSides(f.score.at, f.level)
        /\ f.level # "none" => evidence.infinite = {}
        /\ ~WantsFraud(evidence) => f = NoResult
    BY <1>0, <2>1, FraudResultsSound DEF JsonAccepts
  <2>3. /\ z \in Result /\ z.level \in DistressZones \cup {"none"} /\ z.score.kind = "finite"
        /\ DistressSides(z.score.at, z.level)
        /\ z.level # "none" => ~evidence.debt_free
        /\ ~WantsFraud(evidence) => z = NoResult
    BY <1>0, <2>1, DistressResultsSound DEF JsonAccepts
  <2>4. /\ c \in Result /\ c.level \in Ratings \cup {"none"} /\ c.score.kind = "finite"
        /\ EsgSides(c.score.at, c.level)
        /\ 0 <= c.score.at /\ c.score.at <= 1000000
    BY <1>0, EsgResultsSound
  <2>5. f.level # "none" => ~evidence.zero_prior
    BY <1>1, <2>2 DEF financial_analyst_node, Raises, NoResult
  <2>6. /\ analysis' \in [Parts -> Result]
        /\ analysis'["fraud"] = f /\ analysis'["distress"] = z /\ analysis'["esg"] = c
    BY <2>1, <2>2, <2>3, <2>4 DEF Parts
  <2>7. Judged(evidence, analysis')
    BY <2>2, <2>3, <2>4, <2>5, <2>6 DEF Judged, Parts
  <2> QED
    BY <1>1, <2>7 DEF financial_analyst_node, Inv, EveryDisclosureIsRated
<1>2. CASE FormulaRaises
  <2>1. WantsEsg(evidence) => \A s \in Computed(Composite(evidence.disclosure)) : Cleared(s) # {}
    <3>1. /\ Composite(evidence.disclosure) \in Int /\ 7000 <= Composite(evidence.disclosure)
      BY <1>0, CompositeBounded DEF EvidenceType
    <3>2. \A s \in Computed(Composite(evidence.disclosure)) : 6 \in Cleared(s)
      BY <3>1 DEF Computed, Finite, Cleared, rating_bands
    <3> QED
      BY <3>2
  <2>2. evidence.request = "esg_score" => evidence.invalid
    BY <1>2, <2>1 DEF FormulaRaises, Raises, WantsFraud
  <2> QED
    BY <1>2, <2>2 DEF FormulaRaises, Inv, EveryDisclosureIsRated, Alarming
<1>3. CASE LogRefused
  <2>1. evidence.request # "esg_score"
    <3>1. PICK f \in FraudResults(evidence), z \in DistressResults(evidence), c \in EsgResults(evidence) :
            ~(JsonAccepts(f.score) /\ JsonAccepts(z.score) /\ JsonAccepts(c.score))
      BY <1>3 DEF LogRefused
    <3>2. c.score.kind = "finite"
      BY <1>0, EsgResultsSound
    <3>3. ~WantsFraud(evidence) => f = NoResult /\ z = NoResult
      BY DEF FraudResults, DistressResults
    <3> QED
      BY <3>1, <3>2, <3>3 DEF WantsFraud, JsonAccepts, NoResult, Finite
  <2> QED
    BY <1>3, <2>1 DEF LogRefused, Inv, EveryDisclosureIsRated, Alarming
<1>4. CASE risk_critic_node
  BY <1>4 DEF risk_critic_node, Inv, EveryDisclosureIsRated, Alarming
<1>5. CASE human_escalation_node
  BY <1>5 DEF human_escalation_node, Inv, EveryDisclosureIsRated, Alarming
<1>6. CASE finalize_decision_node
  <2>1. PICK f \in PublishedAs("fraud"), z \in PublishedAs("distress"), c \in PublishedAs("esg") :
          /\ FitsColumn("fraud", f.score) /\ FitsColumn("distress", z.score) /\ FitsColumn("esg", c.score)
          /\ decisions' = {[fraud |-> f, distress |-> z, esg |-> c, reviewed_by_human |-> reviewed]}
    BY <1>6 DEF finalize_decision_node
  <2>2. Judged(evidence, analysis)
    BY DEF Inv
  <2>3. f \in Row /\ f.level = analysis["fraud"].level /\ FraudSides(f.score, f.level)
    BY <2>2, PublishedSound DEF Parts
  <2>4. z \in Row /\ z.level = analysis["distress"].level /\ DistressSides(z.score, z.level)
    BY <2>2, PublishedSound DEF Parts
  <2>5. c \in Row /\ c.level = analysis["esg"].level /\ EsgSides(c.score, c.level)
    BY <2>2, PublishedSound DEF Parts
  <2>6. PICK d : decisions' = {d} /\ d = [fraud |-> f, distress |-> z, esg |-> c, reviewed_by_human |-> reviewed]
    BY <2>1
  <2>7. /\ d \in Published /\ d.reviewed_by_human = reviewed
        /\ d["fraud"] = f /\ d["distress"] = z /\ d["esg"] = c
        /\ d.fraud = f /\ d.distress = z /\ d.esg = c
    BY <2>3, <2>4, <2>5, <2>6 DEF Published, Inv
  <2>8. Alarming => reviewed
    BY <1>6 DEF finalize_decision_node, Inv
  <2>9. Faithful(d, analysis)
    BY <2>1, <2>3, <2>4, <2>5, <2>7, <2>8 DEF Faithful, FitsColumn, Parts, Alarming
  <2> QED
    BY <1>6, <2>6, <2>9 DEF finalize_decision_node, Inv, EveryDisclosureIsRated
<1>7. CASE DecisionRowRefused
  <2>1. evidence.request # "esg_score"
    BY <1>7, EsgRowFits DEF DecisionRowRefused, Inv, WantsFraud
  <2> QED
    BY <1>7, <2>1 DEF DecisionRowRefused, Inv, EveryDisclosureIsRated, Alarming
<1>8. CASE UNCHANGED vars
  BY <1>8 DEF vars, Inv, EveryDisclosureIsRated, Alarming
<1> QED
  BY <1>1, <1>2, <1>3, <1>4, <1>5, <1>6, <1>7, <1>8 DEF Next

\* The inductive invariant: the logged analysis is judged from ratios that exist,
\* and the published row repeats its levels beside scores of the same side.
THEOREM Invariance == Spec => []Inv
BY InitInv, StepInv, PTL DEF Spec

-----------------------------------------------------------------------------
(* The theorems.                                                            *)

\* Every variable keeps to its type, and no row exceeds its columns.
THEOREM Typing == Spec => []TypeOK
<1>1. Inv => TypeOK
  <2> SUFFICES ASSUME Inv PROVE TypeOK
    OBVIOUS
  <2>1. evidence \in EvidenceType
    BY EvidenceAssumption DEF Inv
  <2> QED
    BY <2>1 DEF Inv, TypeOK, Judged, Faithful
<1> QED
  BY <1>1, Invariance, PTL

\* No level the critic judges, and a decision repeats, rests on a division the
\* code replaced by infinity.
THEOREM UndefinedRatios == Spec => []NoLevelFromUndefinedRatio
<1>1. Inv => NoLevelFromUndefinedRatio
  <2> SUFFICES ASSUME Inv PROVE NoLevelFromUndefinedRatio
    OBVIOUS
  <2>1. analysis.fraud = analysis["fraud"] /\ analysis.distress = analysis["distress"]
    OBVIOUS
  <2> QED
    BY <2>1 DEF Inv, NoLevelFromUndefinedRatio, Judged
<1> QED
  BY <1>1, Invariance, PTL

\* Level and published score agree, whatever the figures.
THEOREM LevelsTell == Spec => []LevelsTellPublishedScores
<1>1. Inv => LevelsTellPublishedScores
  <2> SUFFICES ASSUME Inv, NEW d \in decisions
               PROVE  TellsScore(d)
    BY DEF LevelsTellPublishedScores
  <2>1. /\ d.fraud.score \in Int /\ d.distress.score \in Int /\ d.esg.score \in Int
        /\ FraudSides(d.fraud.score, d.fraud.level)
        /\ DistressSides(d.distress.score, d.distress.level)
        /\ EsgSides(d.esg.score, d.esg.level)
    BY DEF Inv, Faithful, Published, Row
  <2>2. ASSUME NEW k \in 1..6, d.esg.level = rating_bands[k].label
        PROVE  /\ d.esg.score >= 10000 * rating_bands[k].from
               /\ k > 1 => d.esg.score <= 10000 * rating_bands[k - 1].from
    <3>1. CASE k = 1
      BY <2>1, <2>2, <3>1 DEF EsgSides, rating_bands
    <3>2. CASE k = 2
      BY <2>1, <2>2, <3>2 DEF EsgSides, rating_bands
    <3>3. CASE k = 3
      BY <2>1, <2>2, <3>3 DEF EsgSides, rating_bands
    <3>4. CASE k = 4
      BY <2>1, <2>2, <3>4 DEF EsgSides, rating_bands
    <3>5. CASE k = 5
      BY <2>1, <2>2, <3>5 DEF EsgSides, rating_bands
    <3>6. CASE k = 6
      BY <2>1, <2>2, <3>6 DEF EsgSides, rating_bands
    <3> QED
      BY <3>1, <3>2, <3>3, <3>4, <3>5, <3>6
  <2>3. /\ d.fraud.level = "low"      => d.fraud.score <= -2500000
        /\ d.fraud.level = "medium"   => -2500000 <= d.fraud.score /\ d.fraud.score <= -1780000
        /\ d.fraud.level = "high"     => -1780000 <= d.fraud.score /\ d.fraud.score <= -1000000
        /\ d.fraud.level = "critical" => d.fraud.score >= -1000000
    BY <2>1 DEF FraudSides
  <2>4. /\ d.distress.level = "safe"     => d.distress.score >= 2600000
        /\ d.distress.level = "grey"     => 1100000 <= d.distress.score /\ d.distress.score <= 2600000
        /\ d.distress.level = "distress" => d.distress.score <= 1100000
    BY <2>1 DEF DistressSides
  <2> QED
    BY <2>2, <2>3, <2>4 DEF TellsScore
<1> QED
  BY <1>1, Invariance, PTL

\* A decision whose numbers alone would alarm a reader was reviewed by a human.
THEOREM AlarmsReviewed == Spec => []PublishedAlarmWasReviewed
<1>1. Inv => PublishedAlarmWasReviewed
  <2> SUFFICES ASSUME Inv, NEW d \in decisions,
                      \/ d.fraud.level # "none" /\ d.fraud.score > -1000000
                      \/ d.distress.level # "none" /\ d.distress.score < 1100000
               PROVE  d.reviewed_by_human
    BY DEF PublishedAlarmWasReviewed
  <2>1. /\ d.fraud.score \in Int /\ d.distress.score \in Int
        /\ FraudSides(d.fraud.score, d.fraud.level)
        /\ DistressSides(d.distress.score, d.distress.level)
    BY DEF Inv, Faithful, Published, Row
  <2>2. /\ d["fraud"].level = analysis["fraud"].level /\ d["fraud"].level \in FraudLevels \cup {"none"}
        /\ d["distress"].level = analysis["distress"].level
        /\ d["distress"].level \in DistressZones \cup {"none"}
    BY DEF Inv, Faithful, Judged, Parts
  <2>3. analysis["fraud"].level = "critical" \/ analysis["distress"].level = "distress"
    BY <2>1, <2>2 DEF FraudSides, DistressSides, FraudLevels, DistressZones
  <2> QED
    BY <2>3 DEF Inv, Faithful
<1> QED
  BY <1>1, Invariance, PTL

\* Worse figures never improve a composite.
THEOREM NoCredit == Spec => []NoCreditForWorseFigures
<1>1. Inv => NoCreditForWorseFigures
  <2> SUFFICES ASSUME Inv, NEW worse \in Worsened(evidence.disclosure)
               PROVE  Composite(worse) <= Composite(evidence.disclosure)
    BY DEF NoCreditForWorseFigures
  <2> DEFINE d == evidence.disclosure
  <2>1. d \in Disclosure
    BY EvidenceAssumption DEF Inv, EvidenceType
  <2>2. /\ worse \in Disclosure
        /\ d.emissions <= worse.emissions /\ d.injuries <= worse.injuries
        /\ worse.independence <= d.independence /\ d.flags <= worse.flags
    BY <2>1 DEF Worsened, Disclosure
  <2> QED
    BY <2>1, <2>2, CompositeMonotone
<1> QED
  BY <1>1, Invariance, PTL

\* Only an invalid row keeps an ESG request from its rating and its decision.
THEOREM AlwaysRated == Spec => []EveryDisclosureIsRated
<1>1. Inv => EveryDisclosureIsRated
  BY DEF Inv
<1> QED
  BY <1>1, Invariance, PTL
=============================================================================
