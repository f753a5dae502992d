----------------------------- MODULE MCScoring ------------------------------
(***************************************************************************)
(* Scoring on figures chosen at, and within one rounding of, every         *)
(* boundary: index vectors whose weighted sum is -2.5, -1.78, -1.0 or the  *)
(* largest number of its column, give or take half a unit of either        *)
(* rounding; ratios likewise; disclosures on a grid through every segment  *)
(* of the rubric.                                                          *)
(***************************************************************************)
EXTENDS Scoring, TLC

Indices(dsri, aqi, sgi, lvgi, tata) ==
  ("DSRI" :> dsri) @@ ("GMI" :> 100) @@ ("AQI" :> aqi) @@ ("SGI" :> sgi) @@
  ("DEPI" :> 100) @@ ("SGAI" :> 100) @@ ("TATA" :> tata) @@ ("LVGI" :> lvgi)

Ratios(x1, x2, x3, x4) == ("X1" :> x1) @@ ("X2" :> x2) @@ ("X3" :> x3) @@ ("X4" :> x4)

Kpis(emissions, injuries, independence, flags) ==
  [emissions |-> emissions, injuries |-> injuries, independence |-> independence, flags |-> flags]

\* All indices 1, no accruals: M = -2.48.
Unremarkable == Indices(100, 100, 100, 100, 0)

MCIndices ==
  {Unremarkable,
   Indices(173, 86, 119, 90, -18),  Indices(178, 83, 136, 88, -22),   \* -2.50500, -2.50010
   Indices(106, 123, 112, 84, -7),  Indices(136, 91, 114, 120, -8),   \* -2.50005, -2.50000
   Indices(152, 102, 128, 88, -17), Indices(137, 90, 93, 120, -4),    \* -2.49995, -2.49500
   Indices(138, 95, 140, 83, -1),   Indices(154, 84, 136, 102, -1),   \* -1.78500, -1.78005
   Indices(177, 82, 95, 81, 1),     Indices(140, 135, 91, 103, 6),    \* -1.78000, -1.77995
   Indices(129, 128, 94, 113, 9),   Indices(170, 76, 104, 99, 19),    \* -1.77500, -1.00500
   Indices(87, 103, 140, 110, 27),  Indices(120, 138, 110, 107, 23),  \* -1.00005, -1.00000
   Indices(180, 130, 137, 82, 5),   Indices(105, 91, 104, 89, 30),    \* -0.99995, -0.99501
   Indices(109, 107, 134, 116, 24),                                   \* -0.99500
   Indices(107683, 132, 132, 90, 262),                                \* 999.99000
   Indices(108432, 72, 136, 115, 121),                                \* 999.99494
   Indices(107373, 98, 91, 107, 335)}                                 \* 999.99500

Solvent == Ratios(-4, 23, 28, 30)

MCRatios ==
  {Solvent,
   Ratios(-19, -7, 15, 292), Ratios(3, 14, 26, 19),      \* 2.59940, 2.59990
   Ratios(-4, 23, 28, 22),   Ratios(-7, 34, 37, -51),    \* 2.60000, 2.60010
   Ratios(-14, -12, -14, 462),                           \* 2.60060
   Ratios(31, 27, 3, -192),  Ratios(27, -7, -3, -23),    \* 1.09940, 1.09990
   Ratios(9, -14, -5, 124),  Ratios(38, -8, 33, -319),   \* 1.10000, 1.10010
   Ratios(28, 39, 27, -364),                             \* 1.10060
   Ratios(20, 39, 5, 94960), Ratios(-7, 38, -18, 95279), \* 999.99940, 999.99950
   Ratios(14, -5, 40, -95566)}                           \* -999.99960

Typical == Kpis(120, 15, 60, 1)

MCDisclosures ==
  {Kpis(m, i, b, f) : m \in {0, 50, 51, 83, 100, 149, 150, 275, 399, 400, 700, 999, 1000, 1500},
                      i \in {0, 5, 6, 19, 20, 35, 50, 99, 100, 120},
                      b \in {0, 29, 30, 31, 50, 69, 70, 89, 90, 100},
                      f \in {0, 1, 3, 4, 5}}

OnFile(request, indices, ratios, disclosure) ==
  [request |-> request, invalid |-> FALSE, indices |-> indices, zero_prior |-> FALSE,
   infinite |-> {}, ratios |-> ratios, debt_free |-> FALSE, disclosure |-> disclosure]

Flawed(e) ==
  {[e EXCEPT !.invalid = TRUE], [e EXCEPT !.zero_prior = TRUE], [e EXCEPT !.debt_free = TRUE]}
  \cup {[e EXCEPT !.infinite = s] : s \in SUBSET Guarded}

MCEvidence ==
  LET requests == {"esg_score", "fraud_risk", "combined"}
  IN  {OnFile("fraud_risk", i, r, Typical) : i \in MCIndices, r \in MCRatios}
      \cup {OnFile("combined", i, r, d) : i \in MCIndices, r \in {Solvent, Ratios(9, -14, -5, 124)},
                                          d \in {Typical, Kpis(83, 20, 70, 0)}}
      \cup {OnFile("esg_score", Unremarkable, Solvent, d) : d \in MCDisclosures}
      \cup UNION {Flawed(OnFile(q, Unremarkable, Solvent, Typical)) : q \in requests}
=============================================================================
