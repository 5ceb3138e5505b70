------------------------------ MODULE MCBridge ------------------------------
(***************************************************************************)
(* Small instances of Bridge.  s1 has an issue i1, another issue i2 and a  *)
(* commit k1; s2 has an issue j1 with the same title as i1.                *)
(***************************************************************************)
EXTENDS BridgeLedger, TLC

CONSTANTS s1, s2, c1, c2, private, i1, i2, j1, k1, noNote,
          u1, u2, v1, w1, noUrl, t1, t2, a1, a2

OneSeries == {s1}
TwoSeries == {s1, s2}

\* The first issue of a run with one issue only.
SmallNotes     == {i1}
SmallSeriesMap == i1 :> s1
SmallUrlMap    == i1 :> u1

\* One series with two issues, for the bindings.
TwoNotes     == {i1, i2}
BoundNotes   == {i1, i2, k1}
BoundSeriesMap == [n \in BoundNotes |-> s1]
BoundUrlMap  == i1 :> u1 @@ i2 :> u2 @@ k1 :> w1

\* Two series with an issue each.
TitleNotes     == {i1, j1}
TitleSeriesMap == i1 :> s1 @@ j1 :> s2
TitleUrlMap    == i1 :> u1 @@ j1 :> v1

NoExplicit     == EmptyMap
ExplicitOne    == c1 :> i1
ExplicitSecond == c2 :> i1

NoTitlesOne == [p \in {s1} \X Conv |-> noNote]
SameTitles  == [p \in {s1, s2} \X Conv |->
                  IF p[2] # c1 THEN noNote ELSE IF p[1] = s1 THEN i1 ELSE j1]
=============================================================================
