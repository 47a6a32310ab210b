-------------------------- MODULE MCStatedBalance --------------------------
(* Instances of StatedBalance for TLC: amounts whose sums tell which of them  *)
(* are missing.                                                               *)
EXTENDS StatedBalance
Of(rial, kinds) == [rial : {rial}, kind : kinds]
ThreeMessages == <<Of(-1, {"plain", "stated"}),
                   Of(2, {"plain", "stated"}) \cup Of(0, {"only"}),
                   Of(-4, {"stated", "unclear"})>>
=============================================================================
