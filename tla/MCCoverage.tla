----------------------------- MODULE MCCoverage -----------------------------
(***************************************************************************)
(* A threshold of 65.4 percent and two thousand statements, of which 1308  *)
(* are exactly 65.4 percent: in float64, 65.4 * 2000 > 130800.             *)
(***************************************************************************)
EXTENDS Coverage

FloatsRoundUp == {<<6540, 2000>>}
=============================================================================
