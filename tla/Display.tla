------------------------------- MODULE Display -------------------------------
(***************************************************************************)
(* How a coverage is shown: rounded to hundredths of a percent by round2   *)
(* of internal/report/build.go, and to tenths, with a colour, on the badge *)
(* of internal/report/svg.go.                                              *)
(*                                                                         *)
(* A percentage is a number of hundredths.  In float64 the sum v*100+0.5   *)
(* is exact to well below a hundredth, so that only a percentage half-way  *)
(* between two of them could come out lower than here; a tie of            *)
(* strconv.FormatFloat goes up or down with the binary fraction nearest    *)
(* to it.                                                                  *)
(***************************************************************************)
EXTENDS Gates

(* Mutant: the division of two integers. *)
PercentageOfInts(covered, total) ==
  IF total = 0 THEN 0 ELSE 10000 * (covered \div total)

(* round2(Percentage()) *)
Percentage(covered, total) ==
  IF total = 0 THEN 0 ELSE (20000 * covered + total) \div (2 * total)

(* FormatFloat(v, 'f', 2, 64) of a threshold: one whose products come out too
   large lies above its decimal in float64. *)
formatThreshold(th) ==
  LET up  == (2 * th + Fine) \div (2 * Fine)
      tie == (2 * th + Fine) % (2 * Fine) = 0
  IN  IF tie /\ \A pair \in RoundsUp : pair[1] # th THEN {up - 1, up} ELSE {up}

(* FormatFloat(v, 'f', 1, 64) of h hundredths. *)
formatPct(h) ==
  IF h % 10 = 5 THEN {h \div 10, h \div 10 + 1} ELSE {(h + 5) \div 10}

(* A colour is named by the percentage it starts at; red starts at 0. *)
Colors  == {0, 50, 60, 70, 80, 90}
unknown == [value |-> {}, color |-> -1]

(* Mutant: a bucket starts above its bound. *)
coverageColorAbove(h) ==
  CHOOSE c \in Colors : (c = 0 \/ c * 100 < h) /\ \A d \in Colors : d * 100 < h => d <= c

coverageColor(h) ==
  CHOOSE c \in Colors : c * 100 <= h /\ \A d \in Colors : d * 100 <= h => d <= c

(* The badge of a percentage of h hundredths. *)
SVG(hasData, h) ==
  IF hasData THEN [value |-> formatPct(h), color |-> coverageColor(h)] ELSE unknown
=============================================================================
