----------------------------- MODULE MCPipeline -----------------------------
(***************************************************************************)
(* Three packages of module "m": m and m/a, the second of them excluded,   *)
(* are listed; m/b is not, but -coverpkg may name it.  Each has one test;  *)
(* the Markdown report has room for one package and one failure.           *)
(***************************************************************************)
EXTENDS Pipeline

PlainText == [text |-> <<>>, marks |-> {}]
BuildText == [text |-> <<1>>, marks |-> {"build failed"}]
Texts     == {PlainText, BuildText}

NoStatements == [covered |-> 0, total |-> 0]
Half         == [covered |-> 1, total |-> 2]
Full         == [covered |-> 2, total |-> 2]
SomeCounts   == {NoStatements, Half, Full}
FullOnly     == {Full}

M == <<109>>
Paths == (1 :> M) @@ (2 :> <<109, 47, 97>>) @@ (3 :> <<109, 47, 98>>)

EmptyExpr == [empty |-> TRUE, compiles |-> TRUE, matches |-> Pkg]
Second    == [empty |-> FALSE, compiles |-> TRUE, matches |-> {2}]
All       == [empty |-> FALSE, compiles |-> TRUE, matches |-> Pkg]
Broken    == [empty |-> FALSE, compiles |-> FALSE, matches |-> {}]

Gated ==
  [Packages |-> {1, 2}, CoverPkg |-> {}, CoverMode |-> "set", Race |-> FALSE,
   CoverageThreshold |-> 6000, PackageThreshold |-> 7000, Timeout |-> 0,
   Exclude |-> {EmptyExpr, Second}]

(* The only rule of a configuration that is broken. *)
Refused ==
  {[Gated EXCEPT !.CoverMode = "bogus"], [Gated EXCEPT !.Race = TRUE],
   [Gated EXCEPT !.CoverageThreshold = -1], [Gated EXCEPT !.CoverageThreshold = 10001],
   [Gated EXCEPT !.PackageThreshold = -1], [Gated EXCEPT !.PackageThreshold = 10001],
   [Gated EXCEPT !.Timeout = -1], [Gated EXCEPT !.Exclude = {Broken, Second}]}

(* -coverpkg names an unlisted package; a threshold is met exactly. *)
AllConfigs ==
  {Gated,
   [Gated EXCEPT !.CoverPkg = {1, 3}, !.CoverageThreshold = 5000],
   [Gated EXCEPT !.CoverageThreshold = NaN],
   [Gated EXCEPT !.PackageThreshold = NaN, !.Exclude = {All}, !.Race = TRUE, !.CoverMode = "atomic"]}
    \cup Refused
OneConfig == {Gated}

AllRequests  == SUBSET File
FewRequests  == {File, {}}
=============================================================================
