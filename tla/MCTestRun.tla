----------------------------- MODULE MCTestRun -----------------------------
(***************************************************************************)
(* Two packages run side by side, each of a test with a subtest which      *)
(* -count runs twice; tests and packages may print the text of a failed    *)
(* build.                                                                  *)
(***************************************************************************)
EXTENDS TestRun

None  == [text |-> <<>>, marks |-> {}]
Build == [text |-> <<1>>, marks |-> {"build failed"}]

AllOutput == {None, Build}
BuildOnly == {Build}
=============================================================================
