------------------------------ MODULE Invocation ------------------------------
(***************************************************************************)
(* What an invocation of gtr promises about its files to the step that     *)
(* runs it, whatever went wrong: with a verdict the three reports and the  *)
(* summary are written; with an error the first few reports, perhaps none, *)
(* the last of which may be torn, and a summary, which may be torn as      *)
(* well, only when all three reports are whole.                            *)
(*                                                                         *)
(* ActionJob relies on it and PipelineProofs shows that Pipeline keeps it. *)
(* A report is a record of the data it shows and of whether it is whole;   *)
(* equal records are equal bytes.                                          *)
(***************************************************************************)
EXTENDS Integers, Sequences

Verdicts == {0, 10, 11, 12}                   \* exit codes that judge the tests
Order    == <<"json", "markdown", "svg">>     \* in which gtr writes them
Stable   == {"json", "markdown", "svg"}

(* The files after n reports, which show d, on top of those before. *)
Written(before, n, torn, d) ==
  [f \in DOMAIN before |->
     IF \E i \in 1..n : Order[i] = f
     THEN [data |-> d, whole |-> ~(torn /\ f = Order[n])]
     ELSE before[f]]

(* An invocation may exit with c after n reports, the last torn or not, with or
   without a summary. *)
Promised(c, n, torn, summarised) ==
  /\ c \in Verdicts => summarised
  /\ summarised => n = 3 /\ ~torn
=============================================================================
