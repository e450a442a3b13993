------------------------------ MODULE TestTally ------------------------------
(***************************************************************************)
(* What the report promises about single tests, without the bookkeeping of *)
(* internal/gotest/parser.go: every top-level test of every package has at *)
(* most one verdict.  The first pass or skip of a test decides it, unless  *)
(* the test or one of its subtests fails, at any time: a failure is final. *)
(* Subtests, output, packages and the order of failures do not exist here. *)
(***************************************************************************)
CONSTANTS
  Pkg,      \* import paths
  Top       \* names of top-level tests

VARIABLE verdict

Verdict == {"none", "passed", "skipped", "failed"}

TallyTypeOK == verdict \in [Pkg -> [Top -> Verdict]]

TallyInit == verdict = [p \in Pkg |-> [t \in Top |-> "none"]]

(* A test ends without failing: only the first such report counts. *)
Settle(p, t, v) ==
  /\ verdict[p][t] = "none"
  /\ verdict' = [verdict EXCEPT ![p][t] = v]

(* A test or one of its subtests fails: this overrides any other verdict. *)
Break(p, t) ==
  verdict' = [verdict EXCEPT ![p][t] = "failed"]

TallyNext ==
  \E p \in Pkg, t \in Top :
    \/ Settle(p, t, "passed")
    \/ Settle(p, t, "skipped")
    \/ Break(p, t)

TallySpec == TallyInit /\ [][TallyNext]_verdict
=============================================================================
