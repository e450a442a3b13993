------------------------------- MODULE GoTest -------------------------------
(***************************************************************************)
(* The `go test -json` process, which is not part of the repository: what  *)
(* streams of events Parser meets.  Packages run independently; inside a   *)
(* package top-level tests and their subtests start, print and end in any  *)
(* order the testing package allows (a subtest may report before or after  *)
(* its parent).  A package may not build, may have no test files, and may  *)
(* fail with tests still running (os.Exit, a panic elsewhere, a timeout)   *)
(* or with no test failed at all (TestMain returning non-zero).  -count    *)
(* repeats a test, at most MaxRuns times.                                  *)
(*                                                                         *)
(* hadFail, firstEnd and announced are history: what really happened,      *)
(* against which the parser's answer is judged.                            *)
(***************************************************************************)
EXTENDS Integers, Sequences

CONSTANTS Pkg, Top, Sub, MaxRuns

TestName == {<<t>> : t \in Top} \cup {<<t, s>> : t \in Top, s \in Sub}
SubsOf(t) == {<<t, s>> : s \in Sub}

VARIABLES
  proc,      \* Pkg -> "idle" | "running" | "broken" | "done"
  tst,       \* Pkg -> TestName -> "idle" | "running" | "pass" | "fail" | "skip"
  runs,      \* Pkg -> Top -> number of runs started
  outcome,   \* Pkg -> "none" | "pass" | "fail" | "skip" | "broken"
  hadFail,   \* Pkg -> tests that failed, themselves or through a subtest
  firstEnd,  \* Pkg -> Top -> first own ending that was no failure
  announced  \* packages for which a build failure was announced before any test

GoInit ==
  /\ proc = [p \in Pkg |-> "idle"]
  /\ tst = [p \in Pkg |-> [n \in TestName |-> "idle"]]
  /\ runs = [p \in Pkg |-> [t \in Top |-> 0]]
  /\ outcome = [p \in Pkg |-> "none"]
  /\ hadFail = [p \in Pkg |-> {}]
  /\ firstEnd = [p \in Pkg |-> [t \in Top |-> "none"]]
  /\ announced = {}

(* The package was built and its test binary starts. *)
GoStart(p) ==
  /\ proc[p] = "idle"
  /\ proc' = [proc EXCEPT ![p] = "running"]
  /\ UNCHANGED <<tst, runs, outcome, hadFail, firstEnd, announced>>

(* The package does not build: a "[build failed]" line, then its end. *)
GoBuildOutput(p) ==
  /\ proc[p] = "idle"
  /\ proc' = [proc EXCEPT ![p] = "broken"]
  /\ announced' = announced \cup {p}
  /\ UNCHANGED <<tst, runs, outcome, hadFail, firstEnd>>

GoBuildEnd(p) ==
  /\ proc[p] = "broken"
  /\ proc' = [proc EXCEPT ![p] = "done"]
  /\ outcome' = [outcome EXCEPT ![p] = "broken"]
  /\ UNCHANGED <<tst, runs, hadFail, firstEnd, announced>>

Quiet(p, t) == \A n \in SubsOf(t) \cup {<<t>>} : tst[p][n] # "running"

(* A top-level test starts, or starts again under -count. *)
GoRunTop(p, t) ==
  /\ proc[p] = "running" /\ runs[p][t] < MaxRuns /\ Quiet(p, t)
  /\ runs' = [runs EXCEPT ![p][t] = @ + 1]
  /\ tst' = [tst EXCEPT ![p] = [n \in TestName |->
               IF n = <<t>> THEN "running"
               ELSE IF n \in SubsOf(t) THEN "idle" ELSE @[n]]]
  /\ UNCHANGED <<proc, outcome, hadFail, firstEnd, announced>>

GoRunSub(p, n) ==
  /\ proc[p] = "running" /\ tst[p][n] = "idle" /\ tst[p][<<n[1]>>] = "running"
  /\ tst' = [tst EXCEPT ![p][n] = "running"]
  /\ UNCHANGED <<proc, runs, outcome, hadFail, firstEnd, announced>>

(* A test or subtest prints; a package prints (TestMain, init, a crash), and
   what it prints may speak of a failed build. *)
GoTestPrints(p, n) ==
  /\ proc[p] = "running" /\ tst[p][n] = "running"
  /\ UNCHANGED <<proc, tst, runs, outcome, hadFail, firstEnd, announced>>

NoTestYet(p) == \A n \in TestName : tst[p][n] = "idle"

GoPackagePrints(p, saysBuildFailed) ==
  /\ proc[p] = "running"
  /\ announced' = IF saysBuildFailed /\ NoTestYet(p) THEN announced \cup {p} ELSE announced
  /\ UNCHANGED <<proc, tst, runs, outcome, hadFail, firstEnd>>

(* A parent does not pass or skip over a failed subtest, and a subtest does
   not fail under a parent that already reported success. *)
MayEnd(p, n, how) ==
  /\ proc[p] = "running" /\ tst[p][n] = "running"
  /\ IF Len(n) = 1
     THEN how \in {"pass", "skip"} => \A m \in SubsOf(n[1]) : tst[p][m] # "fail"
     ELSE how = "fail" => tst[p][<<n[1]>>] \in {"running", "fail"}

GoEnd(p, n, how) ==
  /\ MayEnd(p, n, how)
  /\ tst' = [tst EXCEPT ![p][n] = how]
  /\ hadFail' = IF how = "fail" THEN [hadFail EXCEPT ![p] = @ \cup {n[1]}] ELSE hadFail
  /\ firstEnd' = IF /\ Len(n) = 1 /\ how # "fail"
                    /\ firstEnd[p][n[1]] = "none" /\ n[1] \notin hadFail[p]
                 THEN [firstEnd EXCEPT ![p][n[1]] = how] ELSE firstEnd
  /\ UNCHANGED <<proc, runs, outcome, announced>>

(* A package passes only when all its tests ended and none failed; it may
   fail at any moment; one without test files is skipped. *)
GoPkgEnd(p, how) ==
  /\ \/ how = "skip" /\ proc[p] = "idle"
     \/ how = "fail" /\ proc[p] = "running"
     \/ /\ how = "pass" /\ proc[p] = "running" /\ hadFail[p] = {}
        /\ \A t \in Top : Quiet(p, t)
  /\ proc' = [proc EXCEPT ![p] = "done"]
  /\ outcome' = [outcome EXCEPT ![p] = how]
  /\ UNCHANGED <<tst, runs, hadFail, firstEnd, announced>>
=============================================================================
