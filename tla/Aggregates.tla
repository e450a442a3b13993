----------------------------- MODULE Aggregates -----------------------------
(***************************************************************************)
(* internal/gotest/parser.go without its loop: the aggregate kept for each *)
(* package, what one `go test -json` event does to it, and how aggregates  *)
(* are finalised into a ParseResult.  Parser runs these on a stream.       *)
(*                                                                         *)
(* Abstractions.  A test name is the sequence of its "/"-separated         *)
(* segments: <<>> for a package-level event, <<t>> for a top-level test,   *)
(* <<t, s>> for a subtest.  Import paths and test names are integers,      *)
(* standing for their rank in the order of sort.Strings.  The text of an   *)
(* event is a sequence of bytes plus the set of marks strings.Contains     *)
(* looks for.  A line that is empty, is no JSON or names no package is an  *)
(* event of package NoPkg.                                                 *)
(***************************************************************************)
EXTENDS Integers, Sequences, FiniteSets, SequencesExt, TLC

CONSTANTS
  Pkg,                    \* import paths
  Top,                    \* names of top-level tests
  Sub,                    \* second segments of subtest names
  Output,                 \* texts an event may carry
  NoPkg,                  \* the empty Package field
  maxFailureOutputBytes   \* bound on the text kept per top-level test

Mark == {"build failed", "panic:"}

ASSUME ParserAssumption ==
  /\ Pkg \subseteq Int /\ IsFiniteSet(Pkg) /\ NoPkg \notin Pkg
  /\ Top \subseteq Int /\ IsFiniteSet(Top)
  /\ maxFailureOutputBytes \in Nat
  /\ \A o \in Output : o.text \in Seq(Int) /\ o.marks \subseteq Mark

Test   == {<<t>> : t \in Top} \cup {<<t, s>> : t \in Top, s \in Sub}
Action == {"start", "run", "pass", "fail", "skip", "output"}
event  == [Action : Action, Package : Pkg \cup {NoPkg},
           Test : Test \cup {<<>>}, Output : Output]

-----------------------------------------------------------------------------
(* The aggregate of one package. *)

newPkgAgg ==
  [tests        |-> [t \in {} |-> FALSE],     \* top-level test -> failed?
   seen         |-> {},
   skipped      |-> {},
   failOrder    |-> <<>>,
   failRecorded |-> {},
   failOutput   |-> [t \in Top |-> <<>>],
   pkgFailed    |-> FALSE,
   pkgCompile   |-> FALSE,
   sawAnyTest   |-> FALSE]

(* m[k] = v on a Go map. *)
Put(m, k, v) == [x \in DOMAIN m \cup {k} |-> IF x = k THEN v ELSE m[x]]

topLevel(test) == Head(test)
IsTop(test)    == Len(test) = 1

(* p.tests[t], which is false for a missing key. *)
Failed(p, t) == t \in DOMAIN p.tests /\ p.tests[t]

isCompileFailure(out) == "build failed" \in out.marks
compileHint(p)        == ~p.sawAnyTest

appendBounded(b, s) ==
  LET remaining == maxFailureOutputBytes - Len(b)
  IN  IF Len(b) >= maxFailureOutputBytes THEN b
      ELSE IF Len(s) > remaining THEN b \o SubSeq(s, 1, remaining)
      ELSE b \o s

(* Mutant: every event starts the text of a test anew. *)
captureOutputAnew(p, top, out) ==
  [p EXCEPT !.failOutput[top] = appendBounded(<<>>, out.text)]

captureOutput(p, top, out) ==
  [p EXCEPT !.failOutput[top] = appendBounded(@, out.text)]

(* Mutant: what a package prints makes it a compile failure even when tests
   have run. *)
applyPackageEventChatty(p, ev) ==
  CASE ev.Action = "fail" ->
         [p EXCEPT !.pkgFailed = TRUE, !.pkgCompile = @ \/ ~p.sawAnyTest]
    [] ev.Action = "output" ->
         [p EXCEPT !.pkgCompile = @ \/ isCompileFailure(ev.Output)]
    [] OTHER -> p

applyPackageEvent(p, ev) ==
  CASE ev.Action = "fail" ->
         [p EXCEPT !.pkgFailed = TRUE,
                   !.pkgCompile = \/ @
                                  \/ /\ ~p.sawAnyTest
                                     /\ \/ isCompileFailure(ev.Output)
                                        \/ compileHint(p)]
    [] ev.Action = "output" ->
         [p EXCEPT !.pkgCompile = @ \/ (isCompileFailure(ev.Output) /\ ~p.sawAnyTest)]
    [] OTHER -> p

(* The five arms of the switch in applyTestEvent. *)
onRun(p, top) == [p EXCEPT !.sawAnyTest = TRUE, !.seen = @ \cup {top}]

(* Mutant: a later pass overwrites a failure. *)
onPassAnew(p, test) ==
  LET top == topLevel(test)
  IN  IF ~IsTop(test) THEN [p EXCEPT !.sawAnyTest = TRUE]
      ELSE [p EXCEPT !.sawAnyTest = TRUE,
                     !.seen = @ \cup {top},
                     !.tests = Put(@, top, FALSE)]

onPass(p, test) ==
  LET top == topLevel(test)
  IN  IF ~IsTop(test) THEN [p EXCEPT !.sawAnyTest = TRUE]
      ELSE [p EXCEPT !.sawAnyTest = TRUE,
                     !.seen = @ \cup {top},
                     !.tests = IF top \in DOMAIN @ THEN @ ELSE Put(@, top, FALSE)]

(* Mutant: every failure is listed, not only the first. *)
onFailAgain(p, top) ==
  [p EXCEPT !.sawAnyTest = TRUE,
            !.seen = @ \cup {top},
            !.failOrder = Append(@, top),
            !.failRecorded = @ \cup {top},
            !.tests = Put(@, top, TRUE)]

onFail(p, top) ==
  LET first == ~Failed(p, top) /\ top \notin p.failRecorded
  IN  [p EXCEPT !.sawAnyTest = TRUE,
                !.seen = @ \cup {top},
                !.failOrder = IF first THEN Append(@, top) ELSE @,
                !.failRecorded = IF first THEN @ \cup {top} ELSE @,
                !.tests = Put(@, top, TRUE)]

onSkip(p, test) ==
  LET top == topLevel(test)
  IN  IF ~IsTop(test) THEN [p EXCEPT !.sawAnyTest = TRUE]
      ELSE [p EXCEPT !.sawAnyTest = TRUE,
                     !.seen = @ \cup {top},
                     !.skipped = IF top \in DOMAIN p.tests THEN @ ELSE @ \cup {top}]

applyTestEvent(p, ev) ==
  CASE ev.Action = "run"    -> onRun(p, topLevel(ev.Test))
    [] ev.Action = "pass"   -> onPass(p, ev.Test)
    [] ev.Action = "fail"   -> onFail(p, topLevel(ev.Test))
    [] ev.Action = "skip"   -> onSkip(p, ev.Test)
    [] ev.Action = "output" -> captureOutput(p, topLevel(ev.Test), ev.Output)
    [] OTHER                -> p

applyEvent(p, ev) ==
  IF ev.Test = <<>> THEN applyPackageEvent(p, ev) ELSE applyTestEvent(p, ev)

-----------------------------------------------------------------------------
(* Finalisation. *)

passedOf(p)  == {t \in DOMAIN p.tests : ~p.tests[t] /\ t \notin p.skipped}
failedOf(p)  == {t \in DOMAIN p.tests : p.tests[t]}
skippedOf(p) == {t \in DOMAIN p.tests : ~p.tests[t] /\ t \in p.skipped}
                  \cup (p.skipped \ DOMAIN p.tests)

(* Mutant: a test that was skipped and then failed counts twice. *)
countTestsTwice(p) ==
  [passed  |-> Cardinality(passedOf(p)),
   failed  |-> Cardinality(failedOf(p)),
   skipped |-> Cardinality(p.skipped)]

countTests(p) ==
  [passed  |-> Cardinality(passedOf(p)),
   failed  |-> Cardinality(failedOf(p)),
   skipped |-> Cardinality(skippedOf(p))]

(* Mutant: a package without a failed test has not failed. *)
packageStatusByTests(p, failed, total) ==
  CASE p.pkgCompile                                -> [status |-> "fail",     compileFailed |-> TRUE]
    [] ~p.pkgCompile /\ failed > 0                 -> [status |-> "fail",     compileFailed |-> FALSE]
    [] ~p.pkgCompile /\ failed = 0 /\ total = 0    -> [status |-> "no_tests", compileFailed |-> FALSE]
    [] OTHER                                       -> [status |-> "pass",     compileFailed |-> FALSE]

packageStatus(p, failed, total) ==
  CASE p.pkgCompile              -> [status |-> "fail",     compileFailed |-> TRUE]
    [] ~p.pkgCompile /\ (failed > 0 \/ p.pkgFailed)
                                 -> [status |-> "fail",     compileFailed |-> FALSE]
    [] ~p.pkgCompile /\ ~(failed > 0 \/ p.pkgFailed) /\ total = 0
                                 -> [status |-> "no_tests", compileFailed |-> FALSE]
    [] OTHER                     -> [status |-> "pass",     compileFailed |-> FALSE]

(* sort.Strings: names are ranks, so the order is that of Int. *)
SortStrings(s) ==
  LET p == CHOOSE p \in [DOMAIN s -> DOMAIN s] :
             \A i, j \in DOMAIN s : i < j => p[i] # p[j] /\ s[p[i]] <= s[p[j]]
  IN  [i \in DOMAIN s |-> s[p[i]]]

SortNames(S)   == SortStrings(SetToSeq(S))
failedNames(p) == SortStrings(p.failOrder)

(* The trailing newline is byte 10; TrimRight drops all of them. *)
TrimRight(b) ==
  LET solid == {i \in 1..Len(b) : b[i] # 10}
  IN  IF solid = {} THEN <<>>
      ELSE SubSeq(b, 1, CHOOSE i \in solid : \A j \in solid : j <= i)

finalizePackage(r, ip, p) ==
  LET n     == countTests(p)
      total == n.passed + n.failed + n.skipped
      st    == packageStatus(p, n.failed, total)
      names == failedNames(p)
  IN  [Tests |-> [Total   |-> r.Tests.Total + total,
                  Passed  |-> r.Tests.Passed + n.passed,
                  Failed  |-> r.Tests.Failed + n.failed,
                  Skipped |-> r.Tests.Skipped + n.skipped],
       Failures |-> r.Failures \o
                    [i \in 1..Len(names) |->
                       [Package |-> ip, Test |-> names[i],
                        Output |-> TrimRight(p.failOutput[names[i]])]],
       Packages |-> Append(r.Packages,
                           [ImportPath |-> ip, Status |-> st.status,
                            Tests |-> total, Failed |-> n.failed]),
       CompileFailed |-> r.CompileFailed \/ st.compileFailed,
       Panicked |-> r.Panicked]

(* Packages are finalised in the order of their import paths. *)
ParseResult(ps, panicked) ==
  LET zero == [Tests |-> [Total |-> 0, Passed |-> 0, Failed |-> 0, Skipped |-> 0],
               Failures |-> <<>>, Packages |-> <<>>,
               CompileFailed |-> FALSE, Panicked |-> panicked]
  IN  FoldLeft(LAMBDA r, ip : finalizePackage(r, ip, ps[ip]),
               zero, SortNames(DOMAIN ps))

-----------------------------------------------------------------------------
(* Shape and sense of an aggregate. *)

Aggregate ==
  [tests        : UNION {[D -> BOOLEAN] : D \in SUBSET Top},
   seen         : SUBSET Top,
   skipped      : SUBSET Top,
   failOrder    : Seq(Top),
   failRecorded : SUBSET Top,
   failOutput   : [Top -> Seq(Int)],
   pkgFailed    : BOOLEAN,
   pkgCompile   : BOOLEAN,
   sawAnyTest   : BOOLEAN]

(* The three places that remember a failure agree. *)
Bookkept(a) ==
  /\ a.failRecorded = failedOf(a)
  /\ {a.failOrder[i] : i \in 1..Len(a.failOrder)} = a.failRecorded
  /\ \A i, j \in 1..Len(a.failOrder) :
        a.failOrder[i] = a.failOrder[j] => i = j

(* Only what a test does counts as a sign of it, not what it prints. *)
AboutTest(ev) == ev.Test # <<>> /\ ev.Action \in {"run", "pass", "fail", "skip"}

(* The verdict an aggregate amounts to, for the abstract specification. *)
VerdictOf(a, t) ==
  IF Failed(a, t) THEN "failed"
  ELSE IF t \in a.skipped THEN "skipped"
  ELSE IF t \in DOMAIN a.tests THEN "passed" ELSE "none"
=============================================================================
