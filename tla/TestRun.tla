------------------------------- MODULE TestRun -------------------------------
(***************************************************************************)
(* The parser reading the stream of a `go test -json` process: each step   *)
(* of the process writes one event, which the parser folds into its        *)
(* aggregates.  (The parser runs after the process, on the file the runner *)
(* wrote; it is deterministic and sees the events in the order of the      *)
(* file, so reading each one as it is written gives the same result.)      *)
(* The stream may stop anywhere: the process is killed, or it is done.     *)
(***************************************************************************)
EXTENDS Parser

CONSTANTS
  MaxRuns,       \* bound on the runs of a test under -count
  PlainText,     \* an event that carries no text
  BuildText,     \* the text of a "[build failed]" line
  TestPrint,     \* texts a test prints
  PackagePrint   \* texts a package prints outside its tests

(* What a package or a test prints is any text. *)
ASSUME TestRunAssumption ==
  /\ {PlainText, BuildText} \cup TestPrint \cup PackagePrint \subseteq Output
  /\ "build failed" \in BuildText.marks

(* The state of the process, described in GoTest. *)
VARIABLES proc, tst, runs, outcome, hadFail, firstEnd, announced

INSTANCE GoTest

processVars == <<proc, tst, runs, outcome, hadFail, firstEnd, announced>>
runVars == <<parserVars, processVars>>

Event(a, p, n, o) == [Action |-> a, Package |-> p, Test |-> n, Output |-> o]

RunInit == ParserInit /\ GoInit

Start(p)       == GoStart(p) /\ Scan(Event("start", p, <<>>, PlainText))
BuildOutput(p) == GoBuildOutput(p) /\ Scan(Event("output", p, <<>>, BuildText))
BuildEnd(p)    == GoBuildEnd(p) /\ Scan(Event("fail", p, <<>>, PlainText))
RunTop(p, t)   == GoRunTop(p, t) /\ Scan(Event("run", p, <<t>>, PlainText))
RunSub(p, n)   == GoRunSub(p, n) /\ Scan(Event("run", p, n, PlainText))
End(p, n, how) == GoEnd(p, n, how) /\ Scan(Event(how, p, n, PlainText))
PkgEnd(p, how) == GoPkgEnd(p, how) /\ Scan(Event(how, p, <<>>, PlainText))

TestPrints(p, n, o)   == GoTestPrints(p, n) /\ Scan(Event("output", p, n, o))
PackagePrints(p, o)   == /\ GoPackagePrints(p, "build failed" \in o.marks)
                         /\ Scan(Event("output", p, <<>>, o))

RunNext ==
  \/ \E p \in Pkg :
       \/ Start(p) \/ BuildOutput(p) \/ BuildEnd(p)
       \/ \E t \in Top : RunTop(p, t)
       \/ \E t \in Top, s \in Sub : RunSub(p, <<t, s>>)
       \/ \E n \in TestName, how \in {"pass", "fail", "skip"} : End(p, n, how)
       \/ \E how \in {"pass", "fail", "skip"} : PkgEnd(p, how)
       \/ \E n \in TestName, o \in TestPrint : TestPrints(p, n, o)
       \/ \E o \in PackagePrint : PackagePrints(p, o)
  \/ Finish /\ UNCHANGED processVars
  \/ ScanError /\ UNCHANGED processVars

RunSpec == RunInit /\ [][RunNext]_runVars

-----------------------------------------------------------------------------
(* Properties of the result. *)

Returned == phase = "returned"

FailurePairs == {<<f.Package, f.Test>> : f \in ToSet(res.Failures)}

(* Parse lists as failures exactly the top-level tests that failed, by
   themselves or through a subtest, in any run of them and however the
   packages were interleaved: each once, ordered by package and test. *)
FailuresExact ==
  Returned =>
    /\ FailurePairs = {f \in Pkg \X Top : f[2] \in hadFail[f[1]]}
    /\ \A i, j \in DOMAIN res.Failures : i < j =>
         LET f == res.Failures[i]  g == res.Failures[j]
         IN  f.Package < g.Package \/ (f.Package = g.Package /\ f.Test < g.Test)

EndedAs(how) ==
  {f \in Pkg \X Top : firstEnd[f[1]][f[2]] = how /\ f[2] \notin hadFail[f[1]]}

(* The totals put every top-level test that reported an ending in one bucket:
   failed if it ever failed, otherwise how it first ended. *)
TotalsExact ==
  Returned =>
    /\ res.Tests.Failed = Len(res.Failures)
    /\ res.Tests.Passed = Cardinality(EndedAs("pass"))
    /\ res.Tests.Skipped = Cardinality(EndedAs("skip"))
    /\ res.Tests.Total = res.Tests.Passed + res.Tests.Failed + res.Tests.Skipped

PkgResult(p) == CHOOSE r \in ToSet(res.Packages) : r.ImportPath = p

(* Every package that wrote an event is reported once.  It is "fail" exactly
   when the process says so, when one of its tests failed, or when the text of
   a failed build came before its first test; otherwise "no_tests" when none of
   its tests ended, and else "pass", also when its own end is missing from the
   stream.  The run is a compile failure exactly when such a text came first
   or a package failed without having started a test. *)
StatusExact ==
  Returned =>
    /\ {r.ImportPath : r \in ToSet(res.Packages)} = {p \in Pkg : proc[p] # "idle"}
    /\ Len(res.Packages) = Cardinality(DOMAIN pkgs)
    /\ \A p \in Pkg : proc[p] # "idle" =>
         /\ PkgResult(p).Status = "fail" <=>
              p \in announced \/ outcome[p] \in {"fail", "broken"} \/ hadFail[p] # {}
         /\ PkgResult(p).Status = "no_tests" <=>
              /\ PkgResult(p).Status # "fail"
              /\ \A t \in Top : firstEnd[p][t] = "none"
    /\ res.CompileFailed <=>
         \E p \in Pkg : p \in announced \/ (outcome[p] = "fail" /\ NoTestYet(p))

(* "CompileFailed is true if any package failed to build/compile": so not when
   every package was built and passed, or had nothing to build (ParseResult,
   parser.go:24).  A package that prints the text of a failed build before its
   first test and then passes refutes it. *)
CompileFlagHonest ==
  Returned /\ (\A p \in Pkg : outcome[p] \in {"pass", "skip"}) => ~res.CompileFailed
=============================================================================
