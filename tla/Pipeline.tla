------------------------------ MODULE Pipeline ------------------------------
(***************************************************************************)
(* cmd/gtr/main.go, runCmd and execute: configuration, package discovery,  *)
(* the test run, parsing, coverage, the three reports, the exit code and   *)
(* the summary, with every early return, on the files an earlier           *)
(* invocation has left behind.                                             *)
(*                                                                         *)
(* What `go test` does is chosen per package: an outcome, whose events are *)
(* folded by the operators of Aggregates, and statement counts, judged by  *)
(* those of Gates and rendered by those of Report.  A file is the          *)
(* invocation that wrote it and what it says; a torn file is one whose     *)
(* write failed half-way.                                                  *)
(***************************************************************************)
EXTENDS Report

CONSTANTS
  Configs,             \* configurations an invocation may be given
  Requests,            \* sets of report files the flags may name
  Module,              \* the module path of all packages
  MaxFailures, MaxPackages,
  Outcomes,            \* what may happen to a listed package, a subset of Outcome
  Counts,              \* statement counts a package may have, [covered, total]
  Plain, BuildFailed   \* texts of events

Outcome == {"pass", "fail", "crash", "early", "broken", "none", "chatty",
            "cut", "cutlate", "unstarted"}
File    == {"json", "markdown", "svg", "summary"}
Reports == <<"json", "markdown", "svg">>

ASSUME PipelineAssumption ==
  /\ \A c \in Configs : /\ {c.CoverageThreshold, c.PackageThreshold} \subseteq Int \cup {NaN}
                       /\ c.Packages \subseteq Pkg /\ c.CoverPkg \subseteq Pkg
  /\ Requests \subseteq SUBSET File
  /\ Module \in Seq(Nat) \ {<<>>}
  /\ MaxFailures \in Int /\ MaxPackages \in Int
  /\ Outcomes \subseteq Outcome /\ Top # {}
  /\ Counts \subseteq [covered : Nat, total : Nat]
  /\ Plain \in Output /\ BuildFailed \in Output
  /\ "build failed" \in BuildFailed.marks

VARIABLES
  pc,         \* the next step of the invocation, "exited" when it is over
  cfg,        \* config.Config, as far as it decides anything
  enabled,    \* which report files the flags name
  included,   \* import paths `go list` returned, less the excluded ones
  outcome,    \* Pkg -> Outcome, "unstarted" before the run and if not listed
  goTestCode, \* exit code of go test
  parseRes,   \* ParseResult
  profile,    \* "absent" | "malformed" | "good" | "stale"
  covRes,     \* coverage.Result
  leftover,   \* coverage.out an earlier invocation left in a raw directory
              \* that is kept, as a coverage.Result
  tempDir,    \* a temporary raw output directory exists
  written,    \* how many of Reports this invocation is through with
  files,      \* File -> [by, whole, says]
  exit        \* exit code, -1 while the invocation runs

vars == <<pc, cfg, enabled, included, outcome, goTestCode, parseRes,
          profile, covRes, leftover, tempDir, written, files, exit>>

NoAggregates == [p \in {} |-> newPkgAgg]
NoParse      == ParseResult(NoAggregates, FALSE)
NoCounts     == [p \in {} |-> [covered |-> 0, total |-> 0]]
NoCoverage   == Result(NoCounts)
NoFile       == [by |-> "nobody", whole |-> TRUE, says |-> <<>>]

(* What an earlier invocation leaves: reports and, in a raw directory that is
   kept, a profile that covers everything. *)
EarlierFile     == [NoFile EXCEPT !.by = "earlier"]
EarlierCoverage == Result([p \in Pkg |-> [covered |-> 2, total |-> 2]])

Init ==
  /\ pc = "config" /\ included = {} /\ outcome = [p \in Pkg |-> "unstarted"]
  /\ goTestCode = 0 /\ parseRes = NoParse /\ profile = "absent"
  /\ covRes = NoCoverage /\ tempDir = FALSE /\ written = 0 /\ exit = -1
  /\ cfg \in Configs /\ enabled \in Requests
  /\ files \in {[f \in File |-> NoFile], [f \in File |-> EarlierFile]}
  /\ leftover \in {NoCoverage, EarlierCoverage}

-----------------------------------------------------------------------------
(* The events of a package of each outcome.  One that passes may still print
   the text of a failed build before its first test; an interrupted one may
   have a test that passed, or no event yet. *)

Ev(a, p, n, o) == [Action |-> a, Package |-> p, Test |-> n, Output |-> o]

Script(p, what) ==
  LET t == <<CHOOSE t \in Top : TRUE>>
      start == Ev("start", p, <<>>, Plain)
      run   == Ev("run", p, t, Plain)
      pass  == Ev("pass", p, t, Plain)
      fail  == Ev("fail", p, t, Plain)
      lost  == Ev("fail", p, <<>>, Plain)
      says  == Ev("output", p, <<>>, BuildFailed)
      done  == Ev("pass", p, <<>>, Plain)
  IN  CASE what = "pass"      -> <<start, run, pass, done>>
        [] what = "fail"      -> <<start, run, fail, lost>>
        [] what = "crash"     -> <<start, run, lost>>    \* os.Exit, -timeout, panic elsewhere
        [] what = "early"     -> <<start, lost>>         \* TestMain or init ends the binary
        [] what = "broken"    -> <<start, says, lost>>
        [] what = "chatty"    -> <<start, says, run, pass, done>>  \* TestMain or init speaks of it
        [] what = "cut"       -> <<start, run>>          \* go test was interrupted
        [] what = "cutlate"   -> <<start, run, pass>>    \* also, or the binary's end is missing
        [] what = "none"      -> <<start, Ev("skip", p, <<>>, Plain)>>
        [] what = "unstarted" -> <<>>

AggregatesOf(oc) ==
  [p \in {q \in Pkg : oc[q] # "unstarted"} |->
     FoldLeft(applyEvent, newPkgAgg, Script(p, oc[p]))]

-----------------------------------------------------------------------------
(* The steps of an invocation. *)

Return(code) ==
  /\ exit' = code
  /\ pc' = "exited"
  /\ tempDir' = FALSE    \* defer cleanup()

runVars    == <<included, outcome, goTestCode, parseRes, profile, covRes, leftover>>
reportVars == <<written, files>>
inputVars  == <<cfg, enabled>>

(* A flag or the test arguments do not parse, or Validate refuses. *)
ConfigFails ==
  /\ pc = "config"
  /\ Return(ExitConfigError)
  /\ UNCHANGED <<runVars, reportVars, inputVars>>

ConfigOK ==
  /\ pc = "config"
  /\ Validate(cfg)
  /\ pc' = "list"
  /\ UNCHANGED <<runVars, reportVars, inputVars, tempDir, exit>>

filterPackages(pkgs) == {p \in pkgs : ~matchesAny(p, compiledExclude(cfg))}

List ==
  /\ pc = "list"
  /\ included' = filterPackages(cfg.Packages)
  /\ pc' = "rawdir"
  /\ UNCHANGED <<outcome, goTestCode, parseRes, profile, covRes, leftover,
                 reportVars, inputVars, tempDir, exit>>

(* Without a listed package the module is not known. *)
deriveModulePath == IF included = {} THEN <<>> ELSE Module

(* Neither go list, the temporary directory nor go test itself could be had:
   the three errors before parsing have the same effect. *)
ToolchainFails ==
  /\ pc \in {"list", "rawdir", "run"}
  /\ Return(ExitToolchainError)
  /\ UNCHANGED <<runVars, reportVars, inputVars>>

RawDir ==
  /\ pc = "rawdir"
  /\ tempDir' \in BOOLEAN    \* RawOutputDir may be given
  /\ pc' = "run"
  /\ UNCHANGED <<runVars, reportVars, inputVars, exit>>

(* A test binary that does not reach its end leaves no coverage.  Each of the
   others measures its own package or, with -coverpkg, those that names, listed
   or not. *)
Measured(oc) ==
  LET ended == {p \in Pkg : oc[p] \in {"pass", "fail", "none", "chatty"}}
  IN  IF cfg.CoverPkg = {} THEN ended
      ELSE IF ended = {} THEN {} ELSE cfg.CoverPkg

(* Run removes no profile from a raw directory that is kept, and takes the one
   it finds there when go test writes none. *)
FoundProfile ==
  IF ~tempDir /\ leftover # NoCoverage
  THEN profile' = "stale" /\ covRes' = leftover
  ELSE UNCHANGED <<profile, covRes>>

(* go test runs the patterns of the configuration: excluded packages too.  It
   writes its profile elsewhere if the test arguments, which come behind
   -coverprofile, say so. *)
Run ==
  /\ pc = "run"
  /\ \E oc \in [cfg.Packages -> Outcomes] :
       /\ outcome' = [p \in Pkg |-> IF p \in cfg.Packages THEN oc[p] ELSE "unstarted"]
       /\ goTestCode' =
            IF \E p \in cfg.Packages : oc[p] \in {"cut", "cutlate", "unstarted"} THEN -1
            ELSE IF \A p \in cfg.Packages : oc[p] \in {"pass", "none", "chatty"} THEN 0 ELSE 1
  /\ parseRes' = ParseResult(AggregatesOf(outcome'), FALSE)
  /\ \/ /\ profile' = "good"
        /\ \E cov \in [Measured(outcome') -> Counts] : covRes' = Result(cov)
     \/ profile' = "malformed" /\ UNCHANGED covRes
     \/ FoundProfile
  /\ pc' = "parse"
  /\ UNCHANGED <<included, leftover, reportVars, inputVars, tempDir, exit>>

(* go test refuses its arguments: no event and no new profile. *)
RunRefused ==
  /\ pc = "run"
  /\ goTestCode' = 2
  /\ FoundProfile
  /\ pc' = "parse"
  /\ UNCHANGED <<included, outcome, parseRes, leftover, reportVars, inputVars,
                 tempDir, exit>>

ParseFileFails ==
  /\ pc = "parse"
  /\ Return(ExitToolchainError)
  /\ UNCHANGED <<runVars, reportVars, inputVars>>

ParseFile ==
  /\ pc = "parse"
  /\ pc' = "coverage"
  /\ UNCHANGED <<runVars, reportVars, inputVars, tempDir, exit>>

ParseCoverage ==
  /\ pc = "coverage"
  /\ IF profile = "malformed"
     THEN Return(ExitToolchainError)
     ELSE pc' = "write" /\ UNCHANGED <<tempDir, exit>>
  /\ UNCHANGED <<runVars, reportVars, inputVars>>

-----------------------------------------------------------------------------
(* report.Build and writeReports. *)

Rep == Build(parseRes, covRes, cfg.CoverageThreshold, deriveModulePath)

(* Mutants: the gates before the tests; exclusions forgotten. *)
decideExitCodeGatesFirst ==
  LET gate == Gate(covRes, cfg.CoverageThreshold, cfg.PackageThreshold,
                   {p \in DOMAIN covRes.Packages : p \notin included})
  IN  IF gate # ExitSuccess THEN gate
      ELSE IF parseRes.CompileFailed \/ parseRes.Tests.Failed > 0 THEN ExitTestFailure
      ELSE ExitSuccess

decideExitCodeOfAll ==
  IF parseRes.CompileFailed \/ parseRes.Tests.Failed > 0 THEN ExitTestFailure
  ELSE Gate(covRes, cfg.CoverageThreshold, cfg.PackageThreshold, {})

decideExitCode ==
  IF parseRes.CompileFailed \/ parseRes.Tests.Failed > 0 THEN ExitTestFailure
  ELSE Gate(covRes, cfg.CoverageThreshold, cfg.PackageThreshold,
            {p \in DOMAIN covRes.Packages : p \notin included})

(* Mutant: the summary has the exit code of go test. *)
saysOfGoTest(f) ==
  CASE f = "json"     -> Rep
    [] f = "markdown" -> Markdown(Rep, MaxFailures, MaxPackages)
    [] f = "svg"      -> SVG(Rep.Total > 0, Rep.Coverage)
    [] f = "summary"  -> Summary(Rep, goTestCode)

says(f) ==
  CASE f = "json"     -> Rep
    [] f = "markdown" -> Markdown(Rep, MaxFailures, MaxPackages)
    [] f = "svg"      -> SVG(Rep.Total > 0, Rep.Coverage)
    [] f = "summary"  -> Summary(Rep, decideExitCode)

Content(f, whole) == [by |-> "now", whole |-> whole, says |-> says(f)]

(* The report has no JSON form; no file has been touched. *)
RenderFails ==
  /\ pc = "write" /\ written = 0
  /\ JSONFails(Rep)
  /\ Return(ExitToolchainError)
  /\ UNCHANGED <<runVars, reportVars, inputVars>>

CanWrite == pc = "write" /\ written < Len(Reports) /\ ~JSONFails(Rep)

(* The next of the three files; one whose path is empty is skipped. *)
WriteReport ==
  /\ CanWrite
  /\ LET f == Reports[written + 1]
     IN  files' = IF f \in enabled THEN [files EXCEPT ![f] = Content(f, TRUE)] ELSE files
  /\ written' = written + 1
  /\ UNCHANGED <<runVars, inputVars, tempDir, exit, pc>>

(* Its directory cannot be made. *)
WriteReportPathFails ==
  /\ CanWrite /\ Reports[written + 1] \in enabled
  /\ Return(ExitConfigError)
  /\ UNCHANGED <<runVars, reportVars, inputVars>>

(* Mutant: a report that cannot be written is passed over. *)
WriteReportFailsQuietly ==
  /\ CanWrite /\ Reports[written + 1] \in enabled
  /\ \/ UNCHANGED files
     \/ files' = [files EXCEPT ![Reports[written + 1]] = Content(Reports[written + 1], FALSE)]
  /\ written' = written + 1
  /\ UNCHANGED <<runVars, inputVars, tempDir, exit, pc>>

(* os.WriteFile fails before or after truncating the file. *)
WriteReportFails ==
  /\ CanWrite /\ Reports[written + 1] \in enabled
  /\ \/ UNCHANGED files
     \/ files' = [files EXCEPT ![Reports[written + 1]] = Content(Reports[written + 1], FALSE)]
  /\ Return(ExitToolchainError)
  /\ UNCHANGED <<runVars, written, inputVars>>

-----------------------------------------------------------------------------
(* The exit code and the summary. *)

(* An empty SummaryOutput sends the summary to stdout. *)
WriteSummary ==
  /\ pc = "write" /\ written = Len(Reports)
  /\ files' = IF "summary" \in enabled THEN [files EXCEPT !["summary"] = Content("summary", TRUE)]
              ELSE files
  /\ Return(decideExitCode)
  /\ UNCHANGED <<runVars, written, inputVars>>

WriteSummaryFails ==
  /\ pc = "write" /\ written = Len(Reports) /\ "summary" \in enabled
  /\ \/ UNCHANGED files
     \/ files' = [files EXCEPT !["summary"] = Content("summary", FALSE)]
  /\ Return(ExitToolchainError)
  /\ UNCHANGED <<runVars, written, inputVars>>

Next ==
  \/ ConfigFails \/ ConfigOK
  \/ List \/ ToolchainFails \/ RawDir
  \/ Run \/ RunRefused
  \/ ParseFileFails \/ ParseFile \/ ParseCoverage
  \/ RenderFails
  \/ WriteReport \/ WriteReportPathFails \/ WriteReportFails
  \/ WriteSummary \/ WriteSummaryFails

Spec == Init /\ [][Next]_vars

-----------------------------------------------------------------------------
(* Properties. *)

Verdict == {ExitSuccess, ExitTestFailure, ExitTotalCoverage, ExitPackageCoverage}

Failing(p) == outcome[p] \in {"fail", "crash", "early", "broken"}

Mine(f) == files[f].by = "now"

(* A verdict on the tests is returned only when every requested report and
   the summary are whole, of this invocation and of one content.  The reports
   are written in one order: whenever the invocation ends, those it replaced
   are a prefix of the list, only the last of them can be torn, and then the
   exit code is that of an internal error.  The summary comes behind all of
   them, and they are whole then. *)
WrittenIsPrefix ==
  /\ exit \in Verdict => \A f \in enabled : files[f] = Content(f, TRUE)
  /\ \A i, j \in DOMAIN Reports :
       i < j /\ Mine(Reports[j]) /\ Reports[i] \in enabled =>
         Mine(Reports[i]) /\ files[Reports[i]].whole
  /\ Mine("summary") =>
       \A i \in DOMAIN Reports :
         Reports[i] \in enabled => Mine(Reports[i]) /\ files[Reports[i]].whole
  /\ (\E f \in File : Mine(f) /\ ~files[f].whole) => exit = ExitToolchainError
  /\ \A f \in File : Mine(f) => f \in enabled

(* With a verdict, the tests are what it blames exactly when a test failed, a
   package did not build or died before its first test, or the text of a
   failed build came before one: no success and no coverage verdict hides
   that.  When go test itself succeeded, only such a text can be the reason. *)
FailureVerdictExact ==
  /\ exit \in Verdict =>
       (exit = ExitTestFailure <=>
          \E p \in Pkg : outcome[p] \in {"fail", "early", "broken", "chatty"})
  /\ exit = ExitTestFailure /\ goTestCode = 0 => \E p \in Pkg : outcome[p] = "chatty"

Excluded == {p \in Pkg : \E re \in cfg.Exclude : ~re.empty /\ p \in re.matches}

Below(n, threshold) == n.total > 0 /\ Less(Hundred * n.covered, threshold * n.total)

(* Coverage decides only what the tests left open, the total before the
   packages.  Every measured package counts for the total, also one the
   configuration excludes or does not list; the package threshold is that of
   the listed packages no expression excludes, and of no other: a package that
   only -coverpkg names is below it without consequence.  A total threshold
   that is no number passes no run: there is no JSON for it. *)
CoverageVerdictExact ==
  LET whole  == [covered |-> covRes.CoveredStatements, total |-> covRes.TotalStatements]
      low    == \/ Below(whole, cfg.CoverageThreshold)
                \/ whole.total = 0 /\ Less(0, cfg.CoverageThreshold)
      lowPkg == \E p \in (DOMAIN covRes.Packages \cap cfg.Packages) \ Excluded :
                  cfg.PackageThreshold # NaN /\ Below(covRes.Packages[p], cfg.PackageThreshold)
  IN  /\ exit = ExitTotalCoverage => low
      /\ exit = ExitPackageCoverage => ~low /\ lowPkg
      /\ exit = ExitSuccess => ~low /\ ~lowPkg
      /\ exit \in Verdict => cfg.CoverageThreshold # NaN

(* The packages the reports are about: those of which go test wrote an event,
   and those of the profile. *)
Reported == {p \in Pkg : outcome[p] # "unstarted"} \cup DOMAIN covRes.Packages

(* The JSON report lists every package that started or was measured once, in
   the order of the names, and names every test that failed and no other.  It
   calls a package failed exactly when go test did or the text of a failed
   build came before its first test, and passed when a test of it ended and
   nothing failed, even if its own end is missing. *)
ReportMatchesRun ==
  Mine("json") =>
    LET rep  == files["json"].says
        name == [p \in Pkg |-> RelName(deriveModulePath, Path[p])]
        rows == ToSet(rep.Packages)
    IN  /\ \A p \in Reported : \E row \in rows :
             /\ row.Name = name[p]
             /\ row.Status = "fail" <=> Failing(p) \/ outcome[p] = "chatty"
             /\ row.Status = "pass" <=> outcome[p] \in {"pass", "cutlate"}
        /\ \A row \in rows : \E p \in Reported : row.Name = name[p]
        /\ \A i, j \in DOMAIN rep.Packages :
             i < j => StringLess(rep.Packages[i].Name, rep.Packages[j].Name)
        /\ {f.Package : f \in ToSet(rep.Failures)} = {name[p] : p \in {q \in Pkg : outcome[q] = "fail"}}
        /\ Len(rep.Failures) = rep.Tests.Failed

(* The Markdown report leaves nothing out silently: what it shows and what its
   notes say is missing are all packages and all failures, and it shows as
   many as its limits allow. *)
MarkdownAccountsForAll ==
  Mine("markdown") =>
    LET md == files["markdown"].says
        complete(part, all, n) ==
          /\ Len(part.shown) + part.omitted = all
          /\ Len(part.shown) >= n \/ part.omitted = 0
    IN  /\ complete(md.Packages, Cardinality(Reported), MaxPackages)
        /\ complete(md.Failures, Cardinality({p \in Pkg : outcome[p] = "fail"}), MaxFailures)

(* A badge shows a coverage of h hundredths: the colour of the highest bucket
   that h reaches and a text within half a tenth of h. *)
BadgeOf(badge, h) ==
  /\ badge.color \in Colors /\ 100 * badge.color <= h
  /\ \A d \in Colors : 100 * d <= h => d <= badge.color
  /\ badge.value # {} /\ \A t \in badge.value : 10 * t - h \in -5..5

(* The files of one invocation tell one story.  A whole summary states the exit
   code the invocation returns; its headline is "failed" exactly when a test
   failed, which then is the verdict, and "passed" next to that verdict only
   when a package did not build, died before its first test or spoke of a
   failed build.  The summary has the counts of the JSON report, and the badge
   its coverage, or none when nothing was measured. *)
SummaryTellsVerdict ==
  /\ Mine("summary") /\ files["summary"].whole =>
       LET sum == files["summary"].says
       IN  /\ sum.ExitCode = exit
           /\ sum.Status = "failed" <=> \E p \in Pkg : outcome[p] = "fail"
           /\ sum.Status = "failed" => exit = ExitTestFailure
           /\ sum.Status = "passed" /\ exit = ExitTestFailure =>
                \E p \in Pkg : outcome[p] \in {"early", "broken", "chatty"}
           /\ Mine("json") => sum.Tests = files["json"].says.Tests
  /\ Mine("svg") /\ Mine("json") =>
       LET rep   == files["json"].says
           badge == files["svg"].says
       IN  IF rep.Total = 0 THEN badge = unknown ELSE BadgeOf(badge, rep.Coverage)

(* Exit code 0: the tests passed. *)
SuccessMeansPassed == exit = ExitSuccess => goTestCode = 0

(* Excluded packages appear neither in the reports nor in the verdict: none is
   listed, and a test failure is one of an included package. *)
ExcludedAbsent ==
  /\ Mine("json") =>
       \A p \in Excluded, row \in ToSet(files["json"].says.Packages) :
         row.Name # RelName(deriveModulePath, Path[p])
  /\ exit = ExitTestFailure => \E p \in Pkg \ Excluded : Failing(p)
=============================================================================
