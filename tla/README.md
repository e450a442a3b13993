# Verification of go-test-report-action

TLA+ models of `gtr` (the command that runs `go test`, parses its events and the
coverage profile, writes reports and decides an exit code) and of the composite
GitHub action around it, model-checked with TLC; theorems about them, proved with
TLAPS.

Line numbers are those of the source files named with them. "gtr" is
`cmd/gtr`; "the action" is `action.yml` and its scripts.

## 1. The system

    workflow job
      action.yml: validate-inputs.sh -> install-*.sh -> run-report.sh -> job summary
                                          |               -> commit-report.sh -> enforce-result.sh
                                          v
      gtr (cmd/gtr/main.go): config -> gotest.List -> gotest.Run -> gotest.ParseFile
                             -> coverage.ParseProfile -> report.Build -> writeReports
                             -> decideExitCode -> summary
                                          |
                              go test -json (a process with two pipes)

| Component | State it keeps | Operations | Correct when |
|---|---|---|---|
| runner, `internal/gotest/runner.go` | the child, two pipes, `test.jsonl`, a log shared by two goroutines under `syncWriter.mu`, the channel `stderrDone` | `Run`, `streamEvents`, `writeLine`, the stderr goroutine | nothing is lost, doubled or torn; it returns; the exit code is the child's; nothing goes on after it has returned |
| event parser, `internal/gotest/parser.go` | an aggregate per package: the maps `tests`, `skipped`, `seen`, the list `failOrder` and its guard `failRecorded`, bounded failure output, `pkgFailed`, `pkgCompile`, `sawAnyTest` | `Parse`, `applyPackageEvent`, `applyTestEvent`, `finalizePackage` | a failure is listed once whatever the order of events, packages do not leak into each other, output is exact up to the bound, totals add up |
| coverage, `internal/coverage/coverage.go` | counts per package | `fromProfiles`, `Gate`, `belowThreshold` | counts add up over files; gates are exact at the threshold and monotone |
| gtr, `cmd/gtr/main.go` | the files of an invocation, a temporary directory | `runCmd`, `execute`, `writeReports`, `decideExitCode` | a verdict comes with whole reports and agrees with the run |
| action and scripts | `gtr.exit` and `gtr-summary.md` in `RUNNER_TEMP`, working tree, index, local and remote branch, step outputs | one step each | the job fails exactly when this use of the action says so; commits are justified, whole and pushed |
| report builder, `internal/report/build.go` | none | `Build`, `RelName`, `round2` | every package once, in the order of the names, whether it had events, coverage or both |
| renderers, `json.go`, `markdown.go`, `svg.go`, `summary.go` | none | `JSON`, `Markdown`, `SVG`, `Summary` | the four agree with each other and with the verdict; what is cut off is accounted for |
| configuration and package discovery, `internal/config`, `gotest/list.go` | none | `Validate`, `List`, `filterPackages` | what is refused never runs; a package is judged exactly when nothing excludes it |
| tokenizer, `gotest/tokenize.go` | the current word and the open quote | `Tokenize` | what is quoted is read back, an open quote is refused |
| path guard, `internal/pathguard` with `cmd/gtr/validate.go` | the resolved root | `New`, `Resolve` | what it accepts lies in the workspace through whatever links |
| installation, `install-release.sh`, `install-source.sh` | what has been downloaded | resolve, download, verify, fall back | what is installed is one build of the version asked for |
| release workflow, `release.yml`, `build-release.sh` | tags, releases, assets, a queue of runs, the moving major tag | a run's steps | the assets of a version are one build of its tag; the major tag points at what can be installed |
| report workflow, `go-quality-reports.yml` | the default branch, artifacts, a queue per source | gate, reports, write-back | a report is committed on the tree it is about; nothing pushed is lost |
| patch coverage, CI, smoke test | none that lasts | | |

The parts interact in three ways. Goroutines of `Run` share the log and are joined
by a channel and by `cmd.Wait`; the child meets them through pipes of bounded
capacity. Inside `gtr` one stage calls the next and an error ends the
invocation early, with some files written. Between the steps of the action
everything goes through files, which survive from one use of the action to the
next in the same job, and through a branch that others push to. The workflows meet
each other and the clients in what GitHub keeps: tags, releases, assets, branches and
the queues of runs.

What is hard, and hard to test:

- **interleaving**: child, scanner, stderr goroutine, context watcher; packages
  that `go test` runs in parallel; other pushers;
- **blocking**: a full pipe nobody drains;
- **ordering**: a parent test that ends before or after its subtests, repeats
  under `-count`, a verdict on coverage against one on tests;
- **partial failure**: reports replaced one after the other, a torn file, a
  failed write of the log, a failed push whose answer is lost;
- **stale state**: reports, `gtr.exit`, `gtr-summary.md` and `coverage.out` of
  an earlier invocation;
- **boundaries**: the bound of failure output, thresholds met exactly, packages
  without statements, NaN, the scanner's longest line, the caps of the Markdown
  report, numbers rounded twice;
- **releases**: two events that fire for one tag, a newer run that cancels a waiting
  one, assets deleted and uploaded one by one while a client downloads them, a head
  that moves between a comparison and a push.

`PROJECT.json` lists each of these at its line with the properties aimed at it.

## 2. Modules

| Module | Models | Kind |
|---|---|---|
| `Aggregates` | the pure part of `parser.go`: an aggregate and what each event does to it | operators |
| `Parser` | `Parse`: the scan loop, its end, a scanner error | state machine |
| `TestTally` | what the parser promises: a verdict per test that only moves forward | abstract specification |
| `ParserStream` | `Parser` on every short stream, with definitions that look at the whole stream | composition |
| `GoTest` | the `go test -json` process (external) | state machine |
| `TestRun` | `GoTest` feeding `Parser` | composition |
| `FoldLemmas` | induction over sets; what folds, sums, sorting and functions that call themselves last make of data | proofs |
| `AggregateProofs` | theorems about `Aggregates`: one event, and the result of all packages | proofs |
| `Runner` | `Run`, `streamEvents`, `syncWriter`, the stderr goroutine, against child, pipes and context | state machine |
| `GoTestProofs` | theorems about `Parser`, `ParserStream`, `TestRun` and `Runner` | proofs |
| `Gates` | `addBlock`, `Result`, `Gate`, the exit codes | operators |
| `Display` | rounding and the badge: `round2`, `formatPct`, `coverageColor`, `SVG` | operators |
| `Coverage` | `fromProfiles` block by block, judged by `Gates`, shown by `Display` | state machine |
| `CoverageProofs` | theorems about `Coverage` | proofs |
| `Config` | `Validate`, the exclude expressions | operators |
| `Report` | `Build` and the four renderings | operators |
| `Pipeline` | `runCmd` and `execute` with `Aggregates`, `Gates`, `Config` and `Report` | composition |
| `Invocation` | what an invocation of gtr promises about its files to the job | contract |
| `PipelineProofs` | theorems about `Pipeline`, that it keeps `Invocation` among them | proofs |
| `ActionJob` | the steps of the action, several uses in one job, git; relies on `Invocation` | state machine |
| `ActionProofs` | theorems about `ActionJob` | proofs |
| `PathGuard` | `New`, `Resolve` on a file system with links | operators |
| `Tokenizer` | `Tokenize`, a rune or two a step | state machine |
| `Inputs` | one path validated or one text split | composition |
| `InputsProofs` | theorems about `Inputs` | proofs |
| `Release` | `release.yml`, its queue, the installing client | state machine |
| `Writeback` | `go-quality-reports.yml`, its queue, others who push | state machine |
| `Delivery` | `Release` and `Writeback` with what they promise | composition |
| `DeliveryProofs` | theorems about `Delivery` | proofs |
| `MCReaders` | `ParserStream` and `Coverage`: what `go test` leaves is read twice | composition |
| `MCParserStream`, `MCTestRun`, `MCPipeline`, `MCCoverage`, `MCInputs`, `MCDelivery` | finite instances | model checking |

`Runner` and `ActionJob` take plain values for their constants and are checked directly.

### The parser (`Aggregates`, `Parser`, `ParserStream`, `TestRun`)

An event is `[Action, Package, Test, Output]`; a test name is a tuple `<<top>>` or
`<<top, sub>>`, so `topLevel` takes its first part as the code cuts at the first
slash. A text is a sequence of bytes, and the marks (`"panic:"`, `"build failed"`,
...) the code searches it for; `appendBounded` cuts at the exact byte and
`TrimRight` strips newlines, because `OutputExact` is about them. `applyEvent` is one
operator, and `onRun`, `onPass`, `onFail`, `onSkip`, `captureOutput`,
`applyPackageEvent` are the branches under it.

`Scan(ev)` is one iteration of the loop in `Parse`, a line without a package
being dropped before it counts for anything, `Finish` the end of the file with
`finalizePackage` for every package in order, `ScanError` the error return without
a result. Lines that are no JSON never reach the aggregates and are left out.

`sort.Strings` is a sequence chosen among the increasing ones of the same elements, which
is what it promises; the same goes for `sort.Slice` in `Report`, where rows with equal
keys are left in an order of the choice.

`GoTest` keeps what happened as history: which tests failed, how each first ended, and
the packages for which a failed build was announced before any of their tests had started
(`announced`). What a package or a test prints is any text, so that a package which is
built may print the words of a failed build (`GoPackagePrints`).

`TestRun` runs the parser in step with the process. The program reads the file
afterwards; as the parser is deterministic and the file keeps the order of the
stream (`JsonlPrefix`, below), the result is the same.

`TestTally` says, for each test of each package, *none*, *passed*, *skipped* or
*failed*: the first pass or skip of a test decides it, and a failure overrides both
and is final. `Parser` maps to it by `Verdicts`.

### The runner (`Runner`)

The model begins where `Run` has started the child and the stderr goroutine. The child
decides on a write, blocks until the pipe has room, and exits or is killed. `streamEvents`
is the program counter `mainPc`: `scan`, `persist`, `log`, then `stderrDone`, `wait`,
`returned` of `Run`. The stderr goroutine is `errPc`. A `Write` through `syncWriter` is
lock, two pieces, unlock, so that an interleaving could show a torn one. Faults are actions:
an overlong line, a failed `writeLine`, which leaves nothing or a torn line (`PersistTorn`;
a whole one without its newline counts as torn), a failed write to the log, which ends the
stream when it is event text and is dropped when it is a line that is no event. `Wait`
follows `os/exec`: the state of the process comes first, the error of the context only if
the process had exited with 0.

### Coverage and what is shown of it (`Gates`, `Display`, `Coverage`)

`Coverage` reads profiles block by block, in any order of files, and keeps the blocks as
history, against which the counts are judged. Percentages and thresholds are integers. A
threshold may be any decimal (`config.go:113` takes any float64 from 0 to 100): `Fine` is
the number of parts a hundredth of a percent is cut into, so that 33.333 is 33333 where
`Fine` is 10. The reports print it with two decimals (`formatThreshold`), and it is this
number `DisplayAgrees` compares with the coverage that is shown. The code multiplies float64
values: with up to seven decimals and a million statements the error of the product is below
the smallest difference two sides can have, so it shows only when they are equal, and then
only if the product is rounded up. The constant `RoundsUp` names those products; it is empty
where no product of the instance is a tie, and never holds one of a whole percent
(`GatesAssumption`): such a threshold and its product are exact. `NaN` is a constant that no
comparison (`Less`) ever holds of. A tie of `FormatFloat` goes either way, as it does with
the binary fraction next to it, so that the value on a badge is a set of one or two numbers.

### gtr (`Config`, `Report`, `Pipeline`)

`Pipeline` has one action per stage and one per error return. What `go test` does is chosen
per package: it passes, fails, dies while a test runs (`crash`), dies before its first test
(`early`), does not build (`broken`), has no tests (`none`), passes after its `TestMain` or
an `init` spoke of a failed build (`chatty`), or the run is interrupted before it started
(`unstarted`), during its test (`cut`) or behind it (`cutlate`); each is a script of events
folded by the operators of `Aggregates`, and the verdict comes from `Gates`. The
configuration is chosen from those of the instance: an exclude expression is what matters of
it, whether it is empty, compiles, and what it matches. With `-coverpkg` a package is
measured whether it is listed or not (`Measured`). An invocation may find the reports of an
earlier one, and its `coverage.out` when the raw directory is kept: whenever `go test`
writes no profile there, as when it refuses its arguments or when the test arguments, which
stand behind `-coverprofile` (`runner.go:56`), name another file, `FoundProfile` takes that
one (profile *stale*), next to a `go test` that succeeded as well. A write of a report may
fail before the file is touched or after it was truncated.

`Report` builds the report and renders it. A rendering is the record of the facts it
states: totals, status, coverage, the rows and failures below the caps and the notes
about the rest, the value and colour of the badge, the exit code in the summary.
Layout and escaping are left out. `RenderFails` is the error of a rendering: JSON has
no NaN. Import paths are sequences of bytes, because `RelName` cuts prefixes.

### The action (`ActionJob`)

One action per step of `action.yml`, and per early return of the scripts, with the
errexit that is really in force: `run-report.sh` starts without it and switches it
on at line 72. gtr itself is one step, which does what `Invocation` promises: with a
verdict all reports and a summary, with an error the first few reports, the last
perhaps torn, and a summary, perhaps torn too, only behind three whole ones.
`PromiseIsKept` proves that `Pipeline` keeps it. A step that fails leaves its name in `failedAt`:
*save*, when the exit code cannot be written, *extract*, when a command behind gtr fails
under errexit, *commit* and *enforce*. *extract* is what `jq` does with a torn report; with
`ExtractFaults` it is also what may happen next to a whole one: without `jq`, `grep` may die
of SIGPIPE at `head -n1` (`run-report.sh:93`, pipefail at line 8), and the outputs may not be
written, so that only the first of them are there (`outputLines`, cut behind the status or
behind the numbers). The branch on the
server takes a push only when it is a fast-forward. The uses of one job share their
output paths, the worst case; distinct paths only remove interference.

### Inputs (`PathGuard`, `Tokenizer`, `Inputs`)

A file system maps paths to directories, files and links; a walk through it (`Walks`, with
`LeadsOn`, `Follow` and `End`) is the kernel's and external, and so are `EvalSymlinks`,
`Target`, `Lstat` and `Clean`, which stand on it. The walk is a function that calls itself
last, so that it can be proved about. `Target` is where a write ends: the walk through the
file system in which what is missing has been made (`Made`), as `os.MkdirAll` does it.
`Resolve` is the guard: it cleans the path, goes up to the deepest ancestor that exists,
resolves that and compares with the root. What it returns is only printed
(`validate.go:46`); the steps that write are handed the input as it was given (`Given`;
`run-report.sh:24-27`, `main.go:318`), and it is that path the properties are about.
`Tokenizer` has one action per state of the loop (in single quotes, in double quotes, in
none), each taking the one or two runes the code takes; the double quote is called
`"dquote"`. The two are processes that share nothing, so a behaviour of `Inputs` is one path
validated or one text split.

What quoting means is said without the loop: `Quotes(s, list)` holds when the text can be
cut at spaces into parts, each of which spells its word bare, in single or in double
quotes, a rune as it is or behind a backslash where the grammar has one. A text of the
instance comes with the lists it was made from (`meant`), and `InputsAssumption` has TLC check
that it quotes each of them. `WellFormed` says from the text alone which texts leave no
quote open.

### Delivery (`Release`, `Writeback`, `Delivery`)

A run of the release workflow is a record with its event, ref, commit and version. The group
of the concurrency queue is the ref; the first run of a group that has not ended is running
and a newer one cancels those that wait. `gh release create` makes a draft with its assets
and publishes it; `--clobber` deletes an asset and uploads another, so that a client may
find one, the other or none. The archive and the checksums stand for all assets and are
named by the run that built them. GitHub's events, the `[skip ci]` marker, the queue and
`gh` are external and modelled as the workflow uses them; any step may fail. The checkout of
a run has one local ref of the name it was started from, a tag or a branch, and `git tag -f
v1 v1.2.3` finds no other (`OfName`). A client resolves a version, downloads the two assets
one after the other, compares them, and builds from source when anything is amiss.

`Writeback` numbers the commits of the default branch; a report commit remembers the
source it is about. The gate of a release or a dispatch may rely on a tag run of the
same source whose artifact is there (it may have expired). The write-backs of one
source take turns. The two workflows share no state, so a behaviour of `Delivery`
follows one of them (`followed`): the release workflow alone, with a client, or the
report workflow.

## 3. Runs

Twelve runs; the five marked *violation* show where the code does not do what one of
its own comments or documents says.

| Run | Asks | Instance |
|---|---|---|
| `readers` | does the parser keep its books on any stream at all, well formed or not? are counts right, gates monotone, and what is shown in line with them? | every sequence of up to 4 of 15 events: two packages, a test with a subtest, another test, texts that cross the output bound, a line that names no package; end of file or scanner error anywhere. And every profile of up to 4 blocks over three packages, one excluded, blocks of 0, 1 and 2 statements, thresholds 66.667 and 33.333. 274 thousand states |
| `test_run` | does the result say what the process did? | two packages side by side, a test with a subtest in each, repeated once, printing, a text of a failed build too, ending in any order; the stream may stop anywhere. 1.3 million states |
| `compile_flag` (violation) | does the compile flag mean that a package did not build? | the same |
| `runner` | is anything lost, torn, doubled or late, and does `Run` return? | 3 lines of four kinds, overlong ones among them, 2 chunks of stderr, pipes of capacity 1, two exit codes, failing writes to file and log, cancellation at any moment |
| `runner_stuck` (violation) | does it return the result when the stream broke off? | an overlong line, then two more |
| `gate_rounding` (violation) | does coverage that meets a threshold exactly pass it? | 1308 and 692 statements, threshold 65.4 |
| `pipeline_verdict` | do exit code and the four reports agree with what happened and with each other? | two listed packages of one test, ten outcomes each, one of them excluded, and a third that only `-coverpkg` measures; three statement counts each, twelve configurations (all excluded, NaN thresholds, a threshold met exactly, each rule of `Validate` broken), every subset of outputs, reports and a profile of an earlier invocation or none, caps of one row and one failure, every early return. 2.3 million states |
| `pipeline_crash` (violation) | does exit code 0 mean that the tests passed? | outcomes *pass* and *crash* |
| `pipeline_excluded` (violation) | are excluded packages absent? | outcomes *pass* and *fail* |
| `action_uses` | does the job's verdict, and what is published and committed, belong to this use? | two uses, four triggering events, all commit inputs, two reports, exit codes 0, 10 and 21, an exit code that cannot be saved, a report that cannot be read, outputs that cannot be written, one push of others. 2.2 million states |
| `inputs` | does the guard keep to the workspace, and is what is quoted read back? | every path of up to three elements, `.` and `..` among them, given from the workspace or from the root, on every tree of up to four entries, with links and without, next to a second directory and one more that is a link to the workspace or is not; every text of up to four runes, every quoting of up to two arguments of up to two runes |
| `delivery` | do releases, installations and write-backs hold together when their runs overlap? | three runs of the release workflow, two while a client installs; three runs of the report workflow and three commits; a stable version and a candidate, a marked commit, a branch named as the version; any run may fail anywhere |

### What they show

**Parser.** `FailureBookkeeping`: list, guard set and map of failures agree. `OutputExact`:
the output of a failure is the beginning of what that test and its subtests printed, cut at
the exact byte. `CompileAndPanicExact` defines from the stream alone when `CompileFailed`
and `Panicked` are set. `ImplementsTally`: refinement of `TestTally`. Against the process:
`FailuresExact`, `TotalsExact` (a test run twice is counted once, failed if it ever failed),
`StatusExact`, the statuses of all packages and the compile flag: a text of a failed build
counts where it comes before the first test of its package and nowhere else, and a package
that lost its end has the status its tests had so far. `CompileFlagHonest`, what the comment
at `parser.go:24` says of the flag, is violated.

**Runner.** `JsonlPrefix`: `test.jsonl` is at every moment a prefix of the non-empty
lines the child wrote, at most its last line torn, and then `Run` returns an error.
`ReturnsEverything`: with no error nothing is missing from the file or the log, each
stream in its own order. `LogNotTorn`: no Write is split by the other goroutine.
`ExitCodeExact`: however the end of the child and a cancellation interleave.
`SilentAfterReturn`: no late write. `Terminates`: `Run` returns unless a goroutine has
given up on its pipe; `CancelUnblocks`: and even then, once its context is cancelled.

**Coverage.** `CountsExact`: counts add up over files in any order. `GateMonotone`: no step
of a profile moves the gate the wrong way. `DisplayAgrees`: coverage shown below the
threshold that is shown fails the gate, and what fails is never shown above it, for
thresholds between two hundredths too. `BadgeHonest`: the colour and the twice rounded value
flatter the coverage by rounding only.

**gtr.** `FailureVerdictExact`: a failed test, a build failure, a binary that dies before
its first test and a text of a failed build before it end in the verdict on the tests,
nothing else does, and only such a text can do so when `go test` succeeded.
`CoverageVerdictExact`: coverage decides only what is left; every measured package counts
for the total, and the listed packages that nothing excludes, and no others, for the package
threshold. `ReportMatchesRun`: every package once, in order, called failed exactly when `go
test` called it so or such a text came first, and every failed test.
`MarkdownAccountsForAll`: rows and failures beyond the caps are in the notes.
`SummaryTellsVerdict`: the summary has the exit code and the counts of the JSON report, its
headline is "passed" next to a failure of the tests only where a package did not get to its
tests or printed such a text, and the badge has the colour and the value of the coverage in
the JSON report. `WrittenIsPrefix`: which files can be trusted after which exit code, and
that a summary stands behind whole reports only.

**Action.** `JobVerdictExact`: never the exit code of an earlier use, and which step may
fail next to which exit code. `CommittedReportsAgree`: the reports in the commit of a run
that came to a verdict are whole and of this run. `CommittedMeansPushed`: the output names a
commit only when the server has it, behind everything others pushed. `StaleMeansError`:
numbers and summaries of an earlier use are published only with the status *error*, wherever
the writing of the outputs ended. `CommitJustified`: who may commit what.

**Inputs.** `AcceptedLandsInside`: writing to an accepted path as it was given, through
whatever links and with missing directories created, changes nothing outside, as long as no
`..` meets a link. `ExistingPathsExact`: of what exists the guard accepts exactly what lies
inside, with the same proviso. `TokenizeExact`: refused exactly
when a quote is open, and every quoting of a list is read back as that list.

**Delivery.** `AssetsOfOneBuild`, `InstalledIsOneBuild`: assets of two builds are never
mixed, on the server once nobody uploads, and on a client whatever overlaps.
`ClobberedByTagOnly`: a dispatch from another ref never replaces published assets.
`MajorFollowsRelease`: the major tag moves only to the commit of a run that has published
all assets of a stable version, which is the commit of its tag or of a branch named like it.
`ReleaseGetsAssets`: a published release gets its assets, at a `[skip ci]` commit too.
`ReportOfParent`: a report commit sits on the tree it is about.

### Findings

1. **A stream that breaks off can block `Run` for ever** (`runner_stuck`). After a
   line above the scanner's 8 MiB, or a failed write, nobody reads stdout; a child that
   goes on writing blocks, its stderr stays open and `<-stderrDone` never returns.
   `CancelUnblocks` shows that cancelling the context is the way out.
2. **Coverage that meets a threshold exactly may fail it** (`gate_rounding`).
3. **Exit code 0 although tests did not pass** (`pipeline_crash`): `os.Exit` in a
   test, a timeout, an interrupt, refused test arguments. No test is reported as
   failed, and `decideExitCode` looks at nothing else.
4. **Excluded packages are in the reports and in the test verdict**
   (`pipeline_excluded`): `go test` runs `cfg.Packages`; the exclusions reach only
   the per-package gate.
5. **A package that builds and passes can be a compile failure** (`compile_flag`). The text
   "build failed" in any output of a package before its first test sets the flag
   (`parser.go:159`), against the comment at line 24; `gtr` then exits with 10 while
   `go test` exits with 0 (`FailureVerdictExact` says that this is the only way), and the
   summary says "passed" next to it (`SummaryTellsVerdict`).

Met while modelling, without a run of their own; the properties named with them say exactly
what may happen.

- The step that runs gtr may fail next to any exit code, against the comment at
  `run-report.sh:120`: `jq` refuses a torn report under the errexit of line 72, without `jq`
  `grep` may die of SIGPIPE at `head`, and `gtr.exit` or the outputs may not be written
  (`JobVerdictExact`; `StaleMeansError` says what has been published by then).
- With `packages=./a` and `cover_pkg=./...` the packages that are measured and not listed
  are left out of the package gate without any exclude expression (`main.go:271-281`;
  `CoverageVerdictExact`, "of the listed packages").
- A profile left in a raw directory is judged as if it were this run's (`runner.go:153`).
- A package that does not build or dies before its first test is a verdict on the tests next
  to a summary that says "passed" (`summary.go:27`; `SummaryTellsVerdict`).
- A path with `..` behind a link is checked as one place and written as another: the guard
  cleans it first, what it returns is only printed (`validate.go:46`), and
  `run-report.sh:24-27` passes the input on as it was given, so that the file may be another
  than the one `pathguard.go:5-6` speaks of (`CleanMeansTheSame`, that no `..` meets a link,
  is the proviso of both properties).
- A dispatch from a branch named as a version that is not released yet creates the release
  and moves the major tag to the branch's commit (`release.yml:183`; the last disjunct of
  `MajorFollowsRelease`); from any other branch it creates the release and then fails at
  that step. A release marked as a prerelease at a tag of stable form is built by the push of
  its tag, which moves the major tag all the same, against the comment at lines 43-46. The
  major tag may move backwards, to whichever stable version was built last.
- A child killed by the cancelled context is an exit code -1 without an error
  (`ExitCodeExact`; `runner.go:159`, against the comment at line 162).
- The commit step looks at the whole index, so a file another step staged is committed with
  no report changed (`commit-report.sh:99` against line 8; `action_uses` has such files).
- A NaN total threshold passes `Validate`, has no JSON and ends in an error of the rendering;
  a NaN package threshold switches its gate off (`config.go:113`).
- A package outside the module, measured through `-coverpkg`, whose import path equals the
  relative name of one inside would share its row (`build.go:102-109`; no instance has one,
  `ReportIsOfTheRun` needs `NamesDistinct`, and `OnlyForeignNamesClash` proves that names
  clash in no other way).
- A summary whose write fails is torn in `gtr-summary.md`, and the job summary gets it all
  the same, with the status *error* (`main.go:255`, `action.yml:197`; `ActionJob` has that).
- A dispatch of another version on the ref of a release may cancel its waiting run;
  `Hindered` leaves that case out of `ReleaseGetsAssets`.

### Bounds, and why they are enough

- Output bound of 4 bytes with texts of 3 and 1 bytes: below, across and at the
  bound. In the code the bound is 4096 bytes; nothing depends on its size, and
  `OutputStaysBounded` is proved for any.
- Four events: a pass, a skip, a failure and a repeat of one test, or two outputs
  across the bound with one of another test between them and a failure.
- Two packages show what one could do to the other; packages share only the map.
- Pipes of capacity 1 block earliest; three lines are one being handled, one in the
  pipe and one the child is blocked on. The theorems hold for any.
- Four kinds of lines: text of a test, a line that is no event, an empty and an overlong
  one. An event without text is left out of the instance: it is persisted by the same
  step and skips the log.
- Three packages and four blocks: a package whose blocks are interrupted by those of
  another, and an excluded one. Thresholds with three decimals: two of three statements are
  shown as 66.67, as is the threshold 66.667, and yet are below it; one of three is shown as
  33.33, as is 33.333, and passes it.
- One test and one statement count per package in `pipeline_verdict`: how a package comes
  to its result is the business of `readers` and `test_run`; caps of one are
  crossed by two packages and two failures.
- Two uses of the action: the properties relate a use to the remains of the one
  before it, and a use leaves nothing behind but the files in the state.
- Paths of three elements cross a link, a missing element and a `..` after either; four
  entries hold a chain of links and a cycle, followed up to `MaxLinks`, 4; the theorems
  hold for any file system, path, text and `MaxLinks`. Four runes are
  an opening quote, an escape, a rune and whatever follows.
- Three runs of the release workflow are one that runs, one that waits and one that
  cancels it; two builds are enough to mix on a client. Three runs of the report
  workflow are a tag's, one that relies on it and one beside them; three commits are a
  source, its report and a push by others.
- `MaxStream`, `MaxOut`, `MaxErr`, `MaxBlocks`, `MaxUses`, `MaxPushes`, `MaxRuns` (of
  `TestRun` and of `Release`), `MaxRunsInstall`, `MaxCommits` and `MaxReports` are the only
  bounds that cut a behaviour short, each in a guard.

`CHECK_DEADLOCK FALSE` is set everywhere: all these programs end. That they do not end
too early is what `Terminates` and `CancelUnblocks` say.

### Fairness

`runner`, `runner_stuck` and `delivery` use it. In `Runner` it is weak fairness of four
parts: the child (it goes on whenever its write finds room, and `-timeout` ends a test that
does not), the watcher of the context (a goroutine of `os/exec`), the goroutine of `Run`,
and the stderr goroutine. None is fairness of a single step: each part is assumed to take
*some* step when it can, which is what the Go scheduler and the kernel give. A cancellation
is never assumed. Only the child holds the pipes: `go test` captures the output of the test
binaries it starts.

In `Delivery` it is weak fairness of `Step(i)`: GitHub goes on with a run it has
started and starts one it has queued. Events, other pushers and clients owe nothing, and
a run may still fail at any step, which `Hindered` names.

## 4. Proofs

For all values of the constants: any packages, tests, texts, streams, profiles,
configurations and bounds. The assumptions are about the types of the constants and are
evaluated by the runs.

| Assumption | Says |
|---|---|
| `ParserAssumption` | finite sets of packages and tests, a natural bound, texts that are sequences, a package name that stands for none |
| `StreamAssumption`, `TestRunAssumption` | the events of a stream are events; the line of a failed build says "build failed", and everything else that is printed is any text |
| `RunnerAssumption` | types, pipes of capacity at least 1 |
| `GatesAssumption`, `CoverageAssumption` | thresholds are decimals, cut as finely as one likes; NaN is no number; a product that is rounded up is that of a threshold with a fraction of a percent |
| `PipelineAssumption`, `ReportAssumption` | types, at least one test, import paths that are not empty and that are numbered in their order; positive default caps |
| `ActionJobAssumption` | types; any exit codes, those of a gtr that was killed too, and any of the faults or none |
| `PathGuardAssumption` | `.` and `..` are no names of entries; a natural bound on the links followed |
| `InputsAssumption` | file systems and paths are such, what exists lies in a directory, no input is the empty path (`validate-inputs.sh` leaves those out), and a text that comes with lists of arguments quotes each of them |
| `StableAssumption`, `NoneAssumption`, `TipAssumption` | versions, commits and branches as their names say |

Two theorems carry a hypothesis in their statement, because what they say is false
without it. `ThresholdsExact` (`CoverageVerdictIsExact`): no product of a threshold of
a configuration is rounded up. With it false the code misjudges coverage that meets the
threshold, which is finding 2. `WholePercents` shows that thresholds of whole percents
satisfy it, whatever is in `RoundsUp`. `NamesDistinct` (`ReportIsOfTheRun`): no two
packages have the same relative name; two that have it share a row (`build.go:109`).

| Theorem | Says | Argument |
|---|---|---|
| `ParserTypeCorrect` | `ParserTypeOK` | inductive; one lemma per branch of `applyEvent` |
| `FailuresBookkept` | `FailureBookkeeping` | `Bookkept` of one aggregate is kept by every event (`ApplyBookkept`) and holds of a new one; inductive with `ParserTypeOK` |
| `OutputStaysBounded` | `OutputBounded` | from `AppendBoundedType` |
| `CompileVerdictIsFrozen` | `CompileVerdictFrozen` | action property, from `ApplyCompile` |
| `ParserImplementsTally` | refinement of `TestTally` | the initial states agree, and an iteration of the loop changes the verdict of at most one test, forward (`TallyScan`) |
| `CountsPartition` | the buckets of `countTests` are disjoint and complete | cardinalities of disjoint sets |
| `ParseResultIs` | the totals, failures, packages and flags of `ParseResult`, for any aggregates in order | a fold of `finalizePackage` over the packages: what the result accounts for grows by one package (`FinalizeTests`, `FinalizeFailures`, `FinalizePackages`) |
| `CompileAndPanicAreExact` | `CompileAndPanicExact` | inductive with `BitsExact`: the flags of an aggregate are functions of the stream so far |
| `OutputIsExact` | `OutputExact` | inductive with `TextsExact`: the text kept of a test is the beginning (`Beginning`) of what it has `Said`, and keeping it piece by piece is keeping the whole (`KeptOfMore`) |
| `FailuresAreExact`, `TotalsAreExact`, `StatusIsExact` | the same of `TestRun` | inductive invariant `RunInv`: each package's aggregate `Matches` its process, one lemma per step of the process; then `ParseResultIs` |
| `RunnerTypeCorrect` | `TypeOK` | inductive with `Bounds`: the child decides on a write only below its bounds, and a line in progress has been read |
| `MutexIsHeld` | `MutexHeld` | inductive by itself |
| `LogIsNotTorn` | `LogNotTorn` | needs `HalfWritten`: while one piece of a Write is out, it is the last entry of the log and its line or chunk does not move on |
| `JsonlIsPrefix` | `JsonlPrefix` | inductive `OutInv` (the pipe holds the lines from `taken` on) and `FileInv` (the file holds the lines before it, in their order, or misses the last, or has it torn) |
| `EverythingIsReturned` | `ReturnsEverything` | with `MainLogInv` and `ErrLogInv`: what each goroutine has logged is what it has taken, until one of its writes fails |
| `ExitCodeIsExact` | `ExitCodeExact` | inductive with `Joined`: past `<-stderrDone` the goroutine is gone; past `Wait` the child cannot change |
| `SilenceAfterReturn` | `SilentAfterReturn` | action property, from `Joined` and `MutexHeld` |
| `CountsAreExact` | `CountsExact` | inductive `CountsInv`: totals and the counts of every package are sums over the blocks so far; a block adds to one term of each sum (`SumOfUpdated`) |
| `GatesAreMonotone` | `GateMonotone` | action property: k statements more, all covered or none, and the product on either side (`MoreCovered`, `MoreUncovered`) |
| `DisplayIsHonest`, `BadgeIsHonest` | `DisplayAgrees`, `BadgeHonest` | the quotient as the two inequalities it stands for; the shown value is the nearest hundredth (`PercentageIsNearest`), the badge the nearest tenth of that (`BadgeText`) |
| `FilesCanBeTrusted` | `WrittenIsPrefix` | inductive with `Progress`: before the first write no file is of this invocation, and while it writes exactly the first `written` requested ones are, whole (`FirstWritten`) |
| `PromiseIsKept` | the contract `Invocation` on which `ActionJob` relies, for any files before | from `WrittenIsPrefix`, `Told` and the type of `files`; an invocation given all four paths, as `run-report.sh` gives them |
| `FailureVerdictIsExact` | `FailureVerdictExact` | `Facts` (what was found is the outcome of the packages, or nothing) and `Told` (an exit code that is a verdict is the one the findings call for) are inductive with `Progress`; then `ParseResultIs` of the scripts of the packages |
| `CoverageVerdictIsExact` | `CoverageVerdictExact`, under `ThresholdsExact` | the same invariant; `GateIs` says which packages the gate fails |
| `SummaryIsTheVerdict` | `SummaryTellsVerdict` | `Told`: a whole summary comes with the exit code it names |
| `ReportIsOfTheRun` | `ReportMatchesRun`, under `NamesDistinct` | the rows are those of the packages tested and measured (`RowsOfReport`), sorted by a strict total order on strings (`StringTransitive`, `StringTotal`, `RowsSorted`) |
| `OnlyForeignNamesClash` | `NamesDistinct` holds unless a package from outside the module has the path that a package inside has below the module's | a prefix and the rest make up the path (`PrefixAndRest`), so that of two packages inside the rests differ |
| `MarkdownLeavesNothingOut` | `MarkdownAccountsForAll` | rows and failures of the report, cut at the cap and counted in the note (`CappedIs`) |
| `VerdictIsExact`, `CommittedReports`, `CommittedIsPushed`, `StaleIsError` | `JobVerdictExact`, `CommittedReportsAgree`, `CommittedMeansPushed`, `StaleMeansError` | one inductive invariant of `ActionJob`: `Control` (what each step may rely on), `Fresh` (from a verdict on, reports and summary are of this use), `Published`, `History` (a use makes one commit, the last when it is pushed) |
| `CommitsAreJustified` | `CommitJustified` | action property, from the guards of the commit step and `Control` |
| `AssetsAreOfOneBuild` | `AssetsOfOneBuild` | inductive with `Good`: only the run that holds its group is past its first step (`RunOK`), so nobody else uploads to the version, and what it has uploaded stays |
| `WhatIsInstalled` | `InstalledIsOneBuild` | `Good` with `AssetOK` (where an asset comes from) and `ClientOK` (what a client holds stays a build of its version while runs go on) |
| `OnlyTagsClobber`, `MajorFollows` | `ClobberedByTagOnly`, `MajorFollowsRelease` | action properties, from `Good` |
| `ReportsOfTheirParent` | `ReportOfParent` | inductive with `PushesOnSource`: a run about to push has found the branch at its source |
| `PushesLoseNothing` | `NothingLost`: the branch only moves to a commit on top of its head | action property |
| `AcceptedLands` | `AcceptedLandsInside` | `PathsInv` (what was resolved is `Resolve` of the path and a root of names) is inductive. A walk of `p \o q` is the walk of `p` and then of `q` from where that one ended (by induction over the walk), and what has been found stays where it is when the missing is made (`MadeFinds`). Below the deepest ancestor that exists everything is made and holds no link (`MissingBelow`, `StraightOn`), so a write ends at or below where `Resolve` says; that the path is not cleaned first makes no difference as long as no `..` meets a link |
| `ExistingPaths` | `ExistingPathsExact` | of a path that exists the deepest ancestor is the path itself; cleaning it element by element (`Cleaning`) keeps where the walk leads as long as no `..` meets a link |
| `TokenizeIsExact` | `TokenizeExact` | `TokensInv`, inductive: `QuoteInv` (an open quote has begun at a rune of its kind that nothing closed since) decides which texts are refused; `Reading` (the arguments so far are the first words, and the word at hand is read up to a rune of its spelling) says what is read back |
| `SkippedAreCovered` | `SkippedMeansCovered`: tests are skipped only when a tag run of the same source succeeded | inductive by itself: a run that is done stays done |

`OutputBounded`, `CompileVerdictFrozen`, `MutexHeld`, `NothingLost`,
`SkippedMeansCovered`, `CountsPartition`, `ParseResultIs`, `PromiseKept` and what
`OnlyForeignNamesClash` says are proved only; all other properties above are checked too.

**Folds and sums.** The sums over blocks, the result built package by package, the text
a test has said and the sorted rows are all defined by folds or by a choice among
sequences. The induction theorems of the library take a predicate as a parameter, which
the provers cannot instantiate. `FoldLemmas` puts a *set* in its place: a set of natural
numbers that has 0 and, with n, n + 1, is `Nat` (`NatSet`, from well-foundedness of <);
a set of subsets of a finite set that has the empty one and grows by an element
has them all (`FiniteSubsets`). With that, the recursive function under a fold exists
and is known by its equation (`FoldExists`, `FoldLeftFolded`), a sum changes by
what one term changes (`SumOfUpdated`), and a finite set with a strict order can
be listed in it (`ArrangementExists`), so that a sort chosen with CHOOSE is sorted. These
are facts about each fold in this project; what a RECURSIVE operator computes stays out.

`TailRecursion` does the same for a function that calls itself last, as the walk through a file
system does: it exists and satisfies its equation. That a walk ends is an induction of its
own, over the links left to follow and the length of what is left of the path.

Only model-checked: liveness (`Terminates`, `CancelUnblocks`, `ReleaseGetsAssets`), which is
out of TLAPS's reach. Every safety invariant and action property of the runs that pass is
proved; the five violated ones have their counterexamples.

## 5. Not modelled

Layout and escaping of the renderers (`escapeMarkdownCell`, `sanitizeCodeBlock`,
`EscapeWorkflowData`, the geometry of the badge): text of one value, with no state and
nothing a later step decides by. `check-patch-coverage.sh` is a gate of this repository's
own CI, one awk pass over a diff and a profile with no state that outlives it. `ci.yml` and
`action-smoke.yml` are lists of independent jobs that share nothing and write nothing
back. SBOM, signatures and the archives of the platforms are part of one step of
`Release` that touches nothing shared. The set-up errors of `Run` before the child starts
are one step of `Pipeline`, `ToolchainFails`, as all of them return the same code and
leave the same state.

## 6. Plan

In the order of importance; all but the last two are done.

1. Parser, with its abstract specification, and its proofs.
2. Runner, with its proofs.
3. Gates, coverage and the pipeline.
4. The action in a job.
5. Report building and rendering, package discovery, `Tokenize`, `Validate`.
6. The path guard over small trees with symbolic links.
7. Releases, installation and the write-back of reports, with their proofs; the proofs of
   `ActionJob` and of `WrittenIsPrefix`.
8. The proofs of what `ParserStream`, `TestRun`, `Coverage`, `Runner` and `Pipeline` say of
   their data.
9. The contract between `Pipeline` and the step of `ActionJob` that runs gtr (`Invocation`).
10. The link resolution and the quoting of `Inputs` as functions, and the proofs of its
    properties.
11. Packages of other modules measured through `-coverpkg`, whose names may collide, in an
    instance of `Pipeline`.
12. A `Pipeline` that is killed at any step. `ActionJob` allows for it (`Codes` may hold any
    exit code, and one that is no verdict comes with whatever an error may leave), but
    `PromiseIsKept` is about invocations that return.
