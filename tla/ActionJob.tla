------------------------------ MODULE ActionJob ------------------------------
(***************************************************************************)
(* The composite action of action.yml and its scripts: validate, install,  *)
(* run gtr and keep its exit code, publish outputs and summary, commit and *)
(* push the reports, fail the job.  A job may use the action several times *)
(* in one working tree, with the files of earlier uses left behind, while  *)
(* others push to the branch.                                              *)
(*                                                                         *)
(* gtr does to the files what module Invocation promises of it, which      *)
(* Pipeline is proved to keep.                                             *)
(***************************************************************************)
EXTENDS Invocation, FiniteSets, SequencesExt

CONSTANTS
  Event,          \* events that may trigger the workflow
  Data,           \* what the reports of a run may show
  Codes,          \* exit codes of gtr, see internal/config/exitcode.go, or of
                  \* whatever has killed it
  Prestaged,      \* whether other steps of the job may have staged a file
  SaveFaults,     \* whether gtr.exit may fail to be written
  ExtractFaults,  \* whether reading a whole report or writing the outputs may
                  \* fail: grep dies of SIGPIPE at head, GITHUB_OUTPUT is full
  MaxUses,        \* bound on the uses of the action in the job
  MaxPushes       \* bound on the pushes of others

Path == Stable \cup {"other"}

Absent == [data |-> 0, whole |-> TRUE]
NoCode == -1
NoOutputs == [status |-> "none", exit_code |-> NoCode, tests |-> 0]

ASSUME ActionJobAssumption ==
  /\ Event \subseteq {"push", "push_branch", "workflow_dispatch", "pull_request", "schedule"}
  /\ Data \subseteq Nat \ {0}
  /\ Codes \subseteq Nat
  /\ {Prestaged, SaveFaults, ExtractFaults} \subseteq BOOLEAN
  /\ MaxUses \in Nat /\ MaxPushes \in Nat

VARIABLES
  pc,          \* the step of the current use, "over" after the last
  use,         \* number of this use of the action in the job
  event,       \* what triggered the workflow
  inputs,      \* inputs.commit, inputs.commit_on_failure, inputs.version
  code,        \* history: how gtr exited in this use, NoCode before
  shows,       \* history: what the run of this use has to show
  worktree,    \* Path -> contents of the file
  index,       \* Path -> contents staged
  exitFile,    \* gtr.exit, NoCode if it does not exist
  summaryFile, \* the use that wrote gtr-summary.md, perhaps torn, 0 if it does
               \* not exist
  jobSummary,  \* the summaries appended to that of the job, by use
  local,       \* commits of the checked-out branch: [by, code, tree]
  remote,      \* commits of the branch on the server
  outputs,     \* of the step that runs gtr
  committed,   \* output of the step that commits: the commit, 0 for "false"
  failedAt     \* where the job failed, "none" if it did not: "save" and
               \* "extract" are in the step that runs gtr

vars == <<pc, use, event, inputs, code, shows, worktree, index, exitFile, summaryFile,
          jobSummary, local, remote, outputs, committed, failedAt>>

Inputs == [commit : BOOLEAN, commit_on_failure : BOOLEAN, version : {"latest", "source"}]

(* The tree of a checkout: no report yet, or those of an earlier job. *)
CheckoutTree(d) ==
  [f \in Path |-> IF f \in Stable /\ d # 0 THEN [data |-> d, whole |-> TRUE] ELSE Absent]

Init ==
  /\ pc = "validate" /\ use = 1
  /\ event \in Event /\ inputs \in Inputs
  /\ code = NoCode /\ shows = 0
  /\ \E d \in Data \cup {0} :
       /\ worktree = CheckoutTree(d)
       /\ local = <<[by |-> 0, code |-> 0, tree |-> CheckoutTree(d)]>>
  /\ remote = local
  /\ \/ index = worktree
     \/ Prestaged /\ index = [worktree EXCEPT !["other"] = [data |-> 1, whole |-> TRUE]]
  /\ exitFile = NoCode /\ summaryFile = 0 /\ jobSummary = <<>>
  /\ outputs = NoOutputs /\ committed = 0 /\ failedAt = "none"

-----------------------------------------------------------------------------
gitVars == <<index, local, remote, committed>>
runVars == <<code, shows, worktree, exitFile, summaryFile, outputs>>
useVars == <<use, event, inputs>>

(* A step fails: the steps after it do not run. *)
FailStep(step) ==
  /\ failedAt' = step
  /\ pc' = "over"

Goto(step) == pc' = step /\ UNCHANGED failedAt

-----------------------------------------------------------------------------
(* validate-inputs.sh and the installation of gtr. *)

Validate ==
  /\ pc = "validate"
  /\ Goto("install") \/ FailStep("validate")
  /\ UNCHANGED <<useVars, runVars, gitVars, jobSummary>>

(* A release that cannot be had, or whose checksum is wrong, is replaced by
   a build from source. *)
InstallRelease ==
  /\ pc = "install" /\ inputs.version # "source"
  /\ Goto("run") \/ Goto("build")
  /\ UNCHANGED <<useVars, runVars, gitVars, jobSummary>>

InstallSource ==
  /\ pc = "build" \/ (pc = "install" /\ inputs.version = "source")
  /\ Goto("run") \/ FailStep("install")
  /\ UNCHANGED <<useVars, runVars, gitVars, jobSummary>>

-----------------------------------------------------------------------------
(* run-report.sh. *)

RunGtr ==
  /\ pc = "run"
  /\ \E c \in Codes, d \in Data, n \in 0..3, torn, summarised \in BOOLEAN :
       /\ Promised(c, n, torn, summarised)
       /\ code' = c /\ shows' = d
       /\ worktree' = Written(worktree, n, torn, d)
       /\ summaryFile' = IF summarised THEN use ELSE summaryFile
  /\ Goto("save")
  /\ UNCHANGED <<useVars, exitFile, outputs, gitVars, jobSummary>>

(* Mutant: an exit code that is there already is kept. *)
SaveExitCodeOnce ==
  /\ pc = "save"
  /\ exitFile' = IF exitFile = NoCode THEN code ELSE exitFile
  /\ Goto("extract")
  /\ UNCHANGED <<useVars, code, shows, worktree, summaryFile, outputs, gitVars, jobSummary>>

SaveExitCode ==
  /\ pc = "save"
  /\ \/ exitFile' = code /\ Goto("extract")
     \/ SaveFaults /\ UNCHANGED exitFile /\ FailStep("save")
  /\ UNCHANGED <<useVars, code, shows, worktree, summaryFile, outputs, gitVars, jobSummary>>

(* Mutant: passed unless the code is known to mean something else. *)
statusOptimistic(c) ==
  CASE c = 10        -> "test_failed"
    [] c \in {11, 12} -> "coverage_failed"
    [] OTHER         -> "passed"

status(c) ==
  CASE c = 0         -> "passed"
    [] c = 10        -> "test_failed"
    [] c \in {11, 12} -> "coverage_failed"
    [] OTHER         -> "error"

(* The lines of the outputs in their order: a write that fails leaves the first
   ones. *)
outputLines ==
  << [NoOutputs EXCEPT !.status = status(code)],
     [NoOutputs EXCEPT !.status = status(code), !.tests = worktree["json"].data],
     [status |-> status(code), exit_code |-> code, tests |-> worktree["json"].data] >>

(* The numbers are taken from whatever JSON report is there.  jq refuses a
   torn one, and so may grep; without jq a whole one may end grep, too.
   errexit and pipefail are in force by then. *)
Extract ==
  /\ pc = "extract"
  /\ \/ outputs' = outputLines[3] /\ Goto("summary")
     \/ /\ ~worktree["json"].whole \/ ExtractFaults
        /\ UNCHANGED outputs
        /\ FailStep("extract")
     \/ /\ ExtractFaults
        /\ outputs' \in {outputLines[1], outputLines[2]}
        /\ FailStep("extract")
  /\ UNCHANGED <<useVars, code, shows, worktree, exitFile, summaryFile, gitVars, jobSummary>>

Summary ==
  /\ pc = "summary"
  /\ jobSummary' = IF summaryFile # 0 THEN Append(jobSummary, summaryFile) ELSE jobSummary
  /\ Goto("commit")
  /\ UNCHANGED <<useVars, runVars, gitVars>>

-----------------------------------------------------------------------------
(* commit-report.sh. *)

(* Mutant: the outcome is not asked for. *)
mayCommitAnyway ==
  inputs.commit /\ event \in {"push", "workflow_dispatch"}

(* "push" is a push to the default branch. *)
mayCommit ==
  /\ inputs.commit
  /\ event \in {"push", "workflow_dispatch"}
  /\ exitFile \in {NoCode, 0} \/ inputs.commit_on_failure

SkipCommit ==
  /\ pc = "commit" /\ ~mayCommit
  /\ Goto("enforce")
  /\ UNCHANGED <<useVars, runVars, gitVars, jobSummary>>

(* Mutant: the list of files holds the last of them only. *)
stagedLast == [index EXCEPT !["svg"] = worktree["svg"]]

(* git add of the three files that exist. *)
staged ==
  [f \in Path |-> IF f \in Stable /\ worktree[f] # Absent THEN worktree[f] ELSE index[f]]

Tree == Last(local).tree

NothingToCommit ==
  /\ pc = "commit" /\ mayCommit
  /\ \/ (\A f \in Stable : worktree[f] = Absent) /\ UNCHANGED index
     \/ staged = Tree /\ index' = staged
  /\ Goto("enforce")
  /\ UNCHANGED <<useVars, runVars, local, remote, committed, jobSummary>>

Commit ==
  /\ pc = "commit" /\ mayCommit
  /\ \E f \in Stable : worktree[f] # Absent
  /\ staged # Tree
  /\ index' = staged
  /\ local' = Append(local, [by |-> use, code |-> code, tree |-> staged])
  /\ Goto("push")
  /\ UNCHANGED <<useVars, runVars, remote, committed, jobSummary>>

(* git add refuses an ignored file; a hook refuses the commit. *)
CommitFails ==
  /\ pc = "commit" /\ mayCommit
  /\ \E f \in Stable : worktree[f] # Absent
  /\ index' \in {index, staged}
  /\ FailStep("commit")
  /\ UNCHANGED <<useVars, runVars, local, remote, committed, jobSummary>>

(* Mutant: a push that fails is reported like one that does not. *)
PushCarelessly ==
  /\ pc = "push"
  /\ remote' = IF IsPrefix(remote, local) THEN local ELSE remote
  /\ committed' = Len(local)
  /\ Goto("enforce")
  /\ UNCHANGED <<useVars, runVars, index, local, jobSummary>>

(* The server accepts only a fast-forward. *)
Push ==
  /\ pc = "push"
  /\ IsPrefix(remote, local)
  /\ remote' = local
  /\ committed' = Len(local)
  /\ Goto("enforce")
  /\ UNCHANGED <<useVars, runVars, index, local, jobSummary>>

(* It is refused, does not get through, or the answer is lost. *)
PushFails ==
  /\ pc = "push"
  /\ remote' \in {remote} \cup (IF IsPrefix(remote, local) THEN {local} ELSE {})
  /\ FailStep("commit")
  /\ UNCHANGED <<useVars, runVars, index, local, committed, jobSummary>>

OthersPush ==
  /\ Cardinality({i \in DOMAIN remote : remote[i].by = -1}) < MaxPushes
  /\ remote' = Append(remote, [by |-> -1, code |-> 0, tree |-> Last(remote).tree])
  /\ UNCHANGED <<pc, useVars, runVars, index, local, committed, jobSummary, failedAt>>

-----------------------------------------------------------------------------
(* enforce-result.sh, and the next use of the action in the job. *)

Enforce ==
  /\ pc = "enforce"
  /\ IF exitFile = 0 THEN Goto("over") ELSE FailStep("enforce")
  /\ UNCHANGED <<useVars, runVars, gitVars, jobSummary>>

UseAgain ==
  /\ pc = "over" /\ use < MaxUses
  /\ use' = use + 1
  /\ inputs' \in Inputs
  /\ pc' = "validate" /\ failedAt' = "none"
  /\ code' = NoCode /\ shows' = 0 /\ outputs' = NoOutputs /\ committed' = 0
  /\ UNCHANGED <<event, worktree, index, exitFile, summaryFile, jobSummary, local, remote>>

Next ==
  \/ Validate \/ InstallRelease \/ InstallSource
  \/ RunGtr \/ SaveExitCode \/ Extract \/ Summary
  \/ SkipCommit \/ NothingToCommit \/ Commit \/ CommitFails \/ Push \/ PushFails
  \/ OthersPush \/ Enforce \/ UseAgain

Spec == Init /\ [][Next]_vars

-----------------------------------------------------------------------------
(* Properties. *)

(* The use succeeds exactly when its own gtr exited with 0 and no step before
   the last failed: never on the exit code of an earlier use.  The step that
   runs gtr fails of no verdict, yet it may fail next to any: gtr.exit cannot
   be written, the report cannot be read, or the outputs cannot be written. *)
JobVerdictExact ==
  pc = "over" =>
    /\ failedAt = "none" => code = 0
    /\ code = 0 => failedAt \in {"none", "save", "extract", "commit"}
    /\ failedAt = "enforce" => code # 0
    /\ failedAt = "extract" /\ ~ExtractFaults => code \notin Verdicts /\ ~worktree["json"].whole

(* A commit is made for an eligible event only, when asked for, and of a run
   that passed unless failures may be committed too. *)
CommitJustified ==
  [][Len(local') > Len(local) =>
       /\ inputs.commit /\ event \in {"push", "workflow_dispatch"}
       /\ code = 0 \/ inputs.commit_on_failure
       /\ code # NoCode]_vars

(* The reports in the commit of a run that came to a verdict are whole, are of
   this run and are all three of it: only after an error of gtr, and if
   failures may be committed, can a commit hold torn or earlier reports. *)
CommittedReportsAgree ==
  \A c \in ToSet(local) : c.by = use /\ c.code \in Verdicts =>
    \A f \in Stable : c.tree[f] = [data |-> shows, whole |-> TRUE]

(* The output says "committed" only of a commit that has reached the server
   behind everything others have pushed. *)
CommittedMeansPushed ==
  committed # 0 =>
    /\ Len(remote) >= committed
    /\ \A i \in 1..committed : remote[i] = local[i]
    /\ local[committed].by = use

(* Numbers of an earlier run are published as outputs, and its summary once
   more, only together with the status "error", wherever the writing of the
   outputs ended. *)
StaleMeansError ==
  /\ outputs.tests \notin {0, shows} => outputs.status = "error"
  /\ outputs.status \in {"passed", "test_failed", "coverage_failed"}
       /\ pc \in {"commit", "push", "enforce"} => Last(jobSummary) = use
=============================================================================
