---------------------------- MODULE ActionProofs ----------------------------
(***************************************************************************)
(* Theorems about ActionJob, for any number of uses of the action, any     *)
(* reports, exit codes and events, and any number of pushes of others.     *)
(***************************************************************************)
EXTENDS ActionJob, SequenceTheorems, TLAPS

Early == {"validate", "install", "build", "run"}         \* before gtr has run
Late  == {"extract", "summary", "commit", "push", "enforce"}
Ran   == Late \cup {"save"}

Report == [data : Nat, whole : BOOLEAN]
Revision == [by : Int, code : Int, tree : [Path -> Report]]

JobType ==
  /\ pc \in Early \cup Ran \cup {"over"}
  /\ use \in Nat \ {0}
  /\ code \in Codes \cup {NoCode} /\ exitFile \in Codes \cup {NoCode}
  /\ shows \in Nat /\ summaryFile \in Nat /\ committed \in Nat
  /\ worktree \in [Path -> Report] /\ index \in [Path -> Report]
  /\ jobSummary \in Seq(Nat)
  /\ local \in Seq(Revision) /\ remote \in Seq(Revision)
  /\ local # <<>> /\ remote # <<>>

(* What each step of a use may rely on: a failure ends the use, the exit code
   is known once gtr has run and is in gtr.exit from the next step on. *)
Control ==
  /\ pc # "over" => failedAt = "none"
  /\ pc \in Early => code = NoCode
  /\ pc \in Early \cup {"save", "extract"} => outputs = NoOutputs
  /\ pc \in Ran => code \in Codes /\ shows \in Data
  /\ pc \in Late => exitFile = code

(* From a verdict on, reports and summary are those of this use. *)
Fresh ==
  pc \in Ran /\ code \in Verdicts =>
    /\ summaryFile = use
    /\ \A f \in Stable : worktree[f] = [data |-> shows, whole |-> TRUE]

Published == pc \in {"summary", "commit", "push", "enforce"} => outputs.status = status(code)

(* A use makes one commit at most, which is the last one when it is pushed. *)
History ==
  /\ \A i \in DOMAIN local : local[i].by <= use
  /\ pc \notin {"push", "enforce", "over"} => \A i \in DOMAIN local : local[i].by # use
  /\ pc = "push" => local[Len(local)].by = use
  /\ pc \notin {"enforce", "over"} => committed = 0

Inv ==
  /\ JobType /\ Control /\ Fresh /\ Published /\ History
  /\ JobVerdictExact /\ CommittedReportsAgree /\ CommittedMeansPushed /\ StaleMeansError

-----------------------------------------------------------------------------
(* Facts about the data. *)

(* An exit code of gtr is a code, and not the one for none. *)
LEMMA CodesTyped == /\ Codes \subseteq Int /\ NoCode \notin Codes /\ NoCode \notin Verdicts
                    /\ NoCode # 0 /\ NoCode \in Int
  BY ActionJobAssumption DEF Verdicts, NoCode

(* The three reports are among the paths. *)
LEMMA StableArePaths == Stable \subseteq Path /\ "json" \in Stable
  BY DEF Stable, Path

(* The files gtr leaves are reports. *)
LEMMA WrittenTyped ==
  ASSUME worktree \in [Path -> Report], NEW n \in 0..3, NEW torn \in BOOLEAN, NEW d \in Data
  PROVE  Written(worktree, n, torn, d) \in [Path -> Report]
  BY ActionJobAssumption DEF Written, Report

(* With a verdict all three of them are whole. *)
LEMMA AllWritten ==
  ASSUME worktree \in [Path -> Report], NEW d \in Data, NEW f \in Stable
  PROVE  Written(worktree, 3, FALSE, d)[f] = [data |-> d, whole |-> TRUE]
  <1>1. \E i \in 1..3 : Order[i] = f
    BY DEF Order, Stable
  <1> QED BY <1>1, StableArePaths DEF Written

(* A checkout holds reports. *)
LEMMA CheckoutTyped ==
  ASSUME NEW d \in Data \cup {0}
  PROVE  CheckoutTree(d) \in [Path -> Report]
  BY ActionJobAssumption DEF CheckoutTree, Report, Absent

(* What is staged are reports, those of the working tree that exist. *)
LEMMA StagedTyped ==
  ASSUME JobType
  PROVE  /\ staged \in [Path -> Report]
         /\ \A f \in Stable : worktree[f] # Absent => staged[f] = worktree[f]
  BY StableArePaths DEF JobType, staged

-----------------------------------------------------------------------------
(* Types. *)

(* A job starts well typed. *)
LEMMA InitTyped == Init => JobType
  <1> SUFFICES ASSUME Init PROVE JobType
    OBVIOUS
  <1>1. PICK d \in Data \cup {0} :
          /\ worktree = CheckoutTree(d)
          /\ local = <<[by |-> 0, code |-> 0, tree |-> CheckoutTree(d)]>>
    BY DEF Init
  <1>2. worktree \in [Path -> Report] /\ CheckoutTree(d) \in [Path -> Report]
    BY <1>1, CheckoutTyped
  <1>3. index \in [Path -> Report]
    <2>1. [data |-> 1, whole |-> TRUE] \in Report
      BY DEF Report
    <2>2. index = worktree \/ index = [worktree EXCEPT !["other"] = [data |-> 1, whole |-> TRUE]]
      BY DEF Init
    <2> QED BY <1>2, <2>1, <2>2
  <1>4. local \in Seq(Revision) /\ remote \in Seq(Revision) /\ local # <<>> /\ remote # <<>>
    BY <1>1, <1>2 DEF Init, Revision
  <1>5. jobSummary \in Seq(Nat)
    BY DEF Init
  <1> QED BY <1>2, <1>3, <1>4, <1>5 DEF Init, JobType, Early

(* No step leaves the types. *)
LEMMA TypeKept ==
  ASSUME JobType, [Next]_vars
  PROVE  JobType'
  <1> USE DEF useVars, runVars, gitVars, Goto, FailStep
  <1>1. CASE Validate \/ InstallRelease \/ InstallSource
    BY <1>1 DEF JobType, Validate, InstallRelease, InstallSource, Early, Ran, Late
  <1>2. CASE RunGtr
    <2>1. code' \in Codes /\ shows' \in Data /\ summaryFile' \in {use, summaryFile}
      BY <1>2 DEF RunGtr
    <2>2. \E n \in 0..3, torn \in BOOLEAN, d \in Data :
            worktree' = Written(worktree, n, torn, d)
      BY <1>2, Zenon DEF RunGtr
    <2>3. worktree' \in [Path -> Report]
      BY <2>2, WrittenTyped DEF JobType
    <2>4. /\ pc' = "save"
          /\ UNCHANGED <<useVars, exitFile, outputs, gitVars, jobSummary>>
      BY <1>2 DEF RunGtr
    <2> QED BY <2>1, <2>3, <2>4, ActionJobAssumption DEF JobType, Ran
  <1>3. CASE SaveExitCode
    BY <1>3 DEF JobType, SaveExitCode, Ran, Late
  <1>4. CASE Extract
    BY <1>4 DEF JobType, Extract, Ran, Late
  <1>5. CASE Summary
    <2>1. jobSummary' \in Seq(Nat)
      BY <1>5, AppendProperties DEF JobType, Summary
    <2> QED BY <1>5, <2>1 DEF JobType, Summary, Ran, Late
  <1>6. CASE SkipCommit
    BY <1>6 DEF JobType, SkipCommit, Ran, Late
  <1>7. CASE NothingToCommit
    BY <1>7, StagedTyped DEF JobType, NothingToCommit, Ran, Late
  <1>8. CASE Commit
    <2>1. [by |-> use, code |-> code, tree |-> staged] \in Revision
      BY StagedTyped, CodesTyped DEF JobType, Revision
    <2>2. local' \in Seq(Revision) /\ local' # <<>>
      <3>1. local' = Append(local, [by |-> use, code |-> code, tree |-> staged])
        BY <1>8 DEF Commit
      <3>2. local \in Seq(Revision)
        BY DEF JobType
      <3> QED BY <2>1, <3>1, <3>2, AppendProperties
    <2> QED BY <1>8, <2>2, StagedTyped DEF JobType, Commit, Ran, Late
  <1>9. CASE CommitFails
    BY <1>9, StagedTyped DEF JobType, CommitFails
  <1>10. CASE Push
    BY <1>10, LenProperties DEF JobType, Push, Ran, Late
  <1>11. CASE PushFails
    BY <1>11 DEF JobType, PushFails
  <1>12. CASE OthersPush
    <2>1. Last(remote) \in Revision
      BY LenProperties, ElementOfSeq DEF JobType, Last
    <2>2. [by |-> -1, code |-> 0, tree |-> Last(remote).tree] \in Revision
      BY <2>1 DEF Revision
    <2>3. remote' \in Seq(Revision) /\ remote' # <<>>
      <3>1. remote' = Append(remote, [by |-> -1, code |-> 0, tree |-> Last(remote).tree])
        BY <1>12 DEF OthersPush
      <3>2. remote \in Seq(Revision)
        BY DEF JobType
      <3> QED BY <2>2, <3>1, <3>2, AppendProperties
    <2> QED BY <1>12, <2>3 DEF JobType, OthersPush
  <1>13. CASE Enforce
    BY <1>13 DEF JobType, Enforce
  <1>14. CASE UseAgain
    BY <1>14 DEF JobType, UseAgain, Early
  <1>15. CASE UNCHANGED vars
    BY <1>15 DEF JobType, vars
  <1> QED BY <1>1, <1>2, <1>3, <1>4, <1>5, <1>6, <1>7, <1>8, <1>9, <1>10, <1>11, <1>12, <1>13, <1>14, <1>15 DEF Next

-----------------------------------------------------------------------------
(* Invariants of a use. *)

(* A job starts with all parts of the invariant. *)
LEMMA InitControl == Init => Control /\ Fresh /\ Published /\ History /\ JobVerdictExact
                               /\ CommittedReportsAgree /\ CommittedMeansPushed /\ StaleMeansError
  <1> SUFFICES ASSUME Init
               PROVE  /\ Control /\ Fresh /\ Published /\ History /\ JobVerdictExact
                      /\ CommittedReportsAgree /\ CommittedMeansPushed /\ StaleMeansError
    OBVIOUS
  <1>1. /\ DOMAIN local = {1} /\ local[1].by = 0 /\ use = 1 /\ pc = "validate"
        /\ committed = 0 /\ outputs = NoOutputs /\ code = NoCode /\ shows = 0 /\ failedAt = "none"
    BY DEF Init
  <1>2. Control /\ Fresh /\ Published /\ JobVerdictExact
    BY <1>1 DEF Control, Fresh, Published, JobVerdictExact, Early, Late, Ran
  <1>3. History
    BY <1>1 DEF History
  <1>4. CommittedReportsAgree
    BY <1>1 DEF CommittedReportsAgree, ToSet
  <1>5. CommittedMeansPushed /\ StaleMeansError
    BY <1>1 DEF CommittedMeansPushed, StaleMeansError, NoOutputs
  <1> QED BY <1>2, <1>3, <1>4, <1>5

(* A use goes through its steps in order, the exit code with it. *)
LEMMA ControlKept ==
  ASSUME JobType, Control, [Next]_vars
  PROVE  Control'
  <1> USE DEF useVars, runVars, gitVars, Goto, FailStep, Control, Early, Late, Ran
  <1>1. CASE Validate \/ InstallRelease \/ InstallSource
    BY <1>1 DEF Validate, InstallRelease, InstallSource
  <1>2. CASE RunGtr
    <2>1. code' \in Codes /\ shows' \in Data /\ pc' = "save" /\ UNCHANGED <<failedAt, outputs, exitFile>> /\ pc = "run"
      BY <1>2 DEF RunGtr
    <2> QED BY <2>1
  <1>3. CASE SaveExitCode \/ Extract \/ Summary
    BY <1>3 DEF SaveExitCode, Extract, Summary
  <1>4. CASE SkipCommit \/ NothingToCommit \/ Commit \/ CommitFails
    BY <1>4 DEF SkipCommit, NothingToCommit, Commit, CommitFails
  <1>5. CASE Push \/ PushFails
    BY <1>5 DEF Push, PushFails
  <1>6. CASE OthersPush
    BY <1>6 DEF OthersPush
  <1>7. CASE Enforce
    BY <1>7 DEF Enforce
  <1>8. CASE UseAgain
    BY <1>8 DEF UseAgain
  <1>9. CASE UNCHANGED vars
    BY <1>9 DEF vars
  <1> QED BY <1>1, <1>2, <1>3, <1>4, <1>5, <1>6, <1>7, <1>8, <1>9 DEF Next

(* What gtr leaves with a verdict stays until the use is over. *)
LEMMA FreshKept ==
  ASSUME JobType, Control, Fresh, [Next]_vars
  PROVE  Fresh'
  <1> USE DEF useVars, runVars, gitVars, Goto, FailStep, Fresh, Late, Ran
  <1>1. CASE Validate \/ InstallRelease \/ InstallSource
    BY <1>1 DEF Validate, InstallRelease, InstallSource
  <1>2. CASE RunGtr
    <2>1. PICK d \in Data : /\ shows' = d
                            /\ code' \in Verdicts =>
                                 worktree' = Written(worktree, 3, FALSE, d) /\ summaryFile' = use
      BY <1>2 DEF RunGtr, Promised
    <2>2. use' = use /\ worktree \in [Path -> Report]
      BY <1>2 DEF RunGtr, JobType
    <2> QED BY <2>1, <2>2, AllWritten
  <1>3. CASE SaveExitCode \/ Extract \/ Summary
    BY <1>3 DEF SaveExitCode, Extract, Summary
  <1>4. CASE SkipCommit \/ NothingToCommit \/ Commit \/ CommitFails
    BY <1>4 DEF SkipCommit, NothingToCommit, Commit, CommitFails
  <1>5. CASE Push \/ PushFails
    BY <1>5 DEF Push, PushFails
  <1>6. CASE OthersPush
    BY <1>6 DEF OthersPush
  <1>7. CASE Enforce
    BY <1>7 DEF Enforce
  <1>8. CASE UseAgain
    BY <1>8 DEF UseAgain
  <1>9. CASE UNCHANGED vars
    BY <1>9 DEF vars
  <1> QED BY <1>1, <1>2, <1>3, <1>4, <1>5, <1>6, <1>7, <1>8, <1>9 DEF Next

(* The status published is that of the exit code. *)
LEMMA PublishedKept ==
  ASSUME JobType, Control, Published, [Next]_vars
  PROVE  Published'
  <1> USE DEF useVars, runVars, gitVars, Goto, FailStep, Published
  <1>1. CASE Validate \/ InstallRelease \/ InstallSource
    BY <1>1 DEF Validate, InstallRelease, InstallSource
  <1>2. CASE RunGtr
    BY <1>2 DEF RunGtr
  <1>3. CASE SaveExitCode \/ Summary
    BY <1>3 DEF SaveExitCode, Summary
  <1>4. CASE Extract
    BY <1>4 DEF Extract, outputLines, status
  <1>5. CASE SkipCommit \/ NothingToCommit \/ Commit \/ CommitFails
    BY <1>5 DEF SkipCommit, NothingToCommit, Commit, CommitFails
  <1>6. CASE Push \/ PushFails
    BY <1>6 DEF Push, PushFails
  <1>7. CASE OthersPush
    BY <1>7 DEF OthersPush
  <1>8. CASE Enforce
    BY <1>8 DEF Enforce
  <1>9. CASE UseAgain
    BY <1>9 DEF UseAgain
  <1>10. CASE UNCHANGED vars
    BY <1>10 DEF vars
  <1> QED BY <1>1, <1>2, <1>3, <1>5, <1>6, <1>7, <1>8, <1>9, <1>10, <1>4 DEF Next

(* A use ends as its own exit code says. *)
LEMMA VerdictKept ==
  ASSUME JobType, Control, Fresh, JobVerdictExact, [Next]_vars
  PROVE  JobVerdictExact'
  <1> USE DEF useVars, runVars, gitVars, Goto, FailStep, JobVerdictExact
  <1>1. CASE Validate \/ InstallRelease \/ InstallSource
    BY <1>1 DEF Validate, InstallRelease, InstallSource, Control, Early, NoCode
  <1>2. CASE RunGtr
    BY <1>2 DEF RunGtr
  <1>3. CASE SaveExitCode \/ Summary
    BY <1>3 DEF SaveExitCode, Summary
  <1>4. CASE Extract
    <2>1. code \in Verdicts => worktree["json"].whole
      BY <1>4, StableArePaths DEF Extract, Fresh, Ran, Late
    <2>2. code = 0 => code \in Verdicts
      BY DEF Verdicts
    <2> QED BY <1>4, <2>1, <2>2 DEF Extract
  <1>5. CASE SkipCommit \/ NothingToCommit \/ Commit \/ CommitFails
    BY <1>5 DEF SkipCommit, NothingToCommit, Commit, CommitFails
  <1>6. CASE Push \/ PushFails
    BY <1>6 DEF Push, PushFails
  <1>7. CASE OthersPush
    BY <1>7 DEF OthersPush
  <1>8. CASE Enforce
    BY <1>8 DEF Enforce, Control, Late
  <1>9. CASE UseAgain
    BY <1>9 DEF UseAgain
  <1>10. CASE UNCHANGED vars
    BY <1>10 DEF vars
  <1> QED BY <1>1, <1>2, <1>3, <1>4, <1>5, <1>6, <1>7, <1>8, <1>9, <1>10 DEF Next

(* What is published without an error is of this use. *)
LEMMA StaleKept ==
  ASSUME JobType, Control, Fresh, Published, StaleMeansError, [Next]_vars
  PROVE  StaleMeansError'
  <1> USE DEF useVars, runVars, gitVars, Goto, FailStep, StaleMeansError
  <1>1. CASE Validate \/ InstallRelease \/ InstallSource
    BY <1>1 DEF Validate, InstallRelease, InstallSource
  <1>2. CASE RunGtr
    BY <1>2 DEF RunGtr, Control, Early, NoOutputs
  <1>3. CASE SaveExitCode
    BY <1>3 DEF SaveExitCode
  <1>4. CASE Extract
    <2>1. code \in Verdicts => worktree["json"].data = shows
      BY <1>4, StableArePaths DEF Extract, Fresh, Ran, Late
    <2>2. code \notin Verdicts => status(code) = "error"
      BY DEF status, Verdicts
    <2>3. pc' \notin {"commit", "push", "enforce"} /\ shows' = shows
      BY <1>4 DEF Extract
    <2>4. \/ outputs' = outputs
          \/ outputs'.tests = 0
          \/ outputs'.tests = worktree["json"].data /\ outputs'.status = status(code)
      <3>1. /\ outputLines[1].tests = 0
            /\ outputLines[2].tests = worktree["json"].data /\ outputLines[2].status = status(code)
            /\ outputLines[3].tests = worktree["json"].data /\ outputLines[3].status = status(code)
        BY DEF outputLines, NoOutputs
      <3>2. outputs' \in {outputs, outputLines[1], outputLines[2], outputLines[3]}
        BY <1>4 DEF Extract
      <3> QED BY <3>1, <3>2
    <2> QED BY <2>1, <2>2, <2>3, <2>4
  <1>5. CASE Summary
    <2>1. code \notin Verdicts => status(code) = "error"
      BY DEF status, Verdicts
    <2>2. CASE code \notin Verdicts
      BY <1>5, <2>1, <2>2 DEF Summary, Published
    <2>3. CASE code \in Verdicts
      <3>1. summaryFile = use /\ use # 0
        BY <1>5, <2>3 DEF Summary, Fresh, Ran, Late, JobType
      <3>2. jobSummary' = Append(jobSummary, use)
        BY <1>5, <3>1 DEF Summary
      <3>3. Last(jobSummary') = use
        BY <3>2, AppendProperties DEF Last, JobType
      <3> QED BY <1>5, <3>3 DEF Summary
    <2> QED BY <2>2, <2>3
  <1>6. CASE SkipCommit \/ NothingToCommit \/ Commit \/ CommitFails
    BY <1>6 DEF SkipCommit, NothingToCommit, Commit, CommitFails
  <1>7. CASE Push \/ PushFails
    BY <1>7 DEF Push, PushFails
  <1>8. CASE OthersPush
    BY <1>8 DEF OthersPush
  <1>9. CASE Enforce
    BY <1>9 DEF Enforce
  <1>10. CASE UseAgain
    BY <1>10 DEF UseAgain, NoOutputs
  <1>11. CASE UNCHANGED vars
    BY <1>11 DEF vars
  <1> QED BY <1>1, <1>2, <1>3, <1>4, <1>5, <1>6, <1>7, <1>8, <1>9, <1>10, <1>11 DEF Next

-----------------------------------------------------------------------------
(* Invariants of the branch. *)

(* A commit is added behind those that are there. *)
LEMMA CommitAppends ==
  ASSUME JobType, Commit
  PROVE  /\ Len(local) \in Nat /\ Len(local') = Len(local) + 1
         /\ \A i \in 1..Len(local) : local'[i] = local[i]
         /\ local'[Len(local')] = [by |-> use, code |-> code, tree |-> staged]
  <1>1. local \in Seq(Revision) /\ [by |-> use, code |-> code, tree |-> staged] \in Revision
    BY StagedTyped, CodesTyped DEF JobType, Revision
  <1>2. local' = Append(local, [by |-> use, code |-> code, tree |-> staged])
    BY DEF Commit
  <1> QED BY <1>1, <1>2, AppendProperties, LenProperties

(* Only a commit changes the local branch. *)
LEMMA OnlyCommits ==
  ASSUME [Next]_vars, ~Commit
  PROVE  local' = local
  <1> USE DEF useVars, runVars, gitVars
  <1>1. CASE Validate \/ InstallRelease \/ InstallSource \/ RunGtr
    BY <1>1 DEF Validate, InstallRelease, InstallSource, RunGtr
  <1>2. CASE SaveExitCode \/ Extract \/ Summary
    BY <1>2 DEF SaveExitCode, Extract, Summary
  <1>3. CASE SkipCommit \/ NothingToCommit \/ CommitFails
    BY <1>3 DEF SkipCommit, NothingToCommit, CommitFails
  <1>4. CASE Push \/ PushFails \/ OthersPush \/ Enforce \/ UseAgain
    BY <1>4 DEF Push, PushFails, OthersPush, Enforce, UseAgain
  <1>5. CASE UNCHANGED vars
    BY <1>5 DEF vars
  <1> QED BY <1>1, <1>2, <1>3, <1>4, <1>5 DEF Next

(* A use commits at most once, between its run and its push. *)
LEMMA HistoryKept ==
  ASSUME JobType, History, [Next]_vars
  PROVE  History'
  <1>1. CASE Commit
    <2>1. /\ pc = "commit" /\ pc' = "push" /\ use' = use /\ committed' = committed
          /\ Len(local) \in Nat
      BY <1>1, CommitAppends DEF Commit, Goto, useVars
    <2>2. DOMAIN local = 1..Len(local) /\ DOMAIN local' = 1..(Len(local) + 1)
      BY <1>1, CommitAppends, TypeKept DEF JobType
    <2>3. \A i \in DOMAIN local' : local'[i].by <= use
      <3> TAKE i \in DOMAIN local'
      <3>1. CASE i \in 1..Len(local)
        BY <1>1, <2>2, <3>1, CommitAppends DEF History
      <3>2. CASE i = Len(local) + 1
        BY <1>1, <3>2, CommitAppends DEF JobType
      <3> QED BY <2>1, <2>2, <3>1, <3>2
    <2>4. local'[Len(local')].by = use
      BY <1>1, CommitAppends
    <2> QED BY <2>1, <2>3, <2>4 DEF History
  <1>2. CASE ~Commit
    <2>1. local' = local
      BY <1>2, OnlyCommits
    <2> USE <2>1 DEF useVars, runVars, gitVars, Goto, FailStep, History
    <2>2. CASE Validate \/ InstallRelease \/ InstallSource \/ RunGtr
      BY <2>2 DEF Validate, InstallRelease, InstallSource, RunGtr
    <2>3. CASE SaveExitCode \/ Extract \/ Summary
      BY <2>3 DEF SaveExitCode, Extract, Summary
    <2>4. CASE SkipCommit \/ NothingToCommit \/ CommitFails
      BY <2>4 DEF SkipCommit, NothingToCommit, CommitFails
    <2>5. CASE Push \/ PushFails \/ OthersPush \/ Enforce
      BY <2>5 DEF Push, PushFails, OthersPush, Enforce
    <2>6. CASE UseAgain
      <3>1. \A i \in DOMAIN local : local[i].by \in Int
        <4> TAKE i \in DOMAIN local
        <4>1. local[i] \in Revision
          BY DEF JobType
        <4> QED BY <4>1 DEF Revision
      <3>2. use' = use + 1 /\ committed' = 0 /\ pc' = "validate" /\ use \in Nat
        BY <2>6 DEF UseAgain, JobType
      <3>3. \A i \in DOMAIN local : local[i].by < use'
        BY <3>1, <3>2
      <3> QED BY <3>1, <3>2, <3>3
    <2>7. CASE UNCHANGED vars
      BY <2>7 DEF vars
    <2> QED BY <1>2, <2>2, <2>3, <2>4, <2>5, <2>6, <2>7 DEF Next
  <1> QED BY <1>1, <1>2

(* What is staged of a run that came to a verdict are its three reports. *)
LEMMA StagedReports ==
  ASSUME JobType, Control, Fresh, pc = "commit", code \in Verdicts, NEW f \in Stable
  PROVE  staged[f] = [data |-> shows, whole |-> TRUE]
  <1>1. worktree[f] = [data |-> shows, whole |-> TRUE]
    BY DEF Fresh, Ran, Late
  <1>2. CASE worktree[f] # Absent
    BY <1>1, <1>2, StagedTyped
  <1>3. CASE worktree[f] = Absent
    BY <1>1, <1>3, ActionJobAssumption DEF Absent, Control, Ran, Late
  <1> QED BY <1>2, <1>3

(* Only gtr changes what this use shows, and only before this use commits. *)
LEMMA ReportsKept ==
  ASSUME JobType, Control, Fresh, History, CommittedReportsAgree, [Next]_vars
  PROVE  CommittedReportsAgree'
  <1>1. CASE Commit
    <2>1. /\ pc = "commit" /\ use' = use /\ shows' = shows /\ Len(local) \in Nat
          /\ DOMAIN local = 1..Len(local) /\ DOMAIN local' = 1..(Len(local) + 1)
      BY <1>1, CommitAppends, TypeKept DEF Commit, useVars, runVars, JobType
    <2>2. \A i \in 1..Len(local) : local'[i].by # use
      BY <1>1, <2>1, CommitAppends DEF History
    <2>3. \A i \in DOMAIN local' : local'[i].by = use => local'[i].code = code /\ local'[i].tree = staged
      <3> TAKE i \in DOMAIN local'
      <3>1. CASE i \in 1..Len(local)
        BY <2>2, <3>1
      <3>2. CASE i = Len(local) + 1
        BY <1>1, <3>2, CommitAppends
      <3> QED BY <2>1, <3>1, <3>2
    <2>4. \A c \in ToSet(local') : c.by = use => c.code = code /\ c.tree = staged
      BY <2>3 DEF ToSet
    <2>5. code \in Verdicts => \A f \in Stable : staged[f] = [data |-> shows, whole |-> TRUE]
      BY <2>1, StagedReports
    <2>6. CommittedReportsAgree' <=>
            \A c \in ToSet(local') : c.by = use' /\ c.code \in Verdicts =>
              \A f \in Stable : c.tree[f] = [data |-> shows', whole |-> TRUE]
      BY DEF CommittedReportsAgree
    <2> QED BY <2>1, <2>4, <2>5, <2>6
  <1>2. CASE ~Commit
    <2>1. local' = local
      BY <1>2, OnlyCommits
    <2> USE <2>1 DEF useVars, runVars, gitVars, Goto, FailStep, CommittedReportsAgree
    <2>2. CASE Validate \/ InstallRelease \/ InstallSource
      BY <2>2 DEF Validate, InstallRelease, InstallSource
    <2>3. CASE RunGtr
      <3>1. use' = use /\ \A i \in DOMAIN local : local[i].by # use
        BY <2>3 DEF RunGtr, History
      <3> QED BY <3>1 DEF ToSet
    <2>4. CASE SaveExitCode \/ Extract \/ Summary
      BY <2>4 DEF SaveExitCode, Extract, Summary
    <2>5. CASE SkipCommit \/ NothingToCommit \/ CommitFails
      BY <2>5 DEF SkipCommit, NothingToCommit, CommitFails
    <2>6. CASE Push \/ PushFails \/ OthersPush \/ Enforce
      BY <2>6 DEF Push, PushFails, OthersPush, Enforce
    <2>7. CASE UseAgain
      <3>1. pc' = "validate"
        BY <2>7 DEF UseAgain
      <3>2. \A i \in DOMAIN local : local[i].by # use'
        BY <3>1, HistoryKept DEF History
      <3> QED BY <3>2 DEF ToSet
    <2>8. CASE UNCHANGED vars
      BY <2>8 DEF vars
    <2> QED BY <1>2, <2>2, <2>3, <2>4, <2>5, <2>6, <2>7, <2>8 DEF Next
  <1> QED BY <1>1, <1>2

(* A pushed commit stays on the server behind what others add. *)
LEMMA PushedKept ==
  ASSUME JobType, History, CommittedMeansPushed, [Next]_vars
  PROVE  CommittedMeansPushed'
  <1> USE DEF useVars, runVars, gitVars, Goto, FailStep
  <1>1. CASE Commit
    <2>1. committed = 0 /\ committed' = committed
      BY <1>1 DEF Commit, History
    <2> QED BY <2>1 DEF CommittedMeansPushed
  <1>2. CASE Push
    <2>1. /\ remote' = local /\ local' = local /\ committed' = Len(local) /\ use' = use
          /\ local[Len(local)].by = use /\ Len(local) \in Nat
      BY <1>2, LenProperties DEF Push, History, JobType
    <2> QED BY <2>1 DEF CommittedMeansPushed
  <1>3. CASE PushFails
    <2>1. committed = 0 /\ committed' = committed
      BY <1>3 DEF PushFails, History
    <2> QED BY <2>1 DEF CommittedMeansPushed
  <1>4. CASE OthersPush
    <2>1. /\ local' = local /\ committed' = committed /\ use' = use
          /\ remote' = Append(remote, [by |-> -1, code |-> 0, tree |-> Last(remote).tree])
      BY <1>4 DEF OthersPush
    <2>2. Last(remote) \in Revision
      BY LenProperties, ElementOfSeq DEF JobType, Last
    <2>3. [by |-> -1, code |-> 0, tree |-> Last(remote).tree] \in Revision
      BY <2>2 DEF Revision
    <2>4. /\ Len(remote') = Len(remote) + 1 /\ Len(remote) \in Nat
          /\ \A i \in 1..Len(remote) : remote'[i] = remote[i]
      BY <2>1, <2>3, AppendProperties, LenProperties DEF JobType
    <2>5. committed \in Nat
      BY DEF JobType
    <2> QED BY <2>1, <2>4, <2>5 DEF CommittedMeansPushed
  <1>5. CASE UseAgain
    BY <1>5 DEF UseAgain, CommittedMeansPushed
  <1> USE DEF CommittedMeansPushed
  <1>6. CASE Validate \/ InstallRelease \/ InstallSource \/ RunGtr
    BY <1>6 DEF Validate, InstallRelease, InstallSource, RunGtr
  <1>7. CASE SaveExitCode \/ Extract \/ Summary \/ Enforce
    BY <1>7 DEF SaveExitCode, Extract, Summary, Enforce
  <1>8. CASE SkipCommit \/ NothingToCommit \/ CommitFails
    BY <1>8 DEF SkipCommit, NothingToCommit, CommitFails
  <1>9. CASE UNCHANGED vars
    BY <1>9 DEF vars
  <1> QED BY <1>1, <1>2, <1>3, <1>4, <1>5, <1>6, <1>7, <1>8, <1>9 DEF Next

-----------------------------------------------------------------------------
(* Theorems. *)

(* The inductive invariant of a job. *)
LEMMA SpecInv == Spec => []Inv
  <1>1. Init => Inv
    BY InitTyped, InitControl DEF Inv
  <1>2. Inv /\ [Next]_vars => Inv'
    BY TypeKept, ControlKept, FreshKept, PublishedKept, HistoryKept, VerdictKept, ReportsKept,
       PushedKept, StaleKept DEF Inv
  <1> QED BY <1>1, <1>2, PTL DEF Spec

(* A use of the action succeeds exactly when its own gtr exited with 0 and no
   step failed, whatever earlier uses left behind (enforce-result.sh). *)
THEOREM VerdictIsExact == Spec => []JobVerdictExact
  <1>1. Inv => JobVerdictExact
    BY DEF Inv
  <1> QED BY <1>1, SpecInv, PTL

(* The reports committed of a run that came to a verdict are whole and of that
   run, whatever the working tree and the index held (commit-report.sh). *)
THEOREM CommittedReports == Spec => []CommittedReportsAgree
  <1>1. Inv => CommittedReportsAgree
    BY DEF Inv
  <1> QED BY <1>1, SpecInv, PTL

(* The output names a commit only when the server has it, however many pushes
   of others come in between (commit-report.sh, lines 107-115). *)
THEOREM CommittedIsPushed == Spec => []CommittedMeansPushed
  <1>1. Inv => CommittedMeansPushed
    BY DEF Inv
  <1> QED BY <1>1, SpecInv, PTL

(* Numbers and summaries of an earlier use are published as an error only
   (run-report.sh, action.yml). *)
THEOREM StaleIsError == Spec => []StaleMeansError
  <1>1. Inv => StaleMeansError
    BY DEF Inv
  <1> QED BY <1>1, SpecInv, PTL

(* The branch grows only by commits that were asked for, of an eligible event
   and of a run that may be committed (commit-report.sh, lines 29-79). *)
THEOREM CommitsAreJustified == Spec => CommitJustified
  <1>1. Inv /\ [Next]_vars =>
          [Len(local') > Len(local) =>
             /\ inputs.commit /\ event \in {"push", "workflow_dispatch"}
             /\ code = 0 \/ inputs.commit_on_failure
             /\ code # NoCode]_vars
    <2> SUFFICES ASSUME Inv, [Next]_vars, Len(local') > Len(local)
                 PROVE  /\ inputs.commit /\ event \in {"push", "workflow_dispatch"}
                        /\ code = 0 \/ inputs.commit_on_failure
                        /\ code # NoCode
      OBVIOUS
    <2>1. Len(local) \in Nat
      BY LenProperties DEF Inv, JobType
    <2>2. Commit
      BY <2>1, OnlyCommits
    <2>3. code \in Codes /\ exitFile = code
      BY <2>2 DEF Commit, Inv, Control, Ran, Late
    <2>4. code # NoCode
      BY <2>3, CodesTyped
    <2> QED BY <2>2, <2>3, <2>4 DEF Commit, mayCommit
  <1> QED BY <1>1, SpecInv, PTL DEF Spec, CommitJustified
=============================================================================
