------------------------------ MODULE Writeback ------------------------------
(***************************************************************************)
(* .github/workflows/go-quality-reports.yml (the same jobs as              *)
(* examples/update-report.yml): a gate that may reuse the report of a tag, *)
(* the reports, and their write-back to the default branch while others    *)
(* push to it.  Commits are numbered in the order they are made.           *)
(***************************************************************************)
EXTENDS Integers, Sequences, FiniteSets

CONSTANTS
  MaxCommits,   \* bound: commits
  MaxReports    \* bound: runs of the workflow

VARIABLES
  commits,    \* [parent, of]: of is the source a report commit is about, else 0
  tip,        \* the head of the default branch
  reports     \* the runs

writebackVars == <<commits, tip, reports>>

Completed == {"done", "failed", "cancelled", "skipped"}

(* The run of a tag, or one that may reuse a tag's report: for a release or a
   dispatch.  A dispatch that does not ask for reuse does as one that finds
   the artifact expired. *)
Kind == {"tag", "reuse"}

ReportRun == [kind : Kind, sha : Nat,
              pc : {"gate", "test", "queue", "fetch", "push"} \cup Completed,
              artifact : BOOLEAN, current : Nat]

WritebackInit ==
  /\ commits = <<[parent |-> 0, of |-> 0]>>
  /\ tip = 1
  /\ reports = <<>>

-----------------------------------------------------------------------------
(* The triggers, and the others who push. *)

PushCommit ==
  /\ Len(commits) < MaxCommits
  /\ commits' = Append(commits, [parent |-> tip, of |-> 0])
  /\ tip' = Len(commits')
  /\ UNCHANGED reports

(* A tag is pushed, a release is published, or the workflow is dispatched, at
   any commit.  (A tag at a commit marked [skip ci] starts nothing.) *)
TriggerReport ==
  /\ Len(reports) < MaxReports
  /\ \E kind \in Kind, c \in DOMAIN commits :
       reports' = Append(reports, [kind |-> kind, sha |-> c, pc |-> "gate",
                                   artifact |-> FALSE, current |-> 0])
  /\ UNCHANGED <<commits, tip>>

-----------------------------------------------------------------------------
(* The steps of run i. *)

ReportAt(i, pc)   == reports[i].pc = pc
ReportGoto(i, pc) == reports' = [reports EXCEPT ![i].pc = pc]

(* A completed tag run of the source that succeeded and left its artifact. *)
covers(r, sha) == r.kind = "tag" /\ r.sha = sha /\ r.pc = "done" /\ r.artifact

(* Artifacts are kept for 14 days: one may have expired when it is asked for. *)
Gate(i) ==
  LET r == reports[i]
  IN  /\ ReportAt(i, "gate")
      /\ \/ ReportGoto(i, "test")
         \/ /\ r.kind = "reuse" /\ \E j \in DOMAIN reports : covers(reports[j], r.sha)
            /\ ReportGoto(i, "skipped")
      /\ UNCHANGED <<commits, tip>>

(* The write-back of a source runs alone; of those that wait for it a newer
   one cancels the others. *)
Writing == {"fetch", "push"}

WritebackQueued(i) ==
  LET same(j) == j # i /\ reports[j].sha = reports[i].sha
      busy    == \E j \in DOMAIN reports : same(j) /\ reports[j].pc \in Writing \cup {"queue"}
  IN  [j \in DOMAIN reports |->
         CASE j = i -> [reports[i] EXCEPT !.artifact = TRUE, !.pc = IF busy THEN "queue" ELSE "fetch"]
           [] same(j) /\ reports[j].pc = "queue" -> [reports[j] EXCEPT !.pc = "cancelled"]
           [] OTHER -> reports[j]]

(* The reports are uploaded also when a test failed, but not when there are
   none; the write-back needs the success of this job. *)
Reports(i) ==
  /\ ReportAt(i, "test")
  /\ \/ reports' = WritebackQueued(i)
     \/ \E artifact \in BOOLEAN :
          reports' = [reports EXCEPT ![i].artifact = artifact, ![i].pc = "failed"]
  /\ UNCHANGED <<commits, tip>>

StartWriteback(i) ==
  /\ ReportAt(i, "queue")
  /\ ~ \E j \in DOMAIN reports : reports[j].sha = reports[i].sha /\ reports[j].pc \in Writing
  /\ ReportGoto(i, "fetch")
  /\ UNCHANGED <<commits, tip>>

(* Mutant: the branch is not compared with the source. *)
FetchAny(i) ==
  /\ ReportAt(i, "fetch")
  /\ \E differ \in BOOLEAN :
       reports' = [reports EXCEPT ![i].pc = IF differ THEN "push" ELSE "done", ![i].current = tip]
  /\ UNCHANGED <<commits, tip>>

(* The branch must still be the source, and the reports must differ from what
   it holds; then they are committed on it. *)
Fetch(i) ==
  /\ ReportAt(i, "fetch")
  /\ \E differ \in BOOLEAN :
       reports' = [reports EXCEPT ![i].pc = IF tip = reports[i].sha /\ differ THEN "push" ELSE "done",
                                  ![i].current = tip]
  /\ UNCHANGED <<commits, tip>>

ReportCommit(i) ==
  [parent |-> reports[i].current, of |-> reports[i].sha]

(* An ordinary push, which a branch that has moved on rejects. *)
Push(i) ==
  /\ ReportAt(i, "push")
  /\ IF tip = reports[i].current
     THEN /\ Len(commits) < MaxCommits
          /\ commits' = Append(commits, ReportCommit(i))
          /\ tip' = Len(commits')
          /\ ReportGoto(i, "done")
     ELSE ReportGoto(i, "failed") /\ UNCHANGED <<commits, tip>>

FailReport(i) ==
  /\ reports[i].pc \notin Completed
  /\ ReportGoto(i, "failed")
  /\ UNCHANGED <<commits, tip>>

WritebackNext ==
  \/ PushCommit \/ TriggerReport
  \/ \E i \in DOMAIN reports :
       \/ Gate(i) \/ Reports(i) \/ StartWriteback(i) \/ Fetch(i) \/ Push(i)
       \/ FailReport(i)
=============================================================================
