------------------------------ MODULE Delivery ------------------------------
(***************************************************************************)
(* How the project is delivered: the release workflow, alone or with a     *)
(* client that installs what it publishes, and the report workflow.  The   *)
(* same events start both workflows, but they share no state: a behaviour  *)
(* follows one of them.                                                    *)
(***************************************************************************)
EXTENDS Release, Writeback

CONSTANT MaxRunsInstall   \* bound: runs while a client installs

VARIABLE followed   \* "release" | "install" | "reports"

vars == <<followed, releaseVars, writebackVars>>

Init ==
  /\ followed \in {"release", "install", "reports"}
  /\ ReleaseInit
  /\ WritebackInit

Trigger ==
  /\ PushTag \/ PublishRelease \/ Dispatch
  /\ Len(runs') <= IF followed = "install" THEN MaxRunsInstall ELSE MaxRuns

(* A run of the release workflow takes a step or fails. *)
Step(i) == followed # "reports" /\ i \in DOMAIN runs /\ RunStep(i) /\ UNCHANGED <<followed, writebackVars>>

Next ==
  \/ /\ followed # "reports"
     /\ Trigger \/ (followed = "install" /\ Install) \/ \E i \in DOMAIN runs : Fail(i)
     /\ UNCHANGED <<followed, writebackVars>>
  \/ \E i \in 1..MaxRuns : Step(i)
  \/ followed = "reports" /\ WritebackNext /\ UNCHANGED <<followed, releaseVars>>

(* GitHub runs the jobs it has queued; events and clients owe nothing. *)
Fairness == \A i \in 1..MaxRuns : WF_vars(Step(i))

Spec == Init /\ [][Next]_vars /\ Fairness

-----------------------------------------------------------------------------
(* Properties. *)

TypeOK ==
  /\ followed \in {"release", "install", "reports"}
  /\ tags \in [Version -> Commit \cup {None}]
  /\ release \in [Version -> {"none", "stable", "prerelease"}]
  /\ assets \in [Version -> [Asset -> Nat]]
  /\ major \in Commit \cup {None}
  /\ runs \in Seq(Run)
  /\ client \in Client
  /\ commits \in Seq([parent : Nat, of : Nat])
  /\ tip \in DOMAIN commits
  /\ reports \in Seq(ReportRun)

(* The assets of a release that exists are only ever replaced by a build of
   its own tag, not by what a dispatch built from some other ref (comment at
   release.yml, lines 146-160). *)
ClobberedByTagOnly ==
  [][\A v \in Version, a \in Asset :
       release[v] # "none" /\ assets'[v][a] \notin {0, assets[v][a]}
         => runs[assets'[v][a]].sha = tags[v]]_vars

(* Once a run has uploaded the assets of a version, and none is uploading or
   was stopped while it did, they all come from one build: no other run
   interleaves its uploads (comment at release.yml, lines 34-36). *)
Uploads(r, v) == r.version = v /\ r.left # {} /\ r.pc \in {"upload", "failed"}

AssetsOfOneBuild ==
  \A v \in Version :
    /\ \E i \in DOMAIN runs : runs[i].version = v /\ runs[i].pc = "done"
    /\ ~ \E i \in DOMAIN runs : Uploads(runs[i], v)
    => \E i \in DOMAIN runs : Complete(v, i)

(* The moving major tag follows stable versions only (comments at release.yml,
   lines 6-9 and 77-81), and only when all the assets of the version are
   there, built from the commit it moves to: who is pinned to it finds the
   binary of that commit.  The commit is that of the version's tag unless a
   dispatch from a branch named as the version created the release. *)
MajorFollowsRelease ==
  [][major' # major =>
       \E v \in Stable, i \in DOMAIN runs :
         /\ runs[i].version = v /\ Complete(v, i) /\ runs[i].sha = major'
         /\ \/ tags[v] = major'
            \/ /\ runs[i].event = "workflow_dispatch"
               /\ runs[i].refType = "branch" /\ runs[i].ref = v]_vars

(* What is installed is one build, of the version that was asked for, however
   the downloads interleave with uploads; it is a build of the version's tag
   unless a dispatch from another ref created the release. *)
InstalledIsOneBuild ==
  client.pc = "installed" =>
    LET r == runs[client.archive]
    IN  /\ client.checksums = client.archive
        /\ r.version = client.version
        /\ r.sha = tags[client.version] \/ (r.event = "workflow_dispatch" /\ ~OfTag(r))

(* A stable release that is published gets all its assets from one build, if
   none of its runs fails or is cancelled for a run of another version; in
   particular at a commit whose message holds [skip ci] (comment at
   release.yml, lines 11-22). *)
Hindered(v) ==
  \/ \E i \in DOMAIN runs : runs[i].ref = v /\ runs[i].pc = "failed"
  \/ \E i \in DOMAIN runs : runs[i].ref = v /\ runs[i].version # v

ReleaseGetsAssets ==
  \A v \in Stable :
    followed # "reports" /\ release[v] = "stable"
      ~> Hindered(v) \/ \E i \in DOMAIN runs : Complete(v, i)

(* Nothing that was pushed to the default branch is lost: its head only ever
   moves to a commit made on top of it. *)
NothingLost == [][tip' # tip => commits'[tip'].parent = tip]_vars

(* The reports that a commit adds are those of the very tree it sits on. *)
ReportOfParent == \A c \in DOMAIN commits : commits[c].of # 0 => commits[c].of = commits[c].parent

(* A run that skips the tests relies on a tag run of the same source whose
   every job has succeeded. *)
SkippedMeansCovered ==
  \A i \in DOMAIN reports : reports[i].pc = "skipped" =>
    \E j \in DOMAIN reports : /\ reports[j].kind = "tag" /\ reports[j].sha = reports[i].sha
                              /\ reports[j].pc = "done"
=============================================================================
