------------------------------- MODULE Release -------------------------------
(***************************************************************************)
(* .github/workflows/release.yml with scripts/build-release.sh, and        *)
(* scripts/install-release.sh with its fallback to install-source.sh:      *)
(* several runs of the workflow publish the assets of versions while a     *)
(* client installs one.                                                    *)
(*                                                                         *)
(* What belongs to GitHub (events, the [skip ci] marker, the concurrency   *)
(* queue, gh) is modelled from how the workflow uses it.  Tags of versions *)
(* do not move.  The two assets of a version are one archive and the       *)
(* checksums; an asset is named by the run that built it, 0 when absent.   *)
(***************************************************************************)
EXTENDS Integers, Sequences, FiniteSets

CONSTANTS
  Commit,      \* commits that may be tagged
  Marked,      \* those whose message holds [skip ci]
  Version,     \* names of versions
  Stable,      \* those of the form vMAJOR.MINOR.PATCH
  Tip,         \* the commit of each branch; one may have the name of a version
  Default,     \* the default branch
  None,        \* no commit
  MaxRuns      \* bound: runs of the workflow

ASSUME StableAssumption == Stable \subseteq Version /\ Version # {}
ASSUME NoneAssumption == None \notin Commit
ASSUME TipAssumption == Default \in DOMAIN Tip /\ \A b \in DOMAIN Tip : Tip[b] \in Commit

VARIABLES
  tags,      \* the commit of each version's tag, or None
  release,   \* the release of each version: "none" | "stable" | "prerelease"
  assets,    \* [Version -> [Asset -> run or 0]]
  major,     \* the commit of the moving major tag, or None
  runs,      \* the runs, in the order they were queued
  client     \* the installation: [pc, version, archive, checksums]

releaseVars == <<tags, release, assets, major, runs, client>>

Asset   == {"archive", "checksums"}
RefType == {"tag", "branch"}
Ended   == {"done", "failed", "cancelled", "skipped"}

Run == [event : {"push", "release", "workflow_dispatch"}, refType : RefType,
        ref : Version \cup DOMAIN Tip, sha : Commit, version : Version, prerelease : BOOLEAN,
        pc : {"start", "view", "upload", "create", "major"} \cup Ended,
        left : SUBSET Asset]

Client == [pc : {"idle", "archive", "checksums", "verify", "installed", "fallback", "source", "failed"},
           version : Version, archive : Nat, checksums : Nat]

NoClient == [pc |-> "idle", version |-> CHOOSE v \in Version : TRUE, archive |-> 0, checksums |-> 0]

(* build-release.sh writes the archive and the checksums of one build. *)
Complete(v, r) == \A a \in Asset : assets[v][a] = r

ReleaseInit ==
  /\ tags = [v \in Version |-> None]
  /\ release = [v \in Version |-> "none"]
  /\ assets = [v \in Version |-> [a \in Asset |-> 0]]
  /\ major = None
  /\ runs = <<>>
  /\ client = NoClient

-----------------------------------------------------------------------------
(* The concurrency queue: of the runs of a group the first that has not ended
   is running, and a newer one cancels those that wait. *)

(* Mutant: a group for every run, as the report workflow has. *)
groupPerRun(queue, i) == i
group(queue, i) == queue[i].ref

Running(queue, i) ==
  \A j \in 1..(i - 1) : group(queue, j) = group(queue, i) => queue[j].pc \in Ended

Enqueue(queue, run) ==
  LET q == Append(queue, run)
      n == Len(q)
      waits(i) == group(q, i) = group(q, n) /\ q[i].pc \notin Ended /\ ~Running(q, i)
  IN  [i \in 1..n |-> IF i < n /\ waits(i) THEN [q[i] EXCEPT !.pc = "cancelled"] ELSE q[i]]

NewRun(event, refType, ref, sha, version, prerelease) ==
  [event |-> event, refType |-> refType, ref |-> ref, sha |-> sha, version |-> version,
   prerelease |-> prerelease, pc |-> "start", left |-> {}]

-----------------------------------------------------------------------------
(* The triggers. *)

(* The filter lets the tags of stable versions through; GitHub starts nothing
   at a commit with the marker. *)
OnPush(queue, v, c) ==
  IF v \in Stable /\ c \notin Marked
  THEN Enqueue(queue, NewRun("push", "tag", v, c, v, FALSE)) ELSE queue

(* Mutant: the marker holds the release event back as well. *)
OnReleaseUnlessSkipped(queue, v, c, prerelease) ==
  IF c \in Marked THEN queue ELSE Enqueue(queue, NewRun("release", "tag", v, c, v, prerelease))

OnRelease(queue, v, c, prerelease) ==
  Enqueue(queue, NewRun("release", "tag", v, c, v, prerelease))

PushTag ==
  \E v \in Version, c \in Commit :
    /\ tags[v] = None
    /\ tags' = [tags EXCEPT ![v] = c]
    /\ runs' = OnPush(runs, v, c)
    /\ UNCHANGED <<release, assets, major, client>>

(* A release is published in the UI, at a tag that it creates when missing. *)
PublishRelease ==
  \E v \in Version, c \in Commit, prerelease \in BOOLEAN :
    /\ release[v] = "none"
    /\ tags[v] \in {None, c}
    /\ tags' = [tags EXCEPT ![v] = c]
    /\ release' = [release EXCEPT ![v] = IF prerelease THEN "prerelease" ELSE "stable"]
    /\ runs' = OnRelease(IF tags[v] = None THEN OnPush(runs, v, c) ELSE runs, v, c, prerelease)
    /\ UNCHANGED <<assets, major, client>>

(* workflow_dispatch on a branch or a tag, for any version. *)
Dispatch ==
  \E v \in Version :
    /\ \/ \E b \in DOMAIN Tip :
            runs' = Enqueue(runs, NewRun("workflow_dispatch", "branch", b, Tip[b], v, FALSE))
       \/ \E t \in {t \in Version : tags[t] # None} :
            runs' = Enqueue(runs, NewRun("workflow_dispatch", "tag", t, tags[t], v, FALSE))
    /\ UNCHANGED <<tags, release, assets, major, client>>

-----------------------------------------------------------------------------
(* The steps of run i. *)

At(i, pc) == runs[i].pc = pc /\ Running(runs, i)
Goto(i, pc) == runs' = [runs EXCEPT ![i].pc = pc]

(* The step stops with an error, or GitHub ends the job. *)
Fail(i) ==
  /\ runs[i].pc \notin Ended /\ Running(runs, i)
  /\ Goto(i, "failed")
  /\ UNCHANGED <<tags, release, assets, major, client>>

(* Mutant: only the trigger filters the form of the version. *)
DetermineAnyVersion(i) ==
  /\ At(i, "start")
  /\ Goto(i, IF runs[i].prerelease THEN "skipped" ELSE "view")
  /\ UNCHANGED <<tags, release, assets, major, client>>

(* The condition of the job, the check of the version's form, and what touches
   nothing others see: tests, archives, checksums, signatures, whose errors
   are Fail. *)
DetermineVersion(i) ==
  /\ At(i, "start")
  /\ Goto(i, CASE runs[i].prerelease            -> "skipped"
               [] runs[i].version \notin Stable -> "failed"
               [] OTHER                         -> "view")
  /\ UNCHANGED <<tags, release, assets, major, client>>

(* The run builds the tree of the version's own tag. *)
OfTag(r) == r.refType = "tag" /\ r.ref = r.version

(* Mutant: the name of the ref is asked for, not its type. *)
ViewByName(i) ==
  LET r == runs[i]
  IN  /\ At(i, "view")
      /\ CASE release[r.version] = "none" -> Goto(i, "create")
           [] release[r.version] # "none" /\ r.ref = r.version ->
                runs' = [runs EXCEPT ![i].pc = "upload", ![i].left = Asset]
           [] OTHER -> Goto(i, "failed")
      /\ UNCHANGED <<tags, release, assets, major, client>>

(* gh release view, and the guard of --clobber. *)
View(i) ==
  LET exists == release[runs[i].version] # "none"
  IN  /\ At(i, "view")
      /\ \/ ~exists /\ Goto(i, "create")
         \/ exists /\ OfTag(runs[i]) /\ runs' = [runs EXCEPT ![i].pc = "upload", ![i].left = Asset]
         \/ exists /\ ~OfTag(runs[i]) /\ Goto(i, "failed")
      /\ UNCHANGED <<tags, release, assets, major, client>>

(* gh release upload --clobber: an asset of the name is deleted first. *)
DeleteAsset(i) ==
  LET v == runs[i].version
  IN  /\ At(i, "upload")
      /\ \E a \in runs[i].left :
           /\ assets[v][a] # 0
           /\ assets' = [assets EXCEPT ![v][a] = 0]
      /\ UNCHANGED <<tags, release, major, runs, client>>

UploadAsset(i) ==
  LET v == runs[i].version
  IN  /\ At(i, "upload")
      /\ \E a \in runs[i].left :
           /\ assets[v][a] = 0
           /\ assets' = [assets EXCEPT ![v][a] = i]
           /\ runs' = [runs EXCEPT ![i].left = @ \ {a},
                                   ![i].pc = IF runs[i].left = {a} THEN "major" ELSE @]
      /\ UNCHANGED <<tags, release, major, client>>

(* gh release create: a draft with all assets is published, its tag created
   at the default branch when missing; it fails when the release exists. *)
CreateRelease(i) ==
  LET v == runs[i].version
  IN  /\ At(i, "create")
      /\ IF release[v] # "none"
         THEN Goto(i, "failed") /\ UNCHANGED <<tags, release, assets>>
         ELSE /\ release' = [release EXCEPT ![v] = "stable"]
              /\ assets' = [assets EXCEPT ![v] = [a \in Asset |-> i]]
              /\ tags' = [tags EXCEPT ![v] = IF @ = None THEN Tip[Default] ELSE @]
              /\ Goto(i, "major")
      /\ UNCHANGED <<major, client>>

(* The checkout of a branch holds no tags but a branch of its own name, that of
   a tag holds this one: git finds the version by either name, and the major
   tag goes to what has been built. *)
OfName(r) == r.ref = r.version

UpdateMajor(i) ==
  /\ At(i, "major")
  /\ IF OfName(runs[i]) THEN major' = runs[i].sha /\ Goto(i, "done")
     ELSE Goto(i, "failed") /\ UNCHANGED major
  /\ UNCHANGED <<tags, release, assets, client>>

RunStep(i) ==
  \/ DetermineVersion(i) \/ View(i) \/ DeleteAsset(i) \/ UploadAsset(i)
  \/ CreateRelease(i) \/ UpdateMajor(i)

-----------------------------------------------------------------------------
(* The install step of the action. *)

To(pc) == client' = [client EXCEPT !.pc = pc]

(* A version that is given, or the latest release. *)
ResolveVersion ==
  /\ client.pc = "idle"
  /\ \E v \in Version : client' = [client EXCEPT !.version = v, !.pc = "archive"]
  /\ UNCHANGED <<tags, release, assets, major, runs>>

(* A download that fails, or finds no asset, ends the script. *)
Fallback == To("fallback") /\ UNCHANGED <<tags, release, assets, major, runs>>

DownloadArchive ==
  LET found == assets[client.version]["archive"]
  IN  /\ client.pc = "archive"
      /\ \/ /\ found # 0
            /\ client' = [client EXCEPT !.archive = found, !.pc = "checksums"]
            /\ UNCHANGED <<tags, release, assets, major, runs>>
         \/ Fallback

DownloadChecksums ==
  LET found == assets[client.version]["checksums"]
  IN  /\ client.pc = "checksums"
      /\ \/ /\ found # 0
            /\ client' = [client EXCEPT !.checksums = found, !.pc = "verify"]
            /\ UNCHANGED <<tags, release, assets, major, runs>>
         \/ Fallback

(* Mutant: that the archive has a checksum is enough. *)
VerifyPresence ==
  /\ client.pc = "verify"
  /\ To("installed")
  /\ UNCHANGED <<tags, release, assets, major, runs>>

(* The checksums are those of the archives built with them. *)
Verify ==
  /\ client.pc = "verify"
  /\ To(IF client.archive = client.checksums THEN "installed" ELSE "fallback")
  /\ UNCHANGED <<tags, release, assets, major, runs>>

(* install-source.sh; its error is the error of the install step. *)
BuildSource ==
  /\ client.pc = "fallback"
  /\ To("source") \/ To("failed")
  /\ UNCHANGED <<tags, release, assets, major, runs>>

Install == ResolveVersion \/ DownloadArchive \/ DownloadChecksums \/ Verify \/ BuildSource
=============================================================================
