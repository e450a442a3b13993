--------------------------- MODULE DeliveryProofs ---------------------------
(***************************************************************************)
(* Proofs about Delivery, for any commits, versions, branches and bounds.  *)
(***************************************************************************)
EXTENDS Delivery, TLAPS

-----------------------------------------------------------------------------
(* The report workflow. *)

WritebackType ==
  /\ commits \in Seq([parent : Nat, of : Nat])
  /\ tip \in DOMAIN commits
  /\ reports \in Seq(ReportRun)

(* A run about to push has found the branch at the source it tested. *)
PushesOnSource == \A i \in DOMAIN reports : reports[i].pc = "push" => reports[i].current = reports[i].sha

WritebackInv == WritebackType /\ PushesOnSource /\ ReportOfParent /\ SkippedMeansCovered

(* The report workflow starts with one commit and no run. *)
LEMMA WritebackInit_Inv == WritebackInit => WritebackInv
<1> SUFFICES ASSUME WritebackInit PROVE WritebackInv
  OBVIOUS
<1>1. commits \in Seq([parent : Nat, of : Nat]) /\ DOMAIN commits = {1}
  BY DEF WritebackInit
<1>2. reports \in Seq(ReportRun) /\ DOMAIN reports = {}
  BY DEF WritebackInit
<1> QED
  BY <1>1, <1>2 DEF WritebackInit, WritebackInv, WritebackType, PushesOnSource, ReportOfParent, SkippedMeansCovered

(* Adding a commit on top of the head keeps the history well-formed. *)
LEMMA AppendCommit ==
  ASSUME WritebackType, ReportOfParent,
         NEW c \in [parent : Nat, of : Nat], c.of # 0 => c.of = c.parent,
         commits' = Append(commits, c), tip' = Len(commits')
  PROVE  /\ commits' \in Seq([parent : Nat, of : Nat]) /\ tip' \in DOMAIN commits'
         /\ ReportOfParent'
         /\ commits'[tip'] = c
<1> DEFINE R == [parent : Nat, of : Nat]
<1>1. commits \in Seq(R)
  BY DEF WritebackType
<1>2. commits' \in Seq(R) /\ Len(commits') = Len(commits) + 1 /\ Len(commits) \in Nat
  BY <1>1
<1>3. \A k \in 1..Len(commits) : commits'[k] = commits[k]
  BY <1>1
<1>4. commits'[Len(commits) + 1] = c
  BY <1>1
<1>5. DOMAIN commits' = 1..(Len(commits) + 1) /\ DOMAIN commits = 1..Len(commits)
  BY <1>1, <1>2
<1>6. ReportOfParent'
  BY <1>2, <1>3, <1>4, <1>5 DEF ReportOfParent
<1> QED
  BY <1>2, <1>4, <1>5, <1>6

(* Moving one run on, with the history left alone. *)
LEMMA MoveReport ==
  ASSUME WritebackInv, UNCHANGED <<commits, tip>>,
         NEW i \in DOMAIN reports, NEW r \in ReportRun,
         reports[i].pc # "done", reports[i].pc # "skipped",
         r.kind = reports[i].kind, r.sha = reports[i].sha,
         r.pc = "push" => r.current = r.sha,
         r.pc = "skipped" => \E j \in DOMAIN reports :
           reports[j].kind = "tag" /\ reports[j].sha = r.sha /\ reports[j].pc = "done",
         reports' = [reports EXCEPT ![i] = r]
  PROVE  WritebackInv'
<1>1. reports' \in Seq(ReportRun) /\ DOMAIN reports' = DOMAIN reports
  BY DEF WritebackInv, WritebackType
<1>2. \A j \in DOMAIN reports : reports'[j] = IF j = i THEN r ELSE reports[j]
  BY DEF WritebackInv, WritebackType
<1>3. PushesOnSource' /\ SkippedMeansCovered'
  BY <1>1, <1>2 DEF WritebackInv, PushesOnSource, SkippedMeansCovered
<1> QED
  BY <1>1, <1>3 DEF WritebackInv, WritebackType, ReportOfParent

(* The queue of write-backs: a report that succeeds joins it, and cancels who
   waits there. *)
LEMMA QueueReport ==
  ASSUME WritebackInv, UNCHANGED <<commits, tip>>,
         NEW i \in DOMAIN reports, reports[i].pc = "test",
         reports' = WritebackQueued(i)
  PROVE  WritebackInv'
<1>1. \A j \in DOMAIN reports : reports[j] \in ReportRun
  BY DEF WritebackInv, WritebackType
<1>2. DOMAIN reports' = DOMAIN reports
  BY DEF WritebackQueued
<1>3. \A j \in DOMAIN reports :
        /\ reports'[j] \in ReportRun
        /\ reports'[j].kind = reports[j].kind /\ reports'[j].sha = reports[j].sha
        /\ reports'[j].pc \notin {"push", "skipped"} \/ reports'[j] = reports[j]
        /\ reports[j].pc = "done" => reports'[j].pc = "done"
  BY <1>1 DEF WritebackQueued, ReportRun, Completed
<1>4. reports' \in Seq(ReportRun)
  <2>1. DOMAIN reports = 1..Len(reports) /\ Len(reports) \in Nat
    BY DEF WritebackInv, WritebackType
  <2>2. reports' = [j \in 1..Len(reports) |-> reports'[j]]
    BY <2>1 DEF WritebackQueued
  <2>3. reports' \in [1..Len(reports) -> ReportRun]
    BY <1>3, <2>1, <2>2
  <2> QED
    BY <2>1, <2>3
<1>5. PushesOnSource' /\ SkippedMeansCovered'
  BY <1>2, <1>3 DEF WritebackInv, PushesOnSource, SkippedMeansCovered
<1> QED
  BY <1>4, <1>5 DEF WritebackInv, WritebackType, ReportOfParent

(* Every step of the report workflow, and of those who push to the branch. *)
LEMMA WritebackNext_Inv == WritebackInv /\ WritebackNext => WritebackInv' /\ (tip' # tip => commits'[tip'].parent = tip)
<1> SUFFICES ASSUME WritebackInv, WritebackNext
             PROVE  WritebackInv' /\ (tip' # tip => commits'[tip'].parent = tip)
  OBVIOUS
<1>1. WritebackType /\ ReportOfParent /\ PushesOnSource /\ SkippedMeansCovered /\ Len(commits) \in Nat /\ tip \in Nat
  BY DEF WritebackInv, WritebackType
<1>2. CASE PushCommit
  <2> DEFINE c == [parent |-> tip, of |-> 0]
  <2>1. c \in [parent : Nat, of : Nat] /\ (c.of # 0 => c.of = c.parent)
    BY <1>1
  <2>2. commits' = Append(commits, c) /\ tip' = Len(commits') /\ UNCHANGED reports
    BY <1>2 DEF PushCommit
  <2> HIDE DEF c
  <2>3. /\ commits' \in Seq([parent : Nat, of : Nat]) /\ tip' \in DOMAIN commits'
        /\ ReportOfParent' /\ commits'[tip'] = c
    BY <1>1, <2>1, <2>2, AppendCommit
  <2> QED
    BY <1>1, <2>2, <2>3 DEF c, WritebackInv, WritebackType, PushesOnSource, SkippedMeansCovered
<1>3. CASE TriggerReport
  <2>1. PICK kind \in Kind, c \in DOMAIN commits :
          reports' = Append(reports, [kind |-> kind, sha |-> c, pc |-> "gate", artifact |-> FALSE, current |-> 0])
    BY <1>3 DEF TriggerReport
  <2> DEFINE r == [kind |-> kind, sha |-> c, pc |-> "gate", artifact |-> FALSE, current |-> 0]
  <2>2. r \in ReportRun /\ r.pc = "gate"
    BY <1>1 DEF ReportRun, WritebackType
  <2>3. reports' = Append(reports, r) /\ UNCHANGED <<commits, tip>>
    BY <1>3, <2>1 DEF TriggerReport
  <2> HIDE DEF r
  <2>4. reports' \in Seq(ReportRun) /\ Len(reports) \in Nat /\ DOMAIN reports = 1..Len(reports)
        /\ DOMAIN reports' = 1..(Len(reports) + 1)
    BY <1>1, <2>2, <2>3 DEF WritebackType
  <2>5. (\A j \in DOMAIN reports : reports'[j] = reports[j]) /\ reports'[Len(reports) + 1] = r
    BY <1>1, <2>2, <2>3 DEF WritebackType
  <2>6. PushesOnSource' /\ SkippedMeansCovered'
    BY <1>1, <2>2, <2>4, <2>5 DEF PushesOnSource, SkippedMeansCovered
  <2> QED
    BY <1>1, <2>3, <2>4, <2>6 DEF WritebackInv, WritebackType, ReportOfParent
<1>4. ASSUME NEW i \in DOMAIN reports,
             Gate(i) \/ Reports(i) \/ StartWriteback(i) \/ Fetch(i) \/ Push(i) \/ FailReport(i)
      PROVE  WritebackInv' /\ (tip' # tip => commits'[tip'].parent = tip)
  <2>1. reports[i] \in ReportRun /\ Completed = {"done", "failed", "cancelled", "skipped"}
    BY <1>1 DEF WritebackType, Completed
  <2> DEFINE Become(p) == [reports[i] EXCEPT !.pc = p]
  <2>2. CASE Gate(i)
    <3>1. PICK p \in {"test", "skipped"} : /\ reports' = [reports EXCEPT ![i] = Become(p)]
                                           /\ p = "skipped" => \E j \in DOMAIN reports : covers(reports[j], reports[i].sha)
      BY <2>2 DEF Gate, ReportGoto
    <3>2. Become(p) \in ReportRun /\ Become(p).kind = reports[i].kind /\ Become(p).sha = reports[i].sha /\ Become(p).pc = p
      BY <2>1 DEF ReportRun, Completed
    <3>3. reports[i].pc = "gate" /\ UNCHANGED <<commits, tip>>
      BY <2>2 DEF Gate, ReportAt
    <3> HIDE DEF Become
    <3> QED
      BY <3>1, <3>2, <3>3, MoveReport DEF covers
  <2>3. CASE Reports(i)
    <3>1. CASE reports' = WritebackQueued(i)
      BY <2>3, <3>1, QueueReport DEF Reports, ReportAt
    <3>2. CASE \E artifact \in BOOLEAN : reports' = [reports EXCEPT ![i].artifact = artifact, ![i].pc = "failed"]
      <4>1. PICK artifact \in BOOLEAN : reports' = [reports EXCEPT ![i].artifact = artifact, ![i].pc = "failed"]
        BY <3>2
      <4> DEFINE r == [reports[i] EXCEPT !.artifact = artifact, !.pc = "failed"]
      <4>2. r \in ReportRun /\ r.kind = reports[i].kind /\ r.sha = reports[i].sha /\ r.pc = "failed"
        BY <2>1 DEF ReportRun, Completed
      <4>3. reports' = [reports EXCEPT ![i] = r] /\ reports[i].pc = "test" /\ UNCHANGED <<commits, tip>>
        BY <2>3, <4>1 DEF Reports, ReportAt
      <4> HIDE DEF r
      <4> QED
        BY <4>2, <4>3, MoveReport
    <3> QED
      BY <2>3, <3>1, <3>2 DEF Reports
  <2>4. CASE StartWriteback(i)
    <3>1. Become("fetch") \in ReportRun /\ Become("fetch").kind = reports[i].kind /\ Become("fetch").sha = reports[i].sha
          /\ Become("fetch").pc = "fetch"
      BY <2>1 DEF ReportRun, Completed
    <3>2. reports' = [reports EXCEPT ![i] = Become("fetch")] /\ reports[i].pc = "queue" /\ UNCHANGED <<commits, tip>>
      BY <2>4 DEF StartWriteback, ReportAt, ReportGoto
    <3> HIDE DEF Become
    <3> QED
      BY <3>1, <3>2, MoveReport
  <2>5. CASE Fetch(i)
    <3>1. PICK p \in {"push", "done"} : /\ reports' = [reports EXCEPT ![i].pc = p, ![i].current = tip]
                                        /\ p = "push" => tip = reports[i].sha
      BY <2>5 DEF Fetch
    <3> DEFINE r == [reports[i] EXCEPT !.pc = p, !.current = tip]
    <3>2. r \in ReportRun /\ r.kind = reports[i].kind /\ r.sha = reports[i].sha /\ r.pc = p /\ r.current = tip
      BY <1>1, <2>1 DEF ReportRun, Completed
    <3>3. reports' = [reports EXCEPT ![i] = r] /\ reports[i].pc = "fetch" /\ UNCHANGED <<commits, tip>>
      BY <2>5, <3>1 DEF Fetch, ReportAt
    <3> HIDE DEF r
    <3>4. r.pc # "skipped" /\ (r.pc = "push" => r.current = r.sha) /\ reports[i].pc \notin {"done", "skipped"}
      BY <3>1, <3>2, <3>3
    <3>5. UNCHANGED <<commits, tip>> /\ WritebackInv
      BY <3>3
    <3> QED
      BY <3>2, <3>3, <3>4, <3>5, MoveReport
  <2>6. CASE Push(i)
    <3>1. \A p \in {"done", "failed"} :
            Become(p) \in ReportRun /\ Become(p).kind = reports[i].kind /\ Become(p).sha = reports[i].sha /\ Become(p).pc = p
      BY <2>1 DEF ReportRun, Completed
    <3>2. CASE tip = reports[i].current
      <4>1. /\ commits' = Append(commits, ReportCommit(i)) /\ tip' = Len(commits')
            /\ reports' = [reports EXCEPT ![i] = Become("done")] /\ reports[i].pc = "push"
        BY <2>6, <3>2 DEF Push, ReportAt, ReportGoto
      <4>2. ReportCommit(i) \in [parent : Nat, of : Nat] /\ ReportCommit(i).of = ReportCommit(i).parent
            /\ ReportCommit(i).parent = tip
        BY <1>1, <2>1, <3>2, <4>1 DEF ReportCommit, ReportRun, PushesOnSource
      <4>3. /\ commits' \in Seq([parent : Nat, of : Nat]) /\ tip' \in DOMAIN commits'
            /\ ReportOfParent' /\ commits'[tip'] = ReportCommit(i)
        BY <1>1, <4>1, <4>2, AppendCommit
      <4>4. reports' \in Seq(ReportRun) /\ DOMAIN reports' = DOMAIN reports
        BY <1>1, <3>1, <4>1 DEF WritebackType
      <4> HIDE DEF Become
      <4>5. \A j \in DOMAIN reports : reports'[j] = IF j = i THEN Become("done") ELSE reports[j]
        BY <1>1, <4>1 DEF WritebackType
      <4>6. PushesOnSource' /\ SkippedMeansCovered'
        BY <1>1, <3>1, <4>1, <4>4, <4>5 DEF PushesOnSource, SkippedMeansCovered
      <4> QED
        BY <4>2, <4>3, <4>4, <4>6 DEF WritebackInv, WritebackType
    <3>3. CASE tip # reports[i].current
      <4>1. reports' = [reports EXCEPT ![i] = Become("failed")] /\ reports[i].pc = "push" /\ UNCHANGED <<commits, tip>>
        BY <2>6, <3>3 DEF Push, ReportAt, ReportGoto
      <4> HIDE DEF Become
      <4> QED
        BY <3>1, <4>1, MoveReport
    <3> QED
      BY <3>2, <3>3
  <2>7. CASE FailReport(i)
    <3>1. Become("failed") \in ReportRun /\ Become("failed").kind = reports[i].kind /\ Become("failed").sha = reports[i].sha
          /\ Become("failed").pc = "failed"
      BY <2>1 DEF ReportRun, Completed
    <3>2. reports' = [reports EXCEPT ![i] = Become("failed")] /\ reports[i].pc \notin Completed /\ UNCHANGED <<commits, tip>>
      BY <2>7 DEF FailReport, ReportGoto
    <3> HIDE DEF Become
    <3> QED
      BY <2>1, <3>1, <3>2, MoveReport
  <2> QED
    BY <1>4, <2>2, <2>3, <2>4, <2>5, <2>6, <2>7
<1> QED
  BY <1>2, <1>3, <1>4 DEF WritebackNext

-----------------------------------------------------------------------------
(* The release workflow.  The invariant is a statement about a queue q of runs
   and the tags T, releases R and assets A of the versions, so that a lemma can
   change one of them at a time. *)

Active == {"view", "upload", "create", "major"}

QueueType(q, T, R, A) ==
  /\ q \in Seq(Run)
  /\ T \in [Version -> Commit \cup {None}]
  /\ R \in [Version -> {"none", "stable", "prerelease"}]
  /\ A \in [Version -> [Asset -> Nat]]

(* What a run knows of the tag it builds. *)
RunOfTag(r, T) ==
  /\ r.refType = "tag" => r.ref \in Version /\ T[r.ref] = r.sha
  /\ r.event # "workflow_dispatch" => OfTag(r)

(* Only the run that holds its group is past its first step, and while it
   uploads, what it has uploaded stays. *)
RunOK(q, i, T, R, A) ==
  /\ RunOfTag(q[i], T)
  /\ q[i].pc \in Active => Running(q, i) /\ q[i].version \in Stable
  /\ q[i].pc = "upload" => /\ OfTag(q[i]) /\ R[q[i].version] # "none" /\ q[i].left # {}
                           /\ \A a \in Asset \ q[i].left : A[q[i].version][a] = i
  /\ q[i].pc \notin {"upload", "failed"} => q[i].left = {}
  /\ q[i].pc = "major" /\ OfName(q[i]) => \A a \in Asset : A[q[i].version][a] = i

(* Where an asset comes from. *)
AssetOK(q, v, a, T, R, A) ==
  A[v][a] # 0 => LET r == q[A[v][a]]
                 IN  /\ A[v][a] \in DOMAIN q
                     /\ R[v] # "none"
                     /\ r.version = v
                     /\ r.sha = T[v] \/ (r.event = "workflow_dispatch" /\ ~OfTag(r))

(* AssetsOfOneBuild, also of a run that has only the major tag to move. *)
BuiltOK(q, v, A) ==
  /\ \E i \in DOMAIN q : q[i].version = v /\ q[i].pc \in {"major", "done"}
  /\ ~ \E i \in DOMAIN q : Uploads(q[i], v)
  => \E i \in DOMAIN q : \A a \in Asset : A[v][a] = i

Good(q, T, R, A) ==
  /\ QueueType(q, T, R, A)
  /\ \A i \in DOMAIN q : RunOK(q, i, T, R, A)
  /\ \A v \in Version, a \in Asset : AssetOK(q, v, a, T, R, A)
  /\ \A v \in Version : T[v] = None => R[v] = "none"
  /\ \A v \in Version : BuiltOK(q, v, A)

(* The fields of a run. *)
LEMMA RunType ==
  ASSUME NEW q, NEW T, NEW R, NEW A, Good(q, T, R, A), NEW i \in DOMAIN q
  PROVE  q[i] \in Run /\ q[i].version \in Version /\ q[i].left \subseteq Asset /\ q[i].sha \in Commit
<1>1. q[i] \in Run
  BY DEF Good, QueueType
<1> QED
  BY <1>1 DEF Run

(* Two runs of one group are not both past their first step. *)
LEMMA OneActive ==
  ASSUME NEW q, NEW T, NEW R, NEW A, Good(q, T, R, A),
         NEW i \in DOMAIN q, NEW j \in DOMAIN q,
         q[i].pc \in Active, q[j].pc \in Active, q[i].ref = q[j].ref
  PROVE  i = j
<1>1. DOMAIN q = 1..Len(q) /\ Len(q) \in Nat
  BY DEF Good, QueueType
<1>2. Running(q, i) /\ Running(q, j)
  BY DEF Good, RunOK
<1>3. q[i].pc \notin Ended /\ q[j].pc \notin Ended
  BY DEF Active, Ended
<1>4. ~(i < j) /\ ~(j < i)
  BY <1>1, <1>2, <1>3 DEF Running, group
<1> QED
  BY <1>1, <1>4

(* A run that holds its group holds it until it ends. *)
LEMMA RunningStable ==
  ASSUME NEW q, NEW p, q \in Seq(Run), p \in Seq(Run), Len(q) <= Len(p),
         \A j \in DOMAIN q : p[j].ref = q[j].ref /\ (q[j].pc \in Ended => p[j].pc \in Ended),
         NEW i \in DOMAIN q, Running(q, i)
  PROVE  Running(p, i)
<1>1. i \in 1..Len(q) /\ Len(q) \in Nat /\ DOMAIN q = 1..Len(q)
  OBVIOUS
<1> QED
  BY <1>1 DEF Running, group

(* What Enqueue does to a queue: it adds a run, and cancels only such that do
   not hold their group. *)
LEMMA EnqueueFacts ==
  ASSUME NEW q \in Seq(Run), NEW r \in Run
  PROVE  LET p == Enqueue(q, r)
         IN  /\ p \in Seq(Run) /\ Len(p) = Len(q) + 1
             /\ p[Len(q) + 1] = r
             /\ \A i \in DOMAIN q :
                  \/ p[i] = q[i]
                  \/ /\ p[i] = [q[i] EXCEPT !.pc = "cancelled"]
                     /\ q[i].pc \notin Ended /\ ~Running(q, i)
<1> DEFINE n == Len(q) + 1
           s == Append(q, r)
           p == Enqueue(q, r)
           waits(i) == group(s, i) = group(s, n) /\ s[i].pc \notin Ended /\ ~Running(s, i)
<1>1. n \in Nat /\ Len(s) = n /\ DOMAIN q = 1..Len(q) /\ Len(q) \in Nat
  OBVIOUS
<1>2. (\A i \in DOMAIN q : s[i] = q[i] /\ q[i] \in Run) /\ s[n] = r
  OBVIOUS
<1>3. p = [i \in 1..n |-> IF i < n /\ waits(i) THEN [s[i] EXCEPT !.pc = "cancelled"] ELSE s[i]]
  BY <1>1 DEF Enqueue
<1>4. \A i \in DOMAIN q : Running(s, i) <=> Running(q, i)
  <2> SUFFICES ASSUME NEW i \in DOMAIN q PROVE Running(s, i) <=> Running(q, i)
    OBVIOUS
  <2>1. \A j \in 1..(i - 1) : j \in DOMAIN q
    BY <1>1
  <2>2. \A j \in 1..(i - 1) : s[j] = q[j]
    BY <1>2, <2>1
  <2> QED
    BY <1>2, <2>2 DEF Running, group
<1> HIDE DEF s
<1>5. p[n] = r
  BY <1>1, <1>2, <1>3
<1>6. \A i \in DOMAIN q : p[i] = IF waits(i) THEN [q[i] EXCEPT !.pc = "cancelled"] ELSE q[i]
  BY <1>1, <1>2, <1>3
<1>7. \A i \in DOMAIN q : waits(i) => q[i].pc \notin Ended /\ ~Running(q, i)
  BY <1>2, <1>4
<1>8. \A i \in DOMAIN q : \/ p[i] = q[i]
                           \/ /\ p[i] = [q[i] EXCEPT !.pc = "cancelled"]
                              /\ q[i].pc \notin Ended /\ ~Running(q, i)
  BY <1>6, <1>7
<1>9. \A i \in 1..n : p[i] \in Run
  <2>1. \A i \in DOMAIN q : [q[i] EXCEPT !.pc = "cancelled"] \in Run
    BY <1>2 DEF Run, Ended
  <2> SUFFICES ASSUME NEW i \in 1..n PROVE p[i] \in Run
    OBVIOUS
  <2>2. CASE i = n
    BY <1>5, <2>2
  <2>3. CASE i \in DOMAIN q
    <3>1. q[i] \in Run /\ [q[i] EXCEPT !.pc = "cancelled"] \in Run
      BY <1>2, <2>1, <2>3
    <3> QED
      BY <1>8, <2>3, <3>1
  <2> QED
    BY <1>1, <2>2, <2>3
<1>10. p \in [1..n -> Run]
  <2>1. p = [i \in 1..n |-> p[i]]
    BY <1>3
  <2> HIDE DEF p
  <2> QED
    BY <1>9, <2>1
<1> HIDE DEF p
<1>11. p \in Seq(Run) /\ Len(p) = n
  BY <1>1, <1>10
<1>12. p[Len(q) + 1] = r /\ Len(p) = Len(q) + 1
  BY <1>5, <1>11
<1> QED
  BY <1>11, <1>8, <1>12 DEF p

(* A run joins the queue. *)
LEMMA EnqueueGood ==
  ASSUME NEW q, NEW T, NEW R, NEW A, Good(q, T, R, A),
         NEW r \in Run, r.pc = "start", r.left = {}, RunOfTag(r, T)
  PROVE  Good(Enqueue(q, r), T, R, A)
<1> DEFINE p == Enqueue(q, r)
           n == Len(q) + 1
<1>1. q \in Seq(Run) /\ Len(q) \in Nat /\ DOMAIN q = 1..Len(q)
  BY DEF Good, QueueType
<1>2. p \in Seq(Run) /\ Len(p) = n /\ p[n] = r
  BY <1>1, EnqueueFacts
<1>3. \A i \in DOMAIN q : \/ p[i] = q[i]
                          \/ /\ p[i] = [q[i] EXCEPT !.pc = "cancelled"]
                             /\ q[i].pc \notin Ended /\ ~Running(q, i)
  BY <1>1, EnqueueFacts
<1> HIDE DEF p
<1>4. DOMAIN p = DOMAIN q \cup {n} /\ n \notin DOMAIN q
  BY <1>1, <1>2
<1>5. \A i \in DOMAIN q :
        /\ p[i].event = q[i].event /\ p[i].refType = q[i].refType /\ p[i].ref = q[i].ref
        /\ p[i].sha = q[i].sha /\ p[i].version = q[i].version /\ p[i].left = q[i].left
        /\ p[i].pc = q[i].pc \/ (p[i].pc = "cancelled" /\ q[i].pc \notin Ended \cup Active)
  <2> SUFFICES ASSUME NEW i \in DOMAIN q, p[i] # q[i],
                      p[i] = [q[i] EXCEPT !.pc = "cancelled"], q[i].pc \notin Ended, ~Running(q, i)
               PROVE  /\ p[i].event = q[i].event /\ p[i].refType = q[i].refType /\ p[i].ref = q[i].ref
                      /\ p[i].sha = q[i].sha /\ p[i].version = q[i].version /\ p[i].left = q[i].left
                      /\ p[i].pc = "cancelled" /\ q[i].pc \notin Ended \cup Active
    BY <1>3
  <2>1. q[i] \in Run
    BY <1>1
  <2>2. q[i].pc \notin Active
    BY DEF Good, RunOK
  <2> QED
    BY <2>1, <2>2 DEF Run
<1>6. \A i \in DOMAIN q : Running(q, i) => Running(p, i)
  <2>1. \A j \in DOMAIN q : p[j].ref = q[j].ref /\ (q[j].pc \in Ended => p[j].pc \in Ended)
    BY <1>5 DEF Ended
  <2>2. Len(q) <= Len(p)
    BY <1>1, <1>2
  <2> QED
    BY <1>1, <1>2, <2>1, <2>2, RunningStable
<1>7. \A i \in DOMAIN q : RunOfTag(p[i], T) /\ (OfTag(p[i]) <=> OfTag(q[i]))
  BY <1>5 DEF Good, RunOK, RunOfTag, OfTag
<1>8. \A i \in DOMAIN q : RunOK(p, i, T, R, A)
  <2> SUFFICES ASSUME NEW i \in DOMAIN q PROVE RunOK(p, i, T, R, A)
    OBVIOUS
  <2>1. RunOK(q, i, T, R, A)
    BY DEF Good
  <2>2. OfName(p[i]) <=> OfName(q[i])
    BY <1>5 DEF OfName
  <2> QED
    BY <1>5, <1>6, <1>7, <2>1, <2>2 DEF RunOK, Active, Ended
<1>9. RunOK(p, n, T, R, A)
  BY <1>2 DEF RunOK, Active
<1>10. \A v \in Version, a \in Asset : AssetOK(p, v, a, T, R, A)
  <2> SUFFICES ASSUME NEW v \in Version, NEW a \in Asset, A[v][a] # 0 PROVE AssetOK(p, v, a, T, R, A)
    BY DEF AssetOK
  <2>1. AssetOK(q, v, a, T, R, A)
    BY DEF Good
  <2> QED
    BY <1>4, <1>5, <1>7, <2>1 DEF AssetOK
<1>11. \A v \in Version : BuiltOK(p, v, A)
  <2> SUFFICES ASSUME NEW v \in Version,
                      \E i \in DOMAIN p : p[i].version = v /\ p[i].pc \in {"major", "done"},
                      ~ \E i \in DOMAIN p : Uploads(p[i], v)
               PROVE  \E i \in DOMAIN p : \A a \in Asset : A[v][a] = i
    BY DEF BuiltOK
  <2>1. \E i \in DOMAIN q : q[i].version = v /\ q[i].pc \in {"major", "done"}
    BY <1>2, <1>4, <1>5
  <2>2. ~ \E i \in DOMAIN q : Uploads(q[i], v)
    BY <1>4, <1>5 DEF Uploads, Ended, Active
  <2>3. BuiltOK(q, v, A)
    BY DEF Good
  <2> QED
    BY <1>4, <2>1, <2>2, <2>3 DEF BuiltOK
<1>12. QueueType(p, T, R, A) /\ \A v \in Version : T[v] = None => R[v] = "none"
  BY <1>2 DEF Good, QueueType
<1> QED
  BY <1>4, <1>8, <1>9, <1>10, <1>11, <1>12 DEF Good, p

(* A tag or a release that was missing appears. *)
LEMMA TagGood ==
  ASSUME NEW q, NEW T, NEW R, NEW A, Good(q, T, R, A), NEW U, NEW S, QueueType(q, U, S, A),
         \A v \in Version : T[v] # None => U[v] = T[v],
         \A v \in Version : R[v] # "none" => S[v] = R[v],
         \A v \in Version : U[v] = None => S[v] = "none"
  PROVE  Good(q, U, S, A)
<1>1. \A i \in DOMAIN q : q[i] \in Run /\ q[i].sha # None /\ q[i].version \in Version
  <2>1. \A i \in DOMAIN q : q[i] \in Run
    BY DEF QueueType
  <2> QED
    BY <2>1, NoneAssumption DEF Run
<1>2. \A i \in DOMAIN q : RunOK(q, i, U, S, A)
  <2> SUFFICES ASSUME NEW i \in DOMAIN q PROVE RunOK(q, i, U, S, A)
    OBVIOUS
  <2>1. RunOK(q, i, T, R, A)
    BY DEF Good
  <2>2. RunOfTag(q[i], U)
    BY <1>1, <2>1 DEF RunOK, RunOfTag
  <2>3. q[i].pc = "upload" => S[q[i].version] # "none"
    BY <1>1, <2>1 DEF RunOK
  <2> QED
    BY <2>1, <2>2, <2>3 DEF RunOK
<1>3. \A v \in Version, a \in Asset : AssetOK(q, v, a, U, S, A)
  <2> SUFFICES ASSUME NEW v \in Version, NEW a \in Asset, A[v][a] # 0 PROVE AssetOK(q, v, a, U, S, A)
    BY DEF AssetOK
  <2>1. AssetOK(q, v, a, T, R, A) /\ (T[v] = None => R[v] = "none")
    BY DEF Good
  <2> QED
    BY <2>1 DEF AssetOK
<1> QED
  BY <1>2, <1>3 DEF Good

SameRun(r, s) ==
  /\ r.event = s.event /\ r.refType = s.refType /\ r.ref = s.ref
  /\ r.sha = s.sha /\ r.version = s.version

(* What moving run i of q on to r does to the other runs, whatever r is. *)
LEMMA MoveFacts ==
  ASSUME NEW q, NEW T, NEW R, NEW A, Good(q, T, R, A),
         NEW i \in DOMAIN q, NEW r \in Run, SameRun(q[i], r), q[i].pc \notin Ended,
         NEW p, p = [q EXCEPT ![i] = r]
  PROVE  /\ p \in Seq(Run) /\ DOMAIN p = DOMAIN q
         /\ \A j \in DOMAIN q : p[j] = IF j = i THEN r ELSE q[j]
         /\ \A j \in DOMAIN q : SameRun(p[j], q[j]) /\ RunOfTag(p[j], T) /\ (OfTag(p[j]) <=> OfTag(q[j]))
         /\ \A j \in DOMAIN q : Running(q, j) => Running(p, j)
         /\ \A v \in Version, a \in Asset : AssetOK(p, v, a, T, R, A)
<1>1. q \in Seq(Run) /\ Len(q) \in Nat /\ DOMAIN q = 1..Len(q)
  BY DEF Good, QueueType
<1>2. p \in Seq(Run) /\ DOMAIN p = DOMAIN q /\ Len(p) = Len(q)
  BY <1>1
<1>3. \A j \in DOMAIN q : p[j] = IF j = i THEN r ELSE q[j]
  BY <1>1
<1>4. \A j \in DOMAIN q : SameRun(p[j], q[j])
  BY <1>3 DEF SameRun
<1>5. \A j \in DOMAIN q : RunOfTag(p[j], T) /\ (OfTag(p[j]) <=> OfTag(q[j]))
  BY <1>4 DEF Good, RunOK, RunOfTag, OfTag, SameRun
<1>6. \A j \in DOMAIN q : Running(q, j) => Running(p, j)
  <2>1. \A j \in DOMAIN q : p[j].ref = q[j].ref /\ (q[j].pc \in Ended => p[j].pc \in Ended)
    BY <1>3, <1>4 DEF SameRun
  <2>2. Len(q) <= Len(p)
    BY <1>1, <1>2
  <2> QED
    BY <1>1, <1>2, <2>1, <2>2, RunningStable
<1>7. \A v \in Version, a \in Asset : AssetOK(p, v, a, T, R, A)
  <2> SUFFICES ASSUME NEW v \in Version, NEW a \in Asset, A[v][a] # 0 PROVE AssetOK(p, v, a, T, R, A)
    BY DEF AssetOK
  <2>1. AssetOK(q, v, a, T, R, A)
    BY DEF Good
  <2> QED
    BY <1>2, <1>4, <1>5, <2>1 DEF AssetOK, SameRun
<1> QED
  BY <1>2, <1>3, <1>4, <1>5, <1>6, <1>7

(* A step of run i that changes nothing but the run. *)
LEMMA MoveGood ==
  ASSUME NEW q, NEW T, NEW R, NEW A, Good(q, T, R, A),
         NEW i \in DOMAIN q, NEW r \in Run, SameRun(q[i], r), q[i].pc \notin Ended, Running(q, i),
         r.pc \in {"skipped", "failed", "view", "create", "upload", "done"},
         r.pc \in Active => r.version \in Stable,
         r.pc = "upload" => OfTag(r) /\ R[r.version] # "none" /\ r.left = Asset,
         r.pc # "upload" => r.left = q[i].left,
         q[i].pc = "upload" => r.pc = "failed",
         r.pc = "done" => q[i].pc = "major"
  PROVE  Good([q EXCEPT ![i] = r], T, R, A)
<1> DEFINE p == [q EXCEPT ![i] = r]
<1>1. /\ p \in Seq(Run) /\ DOMAIN p = DOMAIN q
      /\ \A j \in DOMAIN q : p[j] = IF j = i THEN r ELSE q[j]
      /\ \A j \in DOMAIN q : SameRun(p[j], q[j]) /\ RunOfTag(p[j], T) /\ (OfTag(p[j]) <=> OfTag(q[j]))
      /\ \A j \in DOMAIN q : Running(q, j) => Running(p, j)
      /\ \A v \in Version, a \in Asset : AssetOK(p, v, a, T, R, A)
  BY MoveFacts
<1> HIDE DEF p
<1>2. q[i].pc # "upload" /\ q[i].pc # "failed" => q[i].left = {}
  BY DEF Good, RunOK
<1>3. RunOK(p, i, T, R, A)
  <2>1. p[i] = r /\ Running(p, i) /\ RunOfTag(r, T)
    BY <1>1
  <2>2. r.pc = "upload" => r.left # {} /\ Asset \ r.left = {}
    BY DEF Asset
  <2>3. r.pc \notin {"upload", "failed"} => r.left = {}
    BY <1>2 DEF Ended
  <2> QED
    BY <2>1, <2>2, <2>3 DEF RunOK
<1>4. \A j \in DOMAIN q : j # i => RunOK(p, j, T, R, A)
  <2> SUFFICES ASSUME NEW j \in DOMAIN q, j # i PROVE RunOK(p, j, T, R, A)
    OBVIOUS
  <2>1. RunOK(q, j, T, R, A) /\ p[j] = q[j] /\ (Running(q, j) => Running(p, j)) /\ RunOfTag(p[j], T)
    BY <1>1 DEF Good
  <2> QED
    BY <2>1 DEF RunOK
<1>5. \A v \in Version : BuiltOK(p, v, A)
  <2> SUFFICES ASSUME NEW v \in Version,
                      \E j \in DOMAIN p : p[j].version = v /\ p[j].pc \in {"major", "done"},
                      ~ \E j \in DOMAIN p : Uploads(p[j], v)
               PROVE  \E j \in DOMAIN p : \A a \in Asset : A[v][a] = j
    BY DEF BuiltOK
  <2>1. \E j \in DOMAIN q : q[j].version = v /\ q[j].pc \in {"major", "done"}
    BY <1>1 DEF SameRun
  <2>2. ~ \E j \in DOMAIN q : Uploads(q[j], v)
    BY <1>1 DEF Uploads, SameRun, Ended
  <2>3. BuiltOK(q, v, A)
    BY DEF Good
  <2> QED
    BY <1>1, <2>1, <2>2, <2>3 DEF BuiltOK
<1>6. QueueType(p, T, R, A) /\ \A v \in Version : T[v] = None => R[v] = "none"
  BY <1>1 DEF Good, QueueType
<1> QED
  BY <1>1, <1>3, <1>4, <1>5, <1>6 DEF Good, p

(* The run that uploads the assets of a version is the only one past its first
   step that builds a ref of the version's name. *)
LEMMA OneUploader ==
  ASSUME NEW q, NEW T, NEW R, NEW A, Good(q, T, R, A),
         NEW i \in DOMAIN q, q[i].pc = "upload",
         NEW j \in DOMAIN q, q[j].pc \in Active, q[j].version = q[i].version, OfName(q[j])
  PROVE  j = i
<1>1. OfTag(q[i]) /\ q[i].pc \in Active
  BY DEF Good, RunOK, Active
<1>2. q[i].ref = q[j].ref
  BY <1>1 DEF OfTag, OfName
<1> QED
  BY <1>1, <1>2, OneActive

(* A run that uploads deletes an asset of the version. *)
LEMMA DeleteGood ==
  ASSUME NEW q, NEW T, NEW R, NEW A, Good(q, T, R, A),
         NEW i \in DOMAIN q, q[i].pc = "upload", NEW a \in q[i].left
  PROVE  Good(q, T, R, [A EXCEPT ![q[i].version][a] = 0])
<1> DEFINE B == [A EXCEPT ![q[i].version][a] = 0]
<1>1. q[i] \in Run /\ q[i].version \in Version /\ a \in Asset
  BY RunType
<1>2. B \in [Version -> [Asset -> Nat]]
  BY <1>1 DEF Good, QueueType
<1>3. \A v \in Version, b \in Asset : B[v][b] = IF v = q[i].version /\ b = a THEN 0 ELSE A[v][b]
  BY <1>1 DEF Good, QueueType
<1> HIDE DEF B
<1>4. \A j \in DOMAIN q : RunOK(q, j, T, R, B)
  <2> SUFFICES ASSUME NEW j \in DOMAIN q PROVE RunOK(q, j, T, R, B)
    OBVIOUS
  <2>1. RunOK(q, j, T, R, A) /\ q[j].version \in Version
    BY RunType DEF Good
  <2>2. q[j].pc \in {"upload", "major"} /\ OfName(q[j]) /\ q[j].version = q[i].version => j = i
    BY OneUploader DEF Active
  <2>3. OfTag(q[j]) => OfName(q[j])
    BY DEF OfTag, OfName
  <2> QED
    BY <1>3, <2>1, <2>2, <2>3 DEF RunOK
<1>5. \A v \in Version, b \in Asset : AssetOK(q, v, b, T, R, B)
  <2> SUFFICES ASSUME NEW v \in Version, NEW b \in Asset, B[v][b] # 0 PROVE AssetOK(q, v, b, T, R, B)
    BY DEF AssetOK
  <2>1. B[v][b] = A[v][b] /\ AssetOK(q, v, b, T, R, A)
    BY <1>3 DEF Good
  <2> QED
    BY <2>1 DEF AssetOK
<1>6. \A v \in Version : BuiltOK(q, v, B)
  <2> SUFFICES ASSUME NEW v \in Version PROVE BuiltOK(q, v, B)
    OBVIOUS
  <2>1. CASE v = q[i].version
    <3>1. Uploads(q[i], v)
      BY <2>1 DEF Uploads
    <3> QED
      BY <3>1 DEF BuiltOK
  <2>2. CASE v # q[i].version
    <3>1. BuiltOK(q, v, A) /\ \A b \in Asset : B[v][b] = A[v][b]
      BY <1>3, <2>2 DEF Good
    <3> QED
      BY <3>1 DEF BuiltOK
  <2> QED
    BY <2>1, <2>2
<1> QED
  BY <1>2, <1>4, <1>5, <1>6 DEF Good, QueueType, B

(* It uploads an asset of the version, perhaps the last one. *)
LEMMA UploadGood ==
  ASSUME NEW q, NEW T, NEW R, NEW A, Good(q, T, R, A),
         NEW i \in DOMAIN q, q[i].pc = "upload", NEW a \in q[i].left,
         NEW r \in Run, SameRun(q[i], r), r.left = q[i].left \ {a},
         r.pc = IF q[i].left = {a} THEN "major" ELSE "upload"
  PROVE  Good([q EXCEPT ![i] = r], T, R, [A EXCEPT ![q[i].version][a] = i])
<1> DEFINE p == [q EXCEPT ![i] = r]
           w == q[i].version
           B == [A EXCEPT ![w][a] = i]
<1>1. /\ w \in Version /\ a \in Asset /\ i \in Nat /\ q[i].left \subseteq Asset
      /\ OfTag(q[i]) /\ Running(q, i) /\ R[w] # "none" /\ w \in Stable /\ T[w] = q[i].sha
      /\ \A b \in Asset \ q[i].left : A[w][b] = i
  <2>1. RunOK(q, i, T, R, A)
    BY DEF Good
  <2>2. DOMAIN q = 1..Len(q) /\ Len(q) \in Nat
    BY DEF Good, QueueType
  <2> QED
    BY <2>1, <2>2, RunType DEF RunOK, RunOfTag, OfTag, Active
<1>2. /\ p \in Seq(Run) /\ DOMAIN p = DOMAIN q
      /\ \A j \in DOMAIN q : p[j] = IF j = i THEN r ELSE q[j]
      /\ \A j \in DOMAIN q : SameRun(p[j], q[j]) /\ RunOfTag(p[j], T) /\ (OfTag(p[j]) <=> OfTag(q[j]))
      /\ \A j \in DOMAIN q : Running(q, j) => Running(p, j)
      /\ \A v \in Version, b \in Asset : AssetOK(p, v, b, T, R, A)
  <2>1. q[i].pc \notin Ended
    BY DEF Ended
  <2> QED
    BY <2>1, MoveFacts
<1>3. B \in [Version -> [Asset -> Nat]]
  BY <1>1 DEF Good, QueueType
<1>4. \A v \in Version, b \in Asset : B[v][b] = IF v = w /\ b = a THEN i ELSE A[v][b]
  BY <1>1 DEF Good, QueueType
<1> HIDE DEF p, B
<1>5. RunOK(p, i, T, R, B)
  <2>1. p[i] = r /\ r.version = w /\ OfTag(r) /\ Running(p, i) /\ RunOfTag(r, T)
    BY <1>1, <1>2 DEF SameRun
  <2>2. \A b \in Asset \ r.left : B[w][b] = i
    BY <1>1, <1>4
  <2>3. r.pc = "major" => r.left = {}
    OBVIOUS
  <2>4. r.pc = "upload" => r.left # {}
    OBVIOUS
  <2> QED
    BY <1>1, <2>1, <2>2, <2>3, <2>4 DEF RunOK, Active
<1>6. \A j \in DOMAIN q : j # i => RunOK(p, j, T, R, B)
  <2> SUFFICES ASSUME NEW j \in DOMAIN q, j # i PROVE RunOK(p, j, T, R, B)
    OBVIOUS
  <2>1. /\ RunOK(q, j, T, R, A) /\ p[j] = q[j] /\ q[j].version \in Version
        /\ (Running(q, j) => Running(p, j)) /\ RunOfTag(p[j], T)
    BY <1>2, RunType DEF Good
  <2>2. ~(q[j].pc \in {"upload", "major"} /\ OfName(q[j]) /\ q[j].version = w)
    BY OneUploader DEF Active
  <2>3. OfTag(q[j]) => OfName(q[j])
    BY DEF OfTag, OfName
  <2> QED
    BY <1>4, <2>1, <2>2, <2>3 DEF RunOK
<1>7. \A v \in Version, b \in Asset : AssetOK(p, v, b, T, R, B)
  <2> SUFFICES ASSUME NEW v \in Version, NEW b \in Asset PROVE AssetOK(p, v, b, T, R, B)
    OBVIOUS
  <2>1. CASE v = w /\ b = a
    BY <1>1, <1>2, <1>4, <2>1 DEF AssetOK, SameRun
  <2>2. CASE ~(v = w /\ b = a)
    BY <1>2, <1>4, <2>2 DEF AssetOK
  <2> QED
    BY <2>1, <2>2
<1>8. \A v \in Version : BuiltOK(p, v, B)
  <2> SUFFICES ASSUME NEW v \in Version PROVE BuiltOK(p, v, B)
    OBVIOUS
  <2>1. CASE v = w /\ r.pc = "upload"
    <3>1. Uploads(p[i], v)
      BY <1>2, <2>1 DEF Uploads, SameRun
    <3> QED
      BY <1>2, <3>1 DEF BuiltOK
  <2>2. CASE v = w /\ r.pc = "major"
    <3>1. \A b \in Asset : B[v][b] = i
      BY <1>1, <1>4, <2>2
    <3> QED
      BY <1>2, <3>1 DEF BuiltOK
  <2>3. CASE v # w
    <3>1. BuiltOK(q, v, A) /\ \A b \in Asset : B[v][b] = A[v][b]
      BY <1>4, <2>3 DEF Good
    <3>2. \A j \in DOMAIN q : q[j].version = v => p[j] = q[j]
      BY <1>2, <2>3 DEF SameRun
    <3>3. \A j \in DOMAIN q : p[j].version = q[j].version
      BY <1>2 DEF SameRun
    <3>4. \A j \in DOMAIN q : Uploads(p[j], v) <=> Uploads(q[j], v)
      BY <3>2, <3>3 DEF Uploads
    <3> QED
      BY <1>2, <3>1, <3>2, <3>3, <3>4 DEF BuiltOK
  <2> QED
    BY <2>1, <2>2, <2>3
<1> QED
  BY <1>2, <1>3, <1>5, <1>6, <1>7, <1>8 DEF Good, QueueType, p, B

(* The release of w appears, with all assets from run i and, when missing, its
   tag: T, R and A become U, S and B. *)
Creates(w, i, T, R, A, U, S, B) ==
  /\ U[w] # None /\ \A v \in Version : v # w \/ T[v] # None => U[v] = T[v]
  /\ \A v \in Version : S[v] = IF v = w THEN "stable" ELSE R[v]
  /\ \A v \in Version, a \in Asset : B[v][a] = IF v = w THEN i ELSE A[v][a]

(* Creating a release keeps what is good. *)
LEMMA CreateGood ==
  ASSUME NEW q, NEW T, NEW R, NEW A, Good(q, T, R, A),
         NEW i \in DOMAIN q, q[i].pc = "create", R[q[i].version] = "none",
         NEW U, NEW S, NEW B, QueueType(q, U, S, B), Creates(q[i].version, i, T, R, A, U, S, B),
         NEW r \in Run, SameRun(q[i], r), r.left = {}, r.pc = "major"
  PROVE  Good([q EXCEPT ![i] = r], U, S, B)
<1> DEFINE p == [q EXCEPT ![i] = r]
           w == q[i].version
<1>1. /\ w \in Version /\ i \in Nat /\ i # 0 /\ RunOK(q, i, T, R, A) /\ Running(q, i) /\ w \in Stable
  <2>1. RunOK(q, i, T, R, A)
    BY DEF Good
  <2>2. DOMAIN q = 1..Len(q) /\ Len(q) \in Nat
    BY DEF Good, QueueType
  <2> QED
    BY <2>1, <2>2, RunType DEF RunOK, Active
<1>2. /\ U[w] # None /\ \A v \in Version : v # w \/ T[v] # None => U[v] = T[v]
      /\ \A v \in Version : S[v] = IF v = w THEN "stable" ELSE R[v]
      /\ \A v \in Version, a \in Asset : B[v][a] = IF v = w THEN i ELSE A[v][a]
      /\ QueueType(q, U, S, A) /\ B \in [Version -> [Asset -> Nat]]
  BY DEF Good, QueueType, Creates
<1>3. \A v \in Version : U[v] = None => S[v] = "none"
  BY <1>2, NoneAssumption DEF Good
<1>4. Good(q, U, S, A)
  <2>1. \A v \in Version : (T[v] # None => U[v] = T[v]) /\ (R[v] # "none" => S[v] = R[v])
    BY <1>2
  <2> QED
    BY <1>2, <1>3, <2>1, TagGood
<1>5. /\ p \in Seq(Run) /\ DOMAIN p = DOMAIN q
      /\ \A j \in DOMAIN q : p[j] = IF j = i THEN r ELSE q[j]
      /\ \A j \in DOMAIN q : SameRun(p[j], q[j]) /\ RunOfTag(p[j], U) /\ (OfTag(p[j]) <=> OfTag(q[j]))
      /\ \A j \in DOMAIN q : Running(q, j) => Running(p, j)
      /\ \A v \in Version, b \in Asset : AssetOK(p, v, b, U, S, A)
  <2>1. q[i].pc \notin Ended
    BY DEF Ended
  <2> QED
    BY <1>4, <2>1, MoveFacts
<1> HIDE DEF p
<1>6. RunOK(p, i, U, S, B)
  BY <1>1, <1>2, <1>5 DEF RunOK, SameRun
<1>7. \A j \in DOMAIN q : j # i => RunOK(p, j, U, S, B)
  <2> SUFFICES ASSUME NEW j \in DOMAIN q, j # i PROVE RunOK(p, j, U, S, B)
    OBVIOUS
  <2>1. /\ RunOK(q, j, T, R, A) /\ RunOK(q, j, U, S, A) /\ p[j] = q[j] /\ q[j].version \in Version
        /\ (Running(q, j) => Running(p, j)) /\ RunOfTag(p[j], U)
    BY <1>4, <1>5, RunType DEF Good
  <2>2. q[j].version = w => q[j].pc # "upload"
    BY <2>1 DEF RunOK
  <2>3. q[j].version = w => ~(q[j].pc = "major" /\ OfName(q[j]))
    <3> SUFFICES ASSUME q[j].version = w, q[j].pc = "major", OfName(q[j]) PROVE FALSE
      OBVIOUS
    <3>1. A[w]["archive"] = j /\ "archive" \in Asset
      BY <2>1 DEF RunOK, Asset
    <3>2. j # 0
      BY DEF Good, QueueType
    <3>3. AssetOK(q, w, "archive", T, R, A)
      BY <1>1, <3>1 DEF Good
    <3> QED
      BY <3>1, <3>2, <3>3 DEF AssetOK
  <2>4. q[j].version # w => \A a \in Asset : B[q[j].version][a] = A[q[j].version][a]
    BY <1>2, <2>1
  <2> QED
    BY <2>1, <2>2, <2>3, <2>4 DEF RunOK
<1>8. \A v \in Version, b \in Asset : AssetOK(p, v, b, U, S, B)
  <2> SUFFICES ASSUME NEW v \in Version, NEW b \in Asset PROVE AssetOK(p, v, b, U, S, B)
    OBVIOUS
  <2>1. CASE v = w
    <3>1. OfTag(q[i]) => q[i].sha = U[w]
      <4> SUFFICES ASSUME OfTag(q[i]) PROVE q[i].sha = U[w]
        OBVIOUS
      <4>1. T[w] = q[i].sha /\ q[i].sha \in Commit
        BY <1>1, RunType DEF RunOK, RunOfTag, OfTag
      <4> QED
        BY <1>1, <1>2, <4>1, NoneAssumption
    <3>2. ~OfTag(q[i]) => q[i].event = "workflow_dispatch"
      BY <1>1 DEF RunOK, RunOfTag
    <3>3. B[v][b] = i /\ S[v] = "stable" /\ p[i].version = v /\ p[i].sha = q[i].sha /\ p[i].event = q[i].event
          /\ (OfTag(p[i]) <=> OfTag(q[i]))
      BY <1>2, <1>5, <2>1 DEF SameRun
    <3> QED
      BY <1>5, <2>1, <3>1, <3>2, <3>3 DEF AssetOK
  <2>2. CASE v # w
    BY <1>2, <1>5, <2>2 DEF AssetOK
  <2> QED
    BY <2>1, <2>2
<1>9. \A v \in Version : BuiltOK(p, v, B)
  <2> SUFFICES ASSUME NEW v \in Version PROVE BuiltOK(p, v, B)
    OBVIOUS
  <2>1. CASE v = w
    BY <1>2, <1>5, <2>1 DEF BuiltOK
  <2>2. CASE v # w
    <3>1. BuiltOK(q, v, A) /\ \A b \in Asset : B[v][b] = A[v][b]
      BY <1>2, <2>2 DEF Good
    <3>2. \A j \in DOMAIN q : q[j].version = v => p[j] = q[j]
      BY <1>5, <2>2 DEF SameRun
    <3>3. \A j \in DOMAIN q : p[j].version = q[j].version
      BY <1>5 DEF SameRun
    <3>4. \A j \in DOMAIN q : Uploads(p[j], v) <=> Uploads(q[j], v)
      BY <3>2, <3>3 DEF Uploads
    <3> QED
      BY <1>5, <3>1, <3>2, <3>3, <3>4 DEF BuiltOK
  <2> QED
    BY <2>1, <2>2
<1> QED
  BY <1>2, <1>3, <1>5, <1>6, <1>7, <1>8, <1>9 DEF Good, QueueType, p

(* Runs are never forgotten, and never change what they build. *)
Grows(q, p) == \A i \in DOMAIN q : i \in DOMAIN p /\ SameRun(p[i], q[i])

(* Queueing a run forgets none. *)
LEMMA EnqueueGrows ==
  ASSUME NEW q \in Seq(Run), NEW r \in Run
  PROVE  Grows(q, Enqueue(q, r)) /\ Enqueue(q, r) \in Seq(Run)
<1> DEFINE p == Enqueue(q, r)
<1>1. p \in Seq(Run) /\ Len(p) = Len(q) + 1
  BY EnqueueFacts
<1>2. \A i \in DOMAIN q : \/ p[i] = q[i]
                          \/ /\ p[i] = [q[i] EXCEPT !.pc = "cancelled"]
                             /\ q[i].pc \notin Ended /\ ~Running(q, i)
  BY EnqueueFacts
<1> HIDE DEF p
<1>3. \A i \in DOMAIN q : i \in DOMAIN p /\ q[i] \in Run
  BY <1>1
<1>4. ASSUME NEW i \in DOMAIN q PROVE SameRun(p[i], q[i])
  <2>1. q[i] \in Run /\ (p[i] = q[i] \/ p[i] = [q[i] EXCEPT !.pc = "cancelled"])
    BY <1>2, <1>3
  <2> QED
    BY <2>1 DEF SameRun, Run
<1> QED
  BY <1>1, <1>3, <1>4 DEF Grows, p

(* A new run has the fields of a run. *)
LEMMA NewRunType ==
  ASSUME NEW event \in {"push", "release", "workflow_dispatch"}, NEW type \in RefType,
         NEW ref \in Version \cup DOMAIN Tip, NEW sha \in Commit, NEW v \in Version, NEW pre \in BOOLEAN
  PROVE  LET r == NewRun(event, type, ref, sha, v, pre)
         IN  /\ r \in Run /\ r.pc = "start" /\ r.left = {}
             /\ r.event = event /\ r.refType = type /\ r.ref = ref /\ r.sha = sha /\ r.version = v
BY DEF NewRun, Run, RefType

(* A run of a tag joins the queue. *)
LEMMA TagRunGood ==
  ASSUME NEW q, NEW T, NEW R, NEW A, Good(q, T, R, A),
         NEW event \in {"push", "release", "workflow_dispatch"}, NEW t \in Version, T[t] \in Commit,
         NEW v \in Version, event # "workflow_dispatch" => t = v, NEW pre \in BOOLEAN
  PROVE  LET p == Enqueue(q, NewRun(event, "tag", t, T[t], v, pre))
         IN  Good(p, T, R, A) /\ Grows(q, p)
<1> DEFINE r == NewRun(event, "tag", t, T[t], v, pre)
<1>1. /\ r \in Run /\ r.pc = "start" /\ r.left = {}
      /\ r.event = event /\ r.refType = "tag" /\ r.ref = t /\ r.sha = T[t] /\ r.version = v
  BY NewRunType DEF RefType
<1> HIDE DEF r
<1>2. RunOfTag(r, T)
  BY <1>1 DEF RunOfTag, OfTag
<1>3. q \in Seq(Run)
  BY DEF Good, QueueType
<1> QED
  BY <1>1, <1>2, <1>3, EnqueueGood, EnqueueGrows DEF r

(* Growing is transitive and reflexive. *)
LEMMA GrowsTransitive ==
  ASSUME NEW q, NEW p, NEW s, Grows(q, p), Grows(p, s)
  PROVE  Grows(q, s)
BY DEF Grows, SameRun

(* Runs that stay as they are grow. *)
LEMMA GrowsReflexive == ASSUME NEW q PROVE Grows(q, q)
BY DEF Grows, SameRun

ReleaseGood == Good(runs, tags, release, assets) /\ major \in Commit \cup {None}

TagsStay == \A v \in Version : tags[v] # None => tags'[v] = tags[v]

(* The triggers. *)
LEMMA TriggerGood ==
  ASSUME ReleaseGood, PushTag \/ PublishRelease \/ Dispatch
  PROVE  ReleaseGood' /\ Grows(runs, runs') /\ TagsStay
<1>1. Good(runs, tags, release, assets) /\ QueueType(runs, tags, release, assets)
  BY DEF ReleaseGood, Good
<1>2. CASE PushTag
  <2>1. PICK v \in Version, c \in Commit :
          /\ tags[v] = None /\ tags' = [tags EXCEPT ![v] = c] /\ runs' = OnPush(runs, v, c)
          /\ UNCHANGED <<release, assets, major>>
    BY <1>2 DEF PushTag
  <2>2. QueueType(runs, tags', release, assets) /\ tags'[v] = c /\ TagsStay
        /\ \A w \in Version : tags'[w] = None => release[w] = "none"
    BY <1>1, <2>1 DEF QueueType, TagsStay, Good
  <2>3. Good(runs, tags', release, assets)
    BY <1>1, <2>2, TagGood DEF TagsStay
  <2>4. Good(runs', tags', release, assets) /\ Grows(runs, runs')
    <3>1. CASE v \in Stable /\ c \notin Marked
      BY <2>1, <2>2, <2>3, <3>1, TagRunGood DEF OnPush
    <3>2. CASE ~(v \in Stable /\ c \notin Marked)
      BY <2>1, <2>3, <3>2, GrowsReflexive DEF OnPush
    <3> QED
      BY <3>1, <3>2
  <2> QED
    BY <2>1, <2>2, <2>4 DEF ReleaseGood
<1>3. CASE PublishRelease
  <2>1. PICK v \in Version, c \in Commit, pre \in BOOLEAN :
          /\ release[v] = "none" /\ tags[v] \in {None, c}
          /\ tags' = [tags EXCEPT ![v] = c]
          /\ release' = [release EXCEPT ![v] = IF pre THEN "prerelease" ELSE "stable"]
          /\ runs' = OnRelease(IF tags[v] = None THEN OnPush(runs, v, c) ELSE runs, v, c, pre)
          /\ UNCHANGED <<assets, major>>
    BY <1>3 DEF PublishRelease
  <2>2. QueueType(runs, tags', release', assets) /\ tags'[v] = c /\ TagsStay
    BY <1>1, <2>1 DEF QueueType, TagsStay
  <2>3. /\ \A w \in Version : tags'[w] = None => release'[w] = "none"
        /\ \A w \in Version : release[w] # "none" => release'[w] = release[w]
    BY <1>1, <2>1, NoneAssumption DEF QueueType, Good
  <2>4. Good(runs, tags', release', assets)
    BY <1>1, <2>2, <2>3, TagGood DEF TagsStay
  <2> DEFINE q == IF tags[v] = None THEN OnPush(runs, v, c) ELSE runs
  <2>5. Good(q, tags', release', assets) /\ Grows(runs, q)
    <3>1. CASE tags[v] = None /\ v \in Stable /\ c \notin Marked
      BY <2>1, <2>2, <2>4, <3>1, TagRunGood DEF OnPush
    <3>2. CASE ~(tags[v] = None /\ v \in Stable /\ c \notin Marked)
      BY <2>1, <2>4, <3>2, GrowsReflexive DEF OnPush
    <3> QED
      BY <3>1, <3>2
  <2>6. runs' = Enqueue(q, NewRun("release", "tag", v, c, v, pre))
    BY <2>1 DEF OnRelease
  <2> HIDE DEF q
  <2>7. Good(runs', tags', release', assets) /\ Grows(q, runs')
    BY <2>2, <2>5, <2>6, TagRunGood
  <2> QED
    BY <2>1, <2>2, <2>5, <2>7, GrowsTransitive DEF ReleaseGood
<1>4. CASE Dispatch
  <2>1. UNCHANGED <<tags, release, assets, major>>
    BY <1>4 DEF Dispatch
  <2>2. Good(runs', tags, release, assets) /\ Grows(runs, runs')
    <3>1. PICK v \in Version :
            \/ \E b \in DOMAIN Tip :
                 runs' = Enqueue(runs, NewRun("workflow_dispatch", "branch", b, Tip[b], v, FALSE))
            \/ \E t \in {t \in Version : tags[t] # None} :
                 runs' = Enqueue(runs, NewRun("workflow_dispatch", "tag", t, tags[t], v, FALSE))
      BY <1>4 DEF Dispatch
    <3>2. ASSUME NEW b \in DOMAIN Tip,
                 runs' = Enqueue(runs, NewRun("workflow_dispatch", "branch", b, Tip[b], v, FALSE))
          PROVE  Good(runs', tags, release, assets) /\ Grows(runs, runs')
      <4> DEFINE r == NewRun("workflow_dispatch", "branch", b, Tip[b], v, FALSE)
      <4>1. /\ r \in Run /\ r.pc = "start" /\ r.left = {} /\ r.event = "workflow_dispatch"
            /\ r.refType = "branch"
        <5>1. Tip[b] \in Commit /\ b \in Version \cup DOMAIN Tip /\ "branch" \in RefType
          BY TipAssumption DEF RefType
        <5> QED
          BY <5>1 DEF NewRun, Run
      <4>2. runs' = Enqueue(runs, r)
        BY <3>2
      <4> HIDE DEF r
      <4>3. RunOfTag(r, tags) /\ runs \in Seq(Run)
        BY <1>1, <4>1 DEF RunOfTag, QueueType
      <4> QED
        BY <1>1, <4>1, <4>2, <4>3, EnqueueGood, EnqueueGrows
    <3>3. ASSUME NEW t \in Version, tags[t] # None,
                 runs' = Enqueue(runs, NewRun("workflow_dispatch", "tag", t, tags[t], v, FALSE))
          PROVE  Good(runs', tags, release, assets) /\ Grows(runs, runs')
      <4>1. tags[t] \in Commit
        BY <1>1, <3>3 DEF QueueType
      <4> QED
        BY <1>1, <3>3, <4>1, TagRunGood
    <3> QED
      BY <3>1, <3>2, <3>3
  <2> QED
    BY <2>1, <2>2 DEF ReleaseGood, TagsStay
<1> QED
  BY <1>2, <1>3, <1>4

(* A step that only moves a run to another pc. *)
LEMMA GotoGood ==
  ASSUME ReleaseGood, NEW i \in DOMAIN runs,
         NEW p \in {"skipped", "failed", "view", "create", "done"},
         Goto(i, p), UNCHANGED <<tags, release, assets>>,
         runs[i].pc \notin Ended, Running(runs, i),
         p \in {"view", "create"} => runs[i].version \in Stable,
         runs[i].pc = "upload" => p = "failed",
         p = "done" => runs[i].pc = "major"
  PROVE  Good(runs, tags, release, assets)' /\ Grows(runs, runs') /\ TagsStay
<1> DEFINE r == [runs[i] EXCEPT !.pc = p]
<1>1. Good(runs, tags, release, assets) /\ runs \in Seq(Run) /\ runs[i] \in Run
  BY RunType DEF ReleaseGood, Good, QueueType
<1>2. r \in Run /\ SameRun(runs[i], r) /\ r.pc = p /\ r.left = runs[i].left
  BY <1>1 DEF Run, Ended, SameRun
<1>3. runs' = [runs EXCEPT ![i] = r]
  BY DEF Goto
<1>4. r.pc \in Active => r.version \in Stable
  BY <1>2 DEF Active, SameRun
<1> HIDE DEF r
<1>5. Good([runs EXCEPT ![i] = r], tags, release, assets)
  BY <1>1, <1>2, <1>4, MoveGood
<1>6. Grows(runs, runs')
  BY <1>1, <1>2, <1>3 DEF Grows, SameRun
<1> QED
  BY <1>3, <1>5, <1>6 DEF TagsStay

ClobberStep ==
  \A v \in Version, a \in Asset :
    release[v] # "none" /\ assets'[v][a] \notin {0, assets[v][a]}
      => runs[assets'[v][a]].sha = tags[v]

MajorStep ==
  major' # major =>
    \E v \in Stable, i \in DOMAIN runs :
      /\ runs[i].version = v /\ Complete(v, i) /\ runs[i].sha = major'
      /\ \/ tags[v] = major'
         \/ /\ runs[i].event = "workflow_dispatch"
            /\ runs[i].refType = "branch" /\ runs[i].ref = v

(* The steps of a run. *)
LEMMA RunGood ==
  ASSUME ReleaseGood, NEW i \in DOMAIN runs, RunStep(i) \/ Fail(i)
  PROVE  ReleaseGood' /\ Grows(runs, runs') /\ TagsStay /\ ClobberStep /\ MajorStep
<1>1. /\ Good(runs, tags, release, assets) /\ QueueType(runs, tags, release, assets)
      /\ RunOK(runs, i, tags, release, assets)
      /\ runs[i] \in Run /\ runs[i].version \in Version /\ runs[i].left \subseteq Asset /\ runs[i].sha \in Commit
      /\ DOMAIN runs = 1..Len(runs) /\ Len(runs) \in Nat
  <2>1. Good(runs, tags, release, assets) /\ QueueType(runs, tags, release, assets)
    BY DEF ReleaseGood, Good
  <2>2. RunOK(runs, i, tags, release, assets)
    BY <2>1 DEF Good
  <2>3. DOMAIN runs = 1..Len(runs) /\ Len(runs) \in Nat
    BY <2>1 DEF QueueType
  <2> QED
    BY <2>1, <2>2, <2>3, RunType
<1>2. CASE DetermineVersion(i)
  <2>1. PICK p \in {"skipped", "failed", "view"} : Goto(i, p) /\ (p = "view" => runs[i].version \in Stable)
    BY <1>2 DEF DetermineVersion
  <2>2. /\ runs[i].pc = "start" /\ Running(runs, i) /\ runs[i].pc \notin Ended
        /\ UNCHANGED <<tags, release, assets, major>>
    BY <1>2 DEF DetermineVersion, At, Ended
  <2>3. Good(runs, tags, release, assets)' /\ Grows(runs, runs') /\ TagsStay
    BY <2>1, <2>2, GotoGood
  <2> QED
    BY <2>2, <2>3 DEF ReleaseGood, ClobberStep, MajorStep
<1>3. CASE View(i)
  <2>1. /\ runs[i].pc = "view" /\ Running(runs, i) /\ runs[i].pc \notin Ended
        /\ UNCHANGED <<tags, release, assets, major>>
    BY <1>3 DEF View, At, Ended
  <2>2. runs[i].version \in Stable
    BY <1>1, <2>1 DEF RunOK, Active
  <2>3. CASE Goto(i, "create") \/ Goto(i, "failed")
    <3>1. Good(runs, tags, release, assets)' /\ Grows(runs, runs') /\ TagsStay
      BY <2>1, <2>2, <2>3, GotoGood
    <3> QED
      BY <2>1, <3>1 DEF ReleaseGood, ClobberStep, MajorStep
  <2>4. CASE release[runs[i].version] # "none" /\ OfTag(runs[i])
             /\ runs' = [runs EXCEPT ![i].pc = "upload", ![i].left = Asset]
    <3> DEFINE r == [runs[i] EXCEPT !.pc = "upload", !.left = Asset]
    <3>1. r \in Run /\ SameRun(runs[i], r) /\ r.pc = "upload" /\ r.left = Asset
      BY <1>1 DEF Run, SameRun
    <3>2. runs' = [runs EXCEPT ![i] = r]
      BY <2>4
    <3> HIDE DEF r
    <3>3. OfTag(r) /\ release[r.version] # "none" /\ r.version \in Stable
      BY <2>2, <2>4, <3>1 DEF SameRun, OfTag
    <3>4. Good(runs', tags, release, assets)
      BY <1>1, <2>1, <3>1, <3>2, <3>3, MoveGood
    <3>5. Grows(runs, runs')
      BY <1>1, <3>1, <3>2 DEF Grows, SameRun
    <3> QED
      BY <2>1, <3>4, <3>5 DEF ReleaseGood, TagsStay, ClobberStep, MajorStep
  <2> QED
    BY <1>3, <2>3, <2>4 DEF View
<1>4. CASE DeleteAsset(i)
  <2>1. PICK a \in runs[i].left : assets' = [assets EXCEPT ![runs[i].version][a] = 0]
    BY <1>4 DEF DeleteAsset
  <2>2. runs[i].pc = "upload" /\ UNCHANGED <<tags, release, major, runs>>
    BY <1>4 DEF DeleteAsset, At
  <2>3. Good(runs, tags, release, assets')
    BY <1>1, <2>1, <2>2, DeleteGood
  <2>4. ClobberStep
    BY <1>1, <2>1 DEF ClobberStep, QueueType
  <2> QED
    BY <2>2, <2>3, <2>4, GrowsReflexive DEF ReleaseGood, TagsStay, MajorStep
<1>5. CASE UploadAsset(i)
  <2>1. PICK a \in runs[i].left :
          /\ assets' = [assets EXCEPT ![runs[i].version][a] = i]
          /\ runs' = [runs EXCEPT ![i].left = @ \ {a}, ![i].pc = IF runs[i].left = {a} THEN "major" ELSE @]
    BY <1>5 DEF UploadAsset
  <2>2. runs[i].pc = "upload" /\ UNCHANGED <<tags, release, major>>
    BY <1>5 DEF UploadAsset, At
  <2> DEFINE r == [runs[i] EXCEPT !.left = @ \ {a}, !.pc = IF runs[i].left = {a} THEN "major" ELSE @]
  <2>3. /\ r \in Run /\ SameRun(runs[i], r) /\ r.left = runs[i].left \ {a}
        /\ r.pc = IF runs[i].left = {a} THEN "major" ELSE "upload"
    BY <1>1, <2>2 DEF Run, SameRun
  <2>4. runs' = [runs EXCEPT ![i] = r]
    BY <1>1, <2>1 DEF QueueType
  <2> HIDE DEF r
  <2>5. Good(runs', tags, release, assets')
    <3>1. Good([runs EXCEPT ![i] = r], tags, release, [assets EXCEPT ![runs[i].version][a] = i])
      BY <1>1, <2>2, <2>3, UploadGood
    <3> QED
      BY <2>1, <2>4, <3>1
  <2>6. Grows(runs, runs')
    BY <1>1, <2>3, <2>4 DEF Grows, SameRun, QueueType
  <2>7. runs[i].sha = tags[runs[i].version]
    BY <1>1, <2>2 DEF RunOK, RunOfTag, OfTag
  <2>8. ClobberStep
    BY <1>1, <2>1, <2>7 DEF ClobberStep, QueueType
  <2> QED
    BY <2>2, <2>5, <2>6, <2>8 DEF ReleaseGood, TagsStay, MajorStep
<1>6. CASE CreateRelease(i)
  <2> DEFINE v == runs[i].version
  <2>1. runs[i].pc = "create" /\ Running(runs, i) /\ runs[i].pc \notin Ended /\ UNCHANGED major
    BY <1>6 DEF CreateRelease, At, Ended
  <2>2. CASE release[v] # "none"
    <3>1. Goto(i, "failed") /\ UNCHANGED <<tags, release, assets>>
      BY <1>6, <2>2 DEF CreateRelease
    <3>2. Good(runs, tags, release, assets)' /\ Grows(runs, runs') /\ TagsStay
      BY <2>1, <3>1, GotoGood
    <3> QED
      BY <2>1, <3>1, <3>2 DEF ReleaseGood, ClobberStep, MajorStep
  <2>3. CASE release[v] = "none"
    <3>1. /\ release' = [release EXCEPT ![v] = "stable"]
          /\ assets' = [assets EXCEPT ![v] = [a \in Asset |-> i]]
          /\ tags' = [tags EXCEPT ![v] = IF @ = None THEN Tip[Default] ELSE @]
          /\ runs' = [runs EXCEPT ![i].pc = "major"]
      BY <1>6, <2>3 DEF CreateRelease, Goto
    <3> DEFINE r == [runs[i] EXCEPT !.pc = "major"]
    <3>2. r \in Run /\ SameRun(runs[i], r) /\ r.pc = "major" /\ r.left = runs[i].left
      BY <1>1 DEF Run, SameRun
    <3>3. runs[i].left = {}
      BY <1>1, <2>1 DEF RunOK
    <3>4. runs' = [runs EXCEPT ![i] = r]
      BY <3>1
    <3> HIDE DEF r
    <3>5. Tip[Default] \in Commit
      BY TipAssumption
    <3>6. Good(runs', tags', release', assets')
      <4>1. Creates(runs[i].version, i, tags, release, assets, tags', release', assets')
        BY <1>1, <3>1, <3>5, NoneAssumption DEF QueueType, Creates
      <4>2. QueueType(runs, tags', release', assets')
        BY <1>1, <3>1, <3>5 DEF QueueType
      <4>3. r.left = {} /\ r.pc = "major" /\ r \in Run /\ SameRun(runs[i], r)
        BY <3>2, <3>3
      <4>4. Good([runs EXCEPT ![i] = r], tags', release', assets')
        BY <1>1, <2>1, <2>3, <4>1, <4>2, <4>3, CreateGood
      <4> QED
        BY <3>4, <4>4
    <3>7. Grows(runs, runs')
      BY <1>1, <3>2, <3>4 DEF Grows, SameRun, QueueType
    <3>8. TagsStay /\ ClobberStep
      BY <1>1, <2>3, <3>1 DEF TagsStay, ClobberStep, QueueType
    <3> QED
      BY <2>1, <3>6, <3>7, <3>8 DEF ReleaseGood, MajorStep
  <2> QED
    BY <2>2, <2>3
<1>7. CASE UpdateMajor(i)
  <2>1. /\ runs[i].pc = "major" /\ Running(runs, i) /\ runs[i].pc \notin Ended
        /\ UNCHANGED <<tags, release, assets>>
    BY <1>7 DEF UpdateMajor, At, Ended
  <2>2. PICK p \in {"done", "failed"} : Goto(i, p)
    BY <1>7 DEF UpdateMajor
  <2>3. Good(runs, tags, release, assets)' /\ Grows(runs, runs') /\ TagsStay
    BY <2>1, <2>2, GotoGood
  <2>4. major' # major => OfName(runs[i]) /\ major' = runs[i].sha
    BY <1>7 DEF UpdateMajor
  <2>5. OfName(runs[i]) => runs[i].version \in Stable /\ Complete(runs[i].version, i)
    BY <1>1, <2>1 DEF RunOK, Active, Complete
  <2>6. OfName(runs[i]) => \/ tags[runs[i].version] = runs[i].sha
                           \/ /\ runs[i].event = "workflow_dispatch"
                              /\ runs[i].refType = "branch" /\ runs[i].ref = runs[i].version
    <3>1. runs[i].refType \in {"tag", "branch"}
      BY <1>1 DEF Run, RefType
    <3> QED
      BY <1>1, <3>1 DEF RunOK, RunOfTag, OfTag, OfName
  <2>7. MajorStep
    BY <2>4, <2>5, <2>6 DEF MajorStep
  <2>8. major' \in Commit \cup {None}
    BY <1>1, <2>4 DEF ReleaseGood
  <2> QED
    BY <2>1, <2>3, <2>7, <2>8 DEF ReleaseGood, ClobberStep
<1>8. CASE Fail(i)
  <2>1. /\ runs[i].pc \notin Ended /\ Running(runs, i) /\ Goto(i, "failed")
        /\ UNCHANGED <<tags, release, assets, major>>
    BY <1>8 DEF Fail
  <2>2. Good(runs, tags, release, assets)' /\ Grows(runs, runs') /\ TagsStay
    BY <2>1, GotoGood
  <2> QED
    BY <2>1, <2>2 DEF ReleaseGood, ClobberStep, MajorStep
<1> QED
  BY <1>2, <1>3, <1>4, <1>5, <1>6, <1>7, <1>8 DEF RunStep
-----------------------------------------------------------------------------
(* The client. *)

(* The archive it holds is a build of the version it asked for. *)
Asked(q, T, c) ==
  LET r == q[c.archive]
  IN  /\ c.archive \in DOMAIN q
      /\ r.version = c.version
      /\ T[c.version] # None
      /\ r.sha = T[c.version] \/ (r.event = "workflow_dispatch" /\ ~OfTag(r))

ClientOK ==
  /\ client \in Client
  /\ client.pc \in {"checksums", "verify", "installed"} => Asked(runs, tags, client)
  /\ client.pc = "installed" => client.checksums = client.archive

(* What the client holds stays what it is while the workflow goes on. *)
LEMMA ClientStays ==
  ASSUME ClientOK, Grows(runs, runs'), TagsStay, UNCHANGED client
  PROVE  ClientOK'
<1>1. client.version \in Version
  BY DEF ClientOK, Client
<1>2. Asked(runs, tags, client) => Asked(runs', tags', client)
  BY <1>1 DEF Asked, Grows, SameRun, TagsStay, OfTag
<1> QED
  BY <1>2 DEF ClientOK

(* The steps of the installation. *)
LEMMA InstallGood ==
  ASSUME ReleaseGood, ClientOK, Install
  PROVE  ClientOK' /\ UNCHANGED <<tags, release, assets, major, runs>>
<1>1. UNCHANGED <<tags, release, assets, major, runs>>
  BY DEF Install, ResolveVersion, DownloadArchive, DownloadChecksums, Verify, BuildSource, Fallback
<1>2. client \in Client /\ client.version \in Version
  BY DEF ClientOK, Client
<1>3. QueueType(runs, tags, release, assets)
  BY DEF ReleaseGood, Good
<1>4. ASSUME NEW pc \in {"fallback", "source", "failed"}, To(pc)
      PROVE  ClientOK'
  BY <1>2, <1>4 DEF To, ClientOK, Client
<1>5. CASE ResolveVersion
  <2>1. PICK v \in Version : client' = [client EXCEPT !.version = v, !.pc = "archive"]
    BY <1>5 DEF ResolveVersion
  <2> QED
    BY <1>1, <1>2, <2>1 DEF ClientOK, Client
<1>6. CASE DownloadArchive
  <2> DEFINE found == assets[client.version]["archive"]
  <2>1. found \in Nat
    BY <1>2, <1>3 DEF QueueType, Asset
  <2> HIDE DEF found
  <2>2. CASE found # 0 /\ client' = [client EXCEPT !.archive = found, !.pc = "checksums"]
    <3>1. client' \in Client /\ client'.archive = found /\ client'.version = client.version /\ client'.pc = "checksums"
      BY <1>2, <2>1, <2>2 DEF Client
    <3>2. AssetOK(runs, client.version, "archive", tags, release, assets)
      BY <1>2 DEF ReleaseGood, Good, Asset
    <3>3. tags[client.version] # None \/ release[client.version] = "none"
      BY <1>2 DEF ReleaseGood, Good
    <3>4. Asked(runs, tags, client')
      BY <2>2, <3>1, <3>2, <3>3 DEF AssetOK, Asked, found
    <3> QED
      BY <1>1, <3>1, <3>4 DEF ClientOK
  <2> QED
    BY <1>1, <1>4, <1>6, <2>2 DEF DownloadArchive, Fallback, found
<1>7. CASE DownloadChecksums
  <2> DEFINE found == assets[client.version]["checksums"]
  <2>1. found \in Nat
    BY <1>2, <1>3 DEF QueueType, Asset
  <2> HIDE DEF found
  <2>2. CASE client' = [client EXCEPT !.checksums = found, !.pc = "verify"]
    <3>1. /\ client' \in Client /\ client'.archive = client.archive /\ client'.version = client.version
          /\ client'.pc = "verify"
      BY <1>2, <2>1, <2>2 DEF Client
    <3>2. Asked(runs, tags, client)
      BY <1>7 DEF DownloadChecksums, ClientOK
    <3> QED
      BY <1>1, <3>1, <3>2 DEF ClientOK, Asked
  <2> QED
    BY <1>1, <1>4, <1>7, <2>2 DEF DownloadChecksums, Fallback, found
<1>8. CASE Verify
  <2>1. CASE client.archive = client.checksums
    <3>1. To("installed") /\ client.pc = "verify"
      BY <1>8, <2>1 DEF Verify
    <3>2. /\ client' \in Client /\ client'.archive = client.archive /\ client'.version = client.version
          /\ client'.pc = "installed" /\ client'.checksums = client.checksums
      BY <1>2, <3>1 DEF To, Client
    <3>3. Asked(runs, tags, client)
      BY <3>1 DEF ClientOK
    <3> QED
      BY <1>1, <2>1, <3>2, <3>3 DEF ClientOK, Asked
  <2>2. CASE client.archive # client.checksums
    BY <1>1, <1>4, <1>8, <2>2 DEF Verify
  <2> QED
    BY <2>1, <2>2
<1>9. CASE BuildSource
  BY <1>1, <1>4, <1>9 DEF BuildSource
<1> QED
  BY <1>1, <1>5, <1>6, <1>7, <1>8, <1>9 DEF Install

-----------------------------------------------------------------------------
(* The theorems. *)

Inv ==
  /\ followed \in {"release", "install", "reports"}
  /\ ReleaseGood
  /\ ClientOK
  /\ WritebackInv

(* Delivery starts with nothing published. *)
LEMMA Init_Inv == Init => Inv
<1> SUFFICES ASSUME Init PROVE Inv
  OBVIOUS
<1>1. WritebackInv
  BY WritebackInit_Inv DEF Init
<1>2. runs \in Seq(Run) /\ DOMAIN runs = {}
  BY DEF Init, ReleaseInit
<1>3. QueueType(runs, tags, release, assets)
  BY <1>2 DEF Init, ReleaseInit, QueueType
<1>4. \A v \in Version, a \in Asset : assets[v][a] = 0
  BY DEF Init, ReleaseInit
<1>5. ReleaseGood
  BY <1>2, <1>3, <1>4 DEF ReleaseGood, Good, AssetOK, BuiltOK, Init, ReleaseInit
<1>6. (CHOOSE v \in Version : TRUE) \in Version
  BY StableAssumption
<1>7. client \in Client /\ client.pc = "idle"
  BY <1>6 DEF Init, ReleaseInit, NoClient, Client
<1>8. ClientOK
  BY <1>7 DEF ClientOK
<1> QED
  BY <1>1, <1>5, <1>8 DEF Inv, Init

TipStep == tip' # tip => commits'[tip'].parent = tip

(* Every step keeps the invariant, and what the action properties say. *)
LEMMA Next_Inv == Inv /\ [Next]_vars => Inv' /\ ClobberStep /\ MajorStep /\ TipStep
<1> SUFFICES ASSUME Inv, [Next]_vars PROVE Inv' /\ ClobberStep /\ MajorStep /\ TipStep
  OBVIOUS
<1>1. ReleaseGood /\ ClientOK /\ WritebackInv
  BY DEF Inv
<1>2. ASSUME UNCHANGED <<tags, release, assets, major, runs>>
      PROVE  ReleaseGood' /\ ClobberStep /\ MajorStep
  BY <1>1, <1>2 DEF ReleaseGood, ClobberStep, MajorStep
<1>3. ASSUME UNCHANGED writebackVars PROVE WritebackInv' /\ TipStep
  BY <1>1, <1>3 DEF writebackVars, WritebackInv, WritebackType, PushesOnSource, ReportOfParent,
                    SkippedMeansCovered, TipStep
<1>4. CASE Trigger /\ UNCHANGED <<followed, writebackVars>>
  <2>1. PushTag \/ PublishRelease \/ Dispatch
    BY <1>4 DEF Trigger
  <2>2. ReleaseGood' /\ Grows(runs, runs') /\ TagsStay
    BY <1>1, <2>1, TriggerGood
  <2>3. UNCHANGED <<assets, major, client>>
    BY <2>1 DEF PushTag, PublishRelease, Dispatch
  <2>4. ClientOK'
    BY <1>1, <2>2, <2>3, ClientStays
  <2> QED
    BY <1>3, <1>4, <2>2, <2>3, <2>4 DEF Inv, ClobberStep, MajorStep
<1>5. CASE Install /\ UNCHANGED <<followed, writebackVars>>
  BY <1>1, <1>2, <1>3, <1>5, InstallGood DEF Inv
<1>6. ASSUME NEW i \in DOMAIN runs, RunStep(i) \/ Fail(i), UNCHANGED <<followed, writebackVars>>
      PROVE  Inv' /\ ClobberStep /\ MajorStep /\ TipStep
  <2>1. ReleaseGood' /\ Grows(runs, runs') /\ TagsStay /\ ClobberStep /\ MajorStep
    BY <1>1, <1>6, RunGood
  <2>2. UNCHANGED client
    BY <1>6 DEF RunStep, DetermineVersion, View, DeleteAsset, UploadAsset, CreateRelease, UpdateMajor, Fail
  <2>3. ClientOK'
    BY <1>1, <2>1, <2>2, ClientStays
  <2> QED
    BY <1>3, <1>6, <2>1, <2>3 DEF Inv
<1>7. CASE WritebackNext /\ UNCHANGED <<followed, releaseVars>>
  <2>1. WritebackInv' /\ TipStep
    BY <1>1, <1>7, WritebackNext_Inv DEF TipStep
  <2>2. UNCHANGED <<tags, release, assets, major, runs>> /\ UNCHANGED client /\ TagsStay
    BY <1>7 DEF releaseVars, TagsStay
  <2>3. ClientOK'
    BY <1>1, <2>2, ClientStays, GrowsReflexive
  <2> QED
    BY <1>2, <1>7, <2>1, <2>2, <2>3 DEF Inv
<1>8. CASE UNCHANGED vars
  <2>1. UNCHANGED <<tags, release, assets, major, runs>> /\ UNCHANGED client /\ TagsStay /\ UNCHANGED followed
        /\ UNCHANGED writebackVars
    BY <1>8 DEF vars, releaseVars, TagsStay
  <2>2. ClientOK'
    BY <1>1, <2>1, ClientStays, GrowsReflexive
  <2> QED
    BY <1>2, <1>3, <2>1, <2>2 DEF Inv
<1> QED
  BY <1>4, <1>5, <1>6, <1>7, <1>8 DEF Next, Step

(* The inductive invariant, always. *)
LEMMA Spec_Inv == Spec => []Inv
<1>1. Inv /\ [Next]_vars => Inv'
  BY Next_Inv
<1> QED
  BY <1>1, Init_Inv, PTL DEF Spec

(* release.yml, lines 34-39 and 131-166: the queue of a version lets no other
   run upload between the uploads of one, so that once a run is done and none
   is stopped half way, all the assets of the version are of one build. *)
THEOREM AssetsAreOfOneBuild == Spec => []AssetsOfOneBuild
<1>1. Inv => AssetsOfOneBuild
  BY DEF Inv, ReleaseGood, Good, BuiltOK, AssetsOfOneBuild, Complete
<1> QED
  BY <1>1, Spec_Inv, PTL

(* install-release.sh, lines 94-110: comparing checksums is enough for what is
   installed to be one build of the version asked for, whatever the workflow
   does to the assets in between. *)
THEOREM WhatIsInstalled == Spec => []InstalledIsOneBuild
<1>1. Inv => InstalledIsOneBuild
  BY DEF Inv, ClientOK, Asked, InstalledIsOneBuild
<1> QED
  BY <1>1, Spec_Inv, PTL

(* release.yml, lines 131-166: the assets of a release that exists are replaced
   only by builds of its own tag. *)
THEOREM OnlyTagsClobber == Spec => ClobberedByTagOnly
<1>1. Inv /\ [Next]_vars => [ClobberStep]_vars
  BY Next_Inv
<1> QED
  BY <1>1, Spec_Inv, PTL DEF Spec, ClobberedByTagOnly, ClobberStep

(* release.yml, lines 173-184: the major tag moves only for a stable version
   whose assets are all there, to the commit they were built from, which is
   that of the version's tag unless a branch has the name of the version. *)
THEOREM MajorFollows == Spec => MajorFollowsRelease
<1>1. Inv /\ [Next]_vars => [MajorStep]_vars
  BY Next_Inv
<1> QED
  BY <1>1, Spec_Inv, PTL DEF Spec, MajorFollowsRelease, MajorStep

(* go-quality-reports.yml, lines 220-254: the check of the branch's head, the
   commit and the push, which is refused when the head has moved, never lose
   what others pushed. *)
THEOREM PushesLoseNothing == Spec => NothingLost
<1>1. Inv /\ [Next]_vars => [TipStep]_vars
  BY Next_Inv
<1> QED
  BY <1>1, Spec_Inv, PTL DEF Spec, NothingLost, TipStep

(* go-quality-reports.yml, lines 220-254: the reports that are pushed are
   those of the source they are committed on. *)
THEOREM ReportsOfTheirParent == Spec => []ReportOfParent
<1>1. Inv => ReportOfParent
  BY DEF Inv, WritebackInv
<1> QED
  BY <1>1, Spec_Inv, PTL

(* go-quality-reports.yml, lines 57-115: the gate skips the tests only of a
   source that a tag run has tested. *)
THEOREM SkippedAreCovered == Spec => []SkippedMeansCovered
<1>1. Inv => SkippedMeansCovered
  BY DEF Inv, WritebackInv
<1> QED
  BY <1>1, Spec_Inv, PTL
=============================================================================
