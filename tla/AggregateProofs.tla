-------------------------- MODULE AggregateProofs --------------------------
(***************************************************************************)
(* What one event does to an aggregate of Aggregates, and what ParseResult *)
(* makes of the aggregates of all packages.                                *)
(***************************************************************************)
EXTENDS Aggregates, FoldLemmas

(* The fields of an aggregate, as facts the provers can use. *)
LEMMA AggregateFields ==
  ASSUME NEW a \in Aggregate
  PROVE  /\ DOMAIN a.tests \subseteq Top
         /\ a.tests \in [DOMAIN a.tests -> BOOLEAN]
         /\ a.seen \subseteq Top /\ a.skipped \subseteq Top
         /\ a.failOrder \in Seq(Top) /\ a.failRecorded \subseteq Top
         /\ a.failOutput \in [Top -> Seq(Int)]
         /\ a.pkgFailed \in BOOLEAN /\ a.pkgCompile \in BOOLEAN
         /\ a.sawAnyTest \in BOOLEAN
  BY DEF Aggregate

(* topLevel: the first part of a test name is a top-level test. *)
LEMMA NamesOfTests ==
  ASSUME NEW n \in Test
  PROVE  topLevel(n) \in Top
  BY DEF Test, topLevel

(* Assignment to a Go map: its domain, its other entries and the new one. *)
LEMMA PutType ==
  ASSUME NEW D, NEW R, NEW m \in [D -> R], NEW k, NEW v \in R
  PROVE  /\ Put(m, k, v) \in [D \cup {k} -> R]
         /\ DOMAIN Put(m, k, v) = D \cup {k}
         /\ \A x \in D \cup {k} : Put(m, k, v)[x] = IF x = k THEN v ELSE m[x]
  BY DEF Put

(* The text kept of a test is a sequence within the bound. *)
LEMMA AppendBoundedType ==
  ASSUME NEW b \in Seq(Int), NEW s \in Seq(Int)
  PROVE  /\ appendBounded(b, s) \in Seq(Int)
         /\ Len(b) <= maxFailureOutputBytes =>
              Len(appendBounded(b, s)) <= maxFailureOutputBytes
  <1> USE ParserAssumption
  <1> DEFINE r == maxFailureOutputBytes - Len(b)
  <1>1. CASE Len(b) >= maxFailureOutputBytes
    BY <1>1 DEF appendBounded
  <1>2. CASE Len(b) < maxFailureOutputBytes /\ Len(s) > r
    <2>1. /\ SubSeq(s, 1, r) \in Seq(Int)
          /\ Len(SubSeq(s, 1, r)) = r
      <3>1. Len(b) \in Nat /\ Len(s) \in Nat /\ r \in Nat /\ r > 0
        BY <1>2, LenProperties
      <3>2. \A i \in 1..r : s[i] \in Int
        BY <3>1, <1>2, ElementOfSeq
      <3> QED BY <3>1, <3>2, <1>2, SubSeqProperties
    <2>2. /\ b \o SubSeq(s, 1, r) \in Seq(Int)
          /\ Len(b \o SubSeq(s, 1, r)) = Len(b) + r
      BY <2>1, ConcatProperties
    <2> QED BY <2>2, <1>2, LenProperties DEF appendBounded
  <1>3. CASE Len(b) < maxFailureOutputBytes /\ ~(Len(s) > r)
    <2>1. b \o s \in Seq(Int) /\ Len(b \o s) = Len(b) + Len(s)
      BY ConcatProperties
    <2> QED BY <2>1, <1>3, LenProperties DEF appendBounded
  <1> QED BY <1>1, <1>2, <1>3, LenProperties

-----------------------------------------------------------------------------
(* One event applied to one aggregate. *)

(* The fields of an event that names a test or a package. *)
LEMMA EventFields ==
  ASSUME NEW ev \in event
  PROVE  /\ ev.Test # <<>> => ev.Test \in Test /\ topLevel(ev.Test) \in Top
         /\ ev.Output.text \in Seq(Int)
         /\ ev.Package # NoPkg => ev.Package \in Pkg
  BY ParserAssumption, NamesOfTests DEF event

(* newPkgAgg: an empty aggregate is one, and has nothing to be wrong about. *)
LEMMA NewAggregate ==
  /\ newPkgAgg \in Aggregate
  /\ Bookkept(newPkgAgg)
  /\ \A t \in Top : Len(newPkgAgg.failOutput[t]) = 0
  /\ \A t \in Top : VerdictOf(newPkgAgg, t) = "none"
  <1>1. [t \in {} |-> FALSE] \in [{} -> BOOLEAN]
    OBVIOUS
  <1>2. newPkgAgg \in Aggregate
    BY <1>1 DEF newPkgAgg, Aggregate
  <1>3. Bookkept(newPkgAgg)
    BY DEF newPkgAgg, Bookkept, failedOf
  <1> QED BY <1>2, <1>3 DEF newPkgAgg, VerdictOf, Failed

(* applyPackageEvent touches nothing of what is kept of tests. *)
LEMMA PackageEventType ==
  ASSUME NEW a \in Aggregate, NEW ev \in event
  PROVE  /\ applyPackageEvent(a, ev) \in Aggregate
         /\ applyPackageEvent(a, ev).tests = a.tests
         /\ applyPackageEvent(a, ev).skipped = a.skipped
         /\ applyPackageEvent(a, ev).failOrder = a.failOrder
         /\ applyPackageEvent(a, ev).failRecorded = a.failRecorded
         /\ applyPackageEvent(a, ev).failOutput = a.failOutput
  BY DEF applyPackageEvent, Aggregate, isCompileFailure, compileHint

(* applyTestEvent, case "run", yields an aggregate. *)
LEMMA RunType ==
  ASSUME NEW a \in Aggregate, NEW t \in Top
  PROVE  onRun(a, t) \in Aggregate
  BY DEF onRun, Aggregate

(* p.tests[t] = v: what it makes of the map of tests. *)
LEMMA TestsWith ==
  ASSUME NEW a \in Aggregate, NEW t \in Top, NEW v \in BOOLEAN
  PROVE  LET m == Put(a.tests, t, v)
         IN  /\ m \in UNION {[D -> BOOLEAN] : D \in SUBSET Top}
             /\ DOMAIN m = DOMAIN a.tests \cup {t}
             /\ m[t] = v
             /\ \A x \in DOMAIN a.tests : x # t => m[x] = a.tests[x]
  <1> DEFINE m == Put(a.tests, t, v)
  <1>1. a.tests \in [DOMAIN a.tests -> BOOLEAN] /\ DOMAIN a.tests \subseteq Top
    BY AggregateFields
  <1>2. m \in [DOMAIN a.tests \cup {t} -> BOOLEAN]
    BY <1>1, PutType
  <1>3. DOMAIN a.tests \cup {t} \in SUBSET Top
    BY <1>1
  <1>4. m[t] = v /\ \A x \in DOMAIN a.tests : x # t => m[x] = a.tests[x]
    BY DEF Put
  <1> QED BY <1>2, <1>3, <1>4

(* applyTestEvent, case "pass", yields an aggregate. *)
LEMMA PassType ==
  ASSUME NEW a \in Aggregate, NEW n \in Test
  PROVE  onPass(a, n) \in Aggregate
  <1> DEFINE m == Put(a.tests, topLevel(n), FALSE)
  <1>1. m \in UNION {[D -> BOOLEAN] : D \in SUBSET Top} /\ topLevel(n) \in Top
    BY TestsWith, NamesOfTests
  <1> HIDE DEF m
  <1> QED BY <1>1 DEF onPass, Aggregate, m

(* applyTestEvent, case "fail", yields an aggregate. *)
LEMMA FailType ==
  ASSUME NEW a \in Aggregate, NEW t \in Top
  PROVE  onFail(a, t) \in Aggregate
  <1>1. Put(a.tests, t, TRUE) \in UNION {[D -> BOOLEAN] : D \in SUBSET Top}
    BY TestsWith
  <1>2. Append(a.failOrder, t) \in Seq(Top)
    BY AggregateFields, AppendProperties
  <1> QED BY <1>1, <1>2 DEF onFail, Aggregate

(* applyTestEvent, case "skip", yields an aggregate. *)
LEMMA SkipType ==
  ASSUME NEW a \in Aggregate, NEW n \in Test
  PROVE  onSkip(a, n) \in Aggregate
  BY NamesOfTests DEF onSkip, Aggregate

(* captureOutput yields an aggregate. *)
LEMMA CaptureType ==
  ASSUME NEW a \in Aggregate, NEW t \in Top, NEW o, o.text \in Seq(Int)
  PROVE  captureOutput(a, t, o) \in Aggregate
  <1>1. appendBounded(a.failOutput[t], o.text) \in Seq(Int)
    BY AggregateFields, AppendBoundedType
  <1> QED BY <1>1 DEF captureOutput, Aggregate

(* An event folded into an aggregate yields an aggregate. *)
LEMMA ApplyType ==
  ASSUME NEW a \in Aggregate, NEW ev \in event
  PROVE  applyEvent(a, ev) \in Aggregate
  <1>1. CASE ev.Test = <<>>
    BY <1>1, PackageEventType DEF applyEvent
  <1>2. CASE ev.Test # <<>>
    BY <1>2, EventFields, RunType, PassType, FailType, SkipType, CaptureType
       DEF applyEvent, applyTestEvent
  <1> QED BY <1>1, <1>2

-----------------------------------------------------------------------------
(* Bookkeeping of failures. *)

(* The books are right as long as their three parts are left alone. *)
LEMMA SameBooks ==
  ASSUME NEW a, NEW b, Bookkept(a), b.tests = a.tests,
         b.failRecorded = a.failRecorded, b.failOrder = a.failOrder
  PROVE  Bookkept(b)
  BY DEF Bookkept, failedOf

(* What a failure does to the three pieces of state. *)
LEMMA FailFields ==
  ASSUME NEW a \in Aggregate, NEW t \in Top
  PROVE  LET first == ~Failed(a, t) /\ t \notin a.failRecorded
             b     == onFail(a, t)
         IN  /\ b.tests = Put(a.tests, t, TRUE)
             /\ b.skipped = a.skipped
             /\ first => /\ b.failRecorded = a.failRecorded \cup {t}
                         /\ b.failOrder = Append(a.failOrder, t)
             /\ ~first => /\ b.failRecorded = a.failRecorded
                          /\ b.failOrder = a.failOrder
  BY DEF onFail, Aggregate

(* A failure keeps the books: the first one of a test is entered in all three
   parts, a later one in none. *)
LEMMA FailBookkept ==
  ASSUME NEW a \in Aggregate, Bookkept(a), NEW t \in Top
  PROVE  Bookkept(onFail(a, t))
  <1> DEFINE b == onFail(a, t)
             s == a.failOrder
             m == Put(a.tests, t, TRUE)
  <1>1. b.tests = m
    BY FailFields
  <1>2. /\ DOMAIN m = DOMAIN a.tests \cup {t}
        /\ m[t] = TRUE
        /\ \A x \in DOMAIN a.tests : x # t => m[x] = a.tests[x]
    BY TestsWith
  <1>3. failedOf(b) = failedOf(a) \cup {t}
    <2> HIDE DEF m, b
    <2> QED BY <1>1, <1>2 DEF failedOf
  <1>4. Failed(a, t) <=> t \in a.failRecorded
    BY DEF Bookkept, failedOf, Failed
  <1>5. CASE t \in a.failRecorded
    <2>1. b.failRecorded = a.failRecorded /\ b.failOrder = s
      BY <1>4, <1>5, FailFields
    <2>2. failedOf(b) = failedOf(a)
      BY <1>3, <1>5 DEF Bookkept
    <2>3. Bookkept(b)
      <3> HIDE DEF b
      <3> QED BY <2>1, <2>2 DEF Bookkept
    <2> QED BY <2>3
  <1>6. CASE t \notin a.failRecorded
    <2>1. b.failRecorded = a.failRecorded \cup {t} /\ b.failOrder = Append(s, t)
      BY <1>4, <1>6, FailFields
    <2>2. s \in Seq(Top)
      BY AggregateFields
    <2>3. /\ Len(s) \in Nat
          /\ Len(Append(s, t)) = Len(s) + 1
          /\ \A i \in 1..Len(s) : Append(s, t)[i] = s[i]
          /\ Append(s, t)[Len(s) + 1] = t
      BY <2>2, AppendProperties, LenProperties
    <2>4. \A i \in 1..Len(s) : s[i] # t
      BY <1>6 DEF Bookkept
    <2>5. {Append(s, t)[i] : i \in 1..(Len(s) + 1)} = {s[i] : i \in 1..Len(s)} \cup {t}
      BY <2>3
    <2>6. \A i, j \in 1..(Len(s) + 1) : Append(s, t)[i] = Append(s, t)[j] => i = j
      BY <2>3, <2>4 DEF Bookkept
    <2>7. failedOf(b) = b.failRecorded
      BY <1>3, <2>1 DEF Bookkept
    <2>8. {s[i] : i \in 1..Len(s)} = a.failRecorded
      BY DEF Bookkept
    <2>9. Bookkept(b)
      <3> HIDE DEF b
      <3> QED BY <2>1, <2>3, <2>5, <2>6, <2>7, <2>8 DEF Bookkept
    <2> QED BY <2>9
  <1> QED BY <1>5, <1>6

(* A pass keeps the books: it never overwrites a failure. *)
LEMMA PassBookkept ==
  ASSUME NEW a \in Aggregate, Bookkept(a), NEW n \in Test
  PROVE  Bookkept(onPass(a, n))
  <1> DEFINE t == topLevel(n)
             b == onPass(a, n)
             m == Put(a.tests, t, FALSE)
  <1>1. /\ b.failRecorded = a.failRecorded /\ b.failOrder = a.failOrder
        /\ b.tests = a.tests \/ (t \notin DOMAIN a.tests /\ b.tests = m)
    BY DEF onPass, Aggregate
  <1>2. CASE b.tests = a.tests
    BY <1>1, <1>2, SameBooks
  <1>3. CASE t \notin DOMAIN a.tests /\ b.tests = m
    <2>1. /\ DOMAIN m = DOMAIN a.tests \cup {t}
          /\ m[t] = FALSE
          /\ \A x \in DOMAIN a.tests : x # t => m[x] = a.tests[x]
      BY NamesOfTests, TestsWith
    <2>2. failedOf(b) = failedOf(a)
      <3> HIDE DEF m, b, t
      <3> QED BY <1>3, <2>1 DEF failedOf
    <2>3. Bookkept(b)
      <3> HIDE DEF b
      <3> QED BY <1>1, <2>2 DEF Bookkept
    <2> QED BY <2>3
  <1> QED BY <1>1, <1>2, <1>3

(* Every event keeps the books. *)
LEMMA ApplyBookkept ==
  ASSUME NEW a \in Aggregate, Bookkept(a), NEW ev \in event
  PROVE  Bookkept(applyEvent(a, ev))
  <1>1. CASE ev.Test = <<>>
    BY <1>1, PackageEventType, SameBooks DEF applyEvent
  <1>2. CASE ev.Test # <<>>
    <2> DEFINE t == topLevel(ev.Test)
    <2>1. Bookkept(onRun(a, t))
      BY SameBooks DEF onRun, Aggregate
    <2>2. Bookkept(onPass(a, ev.Test)) /\ Bookkept(onFail(a, t))
      BY <1>2, EventFields, PassBookkept, FailBookkept
    <2>3. Bookkept(onSkip(a, ev.Test))
      BY SameBooks DEF onSkip, Aggregate
    <2>4. Bookkept(captureOutput(a, t, ev.Output))
      BY SameBooks DEF captureOutput, Aggregate
    <2> QED BY <1>2, <2>1, <2>2, <2>3, <2>4 DEF applyEvent, applyTestEvent
  <1> QED BY <1>1, <1>2

-----------------------------------------------------------------------------
(* The bound on output and the compile verdict. *)

Bounded(a) == \A t \in Top : Len(a.failOutput[t]) <= maxFailureOutputBytes

(* Every event keeps the text of every test within the bound. *)
LEMMA ApplyBounded ==
  ASSUME NEW a \in Aggregate, Bounded(a), NEW ev \in event
  PROVE  Bounded(applyEvent(a, ev))
  <1> DEFINE t == topLevel(ev.Test)
             b == applyEvent(a, ev)
  <1>1. CASE ev.Test # <<>> /\ ev.Action = "output"
    <2>1. b.failOutput = [a.failOutput EXCEPT ![t] = appendBounded(@, ev.Output.text)]
      BY <1>1 DEF applyEvent, applyTestEvent, captureOutput, Aggregate
    <2>2. Len(appendBounded(a.failOutput[t], ev.Output.text)) <= maxFailureOutputBytes
      BY <1>1, EventFields, AggregateFields, AppendBoundedType DEF Bounded
    <2> QED BY <2>1, <2>2, AggregateFields DEF Bounded
  <1>2. CASE ~(ev.Test # <<>> /\ ev.Action = "output")
    <2>1. b.failOutput = a.failOutput
      BY <1>2, PackageEventType DEF applyEvent, applyTestEvent, onRun, onPass, onFail,
                                    onSkip, Aggregate
    <2> QED BY <2>1 DEF Bounded
  <1> QED BY <1>1, <1>2

(* No event changes the compile verdict of a package that has reported a test,
   and none takes one back. *)
LEMMA ApplyCompile ==
  ASSUME NEW a \in Aggregate, NEW ev \in event
  PROVE  /\ a.sawAnyTest => applyEvent(a, ev).pkgCompile = a.pkgCompile
         /\ a.pkgCompile => applyEvent(a, ev).pkgCompile
  BY DEF applyEvent, applyPackageEvent, applyTestEvent, onRun, onPass, onFail, onSkip,
         captureOutput, compileHint, Aggregate

-----------------------------------------------------------------------------
(* The verdict on a test. *)

(* One event changes the verdict of at most one test of its package, and only
   as TestTally allows. *)
LEMMA ApplyVerdict ==
  ASSUME NEW a \in Aggregate, NEW ev \in event
  PROVE  LET b == applyEvent(a, ev)
             u == topLevel(ev.Test)
         IN  \/ \A t \in Top : VerdictOf(b, t) = VerdictOf(a, t)
             \/ /\ u \in Top
                /\ \A t \in Top : t # u => VerdictOf(b, t) = VerdictOf(a, t)
                /\ \/ VerdictOf(b, u) = "failed"
                   \/ /\ VerdictOf(a, u) = "none"
                      /\ VerdictOf(b, u) \in {"passed", "skipped"}
  <1> DEFINE b == applyEvent(a, ev)
             u == topLevel(ev.Test)
  <1>1. ASSUME NEW c, c.tests = a.tests, c.skipped = a.skipped
        PROVE  \A t \in Top : VerdictOf(c, t) = VerdictOf(a, t)
    BY <1>1 DEF VerdictOf, Failed
  <1>2. CASE ev.Test = <<>>
    BY <1>1, <1>2, PackageEventType DEF applyEvent
  <1>3. CASE ev.Test # <<>> /\ ev.Action \notin {"pass", "fail", "skip"}
    <2>1. b.tests = a.tests /\ b.skipped = a.skipped
      BY <1>3 DEF applyEvent, applyTestEvent, onRun, captureOutput, Aggregate
    <2> QED BY <1>1, <2>1
  <1>4. CASE ev.Test # <<>> /\ ev.Action = "fail"
    <2> DEFINE m == Put(a.tests, u, TRUE)
    <2>1. u \in Top
      BY <1>4, EventFields
    <2>2. b.tests = m /\ b.skipped = a.skipped
      BY <1>4, <2>1, FailFields DEF applyEvent, applyTestEvent
    <2>3. /\ DOMAIN m = DOMAIN a.tests \cup {u}
          /\ m[u] = TRUE
          /\ \A x \in DOMAIN a.tests : x # u => m[x] = a.tests[x]
      BY <2>1, TestsWith
    <2> HIDE DEF b, u, m
    <2>4. VerdictOf(b, u) = "failed"
      BY <2>2, <2>3 DEF VerdictOf, Failed
    <2>5. \A t \in Top : t # u => VerdictOf(b, t) = VerdictOf(a, t)
      BY <2>2, <2>3 DEF VerdictOf, Failed
    <2> QED BY <2>1, <2>4, <2>5 DEF b, u
  <1>5. CASE ev.Test # <<>> /\ ev.Action = "pass"
    <2> DEFINE m == Put(a.tests, u, FALSE)
    <2>1. u \in Top
      BY <1>5, EventFields
    <2>2. /\ b.skipped = a.skipped
          /\ b.tests = a.tests \/ (u \notin DOMAIN a.tests /\ b.tests = m)
      BY <1>5 DEF applyEvent, applyTestEvent, onPass, Aggregate
    <2>3. /\ DOMAIN m = DOMAIN a.tests \cup {u}
          /\ m[u] = FALSE
          /\ \A x \in DOMAIN a.tests : x # u => m[x] = a.tests[x]
      BY <2>1, TestsWith
    <2>4. CASE b.tests = a.tests
      BY <1>1, <2>2, <2>4
    <2>5. CASE u \notin DOMAIN a.tests /\ b.tests = m
      <3> HIDE DEF b, u, m
      <3>1. \A t \in Top : t # u => VerdictOf(b, t) = VerdictOf(a, t)
        BY <2>2, <2>3, <2>5 DEF VerdictOf, Failed
      <3>2. CASE u \in a.skipped
        <4>1. VerdictOf(b, u) = VerdictOf(a, u)
          BY <2>2, <2>3, <2>5, <3>2 DEF VerdictOf, Failed
        <4> QED BY <3>1, <4>1 DEF b, u
      <3>3. CASE u \notin a.skipped
        <4>1. VerdictOf(a, u) = "none" /\ VerdictOf(b, u) = "passed"
          BY <2>2, <2>3, <2>5, <3>3 DEF VerdictOf, Failed
        <4> QED BY <2>1, <3>1, <4>1 DEF b, u
      <3> QED BY <3>2, <3>3
    <2> QED BY <2>2, <2>4, <2>5
  <1>6. CASE ev.Test # <<>> /\ ev.Action = "skip"
    <2>1. u \in Top
      BY <1>6, EventFields
    <2>2. /\ b.tests = a.tests
          /\ \/ b.skipped = a.skipped
             \/ u \notin DOMAIN a.tests /\ b.skipped = a.skipped \cup {u}
      BY <1>6 DEF applyEvent, applyTestEvent, onSkip, Aggregate
    <2>3. CASE b.skipped = a.skipped
      BY <1>1, <2>2, <2>3
    <2>4. CASE u \notin DOMAIN a.tests /\ b.skipped = a.skipped \cup {u}
      <3> HIDE DEF b, u
      <3>1. \A t \in Top : t # u => VerdictOf(b, t) = VerdictOf(a, t)
        BY <2>2, <2>4 DEF VerdictOf, Failed
      <3>2. VerdictOf(b, u) = "skipped" /\ VerdictOf(a, u) \in {"none", "skipped"}
        BY <2>2, <2>4 DEF VerdictOf, Failed
      <3> QED BY <2>1, <3>1, <3>2 DEF b, u
    <2> QED BY <2>2, <2>3, <2>4
  <1> QED BY <1>2, <1>3, <1>4, <1>5, <1>6

-----------------------------------------------------------------------------
(* One event and what an aggregate remembers of tests and of its package. *)

(* A failure of a package, or the text of a failed build. *)
Breaks(ev) ==
  /\ ev.Test = <<>>
  /\ \/ ev.Action = "fail"
     \/ ev.Action = "output" /\ "build failed" \in ev.Output.marks

(* One event and the two bits of an aggregate. *)
LEMMA ApplyBits ==
  ASSUME NEW a \in Aggregate, NEW ev \in event
  PROVE  LET b == applyEvent(a, ev)
         IN  /\ b.sawAnyTest <=> a.sawAnyTest \/ AboutTest(ev)
             /\ b.pkgCompile <=> a.pkgCompile \/ (~a.sawAnyTest /\ Breaks(ev))
  <1> DEFINE b == applyEvent(a, ev)
             Exact == /\ b.sawAnyTest <=> a.sawAnyTest \/ AboutTest(ev)
                      /\ b.pkgCompile <=> a.pkgCompile \/ (~a.sawAnyTest /\ Breaks(ev))
  <1>1. a.sawAnyTest \in BOOLEAN /\ a.pkgCompile \in BOOLEAN
    BY AggregateFields
  <1>2. ASSUME ev.Test = <<>> PROVE Exact
    <2>1. b.sawAnyTest = a.sawAnyTest
      BY <1>2 DEF applyEvent, applyPackageEvent, Aggregate
    <2>2. ~AboutTest(ev)
      BY <1>2 DEF AboutTest
    <2>3. CASE ev.Action = "fail"
      <3>1. b.pkgCompile = (\/ a.pkgCompile
                            \/ ~a.sawAnyTest /\ (isCompileFailure(ev.Output) \/ compileHint(a)))
        BY <1>2, <2>3 DEF applyEvent, applyPackageEvent, Aggregate
      <3>2. Breaks(ev)
        BY <1>2, <2>3 DEF Breaks
      <3> HIDE DEF b
      <3> QED BY <1>1, <2>1, <2>2, <3>1, <3>2 DEF compileHint
    <2>4. CASE ev.Action = "output"
      <3>1. b.pkgCompile = (a.pkgCompile \/ (isCompileFailure(ev.Output) /\ ~a.sawAnyTest))
        BY <1>2, <2>4 DEF applyEvent, applyPackageEvent, Aggregate
      <3>2. Breaks(ev) <=> isCompileFailure(ev.Output)
        BY <1>2, <2>4 DEF Breaks, isCompileFailure
      <3> HIDE DEF b
      <3> QED BY <1>1, <2>1, <2>2, <3>1, <3>2
    <2>5. CASE ev.Action \notin {"fail", "output"}
      <3>1. b = a
        BY <1>2, <2>5 DEF applyEvent, applyPackageEvent
      <3> QED BY <1>1, <2>2, <2>5, <3>1 DEF Breaks
    <2> QED BY <2>3, <2>4, <2>5
  <1>3. ASSUME ev.Test # <<>> PROVE Exact
    <2>1. b.pkgCompile = a.pkgCompile
      BY <1>3 DEF applyEvent, applyTestEvent, onRun, onPass, onFail, onSkip, captureOutput,
                  Aggregate
    <2>2. ~Breaks(ev)
      BY <1>3 DEF Breaks
    <2>3. CASE ev.Action \in {"run", "pass", "fail", "skip"}
      <3>1. b.sawAnyTest = TRUE
        BY <1>3, <2>3 DEF applyEvent, applyTestEvent, onRun, onPass, onFail, onSkip, Aggregate
      <3> QED BY <1>1, <1>3, <2>1, <2>2, <2>3, <3>1 DEF AboutTest
    <2>4. CASE ev.Action \notin {"run", "pass", "fail", "skip"}
      <3>1. b.sawAnyTest = a.sawAnyTest
        BY <1>3, <2>4 DEF applyEvent, applyTestEvent, captureOutput, Aggregate
      <3> QED BY <1>1, <2>1, <2>2, <2>4, <3>1 DEF AboutTest
    <2> QED BY <2>3, <2>4
  <1> QED BY <1>2, <1>3

(* What one event makes of the verdict v on test t of its package. *)
VerdictAfter(v, ev, t) ==
  IF ev.Test = <<>> \/ topLevel(ev.Test) # t THEN v
  ELSE IF ev.Action = "fail" THEN "failed"
  ELSE IF ev.Action = "pass" /\ IsTop(ev.Test) /\ v = "none" THEN "passed"
  ELSE IF ev.Action = "skip" /\ IsTop(ev.Test) /\ v = "none" THEN "skipped"
  ELSE v

(* The same as an equation: the verdict after an event is VerdictAfter. *)
LEMMA ApplyVerdictExact ==
  ASSUME NEW a \in Aggregate, NEW ev \in event, NEW t \in Top
  PROVE  VerdictOf(applyEvent(a, ev), t) = VerdictAfter(VerdictOf(a, t), ev, t)
  <1> DEFINE b == applyEvent(a, ev)
             u == topLevel(ev.Test)
             v == VerdictOf(a, t)
  <1>1. ASSUME NEW c, c.tests = a.tests, c.skipped = a.skipped
        PROVE  VerdictOf(c, t) = v
    BY <1>1 DEF VerdictOf, Failed
  <1>2. CASE ev.Test = <<>>
    <2>1. b.tests = a.tests /\ b.skipped = a.skipped
      BY <1>2, PackageEventType DEF applyEvent
    <2> HIDE DEF b
    <2> QED BY <1>1, <1>2, <2>1 DEF VerdictAfter, b
  <1>3. CASE ev.Test # <<>> /\ ev.Action \notin {"pass", "fail", "skip"}
    <2>1. b.tests = a.tests /\ b.skipped = a.skipped
      BY <1>3 DEF applyEvent, applyTestEvent, onRun, captureOutput, Aggregate
    <2> HIDE DEF b
    <2> QED BY <1>1, <1>3, <2>1 DEF VerdictAfter, b
  <1>4. CASE ev.Test # <<>> /\ ev.Action = "fail"
    <2> DEFINE m == Put(a.tests, u, TRUE)
    <2>1. u \in Top
      BY <1>4, EventFields
    <2>2. b.tests = m /\ b.skipped = a.skipped
      BY <1>4, <2>1, FailFields DEF applyEvent, applyTestEvent
    <2>3. /\ DOMAIN m = DOMAIN a.tests \cup {u}
          /\ m[u] = TRUE
          /\ \A x \in DOMAIN a.tests : x # u => m[x] = a.tests[x]
      BY <2>1, TestsWith
    <2> HIDE DEF b, u, m
    <2>4. VerdictOf(b, t) = IF u = t THEN "failed" ELSE v
      BY <2>2, <2>3 DEF VerdictOf, Failed
    <2> HIDE DEF v
    <2> QED BY <1>4, <2>4 DEF VerdictAfter, b, u, v
  <1>5. CASE ev.Test # <<>> /\ ev.Action = "pass"
    <2> DEFINE m == Put(a.tests, u, FALSE)
    <2>1. u \in Top
      BY <1>5, EventFields
    <2>2. /\ b.skipped = a.skipped
          /\ b.tests = IF IsTop(ev.Test) /\ u \notin DOMAIN a.tests THEN m ELSE a.tests
      BY <1>5 DEF applyEvent, applyTestEvent, onPass, Aggregate
    <2>3. /\ DOMAIN m = DOMAIN a.tests \cup {u}
          /\ m[u] = FALSE
          /\ \A x \in DOMAIN a.tests : x # u => m[x] = a.tests[x]
      BY <2>1, TestsWith
    <2> HIDE DEF b, u, m
    <2>4. VerdictOf(b, t) = IF IsTop(ev.Test) /\ u = t /\ v = "none" THEN "passed" ELSE v
      BY <2>2, <2>3 DEF VerdictOf, Failed
    <2> HIDE DEF v
    <2> QED BY <1>5, <2>4 DEF VerdictAfter, b, u, v
  <1>6. CASE ev.Test # <<>> /\ ev.Action = "skip"
    <2>1. u \in Top
      BY <1>6, EventFields
    <2>2. /\ b.tests = a.tests
          /\ b.skipped = IF IsTop(ev.Test) /\ u \notin DOMAIN a.tests
                         THEN a.skipped \cup {u} ELSE a.skipped
      BY <1>6 DEF applyEvent, applyTestEvent, onSkip, Aggregate
    <2> HIDE DEF b, u
    <2>3. VerdictOf(b, t) = IF IsTop(ev.Test) /\ u = t /\ v = "none" THEN "skipped" ELSE v
      BY <2>2 DEF VerdictOf, Failed
    <2> HIDE DEF v
    <2> QED BY <1>6, <2>3 DEF VerdictAfter, b, u, v
  <1> QED BY <1>2, <1>3, <1>4, <1>5, <1>6

(* One event and the failure of its package. *)
LEMMA ApplyPkgFailed ==
  ASSUME NEW a \in Aggregate, NEW ev \in event
  PROVE  /\ applyEvent(a, ev).pkgFailed \in BOOLEAN
         /\ applyEvent(a, ev).pkgFailed =
              IF ev.Test = <<>> /\ ev.Action = "fail" THEN TRUE ELSE a.pkgFailed
  <1>1. applyEvent(a, ev).pkgFailed \in BOOLEAN
    BY ApplyType, AggregateFields
  <1>2. CASE ev.Test = <<>>
    BY <1>1, <1>2 DEF applyEvent, applyPackageEvent, Aggregate
  <1>3. CASE ev.Test # <<>>
    BY <1>1, <1>3 DEF applyEvent, applyTestEvent, onRun, onPass, onFail, onSkip,
                      captureOutput, Aggregate
  <1> QED BY <1>1, <1>2, <1>3

(* The buckets of countTests are the verdicts. *)
LEMMA Buckets ==
  ASSUME NEW a \in Aggregate, NEW t
  PROVE  /\ t \in passedOf(a) <=> VerdictOf(a, t) = "passed"
         /\ t \in failedOf(a) <=> VerdictOf(a, t) = "failed"
         /\ t \in skippedOf(a) <=> VerdictOf(a, t) = "skipped"
  <1>1. a.tests \in [DOMAIN a.tests -> BOOLEAN]
    BY AggregateFields
  <1> QED BY <1>1 DEF passedOf, failedOf, skippedOf, VerdictOf, Failed

-----------------------------------------------------------------------------
(* The tally of one package. *)

(* The size of a union of two finite sets that share nothing. *)
LEMMA DisjointUnion ==
  ASSUME NEW S, NEW T, IsFiniteSet(S), IsFiniteSet(T), S \cap T = {}
  PROVE  /\ IsFiniteSet(S \cup T)
         /\ Cardinality(S \cup T) = Cardinality(S) + Cardinality(T)
  <1>1. /\ IsFiniteSet(S \cup T)
        /\ Cardinality(S \cup T) = Cardinality(S) + Cardinality(T) - Cardinality(S \cap T)
    BY FS_Union
  <1>2. Cardinality(S \cap T) = 0
    BY FS_EmptySet
  <1>3. Cardinality(S) \in Nat /\ Cardinality(T) \in Nat
    BY FS_CardinalityType
  <1> QED BY <1>1, <1>2, <1>3

(* countTests puts every test the package knows in exactly one bucket: the
   total of a package is the number of tests that ended or failed. *)
THEOREM CountsPartition ==
  ASSUME NEW a \in Aggregate
  PROVE  LET n == countTests(a)
         IN  n.passed + n.failed + n.skipped
               = Cardinality(DOMAIN a.tests \cup a.skipped)
  <1> DEFINE P == passedOf(a)
             F == failedOf(a)
             S == skippedOf(a)
  <1>1. IsFiniteSet(P) /\ IsFiniteSet(F) /\ IsFiniteSet(S)
    <2>1. P \subseteq Top /\ F \subseteq Top /\ S \subseteq Top
      BY AggregateFields DEF passedOf, failedOf, skippedOf
    <2> QED BY <2>1, ParserAssumption, FS_Subset
  <1>2. P \cap F = {} /\ (P \cup F) \cap S = {}
    BY AggregateFields DEF passedOf, failedOf, skippedOf
  <1>3. (P \cup F) \cup S = DOMAIN a.tests \cup a.skipped
    BY AggregateFields DEF passedOf, failedOf, skippedOf
  <1> HIDE DEF P, F, S
  <1>4. Cardinality(P \cup F) = Cardinality(P) + Cardinality(F) /\ IsFiniteSet(P \cup F)
    BY <1>1, <1>2, DisjointUnion
  <1>5. Cardinality((P \cup F) \cup S) = Cardinality(P \cup F) + Cardinality(S)
    BY <1>1, <1>2, <1>4, DisjointUnion
  <1> QED BY <1>3, <1>4, <1>5 DEF countTests, P, F, S
-----------------------------------------------------------------------------
(* sort.Strings. *)

(* The elements of a sequence without duplicates, in their order. *)
LEMMA SortStringsOf ==
  ASSUME NEW s \in Seq(Int), IsInjective(s)
  PROVE  /\ SortStrings(s) \in Seq(Int)
         /\ Len(SortStrings(s)) = Len(s)
         /\ ToSet(SortStrings(s)) = ToSet(s)
         /\ Increasing(SortStrings(s))
         /\ Cardinality(ToSet(s)) = Len(s)
  <1> DEFINE n == Len(s)
             S == ToSet(s)
             P(p) == \A i, j \in DOMAIN s : i < j => p[i] # p[j] /\ s[p[i]] <= s[p[j]]
             q == CHOOSE p \in [DOMAIN s -> DOMAIN s] : P(p)
  <1>1. n \in Nat /\ DOMAIN s = 1..n /\ \A i \in 1..n : s[i] \in Int
    BY LenProperties, ElementOfSeq
  <1>2. IsFiniteSet(1..n) /\ Cardinality(1..n) = n
    <2>1. 0 \in Int /\ IsFiniteSet(1..n) /\ Cardinality(1..n) = IF 1 > n THEN 0 ELSE n - 1 + 1
      BY <1>1, FS_Interval
    <2> QED BY <1>1, <2>1
  <1>3. s \in Bijection(1..n, S)
    <2>1. s \in [1..n -> S]
      BY <1>1 DEF ToSet
    <2> QED BY <1>1, <2>1 DEF Bijection, Injection, Surjection, ToSet
  <1>4. IsFiniteSet(S) /\ Cardinality(S) = n /\ S \in SUBSET Int
    <2>1. IsFiniteSet(S) /\ Cardinality(S) = Cardinality(1..n)
      BY <1>2, <1>3, FS_Bijection DEF ExistsBijection
    <2> QED BY <1>1, <1>2, <2>1 DEF ToSet
  <1> HIDE DEF S, n
  <1>5. PICK e \in Surjection(1..n, S) : Increasing(e)
    BY <1>4, IncreasingExists
  <1>6. e \in [1..n -> S] /\ \A i, j \in 1..n : i < j => e[i] < e[j]
    BY <1>5 DEF Surjection, Increasing
  <1> DEFINE p0 == [i \in 1..n |-> CHOOSE j \in 1..n : s[j] = e[i]]
  <1>7. \A i \in 1..n : p0[i] \in 1..n /\ s[p0[i]] = e[i]
    BY <1>1, <1>6 DEF S, ToSet
  <1>8. p0 \in [1..n -> 1..n]
    BY <1>7
  <1> HIDE DEF p0
  <1>9. P(p0)
    <2> SUFFICES ASSUME NEW i \in 1..n, NEW j \in 1..n, i < j
                 PROVE  p0[i] # p0[j] /\ s[p0[i]] <= s[p0[j]]
      BY <1>1
    <2>1. e[i] < e[j] /\ e[i] \in Int /\ e[j] \in Int
      BY <1>4, <1>6
    <2> QED BY <1>7, <2>1
  <1>10. q \in [1..n -> 1..n] /\ P(q)
    BY <1>1, <1>8, <1>9
  <1>11. SortStrings(s) = [i \in 1..n |-> s[q[i]]]
    BY <1>1 DEF SortStrings
  <1> HIDE DEF q
  <1>12. \A i, j \in 1..n : i # j => q[i] # q[j]
    <2> SUFFICES ASSUME NEW i \in 1..n, NEW j \in 1..n, i # j PROVE q[i] # q[j]
      OBVIOUS
    <2>1. i < j \/ j < i
      BY <1>1
    <2> QED BY <1>1, <1>10, <2>1
  <1>13. \A k \in 1..n : \E i \in 1..n : q[i] = k
    <2>1. q \in Injection(1..n, 1..n)
      BY <1>10, <1>12 DEF Injection, IsInjective
    <2>2. q \in Surjection(1..n, 1..n)
      BY <1>2, <2>1, FS_Injection
    <2> QED BY <2>2 DEF Surjection
  <1> DEFINE r == [i \in 1..n |-> s[q[i]]]
  <1>14. r \in Seq(Int) /\ Len(r) = n /\ DOMAIN r = 1..n
    <2>1. r \in [1..n -> Int]
      BY <1>1, <1>10
    <2> HIDE DEF r
    <2> QED BY <1>1, <2>1, FunctionIsSeq
  <1>15. ToSet(r) = ToSet(s)
    <2>1. \A i \in 1..n : r[i] = s[q[i]] /\ q[i] \in 1..n
      BY <1>10
    <2> HIDE DEF r
    <2>2. \A k \in 1..n : \E i \in 1..n : r[i] = s[k]
      BY <1>13, <2>1
    <2>3. ToSet(r) = {r[i] : i \in 1..n} /\ ToSet(s) = {s[i] : i \in 1..n}
      BY <1>1, <1>14 DEF ToSet
    <2>4. \A i \in 1..n : r[i] \in {s[k] : k \in 1..n} /\ s[i] \in {r[k] : k \in 1..n}
      BY <2>1, <2>2
    <2> QED BY <2>3, <2>4
  <1>16. Increasing(r)
    <2> SUFFICES ASSUME NEW i \in 1..n, NEW j \in 1..n, i < j PROVE r[i] < r[j]
      BY <1>14 DEF Increasing
    <2>1. s[q[i]] <= s[q[j]] /\ q[i] # q[j] /\ q[i] \in 1..n /\ q[j] \in 1..n
      BY <1>1, <1>10
    <2>2. s[q[i]] # s[q[j]] /\ s[q[i]] \in Int /\ s[q[j]] \in Int
      BY <1>1, <2>1 DEF IsInjective
    <2> DEFINE u == s[q[i]]
               v == s[q[j]]
    <2>3. u <= v /\ u # v /\ u \in Int /\ v \in Int
      BY <2>1, <2>2
    <2> HIDE DEF u, v
    <2>4. u < v
      BY <2>3
    <2>5. s[q[i]] < s[q[j]]
      BY <2>4 DEF u, v
    <2> QED BY <2>5
  <1> QED BY <1>4, <1>11, <1>14, <1>15, <1>16 DEF n, S

(* The members of a set, in their order. *)
LEMMA SortNamesOf ==
  ASSUME NEW S \in SUBSET Int, IsFiniteSet(S)
  PROVE  /\ SortNames(S) \in Seq(S)
         /\ Len(SortNames(S)) = Cardinality(S)
         /\ ToSet(SortNames(S)) = S
         /\ Increasing(SortNames(S))
  <1> DEFINE n == Cardinality(S)
             s == SetToSeq(S)
  <1>1. n \in Nat /\ ExistsBijection(1..n, S)
    BY FS_CardinalityType
  <1>2. s \in [1..n -> S] /\ IsInjective(s)
    BY <1>1 DEF ExistsBijection, Bijection, Injection, SetToSeq
  <1> HIDE DEF s
  <1>3. s \in Seq(Int) /\ Len(s) = n
    <2>1. s \in [1..n -> Int]
      BY <1>2
    <2> HIDE DEF n
    <2> QED BY <1>1, <2>1, FunctionIsSeq
  <1>4. ToSet(s) = S
    <2>1. ToSet(s) \in SUBSET S /\ Cardinality(ToSet(s)) = n
      BY <1>2, <1>3, SortStringsOf DEF ToSet
    <2> QED BY <2>1, FS_Subset
  <1>5. /\ SortNames(S) \in Seq(Int) /\ Len(SortNames(S)) = n
        /\ ToSet(SortNames(S)) = S /\ Increasing(SortNames(S))
    BY <1>2, <1>3, <1>4, SortStringsOf DEF SortNames, s
  <1>6. SortNames(S) \in Seq(S)
    <2>1. \A i \in 1..Len(SortNames(S)) : SortNames(S)[i] \in S
      BY <1>5, LenProperties DEF ToSet
    <2> QED BY <1>5, <2>1
  <1> QED BY <1>5, <1>6

(* The failures of an aggregate are listed in the order of their names, each
   once. *)
LEMMA FailedNames ==
  ASSUME NEW a \in Aggregate, Bookkept(a)
  PROVE  /\ failedNames(a) \in Seq(Top)
         /\ Len(failedNames(a)) = Cardinality(failedOf(a))
         /\ ToSet(failedNames(a)) = failedOf(a)
         /\ Increasing(failedNames(a))
  <1> DEFINE s == a.failOrder
  <1>1. s \in Seq(Top) /\ s \in Seq(Int) /\ DOMAIN s = 1..Len(s)
    <2>1. s \in Seq(Top) /\ Top \subseteq Int
      BY AggregateFields, ParserAssumption
    <2>2. DOMAIN s = 1..Len(s) /\ Len(s) \in Nat /\ \A i \in 1..Len(s) : s[i] \in Int
      BY <2>1, LenProperties, ElementOfSeq
    <2> QED BY <2>1, <2>2
  <1>2. IsInjective(s) /\ ToSet(s) = failedOf(a)
    BY <1>1 DEF Bookkept, IsInjective, ToSet
  <1> HIDE DEF s
  <1>3. /\ SortStrings(s) \in Seq(Int) /\ ToSet(SortStrings(s)) = failedOf(a)
        /\ Increasing(SortStrings(s)) /\ Len(SortStrings(s)) = Cardinality(failedOf(a))
    BY <1>1, <1>2, SortStringsOf
  <1>4. SortStrings(s) \in Seq(Top)
    <2>1. failedOf(a) \subseteq Top
      BY AggregateFields DEF failedOf
    <2>2. \A i \in 1..Len(SortStrings(s)) : SortStrings(s)[i] \in Top
      BY <1>3, <2>1, LenProperties DEF ToSet
    <2> QED BY <1>3, <2>2
  <1> QED BY <1>3, <1>4 DEF failedNames, s

(* TrimRight drops the newlines a text ends in and nothing else. *)
LEMMA TrimRightOf ==
  ASSUME NEW b \in Seq(Int)
  PROVE  /\ TrimRight(b) \in Seq(Int)
         /\ Len(TrimRight(b)) <= Len(b)
         /\ TrimRight(b) = SubSeq(b, 1, Len(TrimRight(b)))
         /\ \A k \in Len(TrimRight(b)) + 1 .. Len(b) : b[k] = 10
         /\ TrimRight(b) # <<>> => TrimRight(b)[Len(TrimRight(b))] # 10
  <1> DEFINE solid == {i \in 1..Len(b) : b[i] # 10}
             n == CHOOSE i \in solid : \A j \in solid : j <= i
  <1>1. Len(b) \in Nat
    BY LenProperties
  <1>2. CASE solid = {}
    <2>1. TrimRight(b) = <<>>
      BY <1>2 DEF TrimRight
    <2>2. \A k \in 1..Len(b) : b[k] = 10
      BY <1>2
    <2>3. SubSeq(b, 1, 0) = <<>> /\ Len(<<>>) = 0 /\ <<>> \in Seq(Int) /\ 0 + 1 = 1
      BY SubSeqProperties, EmptySeq
    <2> QED BY <1>1, <2>1, <2>2, <2>3
  <1>3. CASE solid # {}
    <2>1. solid \in SUBSET Int /\ IsFiniteSet(solid)
      <3>1. IsFiniteSet(1..Len(b)) /\ solid \in SUBSET (1..Len(b))
        BY <1>1, FS_Interval
      <3>2. solid \in SUBSET Int
        BY <1>1
      <3> HIDE DEF solid
      <3>3. IsFiniteSet(solid)
        BY <3>1, FS_Subset
      <3> QED BY <3>2, <3>3
    <2>2. \E i \in solid : \A j \in solid : i >= j
      <3> HIDE DEF solid
      <3> QED BY <1>3, <2>1, LargestExists
    <2>3. \E i \in solid : \A j \in solid : j <= i
      BY <2>2
    <2>4. n \in solid /\ \A j \in solid : j <= n
      BY <2>3
    <2>5. TrimRight(b) = SubSeq(b, 1, n)
      BY <1>3 DEF TrimRight
    <2> HIDE DEF n
    <2>6. n \in 1..Len(b) /\ b[n] # 10
      BY <2>4
    <2>7. \A k \in n + 1 .. Len(b) : b[k] = 10
      <3> SUFFICES ASSUME NEW k \in n + 1 .. Len(b), b[k] # 10 PROVE FALSE
        OBVIOUS
      <3>1. k \in 1..Len(b) /\ ~(k <= n)
        BY <1>1, <2>6
      <3> QED BY <2>4, <3>1
    <2>8. /\ SubSeq(b, 1, n) \in Seq(Int) /\ Len(SubSeq(b, 1, n)) = n
          /\ SubSeq(b, 1, n)[n] = b[n]
      BY <1>1, <2>6, SubSeqProperties
    <2> QED BY <1>1, <2>5, <2>6, <2>7, <2>8
  <1> QED BY <1>2, <1>3

-----------------------------------------------------------------------------
(* ParseResult. *)

Results ==
  [Tests         : [Total : Nat, Passed : Nat, Failed : Nat, Skipped : Nat],
   Failures      : Seq([Package : Pkg, Test : Top, Output : Seq(Int)]),
   Packages      : Seq([ImportPath : Pkg, Status : {"pass", "fail", "no_tests"},
                        Tests : Nat, Failed : Nat]),
   CompileFailed : BOOLEAN,
   Panicked      : BOOLEAN]

PassedIn(ps, D)  == {pt \in D \X Top : pt[2] \in passedOf(ps[pt[1]])}
FailedIn(ps, D)  == {pt \in D \X Top : pt[2] \in failedOf(ps[pt[1]])}
SkippedIn(ps, D) == {pt \in D \X Top : pt[2] \in skippedOf(ps[pt[1]])}

FailureOf(ps, pt) ==
  [Package |-> pt[1], Test |-> pt[2],
   Output |-> TrimRight(ps[pt[1]].failOutput[pt[2]])]

TotalOf(p) == countTests(p).passed + countTests(p).failed + countTests(p).skipped

RowOf(ps, p) ==
  [ImportPath |-> p,
   Status     |-> packageStatus(ps[p], countTests(ps[p]).failed, TotalOf(ps[p])).status,
   Tests      |-> TotalOf(ps[p]),
   Failed     |-> countTests(ps[p]).failed]

Before(f, g) == f.Package < g.Package \/ (f.Package = g.Package /\ f.Test < g.Test)

(* r reports on the packages of D, each once, and on all that happened there. *)
TestsReported(r, ps, D) ==
  /\ r.Tests.Passed  = Cardinality(PassedIn(ps, D))
  /\ r.Tests.Failed  = Cardinality(FailedIn(ps, D))
  /\ r.Tests.Skipped = Cardinality(SkippedIn(ps, D))
  /\ r.Tests.Total   = r.Tests.Passed + r.Tests.Failed + r.Tests.Skipped

FailuresReported(r, ps, D) ==
  /\ Len(r.Failures) = Cardinality(FailedIn(ps, D))
  /\ ToSet(r.Failures) = {FailureOf(ps, pt) : pt \in FailedIn(ps, D)}
  /\ \A i, j \in 1..Len(r.Failures) : i < j => Before(r.Failures[i], r.Failures[j])

PackagesReported(r, ps, D) ==
  /\ Len(r.Packages) = Cardinality(D)
  /\ ToSet(r.Packages) = {RowOf(ps, p) : p \in D}
  /\ r.CompileFailed <=> \E p \in D : ps[p].pkgCompile

AccountsFor(r, ps, D) ==
  TestsReported(r, ps, D) /\ FailuresReported(r, ps, D) /\ PackagesReported(r, ps, D)

Tagged(p, S) == {<<p, t>> : t \in S}

(* The pairs of a new package and its tests: as many as its tests, none of
   them there before. *)
LEMMA OneMorePackage ==
  ASSUME NEW A, IsFiniteSet(A), NEW D, A \in SUBSET (D \X Top),
         NEW ip, ip \notin D, NEW S \in SUBSET Top
  PROVE  Cardinality(A \cup Tagged(ip, S)) = Cardinality(A) + Cardinality(S)
  <1> DEFINE N == Tagged(ip, S)
             f == [t \in S |-> <<ip, t>>]
  <1>1. IsFiniteSet(S)
    BY FS_Subset, ParserAssumption
  <1>2. f \in Bijection(S, N)
    BY DEF Bijection, Injection, Surjection, IsInjective, Tagged
  <1>3. IsFiniteSet(N) /\ Cardinality(N) = Cardinality(S)
    BY <1>1, <1>2, FS_Bijection DEF ExistsBijection
  <1>4. A \cap N = {}
    BY DEF Tagged
  <1> HIDE DEF N
  <1>5. IsFiniteSet(A \cup N) /\ Cardinality(A \cup N) = Cardinality(A) + Cardinality(N)
    BY <1>3, <1>4, DisjointUnion
  <1> QED BY <1>3, <1>5 DEF N

(* The pairs on which a result reports. *)
LEMMA PairsIn ==
  ASSUME NEW ps, NEW D \in SUBSET Pkg, \A p \in D : ps[p] \in Aggregate,
         NEW ip \in Pkg, ip \notin D, ps[ip] \in Aggregate
  PROVE  /\ IsFiniteSet(PassedIn(ps, D)) /\ IsFiniteSet(FailedIn(ps, D))
         /\ IsFiniteSet(SkippedIn(ps, D)) /\ IsFiniteSet(D)
         /\ PassedIn(ps, D \cup {ip}) =
              PassedIn(ps, D) \cup Tagged(ip, passedOf(ps[ip]))
         /\ FailedIn(ps, D \cup {ip}) =
              FailedIn(ps, D) \cup Tagged(ip, failedOf(ps[ip]))
         /\ SkippedIn(ps, D \cup {ip}) =
              SkippedIn(ps, D) \cup Tagged(ip, skippedOf(ps[ip]))
         /\ passedOf(ps[ip]) \in SUBSET Top /\ failedOf(ps[ip]) \in SUBSET Top
         /\ skippedOf(ps[ip]) \in SUBSET Top
         /\ Cardinality(PassedIn(ps, D \cup {ip}))
              = Cardinality(PassedIn(ps, D)) + Cardinality(passedOf(ps[ip]))
         /\ Cardinality(FailedIn(ps, D \cup {ip}))
              = Cardinality(FailedIn(ps, D)) + Cardinality(failedOf(ps[ip]))
         /\ Cardinality(SkippedIn(ps, D \cup {ip}))
              = Cardinality(SkippedIn(ps, D)) + Cardinality(skippedOf(ps[ip]))
  <1>1. IsFiniteSet(D) /\ IsFiniteSet(Top)
    BY FS_Subset, ParserAssumption
  <1>2. IsFiniteSet(D \X Top)
    BY <1>1, FS_Product
  <1>3. /\ PassedIn(ps, D) \in SUBSET (D \X Top) /\ FailedIn(ps, D) \in SUBSET (D \X Top)
        /\ SkippedIn(ps, D) \in SUBSET (D \X Top)
    BY DEF PassedIn, FailedIn, SkippedIn
  <1>4. /\ IsFiniteSet(PassedIn(ps, D)) /\ IsFiniteSet(FailedIn(ps, D))
        /\ IsFiniteSet(SkippedIn(ps, D))
    BY <1>2, <1>3, FS_Subset
  <1> DEFINE a == ps[ip]
  <1>5. passedOf(a) \in SUBSET Top /\ failedOf(a) \in SUBSET Top /\ skippedOf(a) \in SUBSET Top
    BY AggregateFields DEF passedOf, failedOf, skippedOf
  <1>6. PassedIn(ps, D \cup {ip}) = PassedIn(ps, D) \cup Tagged(ip, passedOf(a))
    BY <1>5 DEF PassedIn, Tagged
  <1>7. FailedIn(ps, D \cup {ip}) = FailedIn(ps, D) \cup Tagged(ip, failedOf(a))
    BY <1>5 DEF FailedIn, Tagged
  <1>8. SkippedIn(ps, D \cup {ip}) = SkippedIn(ps, D) \cup Tagged(ip, skippedOf(a))
    BY <1>5 DEF SkippedIn, Tagged
  <1> HIDE DEF a
  <1>9. Cardinality(PassedIn(ps, D \cup {ip})) = Cardinality(PassedIn(ps, D)) + Cardinality(passedOf(a))
    <2>1. Cardinality(PassedIn(ps, D) \cup Tagged(ip, passedOf(a)))
            = Cardinality(PassedIn(ps, D)) + Cardinality(passedOf(a))
      BY <1>3, <1>4, <1>5, OneMorePackage
    <2> QED BY <1>6, <2>1
  <1>10. Cardinality(FailedIn(ps, D \cup {ip})) = Cardinality(FailedIn(ps, D)) + Cardinality(failedOf(a))
    <2>1. Cardinality(FailedIn(ps, D) \cup Tagged(ip, failedOf(a)))
            = Cardinality(FailedIn(ps, D)) + Cardinality(failedOf(a))
      BY <1>3, <1>4, <1>5, OneMorePackage
    <2> QED BY <1>7, <2>1
  <1>11. Cardinality(SkippedIn(ps, D \cup {ip})) = Cardinality(SkippedIn(ps, D)) + Cardinality(skippedOf(a))
    <2>1. Cardinality(SkippedIn(ps, D) \cup Tagged(ip, skippedOf(a)))
            = Cardinality(SkippedIn(ps, D)) + Cardinality(skippedOf(a))
      BY <1>3, <1>4, <1>5, OneMorePackage
    <2> QED BY <1>8, <2>1
  <1> QED BY <1>1, <1>4, <1>5, <1>6, <1>7, <1>8, <1>9, <1>10, <1>11 DEF a

(* The failures of one package, as they are added to a result. *)
NewFailures(ip, a) ==
  [i \in 1..Len(failedNames(a)) |->
     [Package |-> ip, Test |-> failedNames(a)[i],
      Output |-> TrimRight(a.failOutput[failedNames(a)[i]])]]

(* What one package adds to the list of failures. *)
LEMMA NewFailuresType ==
  ASSUME NEW a \in Aggregate, Bookkept(a), NEW ip \in Pkg
  PROVE  /\ NewFailures(ip, a) \in Seq([Package : Pkg, Test : Top, Output : Seq(Int)])
         /\ Len(NewFailures(ip, a)) = Len(failedNames(a))
  <1> DEFINE s == failedNames(a)
             n == Len(s)
             F == [Package : Pkg, Test : Top, Output : Seq(Int)]
             new == NewFailures(ip, a)
  <1>1. s \in Seq(Top) /\ n \in Nat
    BY FailedNames, LenProperties
  <1>2. \A i \in 1..n : new[i] \in F
    <2> SUFFICES ASSUME NEW i \in 1..n PROVE new[i] \in F
      OBVIOUS
    <2>1. s[i] \in Top
      BY <1>1, ElementOfSeq
    <2>2. a.failOutput[s[i]] \in Seq(Int)
      BY <2>1, AggregateFields
    <2>3. TrimRight(a.failOutput[s[i]]) \in Seq(Int)
      BY <2>2, TrimRightOf
    <2> QED BY <2>1, <2>3 DEF NewFailures
  <1>3. new \in [1..n -> F]
    BY <1>2 DEF NewFailures
  <1> HIDE DEF new, F, n
  <1>4. new \in Seq(F) /\ Len(new) = n
    BY <1>1, <1>3, FunctionIsSeq DEF n
  <1> QED BY <1>4 DEF new, F, n

(* finalizePackage turns a result into a result. *)
LEMMA FinalizeType ==
  ASSUME NEW r \in Results, NEW ip \in Pkg, NEW a \in Aggregate, Bookkept(a)
  PROVE  /\ finalizePackage(r, ip, a) \in Results
         /\ finalizePackage(r, ip, a).Panicked = r.Panicked
  <1> DEFINE w == finalizePackage(r, ip, a)
             F == [Package : Pkg, Test : Top, Output : Seq(Int)]
             R == [ImportPath : Pkg, Status : {"pass", "fail", "no_tests"},
                   Tests : Nat, Failed : Nat]
             n == countTests(a)
             total == n.passed + n.failed + n.skipped
             row == [ImportPath |-> ip, Status |-> packageStatus(a, n.failed, total).status,
                     Tests |-> total, Failed |-> n.failed]
  <1>1. n.passed \in Nat /\ n.failed \in Nat /\ n.skipped \in Nat
    <2>1. passedOf(a) \subseteq Top /\ failedOf(a) \subseteq Top /\ skippedOf(a) \subseteq Top
      BY AggregateFields DEF passedOf, failedOf, skippedOf
    <2>2. IsFiniteSet(passedOf(a)) /\ IsFiniteSet(failedOf(a)) /\ IsFiniteSet(skippedOf(a))
      BY <2>1, ParserAssumption, FS_Subset
    <2>3. /\ Cardinality(passedOf(a)) \in Nat /\ Cardinality(failedOf(a)) \in Nat
          /\ Cardinality(skippedOf(a)) \in Nat
      BY <2>2, FS_CardinalityType
    <2> QED BY <2>3 DEF countTests
  <1> HIDE DEF n
  <1>2. total \in Nat /\ row \in R
    BY <1>1 DEF packageStatus
  <1>3. packageStatus(a, n.failed, total).compileFailed \in BOOLEAN
    BY DEF packageStatus
  <1>4. /\ r.Failures \in Seq(F) /\ r.Packages \in Seq(R)
        /\ r.Tests \in [Total : Nat, Passed : Nat, Failed : Nat, Skipped : Nat]
        /\ r.CompileFailed \in BOOLEAN /\ r.Panicked \in BOOLEAN
    BY DEF Results
  <1>5. NewFailures(ip, a) \in Seq(F)
    BY NewFailuresType
  <1>6. w = [Tests |-> [Total   |-> r.Tests.Total + total,
                        Passed  |-> r.Tests.Passed + n.passed,
                        Failed  |-> r.Tests.Failed + n.failed,
                        Skipped |-> r.Tests.Skipped + n.skipped],
             Failures |-> r.Failures \o NewFailures(ip, a),
             Packages |-> Append(r.Packages, row),
             CompileFailed |-> r.CompileFailed \/ packageStatus(a, n.failed, total).compileFailed,
             Panicked |-> r.Panicked]
    BY DEF finalizePackage, NewFailures, n
  <1> HIDE DEF w, F, R, total, row
  <1>7. r.Failures \o NewFailures(ip, a) \in Seq(F) /\ Append(r.Packages, row) \in Seq(R)
    BY <1>2, <1>4, <1>5, ConcatProperties, AppendProperties
  <1>8. [Total   |-> r.Tests.Total + total,
         Passed  |-> r.Tests.Passed + n.passed,
         Failed  |-> r.Tests.Failed + n.failed,
         Skipped |-> r.Tests.Skipped + n.skipped]
           \in [Total : Nat, Passed : Nat, Failed : Nat, Skipped : Nat]
    <2> DEFINE m == r.Tests
    <2>1. m.Total \in Nat /\ m.Passed \in Nat /\ m.Failed \in Nat /\ m.Skipped \in Nat
      BY <1>4
    <2> HIDE DEF m
    <2>2. /\ m.Total + total \in Nat /\ m.Passed + n.passed \in Nat
          /\ m.Failed + n.failed \in Nat /\ m.Skipped + n.skipped \in Nat
      BY <1>1, <1>2, <2>1
    <2> QED BY <2>2 DEF m
  <1> QED BY <1>3, <1>4, <1>6, <1>7, <1>8 DEF Results, w, F, R

(* finalizePackage: the tests of one more package. *)
LEMMA FinalizeTests ==
  ASSUME NEW ps, NEW D \in SUBSET Pkg, \A p \in D : ps[p] \in Aggregate,
         NEW ip \in Pkg, ip \notin D, ps[ip] \in Aggregate,
         NEW r \in Results, TestsReported(r, ps, D)
  PROVE  TestsReported(finalizePackage(r, ip, ps[ip]), ps, D \cup {ip})
  <1> DEFINE a == ps[ip]
             w == finalizePackage(r, ip, a)
             np == Cardinality(passedOf(a))
             nf == Cardinality(failedOf(a))
             ns == Cardinality(skippedOf(a))
  <1>1. /\ IsFiniteSet(passedOf(a)) /\ IsFiniteSet(failedOf(a)) /\ IsFiniteSet(skippedOf(a))
    BY PairsIn, FS_Subset, ParserAssumption
  <1>2. np \in Nat /\ nf \in Nat /\ ns \in Nat
    BY <1>1, FS_CardinalityType
  <1>3. w.Tests = [Total   |-> r.Tests.Total + (np + nf + ns),
                   Passed  |-> r.Tests.Passed + np,
                   Failed  |-> r.Tests.Failed + nf,
                   Skipped |-> r.Tests.Skipped + ns]
    BY DEF finalizePackage, countTests
  <1>4. r.Tests \in [Total : Nat, Passed : Nat, Failed : Nat, Skipped : Nat]
    BY DEF Results
  <1>5. Cardinality(PassedIn(ps, D \cup {ip})) = Cardinality(PassedIn(ps, D)) + np
    BY PairsIn
  <1>6. Cardinality(FailedIn(ps, D \cup {ip})) = Cardinality(FailedIn(ps, D)) + nf
    BY PairsIn
  <1>7. Cardinality(SkippedIn(ps, D \cup {ip})) = Cardinality(SkippedIn(ps, D)) + ns
    BY PairsIn
  <1> HIDE DEF w, np, nf, ns
  <1> QED BY <1>2, <1>3, <1>4, <1>5, <1>6, <1>7 DEF TestsReported, w

(* finalizePackage: the failures of one more package, after those of the ones
   before it. *)
LEMMA FinalizeFailures ==
  ASSUME NEW ps, NEW D \in SUBSET Pkg, \A p \in D : ps[p] \in Aggregate,
         NEW ip \in Pkg, \A p \in D : p < ip, ps[ip] \in Aggregate, Bookkept(ps[ip]),
         NEW r \in Results, FailuresReported(r, ps, D)
  PROVE  FailuresReported(finalizePackage(r, ip, ps[ip]), ps, D \cup {ip})
  <1> DEFINE a == ps[ip]
             w == finalizePackage(r, ip, a)
             F == [Package : Pkg, Test : Top, Output : Seq(Int)]
             s == failedNames(a)
             n == Len(s)
             new == [i \in 1..n |-> [Package |-> ip, Test |-> s[i],
                                     Output |-> TrimRight(a.failOutput[s[i]])]]
             old == r.Failures
             m == Len(old)
  <1>1. /\ s \in Seq(Top) /\ n = Cardinality(failedOf(a)) /\ n \in Nat
        /\ {s[i] : i \in 1..n} = failedOf(a)
        /\ \A i, j \in 1..n : i < j => s[i] < s[j]
    <2>1. /\ s \in Seq(Top) /\ n = Cardinality(failedOf(a)) /\ ToSet(s) = failedOf(a)
          /\ Increasing(s)
      BY FailedNames
    <2> HIDE DEF s
    <2>2. DOMAIN s = 1..n /\ n \in Nat
      BY <2>1, LenProperties
    <2> QED BY <2>1, <2>2 DEF Increasing, ToSet
  <1>2. ip \notin D
    BY ParserAssumption
  <1>3. \A i \in 1..n : /\ s[i] \in Top
                        /\ new[i] = FailureOf(ps, <<ip, s[i]>>)
                        /\ new[i] \in F /\ new[i].Package = ip /\ new[i].Test = s[i]
    <2> SUFFICES ASSUME NEW i \in 1..n
                 PROVE  /\ s[i] \in Top
                        /\ new[i] = FailureOf(ps, <<ip, s[i]>>)
                        /\ new[i] \in F /\ new[i].Package = ip /\ new[i].Test = s[i]
      OBVIOUS
    <2>1. s[i] \in Top
      BY <1>1, ElementOfSeq
    <2>2. a.failOutput[s[i]] \in Seq(Int)
      BY <2>1, AggregateFields
    <2>3. TrimRight(a.failOutput[s[i]]) \in Seq(Int)
      BY <2>2, TrimRightOf
    <2> QED BY <2>1, <2>3 DEF FailureOf
  <1>4. w.Failures = old \o new
    BY DEF finalizePackage
  <1>5. old \in Seq(F) /\ m \in Nat /\ \A i \in 1..m : old[i] \in F
    BY LenProperties, ElementOfSeq DEF Results
  <1> HIDE DEF s
  <1>6. new \in [1..n -> F]
    BY <1>3
  <1> HIDE DEF new, F, a
  <1>7. new \in Seq(F) /\ Len(new) = n
    BY <1>1, <1>6, FunctionIsSeq
  <1>8. /\ w.Failures \in Seq(F) /\ Len(w.Failures) = m + n
        /\ \A i \in 1..(m + n) :
             w.Failures[i] = IF i <= m THEN old[i] ELSE new[i - m]
    <2> HIDE DEF old, w, n
    <2> DEFINE c == old \o new
    <2>1. /\ c \in Seq(F) /\ Len(c) = Len(old) + Len(new)
          /\ \A i \in 1..(Len(old) + Len(new)) :
               c[i] = IF i <= Len(old) THEN old[i] ELSE new[i - Len(old)]
      BY <1>5, <1>7, ConcatProperties
    <2> HIDE DEF c
    <2>2. w.Failures = c
      BY <1>4 DEF c
    <2> QED BY <1>7, <2>1, <2>2
  <1> HIDE DEF w, n, m, old
  <1>9. m + n = Cardinality(FailedIn(ps, D \cup {ip}))
    <2>1. m = Cardinality(FailedIn(ps, D))
      BY DEF FailuresReported, m, old
    <2>2. Cardinality(FailedIn(ps, D \cup {ip}))
            = Cardinality(FailedIn(ps, D)) + Cardinality(failedOf(ps[ip]))
      BY <1>2, PairsIn
    <2> QED BY <1>1, <2>1, <2>2 DEF a
  <1>10. ToSet(w.Failures) = {FailureOf(ps, pt) : pt \in FailedIn(ps, D \cup {ip})}
    <2>1. ToSet(w.Failures) = {old[i] : i \in 1..m} \cup {new[i] : i \in 1..n}
      <3>1. ToSet(w.Failures) = {w.Failures[i] : i \in 1..(m + n)}
        <4>1. DOMAIN w.Failures = 1..(m + n)
          BY <1>8, LenProperties
        <4> QED BY <4>1 DEF ToSet
      <3>2. \A i \in 1..n : m + i \in 1..(m + n) /\ w.Failures[m + i] = new[i]
        <4>1. m \in Nat /\ n \in Nat
          BY <1>1, <1>5
        <4>2. \A i \in 1..n : m + i \in 1..(m + n) /\ ~(m + i <= m) /\ (m + i) - m = i
          BY <4>1
        <4> QED BY <1>8, <4>2
      <3>3. \A i \in 1..m : i \in 1..(m + n) /\ w.Failures[i] = old[i]
        BY <1>1, <1>5, <1>8
      <3>4. \A i \in 1..(m + n) : \/ i \in 1..m /\ w.Failures[i] = old[i]
                                  \/ i - m \in 1..n /\ w.Failures[i] = new[i - m]
        <4> SUFFICES ASSUME NEW i \in 1..(m + n)
                     PROVE  \/ i \in 1..m /\ w.Failures[i] = old[i]
                            \/ i - m \in 1..n /\ w.Failures[i] = new[i - m]
          OBVIOUS
        <4>1. w.Failures[i] = IF i <= m THEN old[i] ELSE new[i - m]
          BY <1>8
        <4>2. m \in Nat /\ n \in Nat
          BY <1>1, <1>5
        <4>3. CASE i <= m
          BY <4>1, <4>2, <4>3
        <4>4. CASE ~(i <= m)
          <5>1. i - m \in 1..n
            BY <4>2, <4>4
          <5> QED BY <4>1, <4>4, <5>1
        <4> QED BY <4>3, <4>4
      <3> QED BY <3>1, <3>2, <3>3, <3>4
    <2>2. {old[i] : i \in 1..m} = {FailureOf(ps, pt) : pt \in FailedIn(ps, D)}
      <3>1. ToSet(old) = {old[i] : i \in 1..m}
        BY <1>5, LenProperties DEF ToSet, m
      <3> QED BY <3>1 DEF FailuresReported, old
    <2>3. {new[i] : i \in 1..n} = {FailureOf(ps, pt) : pt \in Tagged(ip, failedOf(a))}
      <3>1. \A i \in 1..n : <<ip, s[i]>> \in Tagged(ip, failedOf(a))
        BY <1>1 DEF Tagged
      <3>2. \A pt \in Tagged(ip, failedOf(a)) : \E i \in 1..n : pt = <<ip, s[i]>>
        BY <1>1 DEF Tagged
      <3>3. \A i \in 1..n : new[i] = FailureOf(ps, <<ip, s[i]>>)
        BY <1>3
      <3>4. \A i \in 1..n : \E pt \in Tagged(ip, failedOf(a)) : new[i] = FailureOf(ps, pt)
        BY <3>1, <3>3
      <3>5. \A pt \in Tagged(ip, failedOf(a)) : \E i \in 1..n : FailureOf(ps, pt) = new[i]
        BY <3>2, <3>3
      <3> QED BY <3>4, <3>5
    <2>4. FailedIn(ps, D \cup {ip}) = FailedIn(ps, D) \cup Tagged(ip, failedOf(ps[ip]))
      BY <1>2, PairsIn
    <2> QED BY <2>1, <2>2, <2>3, <2>4 DEF a
  <1>11. \A i, j \in 1..(m + n) : i < j => Before(w.Failures[i], w.Failures[j])
    <2> SUFFICES ASSUME NEW i \in 1..(m + n), NEW j \in 1..(m + n), i < j
                 PROVE  Before(w.Failures[i], w.Failures[j])
      OBVIOUS
    <2>1. CASE j <= m
      <3>1. i \in 1..m /\ j \in 1..m
        BY <1>1, <1>5, <2>1
      <3> QED BY <1>8, <2>1, <3>1 DEF FailuresReported, old, m
    <2>2. CASE i <= m /\ ~(j <= m)
      <3>1. i \in 1..m /\ j - m \in 1..n
        BY <1>1, <1>5, <2>2
      <3>2. old[i].Package \in D
        <4>1. old[i] \in ToSet(old)
          BY <1>5, <3>1, LenProperties DEF ToSet, m
        <4>2. \A pt \in FailedIn(ps, D) : FailureOf(ps, pt).Package \in D
          BY DEF FailedIn, FailureOf
        <4> QED BY <4>1, <4>2 DEF FailuresReported, old
      <3>3. new[j - m].Package = ip
        BY <1>3, <3>1
      <3> QED BY <1>8, <2>2, <3>2, <3>3 DEF Before
    <2>3. CASE ~(i <= m)
      <3>1. i - m \in 1..n /\ j - m \in 1..n /\ i - m < j - m /\ ~(j <= m)
        <4>1. i \in Int /\ j \in Int /\ m \in Int /\ n \in Int /\ i < j /\ j <= m + n /\ i > m
          BY <1>1, <1>5, <2>3
        <4> QED BY <4>1
      <3>2. new[i - m].Package = ip /\ new[j - m].Package = ip
            /\ new[i - m].Test < new[j - m].Test
        BY <1>1, <1>3, <3>1
      <3> QED BY <1>8, <2>3, <3>1, <3>2 DEF Before
    <2> QED BY <2>1, <2>2, <2>3
  <1> QED BY <1>8, <1>9, <1>10, <1>11 DEF FailuresReported, w, F, a

(* finalizePackage: the row of one more package. *)
LEMMA FinalizePackages ==
  ASSUME NEW ps, NEW D \in SUBSET Pkg, \A p \in D : ps[p] \in Aggregate,
         NEW ip \in Pkg, ip \notin D, ps[ip] \in Aggregate,
         NEW r \in Results, PackagesReported(r, ps, D)
  PROVE  PackagesReported(finalizePackage(r, ip, ps[ip]), ps, D \cup {ip})
  <1> DEFINE a == ps[ip]
             w == finalizePackage(r, ip, a)
             R == [ImportPath : Pkg, Status : {"pass", "fail", "no_tests"},
                   Tests : Nat, Failed : Nat]
             x == RowOf(ps, ip)
             old == r.Packages
             m == Len(old)
  <1>1. /\ IsFiniteSet(passedOf(a)) /\ IsFiniteSet(failedOf(a)) /\ IsFiniteSet(skippedOf(a))
        /\ IsFiniteSet(D)
    BY PairsIn, FS_Subset, ParserAssumption
  <1>2. countTests(a).failed \in Nat /\ TotalOf(a) \in Nat
    <2>1. /\ Cardinality(passedOf(a)) \in Nat /\ Cardinality(failedOf(a)) \in Nat
          /\ Cardinality(skippedOf(a)) \in Nat
      BY <1>1, FS_CardinalityType
    <2> QED BY <2>1 DEF TotalOf, countTests
  <1>3. x \in R
    BY <1>2 DEF RowOf, packageStatus
  <1>4. w.Packages = Append(old, x) /\ w.Panicked = r.Panicked
    BY DEF finalizePackage, RowOf, TotalOf
  <1>5. w.CompileFailed = (r.CompileFailed \/ a.pkgCompile)
    <2>1. \A nf, nt : packageStatus(a, nf, nt).compileFailed = a.pkgCompile
      BY AggregateFields DEF packageStatus
    <2>2. a.pkgCompile \in BOOLEAN
      BY AggregateFields
    <2> HIDE DEF a
    <2> QED BY <2>1, <2>2 DEF finalizePackage
  <1>6. old \in Seq(R) /\ m \in Nat /\ DOMAIN old = 1..m /\ r.CompileFailed \in BOOLEAN
    BY LenProperties DEF Results
  <1>7. a.pkgCompile \in BOOLEAN
    BY AggregateFields
  <1> HIDE DEF R, x, old, m, w
  <1>8. /\ w.Packages \in Seq(R) /\ Len(w.Packages) = m + 1 /\ w.Packages[m + 1] = x
        /\ \A i \in 1..m : w.Packages[i] = old[i]
    BY <1>3, <1>4, <1>6, AppendProperties DEF m
  <1>9. ToSet(w.Packages) = ToSet(old) \cup {x}
    <2>1. DOMAIN w.Packages = 1..(m + 1)
      BY <1>8, LenProperties
    <2>2. ToSet(w.Packages) = {w.Packages[i] : i \in 1..(m + 1)} /\ ToSet(old) = {old[i] : i \in 1..m}
      BY <1>6, <2>1 DEF ToSet
    <2>3. \A i \in 1..(m + 1) : i \in 1..m \/ i = m + 1
      BY <1>6
    <2>4. m + 1 \in 1..(m + 1) /\ \A i \in 1..m : i \in 1..(m + 1)
      BY <1>6
    <2> QED BY <1>8, <2>2, <2>3, <2>4
  <1>10. Cardinality(D \cup {ip}) = Cardinality(D) + 1
    BY <1>1, FS_AddElement
  <1>11. PackagesReported(w, ps, D \cup {ip})
    <2>1. Len(w.Packages) = Cardinality(D \cup {ip})
      BY <1>8, <1>10 DEF PackagesReported, m, old
    <2>2. ToSet(w.Packages) = {RowOf(ps, p) : p \in D \cup {ip}}
      BY <1>9 DEF PackagesReported, old, x
    <2>3. w.CompileFailed <=> \E p \in D \cup {ip} : ps[p].pkgCompile
      BY <1>5, <1>6, <1>7 DEF PackagesReported
    <2> QED BY <2>1, <2>2, <2>3 DEF PackagesReported
  <1> QED BY <1>4, <1>5, <1>6, <1>7, <1>8, <1>11 DEF w, R

(* What ParseResult makes of the aggregates of all packages. *)
FinalizeStep(ps, D) == [p \in Results \X D |-> finalizePackage(p[1], p[2], ps[p[2]])]

ZeroResult(panicked) ==
  [Tests |-> [Total |-> 0, Passed |-> 0, Failed |-> 0, Skipped |-> 0],
   Failures |-> <<>>, Packages |-> <<>>,
   CompileFailed |-> FALSE, Panicked |-> panicked]

(* finalizePackage as the step function of a fold. *)
LEMMA FinalizeStepType ==
  ASSUME NEW D \in SUBSET Pkg, NEW ps \in [D -> Aggregate], \A p \in D : Bookkept(ps[p])
  PROVE  /\ FinalizeStep(ps, D) \in [Results \X D -> Results]
         /\ \A r \in Results, ip \in D :
              FinalizeStep(ps, D)[<<r, ip>>] = finalizePackage(r, ip, ps[ip])
  <1>1. \A r \in Results, ip \in D : finalizePackage(r, ip, ps[ip]) \in Results
    BY FinalizeType
  <1> QED BY <1>1 DEF FinalizeStep

(* ParseResult is what finalizePackage makes of the packages in their order. *)
LEMMA ParseResultFolded ==
  ASSUME NEW D \in SUBSET Pkg, NEW ps \in [D -> Aggregate], \A p \in D : Bookkept(ps[p]),
         NEW panicked \in BOOLEAN
  PROVE  /\ ZeroResult(panicked) \in Results
         /\ Folded(ParseResult(ps, panicked), Results, ZeroResult(panicked),
                   FinalizeStep(ps, D), SortNames(D))
  <1> DEFINE V == Results
             zero == ZeroResult(panicked)
             seq == SortNames(D)
             I == SUBSET DOMAIN seq
             step == FinalizeStep(ps, D)
             Folds(f) == f = [s \in I |->
                           IF s = {} THEN zero
                           ELSE finalizePackage(f[s \ {Max(s)}], seq[Max(s)], ps[seq[Max(s)]])]
             F == CHOOSE f : Folds(f)
  <1>1. DOMAIN ps = D
    OBVIOUS
  <1>2. seq \in Seq(D)
    <2>1. D \in SUBSET Int /\ IsFiniteSet(D)
      BY ParserAssumption, FS_Subset
    <2> QED BY <2>1, SortNamesOf
  <1>3. zero \in V
    BY DEF ZeroResult, Results
  <1>4. /\ step \in [V \X D -> V]
        /\ \A r \in V, ip \in D : step[<<r, ip>>] = finalizePackage(r, ip, ps[ip])
    BY FinalizeStepType
  <1>5. ParseResult(ps, panicked) = F[DOMAIN seq]
    BY <1>1 DEF ParseResult, FoldLeft, MapThenFoldSet, ZeroResult
  <1> HIDE DEF step, V, zero, seq
  <1>6. \A s \in I : s # {} => seq[Max(s)] \in D /\ s \ {Max(s)} \in I
    BY <1>2, LastElement
  <1>7. PICK G \in [I -> V] : IsFoldLeft(G, zero, step, seq)
    BY <1>2, <1>3, <1>4, FoldLeftExists
  <1>8. Folds(G)
    <2>1. \A s \in I : s # {} =>
            step[<<G[s \ {Max(s)}], seq[Max(s)]>>] =
              finalizePackage(G[s \ {Max(s)}], seq[Max(s)], ps[seq[Max(s)]])
      BY <1>4, <1>6
    <2> QED BY <1>7, <2>1 DEF IsFoldLeft
  <1>9. Folds(F)
    BY <1>8
  <1> HIDE DEF F
  <1>10. /\ F[{}] = zero
         /\ \A s \in I : s # {} /\ F[s \ {Max(s)}] \in V =>
              F[s] = step[<<F[s \ {Max(s)}], seq[Max(s)]>>]
    <2>1. {} \in I
      OBVIOUS
    <2>2. F[{}] = zero
      BY <1>9, <2>1
    <2>3. ASSUME NEW s \in I, s # {}, F[s \ {Max(s)}] \in V
          PROVE  F[s] = step[<<F[s \ {Max(s)}], seq[Max(s)]>>]
      <3>1. F[s] = finalizePackage(F[s \ {Max(s)}], seq[Max(s)], ps[seq[Max(s)]])
        BY <1>9, <2>3
      <3>2. seq[Max(s)] \in D
        BY <1>6, <2>3
      <3> QED BY <1>4, <2>3, <3>1, <3>2
    <2> QED BY <2>2, <2>3
  <1>11. Folded(F[DOMAIN seq], V, zero, step, seq)
    BY <1>2, <1>3, <1>4, <1>10, FoldLeftFolded
  <1> QED BY <1>3, <1>5, <1>11 DEF step, V, zero, seq

(* A result without packages reports on none. *)
LEMMA ZeroReports ==
  ASSUME NEW ps, NEW panicked
  PROVE  AccountsFor(ZeroResult(panicked), ps, {}) /\ ZeroResult(panicked).Panicked = panicked
  <1> DEFINE z == ZeroResult(panicked)
  <1>1. Cardinality({}) = 0
    BY FS_EmptySet
  <1>2. PassedIn(ps, {}) = {} /\ FailedIn(ps, {}) = {} /\ SkippedIn(ps, {}) = {}
    BY DEF PassedIn, FailedIn, SkippedIn
  <1>3. z.Tests = [Total |-> 0, Passed |-> 0, Failed |-> 0, Skipped |-> 0]
    BY DEF ZeroResult
  <1>4. TestsReported(z, ps, {})
    BY <1>1, <1>2, <1>3 DEF TestsReported
  <1>5. z.Failures = <<>> /\ z.Packages = <<>> /\ z.CompileFailed = FALSE /\ z.Panicked = panicked
    BY DEF ZeroResult
  <1> HIDE DEF z
  <1>6. ToSet(<<>>) = {} /\ Len(<<>>) = 0 /\ 1..0 = {}
    BY DEF ToSet
  <1>7. FailuresReported(z, ps, {})
    BY <1>1, <1>2, <1>5, <1>6 DEF FailuresReported
  <1>8. PackagesReported(z, ps, {})
    BY <1>1, <1>5, <1>6 DEF PackagesReported
  <1> QED BY <1>4, <1>5, <1>7, <1>8 DEF AccountsFor, z

(* One more package. *)
LEMMA FinalizeReports ==
  ASSUME NEW ps, NEW D \in SUBSET Pkg, \A p \in D : ps[p] \in Aggregate,
         NEW ip \in Pkg, \A p \in D : p < ip, ps[ip] \in Aggregate, Bookkept(ps[ip]),
         NEW r \in Results, AccountsFor(r, ps, D)
  PROVE  AccountsFor(finalizePackage(r, ip, ps[ip]), ps, D \cup {ip})
  <1>1. ip \notin D
    BY ParserAssumption
  <1>2. TestsReported(r, ps, D) /\ FailuresReported(r, ps, D) /\ PackagesReported(r, ps, D)
    BY DEF AccountsFor
  <1>3. TestsReported(finalizePackage(r, ip, ps[ip]), ps, D \cup {ip})
    BY <1>1, <1>2, FinalizeTests
  <1>4. FailuresReported(finalizePackage(r, ip, ps[ip]), ps, D \cup {ip})
    BY <1>1, <1>2, FinalizeFailures
  <1>5. PackagesReported(finalizePackage(r, ip, ps[ip]), ps, D \cup {ip})
    BY <1>1, <1>2, FinalizePackages
  <1> QED BY <1>3, <1>4, <1>5 DEF AccountsFor

(* ParseResult reports on every package, each once: the counts are the sizes
   of the three sets of tests, the failures those of the aggregates in the
   order of packages and tests. *)
THEOREM ParseResultIs ==
  ASSUME NEW D \in SUBSET Pkg, NEW ps \in [D -> Aggregate], \A p \in D : Bookkept(ps[p]),
         NEW panicked \in BOOLEAN
  PROVE  /\ ParseResult(ps, panicked) \in Results
         /\ AccountsFor(ParseResult(ps, panicked), ps, D)
         /\ ParseResult(ps, panicked).Panicked = panicked
  <1> DEFINE q == SortNames(D)
             n == Len(q)
             First(k) == {q[i] : i \in 1..k}
  <1>1. /\ q \in Seq(D) /\ n \in Nat /\ DOMAIN q = 1..n /\ ToSet(q) = D
        /\ \A i, j \in 1..n : i < j => q[i] < q[j]
        /\ \A i \in 1..n : q[i] \in D
    <2>1. D \in SUBSET Int /\ IsFiniteSet(D)
      BY ParserAssumption, FS_Subset
    <2>2. q \in Seq(D) /\ ToSet(q) = D /\ Increasing(q)
      BY <2>1, SortNamesOf
    <2> HIDE DEF q
    <2>3. n \in Nat /\ DOMAIN q = 1..n /\ \A i \in 1..n : q[i] \in D
      BY <2>2, LenProperties, ElementOfSeq
    <2> QED BY <2>2, <2>3 DEF Increasing
  <1>2. PICK acc \in [0..n -> Results] :
          /\ acc[0] = ZeroResult(panicked)
          /\ \A k \in 1..n : acc[k] = FinalizeStep(ps, D)[<<acc[k - 1], q[k]>>]
          /\ ParseResult(ps, panicked) = acc[n]
    BY ParseResultFolded DEF Folded
  <1> DEFINE Good(k) == AccountsFor(acc[k], ps, First(k)) /\ acc[k].Panicked = panicked
             T == {k \in Nat : k <= n => Good(k)}
  <1> HIDE DEF q, n
  <1>3. 0 \in T
    <2>1. First(0) = {}
      OBVIOUS
    <2>2. AccountsFor(acc[0], ps, {}) /\ acc[0].Panicked = panicked
      BY <1>2, ZeroReports
    <2> HIDE DEF First
    <2>3. Good(0)
      BY <2>1, <2>2
    <2> QED BY <2>3
  <1>4. ASSUME NEW k \in T PROVE k + 1 \in T
    <2> SUFFICES ASSUME k + 1 <= n PROVE Good(k + 1)
      OBVIOUS
    <2>1. k \in 0..n /\ k + 1 \in 1..n /\ Good(k) /\ (k + 1) - 1 = k
      BY <1>1
    <2> DEFINE ip == q[k + 1]
               r == acc[k]
    <2>2. First(k + 1) = First(k) \cup {ip}
      <3>1. 1..(k + 1) = (1..k) \cup {k + 1}
        BY <2>1
      <3> QED BY <3>1
    <2>3. /\ First(k) \in SUBSET D
          /\ \A p \in First(k) : p < ip
      <3>1. \A i \in 1..k : i \in 1..n /\ i < k + 1
        BY <1>1, <2>1
      <3> QED BY <1>1, <2>1, <3>1
    <2>4. r \in Results /\ ip \in D /\ acc[k + 1] = FinalizeStep(ps, D)[<<r, ip>>]
      BY <1>1, <1>2, <2>1
    <2>5. AccountsFor(r, ps, First(k)) /\ r.Panicked = panicked
      BY <2>1
    <2> HIDE DEF First, ip, r
    <2>6. acc[k + 1] = finalizePackage(r, ip, ps[ip])
      BY <2>4, FinalizeStepType
    <2>7. AccountsFor(finalizePackage(r, ip, ps[ip]), ps, First(k) \cup {ip})
      BY <2>3, <2>4, <2>5, FinalizeReports
    <2>8. finalizePackage(r, ip, ps[ip]).Panicked = r.Panicked
      BY <2>4, FinalizeType
    <2> QED BY <2>2, <2>5, <2>6, <2>7, <2>8
  <1>5. T = Nat
    <2> HIDE DEF Good
    <2>1. T \in SUBSET Nat
      OBVIOUS
    <2> HIDE DEF T
    <2> QED BY <1>3, <1>4, <2>1, NatSet
  <1>6. Good(n)
    <2> HIDE DEF Good
    <2> QED BY <1>1, <1>5
  <1>7. First(n) = D
    BY <1>1 DEF ToSet
  <1>8. acc[n] \in Results
    BY <1>1, <1>2
  <1> QED BY <1>2, <1>6, <1>7, <1>8

(* The status in the row of a package. *)
LEMMA RowStatus ==
  ASSUME NEW ps, NEW p, ps[p] \in Aggregate
  PROVE  /\ RowOf(ps, p).Status = "fail" <=>
              ps[p].pkgCompile \/ ps[p].pkgFailed \/ failedOf(ps[p]) # {}
         /\ RowOf(ps, p).Status = "no_tests" <=>
              /\ RowOf(ps, p).Status # "fail"
              /\ passedOf(ps[p]) = {} /\ failedOf(ps[p]) = {} /\ skippedOf(ps[p]) = {}
  <1> DEFINE a == ps[p]
             f == Cardinality(failedOf(a))
             total == TotalOf(a)
  <1>1. IsFiniteSet(passedOf(a)) /\ IsFiniteSet(failedOf(a)) /\ IsFiniteSet(skippedOf(a))
    <2>1. passedOf(a) \subseteq Top /\ failedOf(a) \subseteq Top /\ skippedOf(a) \subseteq Top
      BY AggregateFields DEF passedOf, failedOf, skippedOf
    <2> QED BY <2>1, ParserAssumption, FS_Subset
  <1>2. /\ Cardinality(passedOf(a)) \in Nat /\ f \in Nat /\ Cardinality(skippedOf(a)) \in Nat
        /\ Cardinality(passedOf(a)) = 0 <=> passedOf(a) = {}
        /\ f = 0 <=> failedOf(a) = {}
        /\ Cardinality(skippedOf(a)) = 0 <=> skippedOf(a) = {}
    BY <1>1, FS_CardinalityType, FS_EmptySet
  <1>3. /\ countTests(a).failed = f
        /\ total = Cardinality(passedOf(a)) + f + Cardinality(skippedOf(a))
    BY DEF countTests, TotalOf
  <1>4. RowOf(ps, p).Status = packageStatus(a, f, total).status
    BY <1>3 DEF RowOf
  <1>5. a.pkgFailed \in BOOLEAN /\ a.pkgCompile \in BOOLEAN
    BY AggregateFields
  <1> HIDE DEF a, f, total
  <1>6. RowOf(ps, p).Status = "fail" <=> a.pkgCompile \/ a.pkgFailed \/ failedOf(a) # {}
    BY <1>2, <1>4, <1>5 DEF packageStatus
  <1>7. RowOf(ps, p).Status = "no_tests" <=> RowOf(ps, p).Status # "fail" /\ total = 0
    BY <1>4, <1>5 DEF packageStatus
  <1>8. total = 0 <=> passedOf(a) = {} /\ failedOf(a) = {} /\ skippedOf(a) = {}
    <2>1. total = 0 <=>
            Cardinality(passedOf(a)) = 0 /\ f = 0 /\ Cardinality(skippedOf(a)) = 0
      BY <1>2, <1>3
    <2> QED BY <1>2, <2>1
  <1> QED BY <1>6, <1>7, <1>8 DEF a

-----------------------------------------------------------------------------
(* The aggregate of a package after a few events. *)

AfterEvents(evs) == FoldLeft(applyEvent, newPkgAgg, evs)
ApplyStep == [x \in Aggregate \X event |-> applyEvent(x[1], x[2])]

(* The events are applied one after the other. *)
LEMMA EventsFolded ==
  ASSUME NEW evs \in Seq(event)
  PROVE  Folded(AfterEvents(evs), Aggregate, newPkgAgg, ApplyStep, evs)
  <1> DEFINE V == Aggregate
             I == SUBSET DOMAIN evs
             step == ApplyStep
             Folds(f) == f = [s \in I |->
                           IF s = {} THEN newPkgAgg
                           ELSE applyEvent(f[s \ {Max(s)}], evs[Max(s)])]
             F == CHOOSE f : Folds(f)
  <1>1. AfterEvents(evs) = F[DOMAIN evs]
    BY DEF AfterEvents, FoldLeft, MapThenFoldSet
  <1>2. /\ step \in [V \X event -> V]
        /\ \A x \in V, ev \in event : step[<<x, ev>>] = applyEvent(x, ev)
    BY ApplyType DEF ApplyStep
  <1>3. newPkgAgg \in V
    BY NewAggregate
  <1> HIDE DEF step, V
  <1>4. \A s \in I : s # {} => evs[Max(s)] \in event /\ s \ {Max(s)} \in I
    BY LastElement
  <1>5. PICK G \in [I -> V] : IsFoldLeft(G, newPkgAgg, step, evs)
    BY <1>2, <1>3, FoldLeftExists
  <1>6. Folds(G)
    <2>1. \A s \in I : s # {} =>
            step[<<G[s \ {Max(s)}], evs[Max(s)]>>] = applyEvent(G[s \ {Max(s)}], evs[Max(s)])
      BY <1>2, <1>4
    <2> QED BY <1>5, <2>1 DEF IsFoldLeft
  <1>7. Folds(F)
    BY <1>6
  <1> HIDE DEF F
  <1>8. /\ F[{}] = newPkgAgg
        /\ \A s \in I : s # {} /\ F[s \ {Max(s)}] \in V =>
             F[s] = step[<<F[s \ {Max(s)}], evs[Max(s)]>>]
    <2>1. F[{}] = newPkgAgg
      BY <1>7
    <2>2. \A s \in I : s # {} => F[s] = applyEvent(F[s \ {Max(s)}], evs[Max(s)])
      BY <1>7
    <2> QED BY <1>2, <1>4, <2>1, <2>2
  <1>9. Folded(F[DOMAIN evs], V, newPkgAgg, step, evs)
    BY <1>2, <1>3, <1>8, FoldLeftFolded
  <1> QED BY <1>1, <1>9 DEF step, V

(* No event leaves the aggregate as it was made. *)
LEMMA NoEvents == AfterEvents(<<>>) = newPkgAgg
  <1>1. <<>> \in Seq(event)
    OBVIOUS
  <1>2. Folded(AfterEvents(<<>>), Aggregate, newPkgAgg, ApplyStep, <<>>)
    BY <1>1, EventsFolded
  <1> QED BY <1>2, FoldedOfNone

(* The events of evs and e behind them. *)
Extended(more, evs, e) ==
  /\ evs \in Seq(event) /\ more \in Seq(event) /\ Len(more) = Len(evs) + 1
  /\ \A i \in 1..Len(evs) : more[i] = evs[i]
  /\ more[Len(evs) + 1] = e

(* The last event is applied to what the others have made. *)
LEMMA EventApplied ==
  ASSUME NEW evs, NEW more, NEW e, Extended(more, evs, e)
  PROVE  AfterEvents(more) = applyEvent(AfterEvents(evs), e)
  <1> DEFINE n == Len(evs)
  <1>1. /\ n \in Nat /\ e \in event /\ evs \in Seq(event) /\ more \in Seq(event)
        /\ Len(more) = n + 1 /\ more[n + 1] = e /\ \A i \in 1..n : more[i] = evs[i]
    BY LenProperties, ElementOfSeq DEF Extended
  <1>2. more = Append(evs, e)
    <2>1. /\ Append(evs, e) \in Seq(event) /\ Len(Append(evs, e)) = n + 1
          /\ \A i \in 1..n : Append(evs, e)[i] = evs[i]
          /\ Append(evs, e)[n + 1] = e
      BY <1>1, AppendProperties
    <2>2. \A i \in 1..Len(more) : i \in 1..n \/ i = n + 1
      BY <1>1
    <2> QED BY <1>1, <2>1, <2>2, SeqEqual
  <1>3. /\ Folded(AfterEvents(evs), Aggregate, newPkgAgg, ApplyStep, evs)
        /\ Folded(AfterEvents(more), Aggregate, newPkgAgg, ApplyStep, more)
    BY <1>1, EventsFolded
  <1>4. /\ AfterEvents(evs) \in Aggregate
        /\ AfterEvents(more) = ApplyStep[<<AfterEvents(evs), e>>]
    BY <1>1, <1>2, <1>3, FoldedOfMore
  <1> QED BY <1>1, <1>4 DEF ApplyStep

(* Up to five events, one by one. *)
LEMMA FewEvents ==
  /\ \A e1 \in event : AfterEvents(<<e1>>) = applyEvent(newPkgAgg, e1)
  /\ \A e1, e2 \in event :
       AfterEvents(<<e1, e2>>) = applyEvent(AfterEvents(<<e1>>), e2)
  /\ \A e1, e2, e3 \in event :
       AfterEvents(<<e1, e2, e3>>) = applyEvent(AfterEvents(<<e1, e2>>), e3)
  /\ \A e1, e2, e3, e4 \in event :
       AfterEvents(<<e1, e2, e3, e4>>) = applyEvent(AfterEvents(<<e1, e2, e3>>), e4)
  /\ \A e1, e2, e3, e4, e5 \in event :
       AfterEvents(<<e1, e2, e3, e4, e5>>) = applyEvent(AfterEvents(<<e1, e2, e3, e4>>), e5)
  <1>1. ASSUME NEW e1 \in event
       PROVE  AfterEvents(<<e1>>) = applyEvent(AfterEvents(<<>>), e1)
    <2> DEFINE few  == <<>>
               more == <<e1>>
    <2>1. few \in Seq(event) /\ Len(few) = 0
      OBVIOUS
    <2>2. more \in Seq(event) /\ Len(more) = 1 /\ more[1] = e1
      OBVIOUS
    <2>3. 1..0 = {}
      OBVIOUS
    <2> HIDE DEF few, more
    <2>4. Extended(more, few, e1)
      BY <2>1, <2>2, <2>3 DEF Extended
    <2> QED BY <2>4, EventApplied DEF few, more
  <1>2. ASSUME NEW e1 \in event, NEW e2 \in event
       PROVE  AfterEvents(<<e1, e2>>) = applyEvent(AfterEvents(<<e1>>), e2)
    <2> DEFINE few  == <<e1>>
               more == <<e1, e2>>
    <2>1. few \in Seq(event) /\ Len(few) = 1 /\ few[1] = e1
      OBVIOUS
    <2>2. more \in Seq(event) /\ Len(more) = 2 /\ more[1] = e1 /\ more[2] = e2
      OBVIOUS
    <2>3. 1..1 = {1}
      OBVIOUS
    <2> HIDE DEF few, more
    <2>4. Extended(more, few, e2)
      BY <2>1, <2>2, <2>3 DEF Extended
    <2> QED BY <2>4, EventApplied DEF few, more
  <1>3. ASSUME NEW e1 \in event, NEW e2 \in event, NEW e3 \in event
       PROVE  AfterEvents(<<e1, e2, e3>>) = applyEvent(AfterEvents(<<e1, e2>>), e3)
    <2> DEFINE few  == <<e1, e2>>
               more == <<e1, e2, e3>>
    <2>1. few \in Seq(event) /\ Len(few) = 2 /\ few[1] = e1 /\ few[2] = e2
      OBVIOUS
    <2>2. more \in Seq(event) /\ Len(more) = 3 /\ more[1] = e1 /\ more[2] = e2 /\ more[3] = e3
      OBVIOUS
    <2>3. 1..2 = {1, 2}
      OBVIOUS
    <2> HIDE DEF few, more
    <2>4. Extended(more, few, e3)
      BY <2>1, <2>2, <2>3 DEF Extended
    <2> QED BY <2>4, EventApplied DEF few, more
  <1>4. ASSUME NEW e1 \in event, NEW e2 \in event, NEW e3 \in event, NEW e4 \in event
       PROVE  AfterEvents(<<e1, e2, e3, e4>>) = applyEvent(AfterEvents(<<e1, e2, e3>>), e4)
    <2> DEFINE few  == <<e1, e2, e3>>
               more == <<e1, e2, e3, e4>>
    <2>1. few \in Seq(event) /\ Len(few) = 3 /\ few[1] = e1 /\ few[2] = e2 /\ few[3] = e3
      OBVIOUS
    <2>2. more \in Seq(event) /\ Len(more) = 4 /\ more[1] = e1 /\ more[2] = e2 /\ more[3] = e3 /\ more[4] = e4
      OBVIOUS
    <2>3. 1..3 = {1, 2, 3}
      OBVIOUS
    <2> HIDE DEF few, more
    <2>4. Extended(more, few, e4)
      BY <2>1, <2>2, <2>3 DEF Extended
    <2> QED BY <2>4, EventApplied DEF few, more
  <1>5. ASSUME NEW e1 \in event, NEW e2 \in event, NEW e3 \in event, NEW e4 \in event, NEW e5 \in event
       PROVE  AfterEvents(<<e1, e2, e3, e4, e5>>) = applyEvent(AfterEvents(<<e1, e2, e3, e4>>), e5)
    <2> DEFINE few  == <<e1, e2, e3, e4>>
               more == <<e1, e2, e3, e4, e5>>
    <2>1. few \in Seq(event) /\ Len(few) = 4 /\ few[1] = e1 /\ few[2] = e2 /\ few[3] = e3 /\ few[4] = e4
      OBVIOUS
    <2>2. more \in Seq(event) /\ Len(more) = 5 /\ more[1] = e1 /\ more[2] = e2 /\ more[3] = e3 /\ more[4] = e4 /\ more[5] = e5
      OBVIOUS
    <2>3. 1..4 = {1, 2, 3, 4}
      OBVIOUS
    <2> HIDE DEF few, more
    <2>4. Extended(more, few, e5)
      BY <2>1, <2>2, <2>3 DEF Extended
    <2> QED BY <2>4, EventApplied DEF few, more
  <1>6. AfterEvents(<<>>) = newPkgAgg
    BY NoEvents
  <1> QED BY <1>1, <1>2, <1>3, <1>4, <1>5, <1>6

(* What of an aggregate with one test decides its package: the verdict of the
   test, and whether it saw a test, a compile failure and a failure. *)
Looks(a, t, v, saw, comp, fail) ==
  /\ a \in Aggregate /\ Bookkept(a)
  /\ \A x \in Top : VerdictOf(a, x) = IF x = t THEN v ELSE "none"
  /\ a.sawAnyTest <=> saw
  /\ a.pkgCompile <=> comp
  /\ a.pkgFailed <=> fail

(* One more event. *)
LEMMA LooksAfter ==
  ASSUME NEW a, NEW t \in Top, NEW v, NEW saw \in BOOLEAN, NEW comp \in BOOLEAN,
         NEW fail \in BOOLEAN, Looks(a, t, v, saw, comp, fail),
         NEW ev \in event, ev.Test \in {<<>>, <<t>>}
  PROVE  LET b == applyEvent(a, ev)
         IN  /\ ev.Test = <<>> /\ ev.Action \in {"start", "pass", "skip"} =>
                  Looks(b, t, v, saw, comp, fail)
             /\ ev.Test = <<>> /\ ev.Action = "fail" => Looks(b, t, v, saw, comp \/ ~saw, TRUE)
             /\ ev.Test = <<>> /\ ev.Action = "output" =>
                  Looks(b, t, v, saw, comp \/ (~saw /\ "build failed" \in ev.Output.marks), fail)
             /\ ev.Test = <<t>> /\ ev.Action = "run" => Looks(b, t, v, TRUE, comp, fail)
             /\ ev.Test = <<t>> /\ ev.Action = "fail" => Looks(b, t, "failed", TRUE, comp, fail)
             /\ ev.Test = <<t>> /\ ev.Action = "pass" /\ v = "none" =>
                  Looks(b, t, "passed", TRUE, comp, fail)
  <1> DEFINE b == applyEvent(a, ev)
  <1>1. /\ a \in Aggregate /\ Bookkept(a)
        /\ \A x \in Top : VerdictOf(a, x) = IF x = t THEN v ELSE "none"
        /\ a.sawAnyTest <=> saw
        /\ a.pkgCompile <=> comp
        /\ a.pkgFailed <=> fail
    BY DEF Looks
  <1>2. b \in Aggregate /\ Bookkept(b)
    BY <1>1, ApplyType, ApplyBookkept
  <1>3. /\ b.sawAnyTest <=> a.sawAnyTest \/ AboutTest(ev)
        /\ b.pkgCompile <=> a.pkgCompile \/ (~a.sawAnyTest /\ Breaks(ev))
    BY <1>1, ApplyBits
  <1>4. b.pkgFailed <=> a.pkgFailed \/ (ev.Test = <<>> /\ ev.Action = "fail")
    BY <1>1, ApplyPkgFailed
  <1>5. \A x \in Top : VerdictOf(b, x) = VerdictAfter(IF x = t THEN v ELSE "none", ev, x)
    BY <1>1, ApplyVerdictExact
  <1> HIDE DEF b
  <1>6. <<t>> # <<>> /\ topLevel(<<t>>) = t /\ IsTop(<<t>>)
    BY DEF topLevel, IsTop
  <1>7. ASSUME ev.Test = <<>>
        PROVE  /\ \A x \in Top : VerdictOf(b, x) = IF x = t THEN v ELSE "none"
               /\ ~AboutTest(ev)
               /\ ev.Action \in {"start", "pass", "skip"} => ~Breaks(ev)
               /\ ev.Action = "fail" => Breaks(ev)
               /\ ev.Action = "output" => (Breaks(ev) <=> "build failed" \in ev.Output.marks)
    BY <1>5, <1>7 DEF VerdictAfter, AboutTest, Breaks
  <1>8. ASSUME ev.Test = <<t>>
        PROVE  /\ \A x \in Top : x # t => VerdictOf(b, x) = "none"
               /\ ~Breaks(ev)
               /\ ev.Action \in {"run", "fail", "pass"} => AboutTest(ev)
               /\ ev.Action = "run" => VerdictOf(b, t) = v
               /\ ev.Action = "fail" => VerdictOf(b, t) = "failed"
               /\ ev.Action = "pass" /\ v = "none" => VerdictOf(b, t) = "passed"
    BY <1>5, <1>6, <1>8 DEF VerdictAfter, AboutTest, Breaks
  <1>9. /\ ev.Test = <<>> /\ ev.Action \in {"start", "pass", "skip"} =>
             Looks(b, t, v, saw, comp, fail)
        /\ ev.Test = <<>> /\ ev.Action = "fail" => Looks(b, t, v, saw, comp \/ ~saw, TRUE)
        /\ ev.Test = <<>> /\ ev.Action = "output" =>
             Looks(b, t, v, saw, comp \/ (~saw /\ "build failed" \in ev.Output.marks), fail)
    BY <1>1, <1>2, <1>3, <1>4, <1>7 DEF Looks
  <1>10. /\ ev.Test = <<t>> /\ ev.Action = "run" => Looks(b, t, v, TRUE, comp, fail)
         /\ ev.Test = <<t>> /\ ev.Action = "fail" => Looks(b, t, "failed", TRUE, comp, fail)
         /\ ev.Test = <<t>> /\ ev.Action = "pass" /\ v = "none" =>
              Looks(b, t, "passed", TRUE, comp, fail)
    BY <1>1, <1>2, <1>3, <1>4, <1>6, <1>8 DEF Looks
  <1> QED BY <1>9, <1>10 DEF b

=============================================================================
