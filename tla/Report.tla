------------------------------- MODULE Report -------------------------------
(***************************************************************************)
(* internal/report: Build assembles the report of a run, JSON, Markdown,   *)
(* SVG and Summary render it.  A rendering is the record of the facts it   *)
(* states; layout and escaping are left out.                               *)
(***************************************************************************)
EXTENDS Aggregates, Display, Config

CONSTANTS
  Path,                \* Pkg -> import path, a sequence of bytes
  DefaultMaxFailures,
  DefaultMaxPackages

Slash == 47
Dot   == 46

(* The order of Go strings: where they first differ, a has ended or has the
   smaller byte. *)
StringLess(a, b) ==
  \E i \in 1..Len(b) :
    /\ \A j \in 1..(i - 1) : j <= Len(a) /\ a[j] = b[j]
    /\ i > Len(a) \/ a[i] < b[i]

(* sort.Slice: nothing comes behind what it is less than. *)
SortSlice(s, less(_, _)) ==
  LET p == CHOOSE p \in [DOMAIN s -> DOMAIN s] :
             \A i, j \in DOMAIN s : i < j => p[i] # p[j] /\ ~less(s[p[j]], s[p[i]])
  IN  [i \in DOMAIN s |-> s[p[i]]]

ASSUME ReportAssumption ==
  /\ \A p \in Pkg : Path[p] \in Seq(Nat) \ {<<>>}
  /\ \A p, q \in Pkg : p < q => StringLess(Path[p], Path[q])
  /\ DefaultMaxFailures \in Nat \ {0} /\ DefaultMaxPackages \in Nat \ {0}

-----------------------------------------------------------------------------
(* Build. *)

(* <<>> is the empty module path. *)
RelName(modulePath, importPath) ==
  LET prefix == Append(modulePath, Slash)
  IN  IF modulePath = <<>> THEN importPath
      ELSE IF importPath = modulePath THEN <<Dot>>
      ELSE IF Len(importPath) > Len(prefix) /\ IsPrefix(prefix, importPath)
      THEN SubSeq(importPath, Len(prefix) + 1, Len(importPath))
      ELSE importPath

NoPercent == -1     \* a package without statements has no coverage

(* Mutant: measured packages are listed whether they had events or not. *)
coverageOnlyAll(parse, cov) == DOMAIN cov.Packages

coverageOnly(parse, cov) ==
  DOMAIN cov.Packages \ {r.ImportPath : r \in ToSet(parse.Packages)}

PackageCoverage(cov, p) ==
  IF p \in DOMAIN cov.Packages /\ ~NA(cov.Packages[p])
  THEN Percentage(cov.Packages[p].covered, cov.Packages[p].total) ELSE NoPercent

(* The rows of the report. *)
TestedRow(cov, modulePath, r) ==
  [Name |-> RelName(modulePath, Path[r.ImportPath]), Status |-> r.Status,
   Tests |-> r.Tests, Failed |-> r.Failed, Coverage |-> PackageCoverage(cov, r.ImportPath)]

MeasuredRow(cov, modulePath, p) ==
  [Name |-> RelName(modulePath, Path[p]), Status |-> "no_tests",
   Tests |-> 0, Failed |-> 0, Coverage |-> PackageCoverage(cov, p)]

FailureRow(modulePath, f) ==
  [Package |-> RelName(modulePath, Path[f.Package]), Test |-> f.Test]

NameLess(a, b) == StringLess(a.Name, b.Name)

FailureLess(a, b) ==
  IF a.Package # b.Package THEN StringLess(a.Package, b.Package) ELSE a.Test < b.Test

PackageRows(parse, cov, modulePath) ==
  LET only == SetToSeq(coverageOnly(parse, cov))
  IN  [i \in 1..Len(parse.Packages) |-> TestedRow(cov, modulePath, parse.Packages[i])]
        \o [i \in 1..Len(only) |-> MeasuredRow(cov, modulePath, only[i])]

FailureRows(parse, modulePath) ==
  [i \in 1..Len(parse.Failures) |-> FailureRow(modulePath, parse.Failures[i])]

Build(parse, cov, threshold, modulePath) ==
  [Tests     |-> parse.Tests,
   Total     |-> cov.TotalStatements,
   Coverage  |-> Percentage(cov.CoveredStatements, cov.TotalStatements),
   Threshold |-> threshold,
   Packages  |-> SortSlice(PackageRows(parse, cov, modulePath), NameLess),
   Failures  |-> SortSlice(FailureRows(parse, modulePath), FailureLess)]

-----------------------------------------------------------------------------
(* The renderings. *)

(* encoding/json has no NaN. *)
JSONFails(rep) == rep.Threshold = NaN

limit(n, default) == IF n <= 0 THEN default ELSE n

(* Mutant: no note when exactly one is left out. *)
cappedLate(seq, n) ==
  [shown |-> SubSeq(seq, 1, IF Len(seq) > n THEN n ELSE Len(seq)),
   omitted |-> IF Len(seq) > n + 1 THEN Len(seq) - n ELSE 0]

(* At most n members; the note says how many there are beyond them. *)
capped(seq, n) ==
  [shown   |-> SubSeq(seq, 1, IF Len(seq) > n THEN n ELSE Len(seq)),
   omitted |-> IF Len(seq) > n THEN Len(seq) - n ELSE 0]

formatCoverage(rep) == IF rep.Total > 0 THEN rep.Coverage ELSE NoPercent

Markdown(rep, maxFailures, maxPackages) ==
  [Tests     |-> rep.Tests,
   Coverage  |-> formatCoverage(rep),
   Threshold |-> rep.Threshold,
   Packages  |-> capped(rep.Packages, limit(maxPackages, DefaultMaxPackages)),
   Failures  |-> capped(rep.Failures, limit(maxFailures, DefaultMaxFailures))]

Summary(rep, code) ==
  [Status   |-> IF rep.Tests.Failed > 0 THEN "failed" ELSE "passed",
   Tests    |-> rep.Tests,
   Coverage |-> formatCoverage(rep),
   ExitCode |-> code]
=============================================================================
