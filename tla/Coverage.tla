------------------------------ MODULE Coverage ------------------------------
(***************************************************************************)
(* internal/coverage/coverage.go, fromProfiles: the blocks of a coverage   *)
(* profile are added up per package, and the gates judge the sums.         *)
(*                                                                         *)
(* The profile is read block by block in any order (cover.ParseProfiles    *)
(* sorts files and merges equal blocks; it is not part of the repository). *)
(***************************************************************************)
EXTENDS Display

CONSTANTS
  Imports,            \* import paths of measured packages
  Excluded,           \* those among them that the per-package gate skips
  CoverageThreshold,  \* cfg.CoverageThreshold
  PackageThreshold,   \* cfg.PackageThreshold
  NumStmts,           \* numbers of statements of a block
  MaxBlocks           \* bound on the blocks of a profile

ASSUME CoverageAssumption ==
  /\ IsFiniteSet(Imports) /\ Excluded \subseteq Imports
  /\ CoverageThreshold \in Percent /\ PackageThreshold \in Percent
  /\ NumStmts \subseteq Nat /\ MaxBlocks \in Nat

-----------------------------------------------------------------------------
(* fromProfiles. *)

VARIABLES
  perPkg,   \* import path -> [covered, total], for the packages met so far
  blocks    \* history: the blocks read, [imp, stmts, hit]

vars == <<perPkg, blocks>>

Init ==
  /\ perPkg = [p \in {} |-> [covered |-> 0, total |-> 0]]
  /\ blocks = <<>>

(* Mutant: each file of a package replaces the counts of the one before. *)
countsOfFile(imp) == [covered |-> 0, total |-> 0]

counts(imp) == IF imp \in DOMAIN perPkg THEN perPkg[imp] ELSE [covered |-> 0, total |-> 0]

(* A block of a file of package imp; hit says that its count is positive. *)
Block(imp, stmts, hit) ==
  /\ Len(blocks) < MaxBlocks
  /\ perPkg' = [p \in DOMAIN perPkg \cup {imp} |->
                  IF p = imp THEN addBlock(counts(p), stmts, hit) ELSE perPkg[p]]
  /\ blocks' = Append(blocks, [imp |-> imp, stmts |-> stmts, hit |-> hit])

CoveredBlock(imp, stmts)   == Block(imp, stmts, TRUE)
UncoveredBlock(imp, stmts) == Block(imp, stmts, FALSE)

Next ==
  \E imp \in Imports :
    \E stmts \in NumStmts : CoveredBlock(imp, stmts) \/ UncoveredBlock(imp, stmts)

Spec == Init /\ [][Next]_vars

-----------------------------------------------------------------------------
(* Properties.  GateNow is the exit code if the profile ended here. *)

GateNow == Gate(Result(perPkg), CoverageThreshold, PackageThreshold, Excluded)

Blocks == [imp : Imports, stmts : NumStmts, hit : BOOLEAN]

(* The statements of those blocks of a profile that are in T. *)
Stmts(profile, T) ==
  FoldLeft(LAMBDA n, b : IF b \in T THEN n + b.stmts ELSE n, 0, profile)

(* The counts are those of the profile as a whole, whatever the order of its
   blocks and however the files of a package are spread over it. *)
CountsExact ==
  LET r == Result(perPkg)
      hit == {b \in Blocks : b.hit}
      in(p) == {b \in Blocks : b.imp = p}
  IN  /\ r.TotalStatements = Stmts(blocks, Blocks)
      /\ r.CoveredStatements = Stmts(blocks, hit)
      /\ \A p \in DOMAIN perPkg :
           /\ perPkg[p].total = Stmts(blocks, in(p))
           /\ perPkg[p].covered = Stmts(blocks, in(p) \cap hit)

(* Covering more never makes a passing gate fail, and adding code that no test
   reaches never makes a failing gate pass. *)
GateMonotone ==
  [][\A imp \in Imports, n \in NumStmts :
       /\ CoveredBlock(imp, n) /\ GateNow = ExitSuccess => GateNow' = ExitSuccess
       /\ UncoveredBlock(imp, n) /\ GateNow # ExitSuccess => GateNow' # ExitSuccess]_vars

(* What is shown agrees with the verdict although only the verdict is exact:
   with coverage and threshold both rounded to two decimals, as the reports
   print them, a total or a package shown below its threshold fails the gate,
   and what fails is shown at its threshold at most. *)
DisplayAgrees ==
  LET r == Result(perPkg)
      shown(pc) == Percentage(pc.covered, pc.total)
      total == Percentage(r.CoveredStatements, r.TotalStatements)
      judged == {p \in DOMAIN perPkg \ Excluded : ~NA(perPkg[p])}
  IN  /\ \A th \in formatThreshold(CoverageThreshold) :
           /\ total < th => GateNow = ExitTotalCoverage
           /\ GateNow = ExitTotalCoverage => total <= th
      /\ \A th \in formatThreshold(PackageThreshold) :
           /\ (\E p \in judged : shown(perPkg[p]) < th) =>
                GateNow \in {ExitTotalCoverage, ExitPackageCoverage}
           /\ GateNow = ExitPackageCoverage => \E p \in judged : shown(perPkg[p]) <= th

(* The badge is no worse than the coverage and flatters it by rounding only:
   its colour is that of the exact percentage, or starts less than half a
   hundredth above it, and its text, rounded twice, is off by at most 0.055.
   Without statements it is "unknown". *)
BadgeHonest ==
  LET r == Result(perPkg)
      c == r.CoveredStatements
      n == r.TotalStatements
      badge == SVG(HasData(r), Percentage(c, n))
  IN  /\ badge = unknown <=> n = 0
      /\ n > 0 =>
           /\ \A d \in Colors : 100 * c >= d * n => badge.color >= d
           /\ badge.color * 100 * 2 * n <= 20000 * c + n
           /\ \A t \in badge.value : 2 * (10 * t * n - 10000 * c) \in (-11 * n)..(11 * n)

(* Coverage that meets the threshold is not below it. *)
MetThresholdPasses ==
  LET r == Result(perPkg)
  IN  HasData(r) /\ Hundred * r.CoveredStatements >= CoverageThreshold * r.TotalStatements
        => GateNow # ExitTotalCoverage

=============================================================================
