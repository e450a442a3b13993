-------------------------------- MODULE Gates --------------------------------
(***************************************************************************)
(* internal/coverage/coverage.go: the counts of a package, the result of a *)
(* profile and the gates on it, with the exit codes of                     *)
(* internal/config/exitcode.go.                                            *)
(*                                                                         *)
(* A threshold is any decimal: Fine parts to a hundredth of a percent      *)
(* (33.333 is 33333 when Fine is 10).  The code multiplies it as a         *)
(* float64: the product is exact or off by so little that it tells only    *)
(* when coverage meets the threshold exactly (with up to seven decimals    *)
(* and a million statements).  RoundsUp names the products that come out   *)
(* too large (65.4 * 2000 is one); it has none for whole percentages,      *)
(* whose products are exact.                                               *)
(*                                                                         *)
(* The list of packages is a function of import paths: its order shows     *)
(* only in reports.                                                        *)
(***************************************************************************)
EXTENDS Integers, Sequences, FiniteSets, SequencesExt

CONSTANTS
  Fine,       \* parts of a hundredth of a percent, the unit of thresholds
  RoundsUp,   \* pairs <<threshold, statements>>
  NaN         \* the float64 that compares with nothing

Hundred == 10000 * Fine
Percent == 0..Hundred

ASSUME GatesAssumption ==
  /\ Fine \in Nat \ {0}
  /\ RoundsUp \subseteq {th \in Percent : th % (100 * Fine) # 0} \X Nat
  /\ NaN \notin Int

(* a < b on float64. *)
Less(a, b) == a # NaN /\ b # NaN /\ a < b

ExitSuccess         == 0
ExitTestFailure     == 10
ExitTotalCoverage   == 11
ExitPackageCoverage == 12
ExitConfigError     == 20
ExitToolchainError  == 21

-----------------------------------------------------------------------------
(* Mutant: a covered block counts as one statement. *)
addBlockOnce(pc, stmts, hit) ==
  [covered |-> IF hit THEN pc.covered + 1 ELSE pc.covered,
   total   |-> pc.total + stmts]

(* One block of a profile added to the counts of its package. *)
addBlock(pc, stmts, hit) ==
  [covered |-> IF hit THEN pc.covered + stmts ELSE pc.covered,
   total   |-> pc.total + stmts]

(* covered*100 < threshold*total *)
belowThreshold(covered, total, threshold) ==
  /\ total # 0 /\ threshold # NaN
  /\ \/ Hundred * covered < threshold * total
     \/ Hundred * covered = threshold * total /\ <<threshold, total>> \in RoundsUp

Result(pkgs) ==
  [CoveredStatements |-> SumFunction([p \in DOMAIN pkgs |-> pkgs[p].covered]),
   TotalStatements   |-> SumFunction([p \in DOMAIN pkgs |-> pkgs[p].total]),
   Packages          |-> pkgs]

HasData(r) == r.TotalStatements > 0
NA(pc)     == pc.total = 0

totalGateFails(r, threshold) ==
  IF HasData(r)
  THEN belowThreshold(r.CoveredStatements, r.TotalStatements, threshold)
  ELSE Less(0, threshold)

packageGateFails(r, threshold, excluded) ==
  /\ Less(0, threshold)
  /\ \E p \in DOMAIN r.Packages \ excluded :
       LET pc == r.Packages[p]
       IN  ~NA(pc) /\ belowThreshold(pc.covered, pc.total, threshold)

Gate(r, total, package, excluded) ==
  IF totalGateFails(r, total) THEN ExitTotalCoverage
  ELSE IF packageGateFails(r, package, excluded) THEN ExitPackageCoverage
  ELSE ExitSuccess
=============================================================================
