------------------------------- MODULE Parser -------------------------------
(***************************************************************************)
(* internal/gotest/parser.go, Parse: one pass over test.jsonl.  Each line  *)
(* is folded into the aggregate of its package (module Aggregates); end of *)
(* file finalises them into the ParseResult.                               *)
(***************************************************************************)
EXTENDS Aggregates

VARIABLES
  pkgs,       \* per-package aggregates of the packages met so far
  Panicked,   \* res.Panicked
  phase,      \* "scanning", then "returned" or "failed" (scanner error)
  res         \* the ParseResult, NoResult until Parse returns one

parserVars == <<pkgs, Panicked, phase, res>>

NoResult == [Packages |-> <<>>]

-----------------------------------------------------------------------------
(* Parse. *)

ParserInit ==
  /\ pkgs = [p \in {} |-> newPkgAgg]
  /\ Panicked = FALSE
  /\ phase = "scanning"
  /\ res = NoResult

getPkg(ip) == IF ip \in DOMAIN pkgs THEN pkgs[ip] ELSE newPkgAgg

(* Mutant: a line that names no package is folded like any other. *)
ScanUnnamed(ev) ==
  /\ phase = "scanning"
  /\ Panicked' = (Panicked \/ "panic:" \in ev.Output.marks)
  /\ pkgs' = Put(pkgs, ev.Package, applyEvent(getPkg(ev.Package), ev))
  /\ UNCHANGED <<phase, res>>

(* One iteration of the scan loop. *)
Scan(ev) ==
  /\ phase = "scanning"
  /\ IF ev.Package = NoPkg
     THEN UNCHANGED <<pkgs, Panicked>>
     ELSE LET p == getPkg(ev.Package)
          IN  /\ Panicked' = (Panicked \/ "panic:" \in ev.Output.marks)
              /\ pkgs' = Put(pkgs, ev.Package, applyEvent(p, ev))
  /\ UNCHANGED <<phase, res>>

(* End of file: finalise and return. *)
Finish ==
  /\ phase = "scanning"
  /\ phase' = "returned"
  /\ res' = ParseResult(pkgs, Panicked)
  /\ UNCHANGED <<pkgs, Panicked>>

(* scanner.Err(): an overlong line or a read error; no partial result. *)
ScanError ==
  /\ phase = "scanning"
  /\ phase' = "failed"
  /\ UNCHANGED <<pkgs, Panicked, res>>

(* Any stream of events at all. *)
ParserNext ==
  \/ \E ev \in event : Scan(ev)
  \/ Finish
  \/ ScanError

ParserSpec == ParserInit /\ [][ParserNext]_parserVars

-----------------------------------------------------------------------------
(* Properties. *)

(* Shape of the state. *)
ParserTypeOK ==
  /\ DOMAIN pkgs \subseteq Pkg
  /\ pkgs \in [DOMAIN pkgs -> Aggregate]
  /\ Panicked \in BOOLEAN
  /\ phase \in {"scanning", "returned", "failed"}

(* The list of failing tests, the set that guards it and the failed entries
   of the map, three pieces of state applyTestEvent keeps, agree: a test is
   on the list exactly once if it failed and not at all otherwise. *)
FailureBookkeeping == \A p \in DOMAIN pkgs : Bookkept(pkgs[p])

(* However much a test prints, what is kept of it stays within the bound. *)
OutputBounded ==
  \A p \in DOMAIN pkgs, t \in Top :
    Len(pkgs[p].failOutput[t]) <= maxFailureOutputBytes

(* Once a package reported anything about a test, later output and a later
   failure of the package cannot turn it into a compile failure; and what
   was one stays one. *)
CompileVerdictFrozen ==
  [][\A p \in DOMAIN pkgs :
       /\ pkgs[p].sawAnyTest => pkgs'[p].pkgCompile = pkgs[p].pkgCompile
       /\ pkgs[p].pkgCompile => pkgs'[p].pkgCompile]_parserVars

Verdicts == [p \in Pkg |-> [t \in Top |->
               IF p \in DOMAIN pkgs THEN VerdictOf(pkgs[p], t) ELSE "none"]]

Tally == INSTANCE TestTally WITH verdict <- Verdicts

(* Whatever the stream, the parser keeps the promise of TestTally: the first
   pass or skip of a test decides it and a failure is final. *)
ImplementsTally == Tally!TallySpec
=============================================================================
