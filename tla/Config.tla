------------------------------- MODULE Config -------------------------------
(***************************************************************************)
(* internal/config/config.go: the configuration of an invocation, as its   *)
(* flags give it, and Validate.                                            *)
(*                                                                         *)
(* An exclude expression is what matters of it: whether it is empty,       *)
(* whether it compiles and which import paths it matches.  The empty       *)
(* expression, taken as one, would match them all.                         *)
(***************************************************************************)
EXTENDS Gates

CoverModes == {"set", "count", "atomic"}

(* The patterns an invocation goes by; compilation may fail on any of them. *)
compiledExclude(cfg) == {re \in cfg.Exclude : ~re.empty}
compileError(cfg)    == \E re \in compiledExclude(cfg) : ~re.compiles

InRange(threshold) == ~Less(threshold, 0) /\ ~Less(Hundred, threshold)

Validate(cfg) ==
  /\ cfg.CoverMode \in CoverModes
  /\ cfg.Race => cfg.CoverMode = "atomic"
  /\ InRange(cfg.CoverageThreshold)
  /\ InRange(cfg.PackageThreshold)
  /\ cfg.Timeout >= 0
  /\ ~compileError(cfg)

matchesAny(ip, res) == \E re \in res : ip \in re.matches
=============================================================================
