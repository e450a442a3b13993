----------------------------- MODULE MCReaders -----------------------------
(***************************************************************************)
(* What go test leaves is read twice: Parse reads the events, and          *)
(* FromProfile the coverage profile.  The two share nothing, so that a     *)
(* behaviour here reads one of them.                                       *)
(***************************************************************************)
EXTENDS MCParserStream, Coverage

VARIABLE reads   \* "events" | "profile"

readersVars == <<streamVars, vars, reads>>

ReadersInit == StreamInit /\ Init /\ reads \in {"events", "profile"}

ReadersNext ==
  \/ reads = "events" /\ StreamNext /\ UNCHANGED <<vars, reads>>
  \/ reads = "profile" /\ Next /\ UNCHANGED <<streamVars, reads>>

ReadersSpec == ReadersInit /\ [][ReadersNext]_readersVars
=============================================================================
