--------------------------- MODULE MCParserStream ---------------------------
(***************************************************************************)
(* Every stream of at most MaxStream events of a small alphabet: two       *)
(* packages, two tests, one with a subtest, texts longer than the bound,   *)
(* newlines, marks, and a line that names no package.                      *)
(***************************************************************************)
EXTENDS ParserStream

Plain   == [text |-> <<>>, marks |-> {}]
Long    == [text |-> <<1, 10, 2>>, marks |-> {}]
Newline == [text |-> <<10>>, marks |-> {"panic:"}]
Build   == [text |-> <<3>>, marks |-> {"build failed"}]

Texts == {Plain, Long, Newline, Build}

Ev(a, p, n, o) == [Action |-> a, Package |-> p, Test |-> n, Output |-> o]

(* Package 1 has a test with a subtest and another one. *)
Events ==
  {Ev(a, 1, <<1>>, Plain) : a \in {"pass", "fail", "skip"}}
  \cup {Ev(a, 1, <<2>>, Plain) : a \in {"run", "fail"}}
  \cup {Ev("fail", 1, <<1, 1>>, Plain), Ev("fail", 1, <<>>, Plain),
        Ev("output", 1, <<1>>, Long), Ev("output", 1, <<1, 1>>, Newline),
        Ev("output", 1, <<2>>, Build), Ev("output", 1, <<>>, Build),
        Ev("pass", 2, <<1>>, Plain), Ev("start", 2, <<>>, Plain),
        Ev("output", 2, <<1>>, Long), Ev("output", 0, <<>>, Newline)}
=============================================================================
