------------------------------ MODULE MCInputs ------------------------------
(***************************************************************************)
(* A workspace "w", also reached as "v", next to a directory "w2"; links   *)
(* in it lead inside, outside, nowhere or to each other.  Arguments of up  *)
(* to two runes, quoted, and every text of up to four runes.               *)
(***************************************************************************)
EXTENDS Inputs

Names == {"w", "v", "w2", "a", "b"}

W == <<"w">>
A == <<"w", "a">>
B == <<"w", "b">>
AB == <<"w", "a", "b">>
O == <<"w2">>
V == <<"v">>
OA == <<"w2", "a">>

Entries == {Dir, File} \cup {Link(p) : p \in {W, A, B, AB, O, OA}}

(* With "v" a link to the workspace, or a directory of its own, as where there
   are no links at all. *)
SomeFileSystems ==
  {e @@ (V :> v) :
     e \in UNION {{f \in [there \cup {W, O} -> Entries] :
                     /\ f[W] = Dir /\ f[O] = Dir
                     /\ AB \in there => A \in there /\ f[A] = Dir
                     /\ OA \in there => f[OA] = Dir} : there \in SUBSET {A, B, AB, OA}},
     v \in {Dir, Link(W)}}

SomeWorkspaces == {W, V}

SomePaths ==
  [abs : {FALSE}, elems : UNION {[1..n -> {"a", "b", ".", ".."}] : n \in 1..3}]
    \cup [abs : {TRUE}, elems : {A, AB, <<"v", "a">>, OA, <<"w", "..", "w2">>}]

-----------------------------------------------------------------------------
Words == UNION {[1..n -> {"a", "space", "'", "dquote", "\\"}] : n \in 0..2}

(* The ways to quote a word; of the two with double quotes the second leaves
   a backslash alone where it can. *)
Single(w) == <<"'">> \o w \o <<"'">>
Double(w) ==
  <<"dquote">> \o FlattenSeq([k \in DOMAIN w |-> IF w[k] \in {"dquote", "\\"} THEN <<"\\", w[k]>> ELSE <<w[k]>>])
  \o <<"dquote">>
DoubleLess(w) ==
  <<"dquote">> \o FlattenSeq([k \in DOMAIN w |->
    IF w[k] = "dquote" \/ (w[k] = "\\" /\ (k = Len(w) \/ w[k + 1] \in {"dquote", "\\"}))
    THEN <<"\\", w[k]>> ELSE <<w[k]>>]) \o <<"dquote">>
Backslashed(w) == FlattenSeq([k \in DOMAIN w |-> <<"\\", w[k]>>])

Quotings(w) ==
  {Double(w), DoubleLess(w)} \cup (IF "'" \in ToSet(w) THEN {} ELSE {Single(w)})
              \cup (IF w = <<>> THEN {} ELSE {Backslashed(w)})

Quoted ==
  {[runes |-> q, meant |-> {<<w>>}] : <<w, q>> \in UNION {{w} \X Quotings(w) : w \in Words}}

TwoQuoted ==
  UNION {UNION {{[runes |-> Double(v) \o <<"space">> \o q, meant |-> {<<v, w>>}] : q \in Quotings(w)} :
                  v \in Words} : w \in Words}

SomeTestArgs ==
  Quoted \cup TwoQuoted
    \cup [runes : UNION {[1..n -> Rune] : n \in 0..4}, meant : {{}}]
=============================================================================
