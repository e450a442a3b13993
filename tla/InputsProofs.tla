---------------------------- MODULE InputsProofs ----------------------------
(***************************************************************************)
(* What the path guard accepts, and what gtr makes of test_args, for every *)
(* file system, path and text.                                             *)
(*                                                                         *)
(* A walk through a file system calls itself last, so that it is known by  *)
(* its equation (TailRecursion).  It ends because each step has fewer      *)
(* links left to follow, or as many and a shorter rest.                    *)
(*                                                                         *)
(* A text that quotes a list is read back as the list because, wherever    *)
(* the loop is, the arguments it has are the first words and the word it   *)
(* is in has been read up to a rune of its spelling (Reading).             *)
(***************************************************************************)
EXTENDS Inputs, FoldLemmas

(* A text put behind one that is not empty leaves its first element. *)
LEMMA ConcatTail ==
  ASSUME NEW S, NEW p \in Seq(S), NEW q \in Seq(S), p # <<>>
  PROVE  /\ p \o q \in Seq(S) /\ p \o q # <<>>
         /\ Head(p \o q) = Head(p) /\ Tail(p \o q) = Tail(p) \o q
         /\ Head(p) \in S /\ Tail(p) \in Seq(S) /\ Len(Tail(p)) < Len(p)
         /\ Tail(p) \o q = <<>> => Tail(p) = <<>> /\ q = <<>>
  <1>1. /\ p \o q \in Seq(S) /\ Len(p \o q) = Len(p) + Len(q)
        /\ \A k \in 1..(Len(p) + Len(q)) : (p \o q)[k] = IF k <= Len(p) THEN p[k] ELSE q[k - Len(p)]
    BY ConcatProperties
  <1>2. Len(p) \in Nat \ {0} /\ Len(q) \in Nat
    BY EmptySeq, LenProperties
  <1>3. p \o q # <<>>
    BY <1>1, <1>2, EmptySeq
  <1>4. /\ Head(p) \in S /\ Tail(p) \in Seq(S) /\ Len(Tail(p)) = Len(p) - 1
        /\ \A k \in 1..Len(Tail(p)) : Tail(p)[k] = p[k + 1]
    BY HeadTailProperties
  <1>5. /\ Tail(p \o q) \in Seq(S) /\ Len(Tail(p \o q)) = Len(p \o q) - 1
        /\ \A k \in 1..Len(Tail(p \o q)) : Tail(p \o q)[k] = (p \o q)[k + 1]
    BY <1>1, <1>3, HeadTailProperties
  <1>6. /\ Tail(p) \o q \in Seq(S) /\ Len(Tail(p) \o q) = Len(Tail(p)) + Len(q)
        /\ \A k \in 1..(Len(Tail(p)) + Len(q)) :
             (Tail(p) \o q)[k] = IF k <= Len(Tail(p)) THEN Tail(p)[k] ELSE q[k - Len(Tail(p))]
    BY <1>4, ConcatProperties
  <1>7. Tail(p \o q) = Tail(p) \o q
    <2>1. Len(Tail(p \o q)) = Len(Tail(p) \o q)
      BY <1>1, <1>2, <1>4, <1>5, <1>6
    <2>2. ASSUME NEW k \in 1..Len(Tail(p \o q)) PROVE Tail(p \o q)[k] = (Tail(p) \o q)[k]
      <3>1. Tail(p \o q)[k] = (p \o q)[k + 1] /\ k \in 1..(Len(Tail(p)) + Len(q))
        BY <1>5, <1>6, <2>1
      <3>2. k + 1 \in 1..(Len(p) + Len(q)) /\ (k + 1) - Len(p) = k - (Len(p) - 1)
            /\ (k + 1 <= Len(p) <=> k <= Len(p) - 1)
        BY <1>2, <1>4, <3>1
      <3>3. k <= Len(p) - 1 => k \in 1..Len(Tail(p))
        BY <1>2, <1>4
      <3> QED BY <1>1, <1>4, <1>6, <3>1, <3>2, <3>3
    <2> QED BY <1>5, <1>6, <2>1, <2>2, SeqEqual
  <1>8. Head(p \o q) = Head(p)
    <2>1. (p \o q)[1] = p[1]
      BY <1>1, <1>2
    <2> QED BY <2>1
  <1>9. Tail(p) \o q = <<>> => Tail(p) = <<>> /\ q = <<>>
    BY <1>4, ConcatEqualIffEmpty
  <1> QED BY <1>1, <1>2, <1>3, <1>4, <1>7, <1>8, <1>9

-----------------------------------------------------------------------------
(* The walk. *)

At(d, p, l) == [done |-> d, rest |-> p, links |-> l]

Outcome == [ok : BOOLEAN, path : Path]

(* A step of a walk leads to a place again. *)
LEMMA FollowIsPlace ==
  ASSUME NEW f, IsFileSystem(f), NEW s \in Place, LeadsOn(f, s)
  PROVE  Follow(f, s) \in Place
  <1>1. s.rest \in Seq(Element) /\ s.done \in Seq(Element) /\ s.links \in 0..MaxLinks /\ s.rest # <<>>
    BY DEF Place, Path, LeadsOn
  <1>2. Head(s.rest) \in Element /\ Tail(s.rest) \in Seq(Element) /\ MaxLinks \in Nat
    BY <1>1, HeadTailProperties, PathGuardAssumption
  <1>3. Append(s.done, Head(s.rest)) \in Seq(Element)
    BY <1>1, <1>2, AppendProperties
  <1>4. s.done # <<>> => Front(s.done) \in Seq(Element)
    <2> SUFFICES ASSUME s.done # <<>> PROVE SubSeq(s.done, 1, Len(s.done) - 1) \in Seq(Element)
      BY DEF Front
    <2>1. Len(s.done) \in Nat /\ \A k \in 1..(Len(s.done) - 1) : s.done[k] \in Element
      BY <1>1, LenProperties, ElementOfSeq
    <2> QED BY <2>1, SubSeqProperties
  <1>5. IsA(f, s, "link") => f[here(s)].to \o Tail(s.rest) \in Seq(Element)
    <2>1. IsA(f, s, "link") => f[here(s)].to \in Seq(Element)
      BY DEF IsA, IsFileSystem, Entry, Path
    <2> QED BY <1>2, <2>1, ConcatProperties
  <1>6. CASE Head(s.rest) = "."
    <2>1. Follow(f, s) = [s EXCEPT !.rest = Tail(@)]
      BY <1>6 DEF Follow, IsA, Moves
    <2> QED BY <1>2, <2>1 DEF Place, Path
  <1>7. CASE Head(s.rest) = ".."
    <2>1. Follow(f, s) = [s EXCEPT !.done = IF @ = <<>> THEN @ ELSE Front(@), !.rest = Tail(@)]
      BY <1>7 DEF Follow, IsA, Moves
    <2> QED BY <1>1, <1>2, <1>4, <2>1 DEF Place, Path
  <1>8. CASE Head(s.rest) \notin {".", ".."} /\ IsA(f, s, "dir")
    <2>1. Follow(f, s) = [s EXCEPT !.done = here(s), !.rest = Tail(@)]
      BY <1>8 DEF Follow, IsA, Moves
    <2> QED BY <1>2, <1>3, <2>1 DEF Place, Path, here
  <1>9. CASE Head(s.rest) \notin {".", ".."} /\ ~IsA(f, s, "dir")
    <2>1. IsA(f, s, "link") /\ s.links > 0
      BY <1>9 DEF LeadsOn, Moves
    <2>2. Follow(f, s) = [done |-> <<>>, rest |-> f[here(s)].to \o Tail(s.rest), links |-> s.links - 1]
      BY <1>9, <2>1 DEF Follow
    <2>3. s.links - 1 \in 0..MaxLinks /\ <<>> \in Seq(Element)
      BY <1>1, <1>2, <2>1
    <2> QED BY <1>5, <2>1, <2>2, <2>3 DEF Place, Path
  <1> QED BY <1>6, <1>7, <1>8, <1>9

(* The equation of the walk. *)
LEMMA WalkEquation ==
  ASSUME NEW f, IsFileSystem(f)
  PROVE  \A s \in Place :
           Walks(f)[s] = IF LeadsOn(f, s) THEN Walks(f)[Follow(f, s)] ELSE End(f, s)
  <1> DEFINE N == {s \in Place : LeadsOn(f, s)}
             follow == [s \in N |-> Follow(f, s)]
             out == [s \in Place |-> End(f, s)]
             IsWalk(g) == g = [s \in Place |-> IF LeadsOn(f, s) THEN g[Follow(f, s)] ELSE End(f, s)]
             W == CHOOSE g : IsWalk(g)
  <1>1. follow \in [N -> Place]
    BY FollowIsPlace
  <1>2. out \in [Place -> Outcome] /\ Failure \in Outcome
    <2>1. ASSUME NEW s \in Place PROVE End(f, s) \in Outcome
      <3>1. s.rest \in Seq(Element) /\ s.done \in Seq(Element)
        BY DEF Place, Path
      <3>2. s.rest # <<>> => Append(s.done, Head(s.rest)) \in Seq(Element)
        BY <3>1, HeadTailProperties, AppendProperties
      <3>3. <<>> \in Seq(Element)
        OBVIOUS
      <3>4. /\ Failure \in Outcome /\ Found(s.done) \in Outcome
            /\ s.rest # <<>> => Found(here(s)) \in Outcome
        BY <3>1, <3>2, <3>3 DEF Found, Failure, Outcome, Path, here
      <3> QED BY <3>4 DEF End
    <2>2. Failure \in Outcome
      BY DEF Failure, Outcome, Path
    <2> QED BY <2>1, <2>2
  <1>3. PICK G \in [Place -> Outcome] : IsTailRecursive(G, Place, N, follow, out)
    <2>1. N \in SUBSET Place
      OBVIOUS
    <2>2. out \in [Place -> Outcome]
      BY <1>2
    <2>3. Failure \in Outcome
      BY <1>2
    <2> HIDE DEF N, follow, out
    <2> QED BY <1>1, <2>1, <2>2, <2>3, TailRecursion
  <1>4. IsWalk(G)
    BY <1>3 DEF IsTailRecursive
  <1>5. IsWalk(W)
    BY <1>4
  <1>6. Walks(f) = W
    BY DEF Walks
  <1> HIDE DEF W
  <1>7. \A s \in Place : W[s] = IF LeadsOn(f, s) THEN W[Follow(f, s)] ELSE End(f, s)
    BY <1>5
  <1> QED BY <1>6, <1>7

(* What holds of a place when it holds of all that have fewer links left to
   follow, or as many and a shorter rest, holds of every place. *)
LEMMA WalkInduction ==
  ASSUME NEW T \in SUBSET Place,
         \A s \in Place :
           (\A t \in Place :
              t.links < s.links \/ (t.links = s.links /\ Len(t.rest) < Len(s.rest)) => t \in T)
           => s \in T
  PROVE  T = Place
  <1> DEFINE A == {n \in Nat : \A s \in Place : s.links < n => s \in T}
             B(n) == {m \in Nat : \A s \in Place : s.links < n + 1 /\ Len(s.rest) < m => s \in T}
  <1>1. \A s \in Place : s.links \in Nat /\ s.links <= MaxLinks /\ Len(s.rest) \in Nat
    <2>1. \A s \in Place : s.rest \in Seq(Element)
      BY DEF Place, Path
    <2>2. \A s \in Place : Len(s.rest) \in Nat
      BY <2>1, LenProperties
    <2> QED BY <2>2, PathGuardAssumption DEF Place
  <1>2. 0 \in A /\ A \in SUBSET Nat
    BY <1>1
  <1>3. ASSUME NEW n \in A PROVE n + 1 \in A
    <2>1. n \in Nat /\ \A s \in Place : s.links < n => s \in T
      OBVIOUS
    <2>2. 0 \in B(n) /\ B(n) \in SUBSET Nat
      BY <1>1
    <2>3. ASSUME NEW m \in B(n) PROVE m + 1 \in B(n)
      <3>1. m \in Nat /\ \A s \in Place : s.links < n + 1 /\ Len(s.rest) < m => s \in T
        OBVIOUS
      <3>2. ASSUME NEW s \in Place, s.links < n + 1, Len(s.rest) < m + 1 PROVE s \in T
        <4>1. ASSUME NEW t \in Place,
                     t.links < s.links \/ (t.links = s.links /\ Len(t.rest) < Len(s.rest))
              PROVE  t \in T
          <5>1. t.links < n \/ (t.links < n + 1 /\ Len(t.rest) < m)
            BY <1>1, <2>1, <3>1, <3>2, <4>1
          <5> QED BY <2>1, <3>1, <5>1
        <4> QED BY <4>1
      <3> QED BY <3>1, <3>2
    <2>4. B(n) = Nat
      <3> HIDE DEF B
      <3> QED BY <2>2, <2>3, NatSet
    <2>5. ASSUME NEW s \in Place, s.links < n + 1 PROVE s \in T
      <3>1. Len(s.rest) + 1 \in Nat /\ Len(s.rest) < Len(s.rest) + 1
        BY <1>1
      <3>2. Len(s.rest) + 1 \in B(n)
        <4> HIDE DEF B
        <4> QED BY <2>4, <3>1
      <3> QED BY <2>5, <3>1, <3>2
    <2> QED BY <2>1, <2>5
  <1>4. A = Nat
    <2> HIDE DEF A
    <2> QED BY <1>2, <1>3, NatSet
  <1>5. MaxLinks + 1 \in A /\ MaxLinks \in Nat
    <2> HIDE DEF A
    <2> QED BY <1>4, PathGuardAssumption
  <1>6. \A s \in Place : s \in T
    BY <1>1, <1>5
  <1> QED BY <1>6, Zenon

(* A place with more behind its rest. *)
Further(s, q) == At(s.done, s.rest \o q, s.links)

(* A place is given by its three parts. *)
LEMMA AtIsPlace ==
  ASSUME NEW d \in Path, NEW p \in Path, NEW l \in 0..MaxLinks
  PROVE  /\ At(d, p, l) \in Place
         /\ At(d, p, l).done = d /\ At(d, p, l).rest = p /\ At(d, p, l).links = l
  BY DEF At, Place

(* Every place is one of those. *)
LEMMA PlaceIsAt ==
  ASSUME NEW s \in Place
  PROVE  /\ s.done \in Path /\ s.rest \in Path /\ s.links \in 0..MaxLinks
         /\ s = At(s.done, s.rest, s.links)
  BY DEF At, Place

(* What is put behind the rest of a place does not change the next step. *)
LEMMA FurtherFollows ==
  ASSUME NEW f, IsFileSystem(f), NEW s \in Place, s.rest # <<>>, NEW q \in Path
  PROVE  /\ Further(s, q) \in Place /\ Further(s, q).rest # <<>>
         /\ here(Further(s, q)) = here(s)
         /\ Tail(Further(s, q).rest) = Tail(s.rest) \o q
         /\ Moves(Further(s, q)) <=> Moves(s)
         /\ \A k : IsA(f, Further(s, q), k) <=> IsA(f, s, k)
         /\ LeadsOn(f, Further(s, q)) <=> LeadsOn(f, s)
         /\ LeadsOn(f, s) => Follow(f, Further(s, q)) = Further(Follow(f, s), q)
  <1> DEFINE t == Further(s, q)
             r == s.rest
  <1>1. r \in Seq(Element) /\ q \in Seq(Element) /\ s.done \in Path /\ s.links \in 0..MaxLinks
    BY PlaceIsAt DEF Path
  <1>2. /\ r \o q \in Seq(Element) /\ r \o q # <<>>
        /\ Head(r \o q) = Head(r) /\ Tail(r \o q) = Tail(r) \o q
        /\ Tail(r) \in Seq(Element)
    <2>1. r # <<>>
      OBVIOUS
    <2> HIDE DEF r
    <2>2. /\ r \o q \in Seq(Element) /\ r \o q # <<>>
          /\ Head(r \o q) = Head(r) /\ Tail(r \o q) = Tail(r) \o q
          /\ Head(r) \in Element /\ Tail(r) \in Seq(Element) /\ Len(Tail(r)) < Len(r)
          /\ Tail(r) \o q = <<>> => Tail(r) = <<>> /\ q = <<>>
      BY <1>1, <2>1, ConcatTail
    <2> QED BY <2>2
  <1>3. t \in Place /\ t.done = s.done /\ t.rest = r \o q /\ t.links = s.links
    <2>1. r \o q \in Path
      BY <1>2 DEF Path
    <2>2. t = At(s.done, r \o q, s.links)
      BY DEF Further
    <2> HIDE DEF r, t
    <2> QED BY <1>1, <2>1, <2>2 DEF At, Place
  <1> HIDE DEF t
  <1>4. here(t) = here(s) /\ (Moves(t) <=> Moves(s))
    BY <1>2, <1>3 DEF here, Moves
  <1>5. \A k : IsA(f, t, k) <=> IsA(f, s, k)
    BY <1>4 DEF IsA
  <1>6. LeadsOn(f, t) <=> LeadsOn(f, s)
    BY <1>2, <1>3, <1>4, <1>5 DEF LeadsOn
  <1>7. ASSUME LeadsOn(f, s) PROVE Follow(f, t) = Further(Follow(f, s), q)
    <2>1. t = At(s.done, s.rest \o q, s.links) /\ s = At(s.done, s.rest, s.links)
      BY PlaceIsAt DEF t, Further
    <2>2. CASE Moves(s)
      <3>1. CASE Head(s.rest) = "."
        <4>1. /\ Follow(f, t) = [t EXCEPT !.rest = Tail(@)]
              /\ Follow(f, s) = [s EXCEPT !.rest = Tail(@)]
          BY <1>2, <1>3, <1>4, <2>2, <3>1 DEF Follow, IsA, Moves
        <4> QED BY <1>2, <2>1, <4>1 DEF Further, At
      <3>2. CASE Head(s.rest) = ".."
        <4>1. /\ Follow(f, t) = [t EXCEPT !.done = IF @ = <<>> THEN @ ELSE Front(@), !.rest = Tail(@)]
              /\ Follow(f, s) = [s EXCEPT !.done = IF @ = <<>> THEN @ ELSE Front(@), !.rest = Tail(@)]
          BY <1>2, <1>3, <1>4, <2>2, <3>2 DEF Follow, IsA, Moves
        <4> QED BY <1>2, <2>1, <4>1 DEF Further, At
      <3> QED BY <2>2, <3>1, <3>2 DEF Moves
    <2>3. CASE IsA(f, s, "dir")
      <3>1. /\ Follow(f, t) = [t EXCEPT !.done = here(s), !.rest = Tail(@)]
            /\ Follow(f, s) = [s EXCEPT !.done = here(s), !.rest = Tail(@)]
        BY <1>2, <1>3, <1>4, <1>5, <2>3 DEF Follow, IsA, Moves
      <3> QED BY <1>2, <2>1, <3>1 DEF Further, At
    <2>4. CASE IsA(f, s, "link")
      <3>1. IsA(f, t, "link")
        BY <1>5, <2>4
      <3>2. Follow(f, t) = At(<<>>, f[here(t)].to \o Tail(t.rest), t.links - 1)
        BY <3>1 DEF Follow, IsA, Moves, At
      <3>3. Follow(f, s) = At(<<>>, f[here(s)].to \o Tail(s.rest), s.links - 1)
        BY <2>4 DEF Follow, IsA, Moves, At
      <3>4. f[here(s)].to \in Seq(Element)
        BY <2>4 DEF IsA, IsFileSystem, Entry, Path
      <3> DEFINE to == f[here(s)].to
                 u == Tail(r)
      <3>5. to \o (u \o q) = (to \o u) \o q
        <4>1. to \in Seq(Element) /\ u \in Seq(Element) /\ q \in Seq(Element)
          BY <1>1, <1>2, <3>4
        <4> HIDE DEF to, u
        <4> QED BY <4>1, ConcatAssociative
      <3>6. Follow(f, t) = At(<<>>, to \o (u \o q), s.links - 1)
        BY <1>2, <1>3, <1>4, <3>2
      <3>7. Follow(f, s) = At(<<>>, to \o u, s.links - 1)
        BY <3>3
      <3>8. Further(At(<<>>, to \o u, s.links - 1), q) = At(<<>>, (to \o u) \o q, s.links - 1)
        BY DEF Further, At
      <3> HIDE DEF to, u
      <3> QED BY <3>5, <3>6, <3>7, <3>8
    <2> QED BY <1>7, <2>2, <2>3, <2>4 DEF LeadsOn
  <1> QED BY <1>2, <1>3, <1>4, <1>5, <1>6, <1>7 DEF t

(* A step has fewer links left to follow, or as many and a shorter rest, and
   leaves no ".." behind it. *)
LEMMA FollowShorter ==
  ASSUME NEW f, IsFileSystem(f), NEW s \in Place, LeadsOn(f, s), s.done \in Seq(Name),
         NEW n, n = Follow(f, s)
  PROVE  /\ n \in Place /\ n.done \in Seq(Name)
         /\ n.links < s.links \/ (n.links = s.links /\ Len(n.rest) < Len(s.rest))
  <1>1. n \in Place
    BY FollowIsPlace
  <1>2. s.rest \in Seq(Element) /\ s.rest # <<>> /\ s.links \in 0..MaxLinks
    BY PlaceIsAt DEF Path, LeadsOn
  <1>3. Len(Tail(s.rest)) < Len(s.rest) /\ Head(s.rest) \in Element
    BY <1>2, ConcatTail
  <1>4. s = At(s.done, s.rest, s.links)
    BY PlaceIsAt
  <1>5. CASE Head(s.rest) = "."
    <2>1. n = [s EXCEPT !.rest = Tail(@)]
      BY <1>5 DEF Follow, IsA, Moves
    <2>2. n = At(s.done, Tail(s.rest), s.links)
      BY <1>4, <2>1 DEF At
    <2> QED BY <1>1, <1>3, <2>2 DEF At
  <1>6. CASE Head(s.rest) = ".."
    <2>1. n = [s EXCEPT !.done = IF @ = <<>> THEN @ ELSE Front(@), !.rest = Tail(@)]
      BY <1>6 DEF Follow, IsA, Moves
    <2>2. n = At(IF s.done = <<>> THEN s.done ELSE Front(s.done), Tail(s.rest), s.links)
      BY <1>4, <2>1 DEF At
    <2>3. s.done # <<>> => Front(s.done) \in Seq(Name)
      <3>1. Len(s.done) \in Nat /\ \A k \in 1..(Len(s.done) - 1) : s.done[k] \in Name
        BY LenProperties, ElementOfSeq
      <3> QED BY <3>1, SubSeqProperties DEF Front
    <2> QED BY <1>1, <1>3, <2>2, <2>3 DEF At
  <1>7. CASE IsA(f, s, "dir")
    <2>1. n = [s EXCEPT !.done = here(s), !.rest = Tail(@)]
      BY <1>7 DEF Follow, IsA, Moves
    <2>2. n = At(here(s), Tail(s.rest), s.links)
      BY <1>4, <2>1 DEF At
    <2>3. here(s) \in Seq(Name)
      BY <1>7 DEF IsA, IsFileSystem
    <2> QED BY <1>1, <1>3, <2>2, <2>3 DEF At
  <1>8. CASE IsA(f, s, "link")
    <2>1. n = At(<<>>, f[here(s)].to \o Tail(s.rest), s.links - 1)
      BY <1>8 DEF Follow, IsA, Moves, At
    <2>2. n.links = s.links - 1 /\ n.done = <<>> /\ <<>> \in Seq(Name)
      BY <2>1 DEF At
    <2> QED BY <1>1, <1>2, <2>2
  <1>9. Moves(s) \/ IsA(f, s, "dir") \/ IsA(f, s, "link")
    BY DEF LeadsOn
  <1> QED BY <1>5, <1>6, <1>7, <1>8, <1>9 DEF Moves

(* What is found is told from a failure. *)
LEMMA OkOf ==
  ~Failure.ok /\ \A p : Found(p).ok /\ Found(p).path = p
  <1>1. Failure.ok = FALSE
    BY DEF Failure
  <1>2. \A p : Found(p).ok = TRUE /\ Found(p).path = p
    BY DEF Found
  <1> QED BY <1>1, <1>2, Zenon

(* Nothing put behind a place is the place. *)
LEMMA FurtherNone ==
  ASSUME NEW s \in Place
  PROVE  Further(s, <<>>) = s
  <1>1. s.rest \in Seq(Element) /\ s = At(s.done, s.rest, s.links)
    BY PlaceIsAt DEF Path
  <1>2. s.rest \o <<>> = s.rest
    BY <1>1, ConcatEmptySeq
  <1> QED BY <1>1, <1>2 DEF Further

(* A walk with more behind it takes the same step. *)
LEMMA WalkedOn ==
  ASSUME NEW f, IsFileSystem(f), NEW s \in Place, LeadsOn(f, s), NEW q \in Path
  PROVE  Walks(f)[Further(s, q)] = Walks(f)[Further(Follow(f, s), q)]
  <1>1. s.rest # <<>>
    BY DEF LeadsOn
  <1>2. /\ Further(s, q) \in Place /\ LeadsOn(f, Further(s, q))
        /\ Follow(f, Further(s, q)) = Further(Follow(f, s), q)
    BY <1>1, FurtherFollows
  <1> QED BY <1>2, WalkEquation

(* A walk that leads no further, with something left: on a file it fails if
   there is more behind it, and else it fails whatever is behind it. *)
LEMMA Stopped ==
  ASSUME NEW f, IsFileSystem(f), NEW s \in Place, ~LeadsOn(f, s), s.rest # <<>>
  PROVE  \/ /\ ~Moves(s) /\ here(s) \in DOMAIN f /\ Tail(s.rest) = <<>>
            /\ \A q \in Path :
                 Walks(f)[Further(s, q)] = IF q = <<>> THEN Found(here(s)) ELSE Failure
         \/ \A q \in Path : ~Walks(f)[Further(s, q)].ok
  <1>1. ~Moves(s) /\ ~IsA(f, s, "dir")
    BY DEF LeadsOn
  <1>2. ASSUME NEW q \in Path
        PROVE  /\ Walks(f)[Further(s, q)] = End(f, Further(s, q))
               /\ Further(s, q).rest # <<>> /\ here(Further(s, q)) = here(s)
               /\ Tail(Further(s, q).rest) = Tail(s.rest) \o q
               /\ \A k : IsA(f, Further(s, q), k) <=> IsA(f, s, k)
    <2>1. /\ Further(s, q) \in Place /\ ~LeadsOn(f, Further(s, q))
          /\ Further(s, q).rest # <<>> /\ here(Further(s, q)) = here(s)
          /\ Tail(Further(s, q).rest) = Tail(s.rest) \o q
          /\ \A k : IsA(f, Further(s, q), k) <=> IsA(f, s, k)
      BY FurtherFollows
    <2> QED BY <2>1, WalkEquation
  <1>3. \A q \in Path : q = <<>> \/ Tail(s.rest) \o q # <<>>
    <2>1. s.rest \in Seq(Element)
      BY PlaceIsAt DEF Path
    <2>2. Tail(s.rest) \in Seq(Element)
      BY <2>1, HeadTailProperties
    <2> QED BY <2>2, ConcatEqualIffEmpty DEF Path
  <1>4. CASE here(s) \in DOMAIN f /\ IsA(f, s, "file") /\ Tail(s.rest) = <<>>
    <2>1. ASSUME NEW q \in Path
          PROVE  Walks(f)[Further(s, q)] = IF q = <<>> THEN Found(here(s)) ELSE Failure
      <3> DEFINE t == Further(s, q)
      <3>1. /\ Walks(f)[t] = End(f, t) /\ t.rest # <<>>
            /\ here(t) = here(s) /\ Tail(t.rest) = Tail(s.rest) \o q /\ IsA(f, t, "file")
        BY <1>2, <1>4
      <3>2. Tail(t.rest) = <<>> <=> q = <<>>
        <4>1. <<>> \o <<>> = <<>>
          OBVIOUS
        <4> QED BY <1>3, <1>4, <3>1, <4>1
      <3> HIDE DEF t
      <3>3. End(f, t) = IF Tail(t.rest) = <<>> THEN Found(here(t)) ELSE Failure
        BY <3>1 DEF End
      <3> QED BY <3>1, <3>2, <3>3 DEF t
    <2> QED BY <1>1, <1>4, <2>1
  <1>5. CASE ~(here(s) \in DOMAIN f /\ IsA(f, s, "file") /\ Tail(s.rest) = <<>>)
    <2>1. ASSUME NEW q \in Path PROVE ~Walks(f)[Further(s, q)].ok
      <3> DEFINE t == Further(s, q)
      <3>1. /\ Walks(f)[t] = End(f, t) /\ t.rest # <<>>
            /\ here(t) = here(s) /\ Tail(t.rest) = Tail(s.rest) \o q
            /\ IsA(f, t, "file") <=> IsA(f, s, "file")
        BY <1>2
      <3>2. Tail(s.rest) # <<>> => Tail(t.rest) # <<>>
        <4>1. s.rest \in Seq(Element) /\ q \in Seq(Element)
          BY PlaceIsAt DEF Path
        <4>2. Tail(s.rest) \in Seq(Element)
          BY <4>1, HeadTailProperties
        <4> QED BY <3>1, <4>1, <4>2, ConcatEqualIffEmpty
      <3> HIDE DEF t
      <3>3. ~(IsA(f, t, "file") /\ Tail(t.rest) = <<>>)
        BY <1>5, <3>1, <3>2 DEF IsA
      <3>4. End(f, t) = Failure
        BY <3>1, <3>3 DEF End
      <3> QED BY <3>1, <3>4, OkOf DEF t
    <2> QED BY <2>1
  <1> QED BY <1>4, <1>5

-----------------------------------------------------------------------------
(* A walk from s comes to r, where l links are left, and goes on from there
   with whatever is behind it; or it comes to r, a file, and nothing can be
   behind it. *)
LandsIn(f, s, r, l) ==
  \A q \in Path :
    Walks(f)[Further(s, q)] = Walks(f)[At(r, q, l)]

LandsOn(f, s, r) ==
  \A q \in Path :
    Walks(f)[Further(s, q)] = IF q = <<>> THEN Found(r) ELSE Failure

Lands(f, s) ==
  \E r \in Seq(Name), l \in 0..MaxLinks :
    /\ Walks(f)[s] = Found(r)
    /\ LandsIn(f, s, r, l) \/ LandsOn(f, s, r)

(* A walk that has nothing left is over. *)
LEMMA Over ==
  ASSUME NEW f, IsFileSystem(f), NEW d \in Path, NEW l \in 0..MaxLinks
  PROVE  Walks(f)[At(d, <<>>, l)] = Found(d)
  <1>1. <<>> \in Path
    BY DEF Path
  <1>2. At(d, <<>>, l) \in Place /\ At(d, <<>>, l).rest = <<>> /\ At(d, <<>>, l).done = d
    BY <1>1, AtIsPlace
  <1>3. ~LeadsOn(f, At(d, <<>>, l)) /\ End(f, At(d, <<>>, l)) = Found(d)
    BY <1>2 DEF LeadsOn, End
  <1> QED BY <1>2, <1>3, WalkEquation

(* Every walk that finds something lands. *)
LEMMA Landing ==
  ASSUME NEW f, IsFileSystem(f), NEW s \in Place, s.done \in Seq(Name), Walks(f)[s].ok
  PROVE  Lands(f, s)
  <1> DEFINE T == {x \in Place : x.done \in Seq(Name) /\ Walks(f)[x].ok => Lands(f, x)}
  <1>1. ASSUME NEW x \in Place,
               \A t \in Place :
                 t.links < x.links \/ (t.links = x.links /\ Len(t.rest) < Len(x.rest)) => t \in T,
               x.done \in Seq(Name), Walks(f)[x].ok
        PROVE  Lands(f, x)
    <2>1. CASE LeadsOn(f, x)
      <3> DEFINE n == Follow(f, x)
      <3>1. /\ n \in Place /\ n.done \in Seq(Name)
            /\ n.links < x.links \/ (n.links = x.links /\ Len(n.rest) < Len(x.rest))
        BY <1>1, <2>1, FollowShorter
      <3>2. n \in T
        BY <1>1, <3>1
      <3>3. Walks(f)[x] = Walks(f)[n]
        BY <2>1, WalkEquation
      <3>4. \A q \in Path :
              Walks(f)[Further(x, q)] = Walks(f)[Further(n, q)]
        BY <2>1, WalkedOn
      <3> HIDE DEF n
      <3>5. Lands(f, n)
        BY <1>1, <3>1, <3>2, <3>3
      <3>6. PICK r \in Seq(Name), l \in 0..MaxLinks :
              Walks(f)[n] = Found(r) /\ (LandsIn(f, n, r, l) \/ LandsOn(f, n, r))
        BY <3>5 DEF Lands
      <3>7. LandsIn(f, n, r, l) => LandsIn(f, x, r, l)
        BY <3>4 DEF LandsIn
      <3>8. LandsOn(f, n, r) => LandsOn(f, x, r)
        BY <3>4 DEF LandsOn
      <3> QED BY <3>3, <3>6, <3>7, <3>8 DEF Lands
    <2>2. CASE ~LeadsOn(f, x) /\ x.rest = <<>>
      <3>1. x = At(x.done, <<>>, x.links) /\ x.done \in Path /\ x.links \in 0..MaxLinks
        BY <2>2, PlaceIsAt
      <3>2. Walks(f)[x] = Found(x.done)
        <4>1. Walks(f)[At(x.done, <<>>, x.links)] = Found(x.done)
          BY <3>1, Over
        <4> QED BY <3>1, <4>1, Zenon
      <3>3. LandsIn(f, x, x.done, x.links)
        <4>1. \A q \in Path : <<>> \o q = q
          BY ConcatEmptySeq DEF Path
        <4> QED BY <2>2, <4>1 DEF LandsIn, Further
      <3> QED BY <1>1, <3>1, <3>2, <3>3 DEF Lands
    <2>3. CASE ~LeadsOn(f, x) /\ x.rest # <<>>
      <3>1. Further(x, <<>>) = x /\ <<>> \in Path
        BY FurtherNone DEF Path
      <3>2. /\ here(x) \in DOMAIN f
            /\ \A q \in Path :
                 Walks(f)[Further(x, q)] = IF q = <<>> THEN Found(here(x)) ELSE Failure
        BY <1>1, <2>3, <3>1, Stopped
      <3>3. here(x) \in Seq(Name) /\ LandsOn(f, x, here(x)) /\ x.links \in 0..MaxLinks
        BY <3>2, PlaceIsAt DEF IsFileSystem, LandsOn
      <3>4. Walks(f)[x] = Found(here(x))
        BY <3>1, <3>2
      <3> QED BY <3>3, <3>4 DEF Lands
    <2> QED BY <2>1, <2>2, <2>3
  <1>2. T = Place
    <2>1. T \in SUBSET Place
      OBVIOUS
    <2>2. \A x \in Place :
            (\A t \in Place :
               t.links < x.links \/ (t.links = x.links /\ Len(t.rest) < Len(x.rest)) => t \in T)
            => x \in T
      BY <1>1
    <2> HIDE DEF T
    <2> QED BY <2>1, <2>2, WalkInduction
  <1> QED BY <1>2

(* What finds something with more behind it finds something without. *)
LEMMA PrefixFound ==
  ASSUME NEW f, IsFileSystem(f), NEW s \in Place, s.done \in Seq(Name), NEW q \in Path,
         Walks(f)[Further(s, q)].ok
  PROVE  Walks(f)[s].ok
  <1> DEFINE T == {x \in Place :
                     x.done \in Seq(Name) /\ Walks(f)[Further(x, q)].ok => Walks(f)[x].ok}
  <1>1. ASSUME NEW x \in Place,
               \A t \in Place :
                 t.links < x.links \/ (t.links = x.links /\ Len(t.rest) < Len(x.rest)) => t \in T,
               x.done \in Seq(Name), Walks(f)[Further(x, q)].ok
        PROVE  Walks(f)[x].ok
    <2>1. CASE LeadsOn(f, x)
      <3> DEFINE n == Follow(f, x)
      <3>1. /\ n \in Place /\ n.done \in Seq(Name)
            /\ n.links < x.links \/ (n.links = x.links /\ Len(n.rest) < Len(x.rest))
        BY <1>1, <2>1, FollowShorter
      <3>2. n \in T
        BY <1>1, <3>1
      <3>3. Walks(f)[x] = Walks(f)[n]
        BY <2>1, WalkEquation
      <3>4. Walks(f)[Further(x, q)] = Walks(f)[Further(n, q)]
        BY <2>1, WalkedOn
      <3> QED BY <1>1, <3>1, <3>2, <3>3, <3>4
    <2>2. CASE ~LeadsOn(f, x) /\ x.rest = <<>>
      <3>1. x = At(x.done, <<>>, x.links) /\ x.done \in Path /\ x.links \in 0..MaxLinks
        BY <2>2, PlaceIsAt
      <3>2. Walks(f)[x] = Found(x.done)
        <4>1. Walks(f)[At(x.done, <<>>, x.links)] = Found(x.done)
          BY <3>1, Over
        <4> QED BY <3>1, <4>1, Zenon
      <3> QED BY <3>2, OkOf
    <2>3. CASE ~LeadsOn(f, x) /\ x.rest # <<>>
      <3>1. Further(x, <<>>) = x /\ <<>> \in Path
        BY FurtherNone DEF Path
      <3>2. Walks(f)[Further(x, <<>>)] = Found(here(x))
        BY <1>1, <2>3, <3>1, Stopped
      <3> QED BY <3>1, <3>2, OkOf
    <2> QED BY <2>1, <2>2, <2>3
  <1>2. T = Place
    <2>1. T \in SUBSET Place
      OBVIOUS
    <2>2. \A x \in Place :
            (\A t \in Place :
               t.links < x.links \/ (t.links = x.links /\ Len(t.rest) < Len(x.rest)) => t \in T)
            => x \in T
      BY <1>1
    <2> HIDE DEF T
    <2> QED BY <2>1, <2>2, WalkInduction
  <1> QED BY <1>2

-----------------------------------------------------------------------------
(* The guard. *)

Start(p) == At(<<>>, p, MaxLinks)

(* A walk of a path starts with all of it to follow, and behind it the same. *)
LEMMA StartIsPlace ==
  ASSUME NEW f, NEW p \in Path
  PROVE  /\ Start(p) \in Place /\ Start(p).done = <<>> /\ <<>> \in Seq(Name)
         /\ EvalSymlinks(f, p) = Walks(f)[Start(p)]
         /\ Target(f, p) = Walks(Made(f))[Start(p)]
         /\ \A q \in Path : p \o q \in Path /\ Further(Start(p), q) = Start(p \o q)
  <1>1. MaxLinks \in 0..MaxLinks /\ <<>> \in Path
    BY PathGuardAssumption DEF Path
  <1>2. Start(p) \in Place /\ Start(p).done = <<>> /\ Start(p).rest = p /\ Start(p).links = MaxLinks
    BY <1>1, AtIsPlace DEF Start
  <1>3. \A q \in Path : p \o q \in Path /\ Further(Start(p), q) = Start(p \o q)
    BY <1>2, ConcatProperties DEF Further, Start, Path
  <1>4. /\ EvalSymlinks(f, p) = Walks(f)[Start(p)]
        /\ Target(f, p) = Walks(Made(f))[Start(p)]
    BY DEF EvalSymlinks, Target, Start, At
  <1> QED BY <1>2, <1>3, <1>4

(* Names make a path. *)
LEMMA NamePath ==
  ASSUME NEW p \in Seq(Name)
  PROVE  p \in Path
  BY SeqMonotonic DEF Path, Element

(* A walk on to a name that is not there. *)
LEMMA Missing ==
  ASSUME NEW f, IsFileSystem(f), NEW d \in Seq(Name), NEW h \in Name, NEW q \in Path,
         NEW l \in 0..MaxLinks, Append(d, h) \notin DOMAIN f
  PROVE  Walks(f)[At(d, <<h>> \o q, l)] = Failure
  <1> DEFINE p == <<h>> \o q
             s == At(d, p, l)
  <1>1. <<h>> \in Seq(Element) /\ <<h>> # <<>> /\ Head(<<h>>) = h
    BY DEF Element
  <1>2. p \in Path /\ p # <<>> /\ Head(p) = h
    BY <1>1, ConcatTail DEF Path
  <1> HIDE DEF p
  <1>3. s \in Place /\ s.done = d /\ s.rest = p /\ s.links = l
    BY <1>2, NamePath DEF At, Place
  <1> HIDE DEF s
  <1>4. ~Moves(s)
    BY <1>2, <1>3, PathGuardAssumption DEF Moves
  <1>5. here(s) \notin DOMAIN f
    BY <1>2, <1>3 DEF here
  <1>6. ~LeadsOn(f, s) /\ End(f, s) = Failure
    BY <1>2, <1>3, <1>4, <1>5 DEF LeadsOn, End, IsA
  <1>7. Walks(f)[s] = End(f, s)
    BY <1>3, <1>6, WalkEquation
  <1> QED BY <1>6, <1>7 DEF s, p

(* What is found exists. *)
LEMMA FoundExists ==
  ASSUME NEW f, IsFileSystem(f), NEW p \in Seq(Name), EvalSymlinks(f, p).ok
  PROVE  Lstat(f, p)
  <1> SUFFICES ASSUME p # <<>> PROVE Lstat(f, p)
    BY DEF Lstat
  <1>1. PICK u \in Seq(Name), h \in Name : p = Append(u, h)
    BY SequenceEmptyOrAppend
  <1>2. p = u \o <<h>> /\ <<h>> \in Seq(Name) /\ <<h>> \o <<>> = <<h>> /\ <<>> \in Path
    BY <1>1, AppendIsConcat DEF Path
  <1>3. u \in Path /\ <<h>> \in Path
    BY <1>2, NamePath
  <1>4. Front(p) = u /\ Last(p) = h
    <2>1. Len(p) = Len(u) + 1 /\ p[Len(u) + 1] = h /\ \A k \in 1..Len(u) : p[k] = u[k]
      BY <1>1, AppendProperties
    <2>2. Len(u) \in Nat
      BY LenProperties
    <2>3. Len(p) - 1 = Len(u)
      BY <2>1, <2>2
    <2>4. SubSeq(p, 1, Len(u)) = u
      <3>1. /\ SubSeq(p, 1, Len(u)) \in Seq(Name) /\ Len(SubSeq(p, 1, Len(u))) = Len(u)
            /\ \A k \in 1..Len(u) : SubSeq(p, 1, Len(u))[k] = p[k]
        <4>1. \A k \in 1..Len(u) : p[k] \in Name
          BY <2>1, ElementOfSeq
        <4> QED BY <2>2, <4>1, SubSeqProperties
      <3> QED BY <2>1, <3>1, SeqEqual
    <2> QED BY <2>1, <2>3, <2>4 DEF Front, Last
  <1>5. /\ Start(u) \in Place /\ Start(u).done \in Seq(Name)
        /\ Further(Start(u), <<h>>) = Start(p)
        /\ EvalSymlinks(f, u) = Walks(f)[Start(u)]
    BY <1>2, <1>3, StartIsPlace
  <1>6. Walks(f)[Start(p)].ok
    BY StartIsPlace, NamePath
  <1>7. EvalSymlinks(f, u).ok
    BY <1>3, <1>5, <1>6, PrefixFound
  <1>8. Lands(f, Start(u))
    BY <1>5, <1>7, Landing
  <1>9. PICK r \in Seq(Name), l \in 0..MaxLinks :
          /\ Walks(f)[Start(u)] = Found(r)
          /\ LandsIn(f, Start(u), r, l) \/ LandsOn(f, Start(u), r)
    BY <1>8 DEF Lands
  <1>10. Append(r, h) \in DOMAIN f
    <2> SUFFICES ASSUME Append(r, h) \notin DOMAIN f PROVE FALSE
      OBVIOUS
    <2>1. Walks(f)[At(r, <<h>> \o <<>>, l)] = Failure
      BY <1>2, Missing
    <2>2. LandsIn(f, Start(u), r, l) => Walks(f)[Start(p)] = Walks(f)[At(r, <<h>>, l)]
      BY <1>3, <1>5 DEF LandsIn
    <2>3. LandsOn(f, Start(u), r) => Walks(f)[Start(p)] = Failure
      <3>1. <<h>> # <<>>
        OBVIOUS
      <3> QED BY <1>3, <1>5, <3>1 DEF LandsOn
    <2>4. Walks(f)[Start(p)] = Failure
      BY <1>2, <1>9, <2>1, <2>2, <2>3
    <2> QED BY <1>6, <2>4, OkOf
  <1>11. EvalSymlinks(f, u).path = r
    BY <1>5, <1>9, OkOf
  <1> QED BY <1>4, <1>7, <1>10, <1>11 DEF Lstat

(* The deepest ancestor that exists, k elements long, and the answer. *)
LEMMA DeepestAncestor ==
  ASSUME NEW f, NEW p \in Seq(Name)
  PROVE  \E k \in 0..Len(p) :
           LET real == EvalSymlinks(f, SubSeq(p, 1, k))
           IN  /\ Lstat(f, SubSeq(p, 1, k))
               /\ \A j \in (k + 1)..Len(p) : ~Lstat(f, SubSeq(p, 1, j))
               /\ resolveExistingAncestor(f, p) =
                    IF real.ok THEN Found(real.path \o SubSeq(p, k + 1, Len(p))) ELSE Failure
  <1> DEFINE n == Len(p)
             E == {k \in 0..n : Lstat(f, SubSeq(p, 1, k))}
             Deepest(k) == /\ Lstat(f, SubSeq(p, 1, k))
                           /\ \A j \in (k + 1)..n : ~Lstat(f, SubSeq(p, 1, j))
             k0 == CHOOSE k \in 0..n : Deepest(k)
  <1>1. n \in Nat
    BY LenProperties
  <1>2. 0 \in E
    <2>1. SubSeq(p, 1, 0) = <<>>
      BY SubSeqEmpty
    <2> QED BY <1>1, <2>1 DEF Lstat
  <1>3. E \in SUBSET Int /\ IsFiniteSet(E)
    <2>1. IsFiniteSet(0..n)
      BY <1>1, FS_Interval
    <2> QED BY <1>1, <2>1, FS_Subset
  <1>4. PICK k \in E : \A j \in E : k >= j
    <2> HIDE DEF E
    <2>1. E # {}
      BY <1>2
    <2> QED BY <1>3, <2>1, LargestExists
  <1>5. k \in 0..n /\ Deepest(k)
    <2>1. \A j \in (k + 1)..n : j \in 0..n /\ ~(k >= j)
      BY <1>1
    <2> QED BY <1>4, <2>1
  <1>6. k0 \in 0..n /\ Deepest(k0)
    BY <1>5
  <1>7. resolveExistingAncestor(f, p) =
          IF EvalSymlinks(f, SubSeq(p, 1, k0)).ok
          THEN Found(EvalSymlinks(f, SubSeq(p, 1, k0)).path \o SubSeq(p, k0 + 1, n)) ELSE Failure
    BY DEF resolveExistingAncestor
  <1> HIDE DEF k0
  <1> QED BY <1>6, <1>7

(* The two parts of a path, and the path up to the first of the second. *)
LEMMA Cut ==
  ASSUME NEW p \in Seq(Name), NEW k \in 0..Len(p)
  PROVE  /\ SubSeq(p, 1, k) \in Seq(Name) /\ SubSeq(p, k + 1, Len(p)) \in Seq(Name)
         /\ p = SubSeq(p, 1, k) \o SubSeq(p, k + 1, Len(p))
         /\ k = Len(p) => SubSeq(p, k + 1, Len(p)) = <<>> /\ SubSeq(p, 1, k) = p
         /\ k # Len(p) => /\ k + 1 \in 1..Len(p) /\ p[k + 1] \in Name
                          /\ SubSeq(p, k + 1, Len(p)) = <<p[k + 1]>> \o SubSeq(p, k + 2, Len(p))
                          /\ SubSeq(p, k + 2, Len(p)) \in Seq(Name)
                          /\ SubSeq(p, 1, k + 1) # <<>>
                          /\ Front(SubSeq(p, 1, k + 1)) = SubSeq(p, 1, k)
                          /\ Last(SubSeq(p, 1, k + 1)) = p[k + 1]
  <1>1. Len(p) \in Nat /\ k \in Nat /\ \A j \in 1..Len(p) : p[j] \in Name
    BY LenProperties, ElementOfSeq
  <1>2. SubSeq(p, 1, k) \in Seq(Name) /\ Len(SubSeq(p, 1, k)) = k
    BY <1>1, SubSeqProperties
  <1>3. /\ SubSeq(p, k + 1, Len(p)) \in Seq(Name)
        /\ Len(SubSeq(p, k + 1, Len(p))) = Len(p) - k
    BY <1>1, SubSeqProperties
  <1>4. p = SubSeq(p, 1, k) \o SubSeq(p, k + 1, Len(p))
    <2>1. SubSeq(p, 1, k) \o SubSeq(p, k + 1, Len(p)) = SubSeq(p, 1, Len(p))
      <3>1. 1 \in 1..(Len(p) + 1) /\ k \in (1 - 1)..Len(p) /\ Len(p) \in k..Len(p)
        BY <1>1
      <3> QED BY <3>1, ConcatAdjacentSubSeq
    <2> QED BY <2>1, SubSeqFull
  <1>5. ASSUME k = Len(p) PROVE SubSeq(p, k + 1, Len(p)) = <<>> /\ SubSeq(p, 1, k) = p
    BY <1>1, <1>5, SubSeqEmpty, SubSeqFull
  <1>6. ASSUME k # Len(p)
        PROVE  /\ k + 1 \in 1..Len(p) /\ p[k + 1] \in Name
               /\ SubSeq(p, k + 1, Len(p)) = <<p[k + 1]>> \o SubSeq(p, k + 2, Len(p))
               /\ SubSeq(p, k + 2, Len(p)) \in Seq(Name)
    <2>1. k + 1 \in 1..Len(p) /\ Len(p) \in (k + 1)..Len(p) /\ (k + 1) + 1 = k + 2
      BY <1>1, <1>6
    <2>2. SubSeq(p, k + 1, Len(p)) = <<p[k + 1]>> \o SubSeq(p, k + 2, Len(p))
      BY <2>1, SubSeqRecursiveFirst
    <2>3. SubSeq(p, k + 2, Len(p)) \in Seq(Name)
      BY <1>1, SubSeqProperties
    <2> QED BY <1>1, <2>1, <2>2, <2>3
  <1>7. ASSUME k # Len(p)
        PROVE  /\ SubSeq(p, 1, k + 1) # <<>>
               /\ Front(SubSeq(p, 1, k + 1)) = SubSeq(p, 1, k)
               /\ Last(SubSeq(p, 1, k + 1)) = p[k + 1]
    <2> DEFINE w == SubSeq(p, 1, k + 1)
    <2>1. k + 1 \in 1..Len(p) /\ k + 1 \in Nat
      BY <1>1, <1>7
    <2>2. w \in Seq(Name) /\ Len(w) = k + 1 /\ \A j \in 1..(k + 1) : w[j] = p[j]
      <3>1. /\ w \in Seq(Name) /\ Len(w) = (k + 1) - 1 + 1
            /\ \A j \in 1..((k + 1) - 1 + 1) : w[j] = p[1 + j - 1]
        <4>1. \A j \in 1..(k + 1) : p[j] \in Name
          BY <1>1, <2>1
        <4>2. 1 \in Int /\ k + 1 \in Int /\ 1 <= k + 1
          BY <1>1
        <4> HIDE DEF w
        <4> QED BY <4>1, <4>2, SubSeqProperties DEF w
      <3> HIDE DEF w
      <3> QED BY <1>1, <3>1
    <2>3. w # <<>>
      <3> HIDE DEF w
      <3> QED BY <1>1, <2>2, EmptySeq
    <2>4. SubSeq(w, 1, k) = SubSeq(p, 1, k)
      <3>1. \A j \in 1..k : w[j] \in Name /\ p[j] \in Name /\ w[j] = p[j]
        BY <1>1, <2>1, <2>2
      <3>2. /\ SubSeq(w, 1, k) \in Seq(Name) /\ Len(SubSeq(w, 1, k)) = k
            /\ \A j \in 1..k : SubSeq(w, 1, k)[j] = w[j]
        BY <1>1, <3>1, SubSeqProperties
      <3>3. \A j \in 1..k : SubSeq(p, 1, k)[j] = p[j]
        BY <1>1, <3>1, SubSeqProperties
      <3> HIDE DEF w
      <3> QED BY <1>2, <3>1, <3>2, <3>3, SeqEqual
    <2>5. Len(w) - 1 = k /\ w[Len(w)] = p[k + 1]
      <3> HIDE DEF w
      <3> QED BY <1>1, <2>2
    <2> QED BY <2>3, <2>4, <2>5 DEF Front, Last
  <1> QED BY <1>2, <1>3, <1>4, <1>5, <1>6, <1>7

-----------------------------------------------------------------------------
(* filepath.Clean, element by element. *)
CleanStep == [x \in Seq(Name) \X Element |-> cleaned(x[1], x[2])]

(* Of names and one element more cleaning makes names. *)
LEMMA CleanedIsNames ==
  ASSUME NEW d \in Seq(Name), NEW e \in Element
  PROVE  cleaned(d, e) \in Seq(Name) /\ CleanStep[<<d, e>>] = cleaned(d, e)
  <1>1. d # <<>> => Front(d) \in Seq(Name)
    <2>1. Len(d) \in Nat /\ \A k \in 1..(Len(d) - 1) : d[k] \in Name
      BY LenProperties, ElementOfSeq
    <2> QED BY <2>1, SubSeqProperties DEF Front
  <1>2. e \notin {".", ".."} => Append(d, e) \in Seq(Name)
    BY AppendProperties DEF Element
  <1>3. cleaned(d, e) \in Seq(Name)
    BY <1>1, <1>2 DEF cleaned
  <1>4. CleanStep[<<d, e>>] = cleaned(d, e)
    BY DEF CleanStep
  <1> QED BY <1>3, <1>4

(* filepath.Clean takes its path element by element. *)
LEMMA CleanFolded ==
  ASSUME NEW p \in Path
  PROVE  Folded(Clean(p), Seq(Name), <<>>, CleanStep, p)
  <1> DEFINE V == Seq(Name)
             I == SUBSET DOMAIN p
             step == CleanStep
             Folds(g) == g = [s \in I |-> IF s = {} THEN <<>> ELSE cleaned(g[s \ {Max(s)}], p[Max(s)])]
             F == CHOOSE g : Folds(g)
  <1>1. /\ step \in [V \X Element -> V] /\ <<>> \in V
        /\ \A d \in V, e \in Element : step[<<d, e>>] = cleaned(d, e)
    <2>1. \A d \in V, e \in Element : step[<<d, e>>] = cleaned(d, e) /\ cleaned(d, e) \in V
      BY CleanedIsNames
    <2>2. step \in [V \X Element -> V]
      <3>1. ASSUME NEW x \in V \X Element PROVE cleaned(x[1], x[2]) \in V
        <4>1. x[1] \in V /\ x[2] \in Element
          OBVIOUS
        <4> QED BY <2>1, <4>1
      <3> QED BY <3>1 DEF CleanStep
    <2> QED BY <2>1, <2>2
  <1>2. p \in Seq(Element) /\ \A s \in I : s # {} => p[Max(s)] \in Element /\ s \ {Max(s)} \in I
    BY LastElement DEF Path
  <1> HIDE DEF step, V
  <1>3. PICK G \in [I -> V] : IsFoldLeft(G, <<>>, step, p)
    BY <1>1, <1>2, FoldLeftExists
  <1>4. Folds(G)
    <2>1. \A s \in I : s # {} =>
            step[<<G[s \ {Max(s)}], p[Max(s)]>>] = cleaned(G[s \ {Max(s)}], p[Max(s)])
      BY <1>1, <1>2
    <2> QED BY <1>3, <2>1 DEF IsFoldLeft
  <1>5. Folds(F)
    BY <1>4
  <1>6. Clean(p) = F[DOMAIN p]
    BY DEF Clean, FoldLeft, MapThenFoldSet
  <1> HIDE DEF F
  <1>7. /\ F[{}] = <<>>
        /\ \A s \in I : s # {} /\ F[s \ {Max(s)}] \in V =>
             F[s] = step[<<F[s \ {Max(s)}], p[Max(s)]>>]
    <2>1. {} \in I /\ \A s \in I : F[s] = IF s = {} THEN <<>> ELSE cleaned(F[s \ {Max(s)}], p[Max(s)])
      BY <1>5
    <2>2. F[{}] = <<>>
      BY <2>1
    <2>3. ASSUME NEW s \in I, s # {}, F[s \ {Max(s)}] \in V
          PROVE  F[s] = step[<<F[s \ {Max(s)}], p[Max(s)]>>]
      <3>1. p[Max(s)] \in Element
        BY <1>2, <2>3
      <3>2. F[s] = cleaned(F[s \ {Max(s)}], p[Max(s)])
        BY <2>1, <2>3
      <3> QED BY <1>1, <2>3, <3>1, <3>2
    <2> QED BY <2>2, <2>3
  <1>8. Folded(F[DOMAIN p], V, <<>>, step, p)
    BY <1>1, <1>2, <1>7, FoldLeftFolded
  <1> QED BY <1>6, <1>8 DEF step, V

(* The paths that cleaning goes through. *)
IsCleaning(acc, p) ==
  /\ acc \in [0..Len(p) -> Seq(Name)]
  /\ acc[0] = <<>>
  /\ \A k \in 1..Len(p) : acc[k] = cleaned(acc[k - 1], p[k])
  /\ Clean(p) = acc[Len(p)]

(* It goes through the paths cleaned so far. *)
LEMMA Cleaning ==
  ASSUME NEW p \in Path
  PROVE  (\E acc : IsCleaning(acc, p)) /\ Clean(p) \in Seq(Name)
  <1>1. Len(p) \in Nat /\ \A k \in 1..Len(p) : p[k] \in Element
    BY LenProperties, ElementOfSeq DEF Path
  <1>2. PICK acc \in [0..Len(p) -> Seq(Name)] :
          /\ acc[0] = <<>>
          /\ \A k \in 1..Len(p) : acc[k] = CleanStep[<<acc[k - 1], p[k]>>]
          /\ Clean(p) = acc[Len(p)]
    BY CleanFolded DEF Folded
  <1>3. \A k \in 1..Len(p) : acc[k] = cleaned(acc[k - 1], p[k])
    <2> SUFFICES ASSUME NEW k \in 1..Len(p) PROVE acc[k] = cleaned(acc[k - 1], p[k])
      OBVIOUS
    <2>1. k - 1 \in 0..Len(p)
      BY <1>1
    <2>2. acc[k - 1] \in Seq(Name) /\ p[k] \in Element
      BY <1>1, <2>1
    <2> QED BY <1>2, <2>2, CleanedIsNames
  <1>4. Clean(p) \in Seq(Name)
    <2>1. Len(p) \in 0..Len(p)
      BY <1>1
    <2> QED BY <1>2, <2>1
  <1>5. IsCleaning(acc, p)
    BY <1>2, <1>3 DEF IsCleaning
  <1> QED BY <1>4, <1>5

(* Guard.root is a path without dots. *)
LEMMA RootIsNames ==
  ASSUME NEW f, IsFileSystem(f), NEW w \in Path
  PROVE  New(f, w) \in Seq(Name)
  <1>1. Clean(w) \in Seq(Name) /\ Clean(w) \in Path
    BY Cleaning, NamePath
  <1>2. CASE EvalSymlinks(f, Clean(w)).ok
    <2>1. /\ Start(Clean(w)) \in Place /\ Start(Clean(w)).done \in Seq(Name)
          /\ EvalSymlinks(f, Clean(w)) = Walks(f)[Start(Clean(w))]
      BY <1>1, StartIsPlace
    <2>2. Lands(f, Start(Clean(w)))
      BY <1>2, <2>1, Landing
    <2>3. EvalSymlinks(f, Clean(w)).path \in Seq(Name)
      BY <2>1, <2>2, OkOf DEF Lands
    <2> QED BY <1>2, <2>3 DEF New
  <1>3. CASE ~EvalSymlinks(f, Clean(w)).ok
    BY <1>1, <1>3 DEF New
  <1> QED BY <1>2, <1>3

(* What the states of the validation have in common. *)
PathsInv ==
  /\ pc = "validate" => fs \in FileSystems /\ root \in Seq(Name)
  /\ checked = Unchecked => resolved = Failure
  /\ checked # Unchecked =>
       /\ checked \in InputPaths /\ fs \in FileSystems /\ root \in Seq(Name)
       /\ resolved = Resolve(fs, root, checked)

(* The guard's root is a path of names, and what it resolved last is what Resolve
   makes of the path and that root (validatePathsCmd, Guard.Resolve). *)
THEOREM PathsInvariant == Spec => []PathsInv
  <1>1. Init => PathsInv
    <2> SUFFICES ASSUME Init PROVE PathsInv
      OBVIOUS
    <2>1. checked = Unchecked /\ resolved = Failure
      BY DEF Init
    <2>2. ASSUME pc = "validate" PROVE fs \in FileSystems /\ root \in Seq(Name)
      <3>1. ToValidate
        BY <2>2 DEF Init, ToTokenize
      <3>2. PICK w \in Workspaces : root = New(fs, w)
        BY <3>1 DEF ToValidate
      <3>3. fs \in FileSystems /\ IsFileSystem(fs) /\ w \in Path
        BY <3>1, InputsAssumption DEF ToValidate
      <3> QED BY <3>2, <3>3, RootIsNames
    <2> QED BY <2>1, <2>2 DEF PathsInv
  <1>2. PathsInv /\ [Next]_vars => PathsInv'
    <2> SUFFICES ASSUME PathsInv, [Next]_vars PROVE PathsInv'
      OBVIOUS
    <2>1. CASE ValidatePath
      <3>1. /\ checked' \in InputPaths /\ resolved' = Resolve(fs, root, checked')
            /\ fs \in FileSystems /\ root \in Seq(Name) /\ fs' = fs /\ root' = root
            /\ pc' # "validate"
        BY <2>1 DEF ValidatePath, PathsInv
      <3>2. checked' # Unchecked
        BY <3>1, InputsAssumption
      <3> QED BY <3>1, <3>2 DEF PathsInv
    <2>2. CASE Step
      BY <2>2 DEF Step, PathsInv, pathVars
    <2>3. CASE Tokenized
      BY <2>3 DEF Tokenized, PathsInv, pathVars
    <2>4. CASE UNCHANGED vars
      BY <2>4 DEF vars, PathsInv, pathVars
    <2> QED BY <2>1, <2>2, <2>3, <2>4 DEF Next
  <1> QED BY <1>1, <1>2, PTL DEF Spec

(* What Resolve makes of a path, put apart. *)
LEMMA Resolved ==
  ASSUME NEW f, NEW w \in Seq(Name), NEW p \in [abs : BOOLEAN, elems : Path]
  PROVE  LET abs  == Clean(Given(w, p))
             real == resolveExistingAncestor(f, abs)
         IN  /\ abs \in Seq(Name) /\ Given(w, p) \in Path
             /\ Resolve(f, w, p).ok <=> withinRoot(w, abs) /\ real.ok /\ withinRoot(w, real.path)
             /\ Resolve(f, w, p).ok => Resolve(f, w, p).path = abs
  <1> DEFINE abs == Clean(Given(w, p))
             real == resolveExistingAncestor(f, abs)
  <1>1. w \in Path /\ p.elems \in Path
    BY NamePath
  <1>2. Given(w, p) \in Path
    BY <1>1, ConcatProperties DEF Path, Given
  <1>3. abs \in Seq(Name)
    BY <1>2, Cleaning
  <1>4. Resolve(f, w, p) = IF withinRoot(w, abs) /\ real.ok /\ withinRoot(w, real.path)
                           THEN Found(abs) ELSE Failure
    BY DEF Resolve
  <1> HIDE DEF abs, real
  <1>5. /\ Resolve(f, w, p).ok <=> withinRoot(w, abs) /\ real.ok /\ withinRoot(w, real.path)
        /\ Resolve(f, w, p).ok => Resolve(f, w, p).path = abs
    BY <1>4, OkOf
  <1> QED BY <1>2, <1>3, <1>5 DEF abs, real

-----------------------------------------------------------------------------
(* Paths that exist. *)

(* The steps of a walk on ".", "..", and a name. *)
LEMMA DotStep ==
  ASSUME NEW f, IsFileSystem(f), NEW d \in Path, NEW q \in Path, NEW l \in 0..MaxLinks, NEW e \in {".", ".."}
  PROVE  Walks(f)[At(d, <<e>> \o q, l)] = Walks(f)[At(cleaned(d, e), q, l)]
  <1> DEFINE p == <<e>> \o q
             s == At(d, p, l)
  <1>1. <<e>> \in Seq(Element) /\ <<e>> # <<>> /\ Head(<<e>>) = e /\ Tail(<<e>>) = <<>> /\ <<>> \o q = q
    BY ConcatEmptySeq DEF Element, Path
  <1>2. p \in Path /\ p # <<>> /\ Head(p) = e /\ Tail(p) = q
    BY <1>1, ConcatTail DEF Path
  <1> HIDE DEF p
  <1>3. s \in Place /\ s.done = d /\ s.rest = p /\ s.links = l
    BY <1>2, AtIsPlace
  <1>4. LeadsOn(f, s)
    <2> HIDE DEF s
    <2> QED BY <1>2, <1>3 DEF LeadsOn, Moves
  <1>5. Follow(f, s) = At(cleaned(d, e), q, l)
    <2> cleaned(d, e) = IF e = "." \/ d = <<>> THEN d ELSE Front(d)
      BY DEF cleaned
    <2>1. CASE e = "."
      <3>1. Follow(f, s) = [s EXCEPT !.rest = Tail(@)]
        <4> HIDE DEF s
        <4> QED BY <1>2, <1>3, <2>1 DEF Follow, IsA, Moves
      <3> QED BY <1>2, <2>1, <3>1 DEF At
    <2>2. CASE e = ".."
      <3>1. Follow(f, s) = [s EXCEPT !.done = IF @ = <<>> THEN @ ELSE Front(@), !.rest = Tail(@)]
        <4> HIDE DEF s
        <4> QED BY <1>2, <1>3, <2>2 DEF Follow, IsA, Moves
      <3> QED BY <1>2, <2>2, <3>1 DEF At
    <2> QED BY <2>1, <2>2
  <1> HIDE DEF s
  <1> QED BY <1>3, <1>4, <1>5, WalkEquation DEF s, p

IsDir(f, p) == p \in DOMAIN f /\ f[p].kind = "dir"

(* A walk goes on through a directory. *)
LEMMA DirStep ==
  ASSUME NEW f, IsFileSystem(f), NEW d \in Path, NEW h \in Name, NEW q \in Path,
         NEW l \in 0..MaxLinks, IsDir(f, Append(d, h))
  PROVE  Walks(f)[At(d, <<h>> \o q, l)] = Walks(f)[At(Append(d, h), q, l)]
  <1> DEFINE p == <<h>> \o q
             s == At(d, p, l)
  <1>1. <<h>> \in Seq(Element) /\ <<h>> # <<>> /\ Head(<<h>>) = h /\ Tail(<<h>>) = <<>> /\ <<>> \o q = q
    BY ConcatEmptySeq DEF Element, Path
  <1>2. p \in Path /\ p # <<>> /\ Head(p) = h /\ Tail(p) = q
    BY <1>1, ConcatTail DEF Path
  <1> HIDE DEF p
  <1>3. s \in Place /\ s.done = d /\ s.rest = p /\ s.links = l
    BY <1>2, AtIsPlace
  <1>4. IsA(f, s, "dir") /\ here(s) = Append(d, h) /\ s.rest # <<>> /\ ~Moves(s)
    <2> HIDE DEF s
    <2> QED BY <1>2, <1>3, PathGuardAssumption DEF IsA, Moves, IsDir, here
  <1>5. Follow(f, s) = At(Append(d, h), q, l)
    <2>1. Follow(f, s) = [s EXCEPT !.done = here(s), !.rest = Tail(@)]
      <3> HIDE DEF s
      <3> QED BY <1>4 DEF Follow, IsA, Moves
    <2> QED BY <1>2, <1>4, <2>1 DEF At
  <1> HIDE DEF s
  <1>6. LeadsOn(f, s)
    BY <1>4 DEF LeadsOn
  <1> QED BY <1>3, <1>5, <1>6, WalkEquation DEF s, p

NoLinks(f) == \A p \in DOMAIN f : f[p].kind # "link"

(* Without links, a name that is walked on to is a directory, or the end. *)
LEMMA NameStep ==
  ASSUME NEW f, IsFileSystem(f), NoLinks(f), NEW d \in Path, NEW h \in Name, NEW q \in Path,
         NEW l \in 0..MaxLinks, Walks(f)[At(d, <<h>> \o q, l)].ok
  PROVE  \/ IsDir(f, Append(d, h))
         \/ q = <<>> /\ Walks(f)[At(d, <<h>>, l)] = Found(Append(d, h))
  <1> SUFFICES ASSUME ~IsDir(f, Append(d, h))
               PROVE  q = <<>> /\ Walks(f)[At(d, <<h>>, l)] = Found(Append(d, h))
    OBVIOUS
  <1> DEFINE p == <<h>>
             s == At(d, p, l)
  <1>1. p \in Path /\ p # <<>> /\ Head(p) = h /\ <<>> \in Path /\ p \o <<>> = p
    BY DEF Element, Path
  <1> HIDE DEF p
  <1>2. s \in Place /\ s.done = d /\ s.rest = p /\ s.links = l
    BY <1>1, AtIsPlace
  <1>3. Further(s, q) = At(d, p \o q, l) /\ Further(s, <<>>) = s
    BY <1>2, FurtherNone DEF Further
  <1> HIDE DEF s
  <1>4. here(s) = Append(d, h) /\ ~Moves(s)
    BY <1>1, <1>2, PathGuardAssumption DEF here, Moves
  <1>5. ~IsA(f, s, "dir") /\ ~IsA(f, s, "link")
    BY <1>4 DEF IsA, IsDir, NoLinks
  <1>6. ~LeadsOn(f, s) /\ s.rest # <<>>
    BY <1>1, <1>2, <1>4, <1>5 DEF LeadsOn
  <1>7. Walks(f)[Further(s, q)].ok
    BY <1>3 DEF p
  <1>8. \A x \in Path : Walks(f)[Further(s, x)] = IF x = <<>> THEN Found(here(s)) ELSE Failure
    BY <1>2, <1>6, <1>7, Stopped
  <1>9. q = <<>>
    BY <1>7, <1>8, OkOf
  <1>10. Walks(f)[Further(s, <<>>)] = Found(here(s))
    BY <1>1, <1>8
  <1> QED BY <1>3, <1>4, <1>9, <1>10 DEF s, p

(* The guard's answer about what exists is where it leads. *)
LEMMA ExistingAncestor ==
  ASSUME NEW f, IsFileSystem(f), NEW p \in Seq(Name), EvalSymlinks(f, p).ok
  PROVE  /\ resolveExistingAncestor(f, p).ok
         /\ resolveExistingAncestor(f, p).path = EvalSymlinks(f, p).path
  <1> DEFINE U(k) == SubSeq(p, 1, k)
             Q(k) == SubSeq(p, k + 1, Len(p))
  <1>1. PICK k \in 0..Len(p) :
          /\ Lstat(f, U(k)) /\ \A j \in (k + 1)..Len(p) : ~Lstat(f, U(j))
          /\ resolveExistingAncestor(f, p) =
               IF EvalSymlinks(f, U(k)).ok THEN Found(EvalSymlinks(f, U(k)).path \o Q(k)) ELSE Failure
    BY DeepestAncestor
  <1>2. Len(p) \in Nat /\ U(Len(p)) = p /\ Lstat(f, p)
    BY LenProperties, SubSeqFull, FoundExists
  <1>3. k = Len(p)
    <2> SUFFICES ASSUME k # Len(p) PROVE FALSE
      OBVIOUS
    <2>1. Len(p) \in (k + 1)..Len(p)
      <3>1. Len(p) \in Nat
        BY LenProperties
      <3> QED BY <3>1
    <2> HIDE DEF U
    <2> QED BY <1>1, <1>2, <2>1
  <1>4. U(k) = p /\ Q(k) = <<>>
    BY <1>3, Cut
  <1>5. EvalSymlinks(f, p).path \in Seq(Name)
    <2>1. Start(p) \in Place /\ Start(p).done \in Seq(Name) /\ EvalSymlinks(f, p) = Walks(f)[Start(p)]
      BY NamePath, StartIsPlace
    <2>2. Lands(f, Start(p))
      BY <2>1, Landing
    <2> QED BY <2>1, <2>2, OkOf DEF Lands
  <1>6. EvalSymlinks(f, p).path \o <<>> = EvalSymlinks(f, p).path
    BY <1>5, ConcatEmptySeq
  <1> HIDE DEF U, Q
  <1>7. resolveExistingAncestor(f, p) = Found(EvalSymlinks(f, p).path)
    BY <1>1, <1>4, <1>6
  <1> QED BY <1>7, OkOf

(* A "." on the way is of no effect when something is found. *)
LEMMA DotDropped ==
  ASSUME NEW f, IsFileSystem(f), NEW u \in Path, NEW v \in Path,
         EvalSymlinks(f, u \o (<<".">> \o v)).ok
  PROVE  EvalSymlinks(f, u \o v) = EvalSymlinks(f, u \o (<<".">> \o v))
  <1> DEFINE q == <<".">> \o v
  <1>1. q \in Path /\ q # <<>>
    <2>1. <<".">> \in Seq(Element) /\ <<".">> # <<>>
      BY DEF Element
    <2> QED BY <2>1, ConcatTail DEF Path
  <1>2. /\ Start(u) \in Place /\ Start(u).done \in Seq(Name)
        /\ Further(Start(u), q) = Start(u \o q) /\ Further(Start(u), v) = Start(u \o v)
        /\ EvalSymlinks(f, u \o q) = Walks(f)[Start(u \o q)]
        /\ EvalSymlinks(f, u \o v) = Walks(f)[Start(u \o v)]
    <2> HIDE DEF q
    <2>1. u \o q \in Path /\ u \o v \in Path
      BY <1>1, StartIsPlace
    <2> QED BY <1>1, <2>1, StartIsPlace
  <1>3. Walks(f)[Further(Start(u), q)].ok
    BY <1>2
  <1>4. Lands(f, Start(u))
    <2> HIDE DEF q
    <2> QED BY <1>1, <1>2, <1>3, PrefixFound, Landing
  <1>5. PICK r \in Seq(Name), l \in 0..MaxLinks : LandsIn(f, Start(u), r, l) \/ LandsOn(f, Start(u), r)
    BY <1>4 DEF Lands
  <1>6. ~LandsOn(f, Start(u), r)
    <2> SUFFICES ASSUME LandsOn(f, Start(u), r) PROVE FALSE
      OBVIOUS
    <2> HIDE DEF q
    <2>1. Walks(f)[Further(Start(u), q)] = Failure
      BY <1>1 DEF LandsOn
    <2> QED BY <1>3, <2>1, OkOf
  <1>7. Walks(f)[At(r, q, l)] = Walks(f)[At(r, v, l)]
    <2>1. r \in Path
      BY NamePath
    <2> DEFINE e == "."
    <2>2. e \in {".", ".."}
      OBVIOUS
    <2> HIDE DEF e
    <2>3. Walks(f)[At(r, <<e>> \o v, l)] = Walks(f)[At(cleaned(r, e), v, l)]
      BY <2>1, <2>2, DotStep
    <2>4. cleaned(r, e) = r
      BY DEF cleaned, e
    <2> QED BY <2>3, <2>4 DEF e
  <1> HIDE DEF q
  <1>8. /\ Walks(f)[Further(Start(u), q)] = Walks(f)[At(r, q, l)]
        /\ Walks(f)[Further(Start(u), v)] = Walks(f)[At(r, v, l)]
    BY <1>1, <1>5, <1>6 DEF LandsIn
  <1> QED BY <1>2, <1>7, <1>8 DEF q

(* The two parts of a path with dots, as Cut says of one without. *)
LEMMA CutPath ==
  ASSUME NEW p \in Path, NEW k \in 0..Len(p)
  PROVE  /\ SubSeq(p, k + 1, Len(p)) \in Path
         /\ k = Len(p) => SubSeq(p, k + 1, Len(p)) = <<>>
         /\ k # Len(p) => /\ k + 1 \in 1..Len(p) /\ p[k + 1] \in Element
                          /\ SubSeq(p, k + 1, Len(p)) = <<p[k + 1]>> \o SubSeq(p, k + 2, Len(p))
                          /\ SubSeq(p, k + 2, Len(p)) \in Path
  <1>1. p \in Seq(Element) /\ Len(p) \in Nat /\ \A j \in 1..Len(p) : p[j] \in Element
    BY LenProperties, ElementOfSeq DEF Path
  <1>2. SubSeq(p, k + 1, Len(p)) \in Path /\ SubSeq(p, k + 2, Len(p)) \in Path
    BY <1>1, SubSeqProperties DEF Path
  <1>3. k = Len(p) => SubSeq(p, k + 1, Len(p)) = <<>>
    BY <1>1, SubSeqEmpty
  <1>4. ASSUME k # Len(p)
        PROVE  k + 1 \in 1..Len(p) /\ SubSeq(p, k + 1, Len(p)) = <<p[k + 1]>> \o SubSeq(p, k + 2, Len(p))
    <2>1. k + 1 \in 1..Len(p) /\ Len(p) \in (k + 1)..Len(p) /\ (k + 1) + 1 = k + 2
      BY <1>1, <1>4
    <2> QED BY <1>1, <2>1, SubSeqRecursiveFirst
  <1> QED BY <1>1, <1>2, <1>3, <1>4

(* Without "..", cleaning leaves out what is of no effect. *)
LEMMA CleanedFound ==
  ASSUME NEW f, IsFileSystem(f), NEW p \in Path, \A k \in 1..Len(p) : p[k] # "..",
         EvalSymlinks(f, p).ok
  PROVE  EvalSymlinks(f, Clean(p)) = EvalSymlinks(f, p)
  <1> DEFINE Q(n) == SubSeq(p, n + 1, Len(p))
  <1>1. PICK acc : IsCleaning(acc, p)
    BY Cleaning
  <1> DEFINE N == {n \in Nat : n <= Len(p) => EvalSymlinks(f, acc[n] \o Q(n)) = EvalSymlinks(f, p)}
  <1>2. /\ Len(p) \in Nat /\ acc[0] = <<>> /\ Clean(p) = acc[Len(p)]
        /\ \A n \in 0..Len(p) : acc[n] \in Seq(Name) /\ acc[n] \in Path
        /\ \A n \in 1..Len(p) : acc[n] = cleaned(acc[n - 1], p[n])
    BY <1>1, LenProperties, NamePath DEF IsCleaning, Path
  <1>3. 0 \in N
    <2>1. Q(0) = p
      BY SubSeqFull DEF Path
    <2>2. <<>> \o p = p
      BY ConcatEmptySeq DEF Path
    <2> HIDE DEF Q
    <2> QED BY <1>2, <2>1, <2>2
  <1>4. ASSUME NEW n \in N PROVE n + 1 \in N
    <2> SUFFICES ASSUME n + 1 <= Len(p)
                 PROVE  EvalSymlinks(f, acc[n + 1] \o Q(n + 1)) = EvalSymlinks(f, p)
      OBVIOUS
    <2>1. n \in Nat /\ EvalSymlinks(f, acc[n] \o Q(n)) = EvalSymlinks(f, p)
      BY <1>2
    <2>2. n \in 0..Len(p) /\ n # Len(p) /\ n + 1 \in 0..Len(p) /\ (n + 1) - 1 = n /\ (n + 1) + 1 = n + 2
      BY <1>2, <2>1
    <2> DEFINE u == acc[n]
               e == p[n + 1]
               v == SubSeq(p, n + 2, Len(p))
    <2>3. Q(n) = <<e>> \o v /\ v \in Path /\ e \in Element /\ n + 1 \in 1..Len(p)
      BY <2>2, CutPath
    <2>4. Q(n + 1) = v
      BY <2>2
    <2>5. e # ".." /\ acc[n + 1] = cleaned(u, e) /\ u \in Path
      BY <1>2, <2>2, <2>3
    <2> HIDE DEF u, e, v, Q
    <2>6. EvalSymlinks(f, u \o (<<e>> \o v)) = EvalSymlinks(f, p)
      BY <2>1, <2>3 DEF u
    <2>7. CASE e = "."
      <3>1. EvalSymlinks(f, u \o v) = EvalSymlinks(f, u \o (<<".">> \o v))
        BY <2>3, <2>5, <2>6, <2>7, DotDropped
      <3>2. acc[n + 1] = u
        BY <2>5, <2>7 DEF cleaned
      <3> QED BY <2>4, <2>6, <2>7, <3>1, <3>2
    <2>8. CASE e # "."
      <3>1. acc[n + 1] = Append(u, e)
        BY <2>5, <2>8 DEF cleaned
      <3>2. Append(u, e) = u \o <<e>> /\ <<e>> \in Path
        BY <2>3, <2>5, AppendIsConcat DEF Path
      <3>3. (u \o <<e>>) \o v = u \o (<<e>> \o v)
        <4>1. u \in Seq(Element) /\ <<e>> \in Seq(Element) /\ v \in Seq(Element)
          BY <2>3, <2>5, <3>2 DEF Path
        <4> QED BY <4>1, ConcatAssociative
      <3> QED BY <2>4, <2>6, <3>1, <3>2, <3>3
    <2> QED BY <2>7, <2>8
  <1>5. N = Nat
    <2>1. N \in SUBSET Nat
      OBVIOUS
    <2> HIDE DEF N
    <2> QED BY <1>3, <1>4, <2>1, NatSet
  <1>6. EvalSymlinks(f, acc[Len(p)] \o Q(Len(p))) = EvalSymlinks(f, p)
    BY <1>2, <1>5
  <1>7. Q(Len(p)) = <<>> /\ acc[Len(p)] \o <<>> = acc[Len(p)]
    <2>1. Len(p) \in 0..Len(p)
      BY <1>2
    <2>2. acc[Len(p)] \in Seq(Name)
      BY <1>2, <2>1
    <2> QED BY <2>1, <2>2, CutPath, ConcatEmptySeq
  <1> HIDE DEF Q
  <1> QED BY <1>2, <1>6, <1>7

(* What is put behind a path without dots stays behind it when it is cleaned,
   if it has no "..". *)
LEMMA CleanKeepsPrefix ==
  ASSUME NEW w \in Seq(Name), NEW e \in Path, \A k \in 1..Len(e) : e[k] # ".."
  PROVE  IsPrefix(w, Clean(w \o e))
  <1> DEFINE p == w \o e
             m == Len(w)
             n == Len(p)
  <1>1. /\ w \in Path /\ p \in Path /\ m \in Nat /\ n \in Nat /\ n = m + Len(e) /\ Len(e) \in Nat
        /\ \A k \in 1..n : p[k] = IF k <= m THEN w[k] ELSE e[k - m]
        /\ \A k \in 1..m : w[k] \in Name
        /\ \A k \in 1..Len(e) : e[k] \in Element
    BY NamePath, ConcatProperties, LenProperties, ElementOfSeq DEF Path
  <1>2. PICK acc : IsCleaning(acc, p)
    BY <1>1, Cleaning
  <1> HIDE DEF p
  <1>3. /\ acc[0] = <<>> /\ Clean(p) = acc[n]
        /\ \A k \in 0..n : acc[k] \in Seq(Name)
        /\ \A k \in 1..n : acc[k] = cleaned(acc[k - 1], p[k])
    BY <1>2 DEF IsCleaning
  <1> HIDE DEF n, m
  <1> DEFINE Keeps(k) == /\ k <= m => acc[k] = SubSeq(w, 1, k)
                         /\ k >= m => \E q \in Seq(Name) : acc[k] = w \o q
             N == {k \in Nat : k <= n => Keeps(k)}
  <1>4. SubSeq(w, 1, m) = w /\ w \o <<>> = w /\ SubSeq(w, 1, 0) = <<>> /\ <<>> \in Seq(Name)
    BY SubSeqFull, ConcatEmptySeq, SubSeqEmpty DEF m
  <1>5. 0 \in N
    <2>1. 0 >= m => m = 0
      BY <1>1
    <2>2. 0 >= m => acc[0] = w \o <<>>
      BY <1>3, <1>4, <2>1
    <2> QED BY <1>3, <1>4, <2>2
  <1>6. ASSUME NEW k \in N PROVE k + 1 \in N
    <2> SUFFICES ASSUME k + 1 <= n PROVE Keeps(k + 1)
      OBVIOUS
    <2>1. k \in Nat /\ Keeps(k) /\ k + 1 \in 1..n /\ k \in 0..n /\ (k + 1) - 1 = k
      <3>1. k \in Nat /\ (k <= n => Keeps(k))
        OBVIOUS
      <3> HIDE DEF Keeps, N
      <3> QED BY <1>1, <3>1
    <2>2. acc[k + 1] = cleaned(acc[k], p[k + 1])
      BY <1>3, <2>1
    <2>3. CASE k + 1 <= m
      <3>1. p[k + 1] = w[k + 1] /\ w[k + 1] \in Name /\ k + 1 \in 1..m
        BY <1>1, <2>1, <2>3
      <3>2. acc[k + 1] = Append(acc[k], w[k + 1])
        BY <2>2, <3>1, PathGuardAssumption DEF cleaned
      <3>3. acc[k] = SubSeq(w, 1, k)
        BY <1>1, <2>1, <2>3
      <3>4. SubSeq(w, 1, k + 1) = SubSeq(w, 1, k) \o <<w[k + 1]>>
        <4>1. 1 \in 1..Len(w) /\ k + 1 \in 1..Len(w)
          BY <1>1, <3>1 DEF m
        <4>2. SubSeq(w, 1, k + 1) = SubSeq(w, 1, (k + 1) - 1) \o <<w[k + 1]>>
          BY <4>1, SubSeqRecursiveSecond
        <4> QED BY <2>1, <4>2
      <3>5. acc[k + 1] = SubSeq(w, 1, k + 1)
        <4>1. SubSeq(w, 1, k) \in Seq(Name)
          BY <1>3, <2>1, <3>3
        <4> QED BY <3>1, <3>2, <3>3, <3>4, <4>1, AppendIsConcat
      <3>6. k + 1 >= m => acc[k + 1] = w \o <<>>
        <4>1. k + 1 >= m => k + 1 = m
          BY <1>1, <2>1, <2>3
        <4> QED BY <1>4, <3>5, <4>1
      <3> QED BY <1>4, <3>5, <3>6
    <2>4. CASE k + 1 > m
      <3>1. k >= m /\ ~(k + 1 <= m)
        BY <1>1, <2>1, <2>4
      <3>2. PICK q \in Seq(Name) : acc[k] = w \o q
        BY <2>1, <3>1
      <3> DEFINE x == p[k + 1]
      <3>3. x \in Element /\ x # ".."
        <4>1. (k + 1) - m \in 1..Len(e)
          BY <1>1, <2>1, <2>4
        <4> QED BY <1>1, <2>1, <3>1, <4>1
      <3> HIDE DEF x
      <3>4. CASE x = "."
        <4>1. acc[k + 1] = w \o q
          BY <2>2, <3>2, <3>4 DEF cleaned, x
        <4> QED BY <3>1, <4>1
      <3>5. CASE x # "."
        <4>1. x \in Name /\ <<x>> \in Seq(Name)
          BY <3>3, <3>5 DEF Element
        <4>2. acc[k + 1] = Append(w \o q, x)
          BY <2>2, <3>2, <3>3, <3>5 DEF cleaned, x
        <4>3. Append(w \o q, x) = (w \o q) \o <<x>>
          BY <4>1, ConcatProperties, AppendIsConcat
        <4>4. (w \o q) \o <<x>> = w \o (q \o <<x>>) /\ q \o <<x>> \in Seq(Name)
          BY <4>1, ConcatAssociative, ConcatProperties
        <4> QED BY <3>1, <4>2, <4>3, <4>4
      <3> QED BY <3>4, <3>5
    <2>5. k + 1 <= m \/ k + 1 > m
      BY <1>1, <2>1
    <2> HIDE DEF Keeps
    <2> QED BY <2>3, <2>4, <2>5
  <1>7. N = Nat
    <2>1. N \in SUBSET Nat
      OBVIOUS
    <2> HIDE DEF N
    <2> QED BY <1>5, <1>6, <2>1, NatSet
  <1>8. PICK q \in Seq(Name) : Clean(p) = w \o q
    <2>1. Keeps(n)
      <3> HIDE DEF Keeps
      <3> QED BY <1>1, <1>7
    <2>2. n >= m
      BY <1>1
    <2> QED BY <1>3, <2>1, <2>2
  <1>9. IsPrefix(w, w \o q)
    <2>1. Len(w \o q) = Len(w) + Len(q) /\ Len(q) \in Nat /\ Len(w) \in Nat
      BY ConcatProperties, LenProperties
    <2>2. SubSeq(w \o q, 1, Len(w)) = SubSeq(w, 1, Len(w))
      <3>1. CASE w = <<>>
        <4>1. Len(w) = 0
          BY <3>1
        <4> QED BY <4>1, SubSeqEmpty
      <3>2. CASE w # <<>>
        <4>1. 1 \in 1..Len(w) /\ Len(w) \in 1..Len(w)
          BY <2>1, <3>2, EmptySeq
        <4> QED BY <4>1, SubSeqOfConcat1
      <3> QED BY <3>1, <3>2
    <2> QED BY <2>1, <2>2 DEF IsPrefix
  <1> QED BY <1>8, <1>9 DEF p

(* Every directory on the way to d is one. *)
Dirs(f, d) == \A k \in 1..Len(d) : IsDir(f, SubSeq(d, 1, k))

(* One directory more on the way. *)
LEMMA DirsOfMore ==
  ASSUME NEW f, NEW d \in Seq(Name), Dirs(f, d), NEW h \in Name, IsDir(f, Append(d, h))
  PROVE  Dirs(f, Append(d, h))
  <1> DEFINE a == Append(d, h)
             n == Len(d)
  <1>1. a \in Seq(Name) /\ Len(a) = n + 1 /\ n \in Nat /\ \A k \in 1..n : a[k] = d[k]
    BY AppendProperties, LenProperties
  <1>2. a = d \o <<h>> /\ <<h>> \in Seq(Name) /\ SubSeq(a, 1, n + 1) = a
    BY <1>1, AppendIsConcat, SubSeqFull
  <1>3. ASSUME NEW k \in 1..n PROVE SubSeq(a, 1, k) = SubSeq(d, 1, k)
    <2>1. 1 \in 1..n /\ k \in 1..n
      BY <1>1
    <2> HIDE DEF a
    <2>2. SubSeq(d \o <<h>>, 1, k) = SubSeq(d, 1, k)
      BY <1>2, <2>1, SubSeqOfConcat1
    <2> QED BY <1>2, <2>2
  <1> HIDE DEF n
  <1>4. ASSUME NEW k \in 1..(n + 1) PROVE IsDir(f, SubSeq(a, 1, k))
    <2>1. CASE k = n + 1
      BY <1>2, <2>1
    <2>2. CASE k # n + 1
      <3>1. k \in 1..n
        BY <1>1, <2>2
      <3>2. IsDir(f, SubSeq(d, 1, k))
        BY <3>1 DEF Dirs, n
      <3> QED BY <1>3, <3>1, <3>2
    <2> QED BY <2>1, <2>2
  <1> HIDE DEF a
  <1> QED BY <1>1, <1>4 DEF Dirs, a

(* And one less. *)
LEMMA DirsOfFront ==
  ASSUME NEW f, NEW d \in Seq(Name), Dirs(f, d), d # <<>>
  PROVE  Dirs(f, Front(d))
  <1> DEFINE b == Front(d)
             n == Len(d)
  <1>1. n \in Nat \ {0} /\ \A k \in 1..n : d[k] \in Name
    BY EmptySeq, LenProperties, ElementOfSeq
  <1>2. b = SubSeq(d, 1, n - 1) /\ Len(b) = n - 1
    <2>1. b = SubSeq(d, 1, n - 1)
      BY DEF Front
    <2>2. \A k \in 1..(n - 1) : d[k] \in Name
      BY <1>1
    <2>3. Len(SubSeq(d, 1, n - 1)) = IF 1 <= n - 1 THEN (n - 1) - 1 + 1 ELSE 0
      BY <1>1, <2>2, SubSeqProperties
    <2> HIDE DEF b, n
    <2> QED BY <1>1, <2>1, <2>3
  <1>3. ASSUME NEW k \in 1..(n - 1) PROVE SubSeq(b, 1, k) = SubSeq(d, 1, k) /\ k \in 1..n
    <2>1. /\ 1 \in 1..n /\ n - 1 \in 1..n /\ (n - 1) - 1 + 1 = n - 1
          /\ 1 \in 1..(n - 1) /\ k \in 1..n /\ 1 + k - 1 = k /\ 1 + 1 - 1 = 1
      BY <1>1
    <2>2. SubSeq(SubSeq(d, 1, n - 1), 1, k) = SubSeq(d, 1 + 1 - 1, 1 + k - 1)
      <3> HIDE DEF b
      <3>1. /\ 1 \in 1..((n - 1) - 1 + 1) /\ k \in 1..((n - 1) - 1 + 1)
        BY <1>1, <2>1
      <3>2. d \in Seq(Seq(Name)) \/ d \in Seq(Name)
        OBVIOUS
      <3> QED BY <2>1, <3>1, SubSeqOfSubSeq
    <2> HIDE DEF b, n
    <2> QED BY <1>2, <2>1, <2>2
  <1>4. \A k \in 1..(n - 1) : IsDir(f, SubSeq(b, 1, k))
    <2> SUFFICES ASSUME NEW k \in 1..(n - 1) PROVE IsDir(f, SubSeq(b, 1, k))
      OBVIOUS
    <2>1. SubSeq(b, 1, k) = SubSeq(d, 1, k) /\ k \in 1..Len(d)
      BY <1>3
    <2> HIDE DEF b, n
    <2> QED BY <2>1 DEF Dirs
  <1> HIDE DEF b, n
  <1> QED BY <1>2, <1>4 DEF Dirs, b

(* A walk goes straight through directories. *)
LEMMA WalkDirs ==
  ASSUME NEW f, IsFileSystem(f), NEW d \in Seq(Name), Dirs(f, d), NEW q \in Path
  PROVE  Walks(f)[Start(d \o q)] = Walks(f)[At(d, q, MaxLinks)]
  <1> DEFINE U(k) == SubSeq(d, 1, k)
             R(k) == SubSeq(d, k + 1, Len(d))
             W == Walks(f)
             N == {k \in Nat : k <= Len(d) => W[At(U(k), R(k) \o q, MaxLinks)] = W[Start(d \o q)]}
  <1>1. Len(d) \in Nat /\ MaxLinks \in 0..MaxLinks
    BY LenProperties, PathGuardAssumption
  <1>2. 0 \in N
    <2>1. U(0) = <<>> /\ R(0) = d
      BY SubSeqEmpty, SubSeqFull
    <2> HIDE DEF U, R, W
    <2> QED BY <2>1 DEF Start
  <1>3. ASSUME NEW k \in Nat, k + 1 <= Len(d), W[At(U(k), R(k) \o q, MaxLinks)] = W[Start(d \o q)]
        PROVE  W[At(U(k + 1), R(k + 1) \o q, MaxLinks)] = W[Start(d \o q)]
    <2> DEFINE u == U(k)
               h == d[k + 1]
               v == R(k + 1)
    <2>1. k \in Nat /\ k \in 0..Len(d) /\ k # Len(d) /\ (k + 1) + 1 = k + 2 /\ k + 1 \in 1..Len(d)
      BY <1>1, <1>3
    <2>2. W[At(u, R(k) \o q, MaxLinks)] = W[Start(d \o q)]
      BY <1>3
    <2>3. u \in Seq(Name) /\ h \in Name /\ R(k) = <<h>> \o v /\ v \in Seq(Name)
      <3>1. /\ SubSeq(d, 1, k) \in Seq(Name) /\ d[k + 1] \in Name
            /\ SubSeq(d, k + 1, Len(d)) = <<d[k + 1]>> \o SubSeq(d, k + 2, Len(d))
            /\ SubSeq(d, k + 2, Len(d)) \in Seq(Name)
        BY <2>1, Cut
      <3> QED BY <2>1, <3>1
    <2>4. U(k + 1) = Append(u, h)
      <3>1. 1 \in 1..Len(d) /\ k + 1 \in 1..Len(d) /\ (k + 1) - 1 = k
        BY <1>1, <2>1
      <3>2. SubSeq(d, 1, k + 1) = SubSeq(d, 1, (k + 1) - 1) \o <<d[k + 1]>>
        BY <3>1, SubSeqRecursiveSecond
      <3>3. U(k + 1) = u \o <<h>>
        BY <3>1, <3>2
      <3> HIDE DEF U, u, h
      <3> QED BY <2>3, <3>3, AppendIsConcat
    <2>5. IsDir(f, Append(u, h))
      <3>1. IsDir(f, U(k + 1))
        BY <2>1 DEF Dirs
      <3> HIDE DEF U, u, h
      <3> QED BY <2>4, <3>1
    <2> HIDE DEF U, R, u, h, v
    <2>6. u \in Path /\ v \o q \in Path /\ (<<h>> \o v) \o q = <<h>> \o (v \o q)
      <3>1. u \in Path /\ v \in Path /\ <<h>> \in Path
        BY <2>3, NamePath DEF Path, Element
      <3> QED BY <3>1, ConcatProperties, ConcatAssociative DEF Path
    <2>7. Walks(f)[At(u, <<h>> \o (v \o q), MaxLinks)] = Walks(f)[At(Append(u, h), v \o q, MaxLinks)]
      BY <1>1, <2>3, <2>5, <2>6, DirStep
    <2> QED BY <2>2, <2>3, <2>4, <2>6, <2>7 DEF v
  <1>4. N = Nat
    <2> HIDE DEF U, R, W
    <2>1. N \in SUBSET Nat
      OBVIOUS
    <2>2. ASSUME NEW k \in N PROVE k + 1 \in N
      <3>1. k \in Nat /\ k + 1 \in Nat /\ (k + 1 <= Len(d) => k <= Len(d))
        BY <1>1
      <3> QED BY <1>3, <3>1
    <2> HIDE DEF N
    <2> QED BY <1>2, <2>1, <2>2, NatSet
  <1>5. W[At(U(Len(d)), R(Len(d)) \o q, MaxLinks)] = W[Start(d \o q)]
    <2> HIDE DEF U, R, W
    <2> QED BY <1>1, <1>4
  <1>6. U(Len(d)) = d /\ R(Len(d)) \o q = q
    <2>1. Len(d) \in 0..Len(d)
      BY <1>1
    <2>2. U(Len(d)) = d /\ R(Len(d)) = <<>>
      BY <2>1, Cut
    <2> HIDE DEF U, R
    <2> QED BY <2>2, ConcatEmptySeq DEF Path
  <1> HIDE DEF U, R
  <1> QED BY <1>5, <1>6

(* Without links a walk finds the path that cleaning makes of it, and so does
   a walk along that. *)
LEMMA FoundIsClean ==
  ASSUME NEW f, IsFileSystem(f), NoLinks(f), NEW p \in Path, EvalSymlinks(f, p).ok
  PROVE  EvalSymlinks(f, p) = Found(Clean(p)) /\ EvalSymlinks(f, Clean(p)) = Found(Clean(p))
  <1> DEFINE R(k) == SubSeq(p, k + 1, Len(p))
             W == Walks(f)
  <1>1. PICK acc : IsCleaning(acc, p)
    BY Cleaning
  <1>2. /\ Len(p) \in Nat /\ acc[0] = <<>> /\ Clean(p) = acc[Len(p)]
        /\ \A k \in 0..Len(p) : acc[k] \in Seq(Name) /\ acc[k] \in Path
        /\ \A k \in 1..Len(p) : acc[k] = cleaned(acc[k - 1], p[k])
    BY <1>1, LenProperties, NamePath DEF IsCleaning, Path
  <1>3. MaxLinks \in 0..MaxLinks
    BY PathGuardAssumption
  <1>4. EvalSymlinks(f, p) = W[Start(p)]
    BY StartIsPlace
  <1> DEFINE Going(k) == Dirs(f, acc[k]) /\ W[At(acc[k], R(k), MaxLinks)] = W[Start(p)]
             Ended(k) == /\ k = Len(p)
                         /\ \E d \in Seq(Name), h \in Name :
                              /\ Dirs(f, d) /\ acc[k] = Append(d, h)
                              /\ W[At(d, <<h>>, MaxLinks)] = W[Start(p)]
                              /\ W[Start(p)] = Found(acc[k])
             N == {k \in Nat : k <= Len(p) => Going(k) \/ Ended(k)}
  <1> HIDE DEF W
  <1>5. Going(0)
    <2>1. R(0) = p
      BY SubSeqFull DEF Path
    <2>2. Dirs(f, <<>>)
      BY DEF Dirs
    <2> HIDE DEF R
    <2> QED BY <1>2, <2>1, <2>2 DEF Start
  <1>6. ASSUME NEW k \in Nat, k + 1 <= Len(p), Going(k) PROVE Going(k + 1) \/ Ended(k + 1)
    <2> DEFINE d == acc[k]
               e == p[k + 1]
               q == R(k + 1)
               a == acc[k + 1]
    <2>1. /\ k \in 0..Len(p) /\ k # Len(p) /\ (k + 1) + 1 = k + 2
          /\ k + 1 \in 1..Len(p) /\ k + 1 \in 0..Len(p) /\ (k + 1) - 1 = k
      BY <1>2, <1>6
    <2>2. /\ e \in Element /\ R(k) = <<e>> \o q /\ q \in Path
          /\ q = <<>> => k + 1 = Len(p)
      <3>1. /\ p[k + 1] \in Element
            /\ SubSeq(p, k + 1, Len(p)) = <<p[k + 1]>> \o SubSeq(p, k + 2, Len(p))
            /\ SubSeq(p, k + 2, Len(p)) \in Path
        BY <2>1, CutPath
      <3>2. q = SubSeq(p, k + 2, Len(p))
        BY <2>1
      <3>3. q = <<>> => k + 1 = Len(p)
        <4> SUFFICES ASSUME k + 1 # Len(p) PROVE q # <<>>
          OBVIOUS
        <4>1. q = <<p[(k + 1) + 1]>> \o SubSeq(p, (k + 1) + 2, Len(p)) /\ p[(k + 1) + 1] \in Element
              /\ SubSeq(p, (k + 1) + 2, Len(p)) \in Path
          BY <2>1, CutPath
        <4> DEFINE x == p[(k + 1) + 1]
                   y == SubSeq(p, (k + 1) + 2, Len(p))
        <4>2. <<x>> \in Seq(Element) /\ <<x>> # <<>> /\ y \in Seq(Element)
          BY <4>1 DEF Path
        <4> HIDE DEF x, y
        <4>3. <<x>> \o y # <<>>
          BY <4>2, ConcatTail
        <4> QED BY <4>1, <4>3 DEF x, y
      <3> QED BY <3>1, <3>2, <3>3
    <2>3. /\ d \in Seq(Name) /\ d \in Path /\ a = cleaned(d, e)
          /\ Dirs(f, d) /\ W[At(d, R(k), MaxLinks)] = W[Start(p)]
      BY <1>2, <1>6, <2>1
    <2> HIDE DEF d, e, q, a, R
    <2>4. W[At(d, <<e>> \o q, MaxLinks)] = W[Start(p)]
      BY <2>2, <2>3
    <2>5. CASE e \in {".", ".."}
      <3>1. Walks(f)[At(d, <<e>> \o q, MaxLinks)] = Walks(f)[At(cleaned(d, e), q, MaxLinks)]
        BY <1>3, <2>2, <2>3, <2>5, DotStep
      <3>2. W[At(a, q, MaxLinks)] = W[Start(p)]
        BY <2>3, <2>4, <3>1 DEF W
      <3>3. Dirs(f, a)
        <4>1. a = d \/ (d # <<>> /\ a = Front(d))
          BY <2>3, <2>5 DEF cleaned
        <4> QED BY <2>3, <4>1, DirsOfFront
      <3> QED BY <3>2, <3>3 DEF a, q
    <2>6. CASE e \in Name
      <3>1. a = Append(d, e)
        BY <2>3, <2>6, PathGuardAssumption DEF cleaned
      <3>2. Walks(f)[At(d, <<e>> \o q, MaxLinks)].ok
        BY <1>4, <2>4 DEF W
      <3>3. \/ IsDir(f, Append(d, e))
            \/ q = <<>> /\ Walks(f)[At(d, <<e>>, MaxLinks)] = Found(Append(d, e))
        BY <1>3, <2>2, <2>3, <2>6, <3>2, NameStep
      <3>4. CASE IsDir(f, Append(d, e))
        <4>1. Walks(f)[At(d, <<e>> \o q, MaxLinks)] = Walks(f)[At(Append(d, e), q, MaxLinks)]
          BY <1>3, <2>2, <2>3, <2>6, <3>4, DirStep
        <4>2. W[At(a, q, MaxLinks)] = W[Start(p)]
          BY <2>4, <3>1, <4>1 DEF W
        <4>3. Dirs(f, a)
          BY <2>3, <2>6, <3>1, <3>4, DirsOfMore
        <4> QED BY <4>2, <4>3 DEF a, q
      <3>5. CASE q = <<>> /\ Walks(f)[At(d, <<e>>, MaxLinks)] = Found(Append(d, e))
        <4>1. <<e>> \o <<>> = <<e>>
          OBVIOUS
        <4>2. W[At(d, <<e>>, MaxLinks)] = W[Start(p)] /\ W[Start(p)] = Found(a)
          BY <2>4, <3>1, <3>5, <4>1 DEF W
        <4>3. k + 1 = Len(p)
          BY <2>2, <3>5
        <4> QED BY <2>3, <2>6, <3>1, <4>2, <4>3 DEF a
      <3> QED BY <3>3, <3>4, <3>5
    <2> QED BY <2>2, <2>5, <2>6 DEF Element
  <1>7. N = Nat
    <2>1. \A k \in Nat : Ended(k) => ~(k + 1 <= Len(p))
      BY <1>2
    <2>2. 0 \in N
      BY <1>5
    <2> HIDE DEF Going, Ended
    <2>3. N \in SUBSET Nat
      OBVIOUS
    <2>4. ASSUME NEW k \in N PROVE k + 1 \in N
      <3>1. k \in Nat /\ k + 1 \in Nat /\ (k + 1 <= Len(p) => k <= Len(p))
        BY <1>2
      <3> QED BY <1>6, <2>1, <3>1
    <2> HIDE DEF N
    <2> QED BY <2>2, <2>3, <2>4, NatSet
  <1>8. Going(Len(p)) \/ Ended(Len(p))
    <2> HIDE DEF Going, Ended
    <2> QED BY <1>2, <1>7
  <1> DEFINE c0 == Clean(p)
  <1>9. c0 = acc[Len(p)] /\ c0 \in Seq(Name) /\ c0 \in Path /\ <<>> \in Path
    <2>1. Len(p) \in 0..Len(p)
      BY <1>2
    <2> QED BY <1>2, <2>1 DEF Path
  <1> HIDE DEF c0
  <1>10. EvalSymlinks(f, c0) = W[Start(c0)]
    BY <1>9, StartIsPlace DEF W
  <1>11. CASE Going(Len(p))
    <2>1. R(Len(p)) = <<>>
      <3>1. Len(p) \in 0..Len(p)
        BY <1>2
      <3> QED BY <3>1, CutPath
    <2> HIDE DEF R
    <2>2. Dirs(f, c0) /\ W[At(c0, <<>>, MaxLinks)] = W[Start(p)]
      BY <1>9, <1>11, <2>1
    <2>3. Walks(f)[Start(c0 \o <<>>)] = Walks(f)[At(c0, <<>>, MaxLinks)]
      BY <1>9, <2>2, WalkDirs
    <2>4. c0 \o <<>> = c0
      BY <1>9, ConcatEmptySeq
    <2>5. W[At(c0, <<>>, MaxLinks)] = Found(c0)
      BY <1>3, <1>9, Over DEF W
    <2> QED BY <1>4, <1>10, <2>2, <2>3, <2>4, <2>5 DEF W, c0
  <1>12. CASE Ended(Len(p))
    <2>1. PICK d \in Seq(Name), h \in Name :
            /\ Dirs(f, d) /\ c0 = Append(d, h)
            /\ W[At(d, <<h>>, MaxLinks)] = W[Start(p)] /\ W[Start(p)] = Found(c0)
      BY <1>9, <1>12
    <2>2. <<h>> \in Path /\ c0 = d \o <<h>>
      BY <2>1, AppendIsConcat DEF Path, Element
    <2>3. Walks(f)[Start(d \o <<h>>)] = Walks(f)[At(d, <<h>>, MaxLinks)]
      BY <2>1, <2>2, WalkDirs
    <2> QED BY <1>4, <1>10, <2>1, <2>2, <2>3 DEF W, c0
  <1> QED BY <1>8, <1>11, <1>12

(* A relative path is given without a ".." when it has none of its own. *)
LEMMA GivenWithout ==
  ASSUME NEW w \in Seq(Name), NEW p \in [abs : BOOLEAN, elems : Path], ".." \notin ToSet(p.elems)
  PROVE  \A k \in 1..Len(Given(w, p)) : Given(w, p)[k] # ".."
  <1> DEFINE e == p.elems
  <1>1. /\ e \in Seq(Element) /\ w \in Seq(Element) /\ Len(e) \in Nat /\ Len(w) \in Nat
        /\ DOMAIN e = 1..Len(e)
    BY NamePath, LenProperties DEF Path
  <1>2. \A k \in 1..Len(e) : e[k] # ".."
    BY <1>1 DEF ToSet
  <1> HIDE DEF e
  <1>3. \A k \in 1..Len(w) : w[k] \in Name
    BY ElementOfSeq
  <1>4. /\ Len(w \o e) = Len(w) + Len(e)
        /\ \A k \in 1..(Len(w) + Len(e)) : (w \o e)[k] = IF k <= Len(w) THEN w[k] ELSE e[k - Len(w)]
    BY <1>1, ConcatProperties
  <1>5. ASSUME NEW k \in 1..Len(w \o e) PROVE (w \o e)[k] # ".."
    <2>1. CASE k <= Len(w)
      <3>1. k \in 1..Len(w) /\ (w \o e)[k] = w[k]
        BY <1>1, <1>4, <2>1
      <3> QED BY <1>3, <3>1, PathGuardAssumption
    <2>2. CASE ~(k <= Len(w))
      <3>1. k - Len(w) \in 1..Len(e) /\ (w \o e)[k] = e[k - Len(w)]
        BY <1>1, <1>4, <2>2
      <3> QED BY <1>2, <3>1
    <2> QED BY <2>1, <2>2
  <1>6. Given(w, p) = IF p.abs THEN e ELSE w \o e
    BY DEF Given, e
  <1> QED BY <1>2, <1>5, <1>6

(* Of a relative path that exists, and where the kernel and filepath.Clean
   mean the same, validate-paths accepts what lies in the workspace and
   refuses what does not (Resolve). *)
THEOREM ExistingPaths == Spec => []ExistingPathsExact
  <1> DEFINE e == checked.elems
             p == Given(root, checked)
  <1>1. ASSUME PathsInv, checked # Unchecked, ~checked.abs, EvalSymlinks(fs, p).ok,
               ".." \notin ToSet(e) \/ NoLinks(fs)
        PROVE  resolved.ok <=> IsPrefix(root, EvalSymlinks(fs, p).path)
    <2>1. /\ checked \in [abs : BOOLEAN, elems : Path] /\ IsFileSystem(fs) /\ root \in Seq(Name)
          /\ resolved = Resolve(fs, root, checked)
      BY <1>1, InputsAssumption DEF PathsInv
    <2>2. p \in Path /\ e \in Path /\ p = root \o e
      <3>1. e \in Path /\ root \in Path /\ p = root \o e
        BY <1>1, <2>1, NamePath DEF Given
      <3>2. root \o e \in Path
        BY <3>1, ConcatProperties DEF Path
      <3> HIDE DEF p
      <3> QED BY <3>1, <3>2
    <2> DEFINE abs == Clean(p)
               real == resolveExistingAncestor(fs, abs)
    <2>3. /\ abs \in Seq(Name)
          /\ resolved.ok <=> withinRoot(root, abs) /\ real.ok /\ withinRoot(root, real.path)
      BY <1>1, <2>1, Resolved
    <2> HIDE DEF p, e
    <2>4. EvalSymlinks(fs, abs).ok /\ EvalSymlinks(fs, abs).path = EvalSymlinks(fs, p).path
          /\ (withinRoot(root, abs) \/ EvalSymlinks(fs, p).path = abs)
      <3>1. CASE ".." \notin ToSet(e)
        <4>1. \A k \in 1..Len(e) : e[k] # ".."
          <5>1. DOMAIN e = 1..Len(e)
            BY <2>2, LenProperties DEF Path
          <5> QED BY <3>1, <5>1 DEF ToSet
        <4>2. IsPrefix(root, abs)
          BY <2>1, <2>2, <4>1, CleanKeepsPrefix
        <4>3. \A k \in 1..Len(p) : p[k] # ".."
          BY <2>1, <3>1, GivenWithout DEF p, e
        <4>4. EvalSymlinks(fs, abs) = EvalSymlinks(fs, p)
          BY <1>1, <2>1, <2>2, <4>3, CleanedFound
        <4> QED BY <1>1, <4>2, <4>4 DEF withinRoot
      <3>2. CASE NoLinks(fs)
        <4>1. EvalSymlinks(fs, p) = Found(abs) /\ EvalSymlinks(fs, abs) = Found(abs)
          BY <1>1, <2>1, <2>2, <3>2, FoundIsClean
        <4> QED BY <4>1, OkOf
      <3> QED BY <1>1, <3>1, <3>2
    <2>5. real.ok /\ real.path = EvalSymlinks(fs, p).path
      BY <2>1, <2>3, <2>4, ExistingAncestor
    <2> QED BY <2>3, <2>4, <2>5 DEF withinRoot
  <1>2. PathsInv => ExistingPathsExact
    BY <1>1 DEF ExistingPathsExact, CleanMeansTheSame, NoLinks
  <1> QED BY <1>2, PathsInvariant, PTL

-----------------------------------------------------------------------------
(* Writing to what the guard accepts. *)

(* What is missing, once it is made, is directories. *)
LEMMA MadeFileSystem ==
  ASSUME NEW f, IsFileSystem(f)
  PROVE  /\ IsFileSystem(Made(f))
         /\ \A p \in Seq(Name) : /\ p \in DOMAIN f => Made(f)[p] = f[p]
                                 /\ p \notin DOMAIN f => IsDir(Made(f), p)
         /\ NoLinks(f) => NoLinks(Made(f))
  <1>1. DOMAIN Made(f) = Seq(Name) /\ \A p \in Seq(Name) : Made(f)[p] = IF p \in DOMAIN f THEN f[p] ELSE Dir
    BY DEF Made
  <1>2. Dir \in Entry /\ Dir.kind = "dir"
    BY DEF Dir, Entry, Path
  <1>3. \A p \in Seq(Name) : Made(f)[p] \in Entry
    BY <1>1, <1>2 DEF IsFileSystem
  <1>4. NoLinks(f) => NoLinks(Made(f))
    BY <1>1, <1>2 DEF NoLinks
  <1> QED BY <1>1, <1>2, <1>3, <1>4 DEF IsFileSystem, IsDir

(* What is found is found where it is when the missing is made. *)
LEMMA MadeFinds ==
  ASSUME NEW f, IsFileSystem(f), NEW s \in Place, s.done \in Seq(Name), Walks(f)[s].ok
  PROVE  Walks(Made(f))[s] = Walks(f)[s]
  <1> DEFINE g == Made(f)
             T == {x \in Place : x.done \in Seq(Name) /\ Walks(f)[x].ok => Walks(g)[x] = Walks(f)[x]}
  <1>1. IsFileSystem(g) /\ \A p \in DOMAIN f : p \in Seq(Name) /\ p \in DOMAIN g /\ g[p] = f[p]
    BY MadeFileSystem DEF IsFileSystem, Made
  <1> HIDE DEF g
  <1>2. ASSUME NEW x \in Place,
               \A t \in Place :
                 t.links < x.links \/ (t.links = x.links /\ Len(t.rest) < Len(x.rest)) => t \in T,
               x.done \in Seq(Name), Walks(f)[x].ok
        PROVE  Walks(g)[x] = Walks(f)[x]
    <2>1. \A k : IsA(f, x, k) => IsA(g, x, k) /\ g[here(x)] = f[here(x)]
      BY <1>1 DEF IsA
    <2>2. \A k : here(x) \in DOMAIN f => (IsA(g, x, k) <=> IsA(f, x, k))
      BY <1>1 DEF IsA
    <2>3. CASE LeadsOn(f, x)
      <3> DEFINE n == Follow(f, x)
      <3>1. /\ n \in Place /\ n.done \in Seq(Name)
            /\ n.links < x.links \/ (n.links = x.links /\ Len(n.rest) < Len(x.rest))
        BY <1>2, <2>3, FollowShorter
      <3>2. Walks(f)[x] = Walks(f)[n]
        BY <2>3, WalkEquation
      <3>3. LeadsOn(g, x)
        BY <2>1, <2>3 DEF LeadsOn
      <3>4. Follow(g, x) = n
        <4>1. CASE Moves(x)
          BY <4>1 DEF Follow, Moves, IsA
        <4>2. CASE ~Moves(x)
          <5>1. here(x) \in DOMAIN f
            BY <2>3, <4>2 DEF LeadsOn, IsA
          <5> QED BY <2>1, <2>2, <4>2, <5>1 DEF Follow, Moves, IsA
        <4> QED BY <4>1, <4>2
      <3>5. Walks(g)[x] = Walks(g)[n]
        BY <1>1, <3>3, <3>4, WalkEquation
      <3> QED BY <1>2, <3>1, <3>2, <3>5
    <2>4. CASE ~LeadsOn(f, x)
      <3>1. Walks(f)[x] = End(f, x)
        BY <2>4, WalkEquation
      <3>2. x.rest = <<>> \/ (x.rest # <<>> /\ IsA(f, x, "file") /\ Tail(x.rest) = <<>>)
        BY <1>2, <3>1, OkOf DEF End
      <3>3. CASE x.rest = <<>>
        <4>1. ~LeadsOn(g, x) /\ End(g, x) = End(f, x)
          BY <3>3 DEF LeadsOn, End
        <4> QED BY <1>1, <3>1, <4>1, WalkEquation
      <3>4. CASE x.rest # <<>> /\ IsA(f, x, "file") /\ Tail(x.rest) = <<>>
        <4>1. IsA(g, x, "file") /\ ~LeadsOn(g, x)
          BY <2>1, <2>2, <2>4, <3>4 DEF LeadsOn, IsA
        <4>2. End(g, x) = End(f, x)
          BY <3>4, <4>1 DEF End
        <4> QED BY <1>1, <3>1, <4>1, <4>2, WalkEquation
      <3> QED BY <3>2, <3>3, <3>4
    <2> QED BY <2>3, <2>4
  <1>3. T = Place
    <2>1. T \in SUBSET Place
      OBVIOUS
    <2>2. \A x \in Place :
            (\A t \in Place :
               t.links < x.links \/ (t.links = x.links /\ Len(t.rest) < Len(x.rest)) => t \in T)
            => x \in T
      BY <1>2
    <2> HIDE DEF T
    <2> QED BY <2>1, <2>2, WalkInduction
  <1> QED BY <1>3 DEF g

(* A walk along directories finds the last. *)
LEMMA StraightOn ==
  ASSUME NEW f, IsFileSystem(f), NEW d \in Seq(Name), NEW q \in Seq(Name),
         \A k \in 1..Len(q) : IsDir(f, d \o SubSeq(q, 1, k)), NEW l \in 0..MaxLinks
  PROVE  Walks(f)[At(d, q, l)] = Found(d \o q)
  <1> DEFINE U(k) == d \o SubSeq(q, 1, k)
             R(k) == SubSeq(q, k + 1, Len(q))
             W == Walks(f)
             N == {k \in Nat : k <= Len(q) => W[At(U(k), R(k), l)] = W[At(d, q, l)]}
  <1>1. Len(q) \in Nat /\ \A k \in 0..Len(q) : U(k) \in Seq(Name)
    BY LenProperties, Cut, ConcatProperties
  <1>2. 0 \in N
    <2>1. U(0) = d /\ R(0) = q
      BY SubSeqEmpty, SubSeqFull, ConcatEmptySeq
    <2> HIDE DEF U, R, W
    <2> QED BY <2>1
  <1>3. ASSUME NEW k \in Nat, k + 1 <= Len(q), W[At(U(k), R(k), l)] = W[At(d, q, l)]
        PROVE  W[At(U(k + 1), R(k + 1), l)] = W[At(d, q, l)]
    <2> DEFINE u == U(k)
               h == q[k + 1]
               v == R(k + 1)
    <2>1. k \in 0..Len(q) /\ k # Len(q) /\ (k + 1) + 1 = k + 2 /\ k + 1 \in 1..Len(q)
      BY <1>1, <1>3
    <2>2. /\ SubSeq(q, 1, k) \in Seq(Name) /\ h \in Name /\ u \in Seq(Name)
          /\ R(k) = <<h>> \o v /\ v \in Seq(Name)
      <3>1. /\ SubSeq(q, 1, k) \in Seq(Name) /\ q[k + 1] \in Name
            /\ SubSeq(q, k + 1, Len(q)) = <<q[k + 1]>> \o SubSeq(q, k + 2, Len(q))
            /\ SubSeq(q, k + 2, Len(q)) \in Seq(Name)
        BY <2>1, Cut
      <3> QED BY <1>1, <2>1, <3>1
    <2>3. U(k + 1) = Append(u, h)
      <3>1. 1 \in 1..Len(q) /\ k + 1 \in 1..Len(q) /\ (k + 1) - 1 = k
        BY <1>1, <2>1
      <3>2. SubSeq(q, 1, k + 1) = SubSeq(q, 1, (k + 1) - 1) \o <<q[k + 1]>>
        BY <3>1, SubSeqRecursiveSecond
      <3> DEFINE x == SubSeq(q, 1, k)
      <3>3. SubSeq(q, 1, k + 1) = x \o <<h>>
        BY <3>1, <3>2
      <3>4. d \o (x \o <<h>>) = (d \o x) \o <<h>> /\ (d \o x) \o <<h>> = Append(d \o x, h)
        <4>1. x \in Seq(Name) /\ <<h>> \in Seq(Name) /\ h \in Name
          BY <2>2
        <4> HIDE DEF x, h, u
        <4>2. d \o x \in Seq(Name)
          BY <4>1, ConcatProperties
        <4> QED BY <4>1, <4>2, ConcatAssociative, AppendIsConcat
      <3> QED BY <3>3, <3>4
    <2>4. IsDir(f, Append(u, h))
      <3>1. IsDir(f, U(k + 1))
        BY <2>1
      <3> HIDE DEF U, u, h
      <3> QED BY <2>3, <3>1
    <2> HIDE DEF U, R, u, h, v
    <2>5. Walks(f)[At(u, <<h>> \o v, l)] = Walks(f)[At(Append(u, h), v, l)]
      BY <2>2, <2>4, NamePath, DirStep
    <2> QED BY <1>3, <2>2, <2>3, <2>5 DEF u, v
  <1>4. N = Nat
    <2> HIDE DEF U, R, W
    <2>1. N \in SUBSET Nat
      OBVIOUS
    <2>2. ASSUME NEW k \in N PROVE k + 1 \in N
      <3>1. k \in Nat /\ k + 1 \in Nat /\ (k + 1 <= Len(q) => k <= Len(q))
        BY <1>1
      <3> QED BY <1>3, <3>1
    <2> HIDE DEF N
    <2> QED BY <1>2, <2>1, <2>2, NatSet
  <1>5. W[At(U(Len(q)), R(Len(q)), l)] = W[At(d, q, l)]
    <2> HIDE DEF U, R, W
    <2> QED BY <1>1, <1>4
  <1>6. U(Len(q)) = d \o q /\ R(Len(q)) = <<>> /\ d \o q \in Path
    <2>1. Len(q) \in 0..Len(q)
      BY <1>1
    <2>2. SubSeq(q, 1, Len(q)) = q /\ R(Len(q)) = <<>>
      BY <2>1, Cut
    <2> QED BY <2>2, ConcatProperties, NamePath
  <1>7. W[At(d \o q, <<>>, l)] = Found(d \o q)
    BY <1>6, Over
  <1> HIDE DEF U, R
  <1> QED BY <1>5, <1>6, <1>7

(* Below what is missing everything is. *)
LEMMA MissingBelow ==
  ASSUME NEW f, IsFileSystem(f), InDirectories(f), NEW d \in Seq(Name), NEW h \in Name,
         Append(d, h) \notin DOMAIN f, NEW b \in Seq(Name), NEW q, q = <<h>> \o b
  PROVE  q \in Seq(Name) /\ \A k \in 1..Len(q) : IsDir(Made(f), d \o SubSeq(q, 1, k))
  <1>1. /\ <<h>> \in Seq(Name) /\ q \in Seq(Name) /\ Len(q) = Len(b) + 1 /\ q[1] = h
        /\ Len(b) \in Nat /\ Len(d) \in Nat
    <2>1. /\ <<h>> \in Seq(Name) /\ Len(<<h>>) = 1 /\ <<h>>[1] = h /\ Len(b) \in Nat /\ Len(d) \in Nat
      BY LenProperties
    <2>2. /\ q \in Seq(Name) /\ Len(q) = Len(<<h>>) + Len(b)
          /\ \A k \in 1..(Len(<<h>>) + Len(b)) :
               q[k] = IF k <= Len(<<h>>) THEN <<h>>[k] ELSE b[k - Len(<<h>>)]
      BY <2>1, ConcatProperties
    <2> QED BY <2>1, <2>2
  <1>2. ASSUME NEW k \in 1..Len(q) PROVE IsDir(Made(f), d \o SubSeq(q, 1, k))
    <2> DEFINE x == SubSeq(q, 1, k)
               y == d \o x
               m == Len(d) + 1
    <2>1. x \in Seq(Name) /\ Len(x) = k /\ x[1] = h
      <3>1. \A j \in 1..k : q[j] \in Name
        BY <1>1, ElementOfSeq
      <3>2. /\ x \in Seq(Name) /\ Len(x) = k - 1 + 1
            /\ \A j \in 1..(k - 1 + 1) : x[j] = q[1 + j - 1]
        <4>1. 1 \in Int /\ k \in Int /\ 1 <= k
          BY <1>1
        <4> HIDE DEF x
        <4> QED BY <3>1, <4>1, SubSeqProperties DEF x
      <3> HIDE DEF x
      <3>3. 1 \in 1..(k - 1 + 1)
        BY <1>1
      <3> QED BY <1>1, <3>2, <3>3
    <2> HIDE DEF x
    <2>2. /\ y \in Seq(Name) /\ Len(y) = Len(d) + k
          /\ \A j \in 1..(Len(d) + k) : y[j] = IF j <= Len(d) THEN d[j] ELSE x[j - Len(d)]
      BY <2>1, ConcatProperties
    <2> HIDE DEF y
    <2>3. m \in 1..Len(y) /\ m \in Nat /\ m - Len(d) = 1 /\ ~(m <= Len(d))
      BY <1>1, <2>2
    <2>4. SubSeq(y, 1, m) = Append(d, h)
      <3>1. \A j \in 1..m : y[j] \in Name
        BY <2>2, <2>3, ElementOfSeq
      <3>2. /\ SubSeq(y, 1, m) \in Seq(Name) /\ Len(SubSeq(y, 1, m)) = m
            /\ \A j \in 1..m : SubSeq(y, 1, m)[j] = y[j]
        BY <2>3, <3>1, SubSeqProperties
      <3>3. /\ Append(d, h) \in Seq(Name) /\ Len(Append(d, h)) = m
            /\ \A j \in 1..m : Append(d, h)[j] = y[j]
        <4>1. /\ Append(d, h) \in Seq(Name) /\ Len(Append(d, h)) = Len(d) + 1
              /\ \A j \in 1..Len(d) : Append(d, h)[j] = d[j] /\ Append(d, h)[Len(d) + 1] = h
              /\ Append(d, h)[Len(d) + 1] = h
          BY AppendProperties
        <4>2. y[m] = h
          BY <2>1, <2>2, <2>3
        <4>3. \A j \in 1..m : j # m => j \in 1..Len(d) /\ y[j] = d[j]
          BY <1>1, <2>2, <2>3
        <4> QED BY <4>1, <4>2, <4>3
      <3> HIDE DEF m
      <3> QED BY <3>2, <3>3, SeqEqual
    <2>5. y \notin DOMAIN f
      <3> SUFFICES ASSUME y \in DOMAIN f PROVE FALSE
        OBVIOUS
      <3>1. CASE k = 1
        <4>1. m = Len(y)
          BY <2>2, <3>1
        <4>2. SubSeq(y, 1, Len(y)) = y
          BY <2>2, SubSeqFull
        <4> QED BY <2>4, <4>1, <4>2
      <3>2. CASE k # 1
        <4>1. m \in 1..(Len(y) - 1)
          BY <1>1, <2>2, <3>2
        <4> QED BY <2>4, <4>1 DEF InDirectories
      <3> QED BY <3>1, <3>2
    <2> QED BY <2>2, <2>5, MadeFileSystem DEF y, x
  <1> QED BY <1>1, <1>2

(* Where the guard finds a path without dots to lead is where a write to it
   lands. *)
LEMMA TargetOfAncestor ==
  ASSUME NEW f, IsFileSystem(f), InDirectories(f), NEW p \in Seq(Name),
         resolveExistingAncestor(f, p).ok, Target(f, p).ok
  PROVE  Target(f, p).path = resolveExistingAncestor(f, p).path
  <1> DEFINE U(k) == SubSeq(p, 1, k)
             Q(k) == SubSeq(p, k + 1, Len(p))
             g == Made(f)
  <1>1. PICK k \in 0..Len(p) :
          /\ Lstat(f, U(k)) /\ \A j \in (k + 1)..Len(p) : ~Lstat(f, U(j))
          /\ resolveExistingAncestor(f, p) =
               IF EvalSymlinks(f, U(k)).ok THEN Found(EvalSymlinks(f, U(k)).path \o Q(k)) ELSE Failure
    BY DeepestAncestor
  <1> DEFINE u == U(k)
             q == Q(k)
             h == p[k + 1]
             b == SubSeq(p, k + 2, Len(p))
  <1>2. EvalSymlinks(f, u).ok
    BY <1>1, OkOf
  <1>3. u \in Seq(Name) /\ q \in Seq(Name) /\ p = u \o q /\ (k = Len(p) => q = <<>>)
    BY Cut
  <1>4. k # Len(p) => /\ h \in Name /\ q = <<h>> \o b /\ b \in Seq(Name)
                      /\ U(k + 1) # <<>> /\ Front(U(k + 1)) = u /\ Last(U(k + 1)) = h
                      /\ k + 1 \in 1..Len(p)
    BY Cut
  <1> HIDE DEF u, q, h, b
  <1>5. u \in Path /\ q \in Path
    BY <1>3, NamePath
  <1>6. /\ Start(u) \in Place /\ Start(u).done \in Seq(Name)
        /\ Further(Start(u), q) = Start(p)
        /\ EvalSymlinks(f, u) = Walks(f)[Start(u)]
        /\ Target(f, p) = Walks(g)[Start(p)]
    BY <1>3, <1>5, NamePath, StartIsPlace
  <1>7. IsFileSystem(g) /\ Walks(g)[Start(u)] = Walks(f)[Start(u)]
    BY <1>2, <1>6, MadeFileSystem, MadeFinds
  <1> HIDE DEF g
  <1>8. Lands(g, Start(u))
    BY <1>2, <1>6, <1>7, Landing
  <1>9. PICK r \in Seq(Name), l \in 0..MaxLinks :
          /\ Walks(g)[Start(u)] = Found(r)
          /\ LandsIn(g, Start(u), r, l) \/ LandsOn(g, Start(u), r)
    BY <1>8 DEF Lands
  <1>10. resolveExistingAncestor(f, p) = Found(r \o q) /\ EvalSymlinks(f, u).path = r
    <2>1. EvalSymlinks(f, u).ok /\ EvalSymlinks(f, u).path = r
      BY <1>2, <1>6, <1>7, <1>9, OkOf
    <2> QED BY <1>1, <2>1 DEF u, q
  <1>11. CASE k = Len(p)
    <2>1. q = <<>> /\ r \o q = r
      BY <1>3, <1>11, ConcatEmptySeq
    <2>2. LandsIn(g, Start(u), r, l) => Target(f, p) = Found(r)
      <3>1. Walks(g)[At(r, <<>>, l)] = Found(r)
        BY <1>7, NamePath, Over
      <3> QED BY <1>5, <1>6, <2>1, <3>1 DEF LandsIn
    <2>3. LandsOn(g, Start(u), r) => Target(f, p) = Found(r)
      BY <1>5, <1>6, <2>1 DEF LandsOn
    <2> QED BY <1>9, <1>10, <2>1, <2>2, <2>3
  <1>12. CASE k # Len(p)
    <2>1. Append(r, h) \notin DOMAIN f
      <3>1. ~Lstat(f, U(k + 1))
        <4>1. k + 1 \in (k + 1)..Len(p)
          BY <1>4, <1>12
        <4> QED BY <1>1, <4>1
      <3> QED BY <1>2, <1>4, <1>10, <1>12, <3>1 DEF Lstat
    <2>2. Walks(g)[At(r, q, l)] = Found(r \o q)
      <3>1. \A j \in 1..Len(q) : IsDir(g, r \o SubSeq(q, 1, j))
        BY <1>4, <1>12, <2>1, MissingBelow DEF g
      <3> QED BY <1>3, <1>7, <3>1, StraightOn
    <2>3. LandsIn(g, Start(u), r, l) => Target(f, p) = Found(r \o q)
      BY <1>5, <1>6, <2>2 DEF LandsIn
    <2>4. ~LandsOn(g, Start(u), r)
      <3>1. q # <<>>
        <4>1. <<h>> \in Seq(Name) /\ <<h>> # <<>>
          BY <1>4, <1>12
        <4> QED BY <1>4, <1>12, <4>1, ConcatEqualIffEmpty
      <3>2. LandsOn(g, Start(u), r) => Target(f, p) = Failure
        BY <1>5, <1>6, <3>1 DEF LandsOn
      <3> QED BY <3>2, OkOf
    <2> QED BY <1>9, <1>10, <2>3, <2>4
  <1> QED BY <1>11, <1>12

(* A path that validate-paths accepts leads into the workspace, whatever links
   there are: a write to it as it was given changes nothing outside, as long
   as no ".." meets a link (Resolve, writeReports). *)
THEOREM AcceptedLands == Spec => []AcceptedLandsInside
  <1> DEFINE p == Given(root, checked)
             abs == Clean(p)
             real == resolveExistingAncestor(fs, abs)
  <1>1. ASSUME PathsInv, resolved.ok, Target(fs, p).ok, CleanMeansTheSame
        PROVE  IsPrefix(root, Target(fs, p).path)
    <2>1. checked # Unchecked
      BY <1>1, OkOf DEF PathsInv
    <2>2. /\ checked \in [abs : BOOLEAN, elems : Path]
          /\ IsFileSystem(fs) /\ InDirectories(fs) /\ root \in Seq(Name)
          /\ resolved = Resolve(fs, root, checked)
      BY <1>1, <2>1, InputsAssumption DEF PathsInv
    <2>3. /\ abs \in Seq(Name) /\ p \in Path /\ withinRoot(root, abs)
          /\ real.ok /\ withinRoot(root, real.path)
      BY <1>1, <2>2, Resolved
    <2>4. IsFileSystem(Made(fs)) /\ (NoLinks(fs) => NoLinks(Made(fs)))
      BY <2>2, MadeFileSystem
    <2> HIDE DEF p
    <2>5. CASE ".." \notin ToSet(checked.elems)
      <3>1. \A k \in 1..Len(p) : p[k] # ".."
        BY <2>2, <2>5, GivenWithout DEF p
      <3>2. Target(fs, abs) = Target(fs, p)
        BY <1>1, <2>3, <2>4, <3>1, CleanedFound DEF Target
      <3>3. Target(fs, abs).path = real.path
        BY <1>1, <2>2, <2>3, <3>2, TargetOfAncestor
      <3> QED BY <2>3, <3>2, <3>3 DEF withinRoot
    <2>6. CASE NoLinks(fs)
      <3>1. Target(fs, p) = Found(abs)
        BY <1>1, <2>3, <2>4, <2>6, FoundIsClean DEF Target
      <3> QED BY <2>3, <3>1, OkOf DEF withinRoot
    <2> QED BY <1>1, <2>5, <2>6 DEF CleanMeansTheSame, NoLinks
  <1>2. PathsInv => AcceptedLandsInside
    BY <1>1 DEF AcceptedLandsInside
  <1> QED BY <1>2, PathsInvariant, PTL

-----------------------------------------------------------------------------
(* The grammar of test_args. *)

(* No run of backslashes ends at another rune, nor where none has begun. *)
LEMMA NoRun ==
  ASSUME NEW s, NEW n \in Nat, NEW k \in Nat, k = n \/ s[k] # "\\"
  PROVE  ~OddRun(s, n, k)
  BY DEF OddRun

(* One backslash more makes an odd run of an even one, and an even of an odd. *)
LEMMA RunFlips ==
  ASSUME NEW s, NEW n \in Nat, NEW k \in Nat, k > n, s[k] = "\\"
  PROVE  OddRun(s, n, k) <=> ~OddRun(s, n, k - 1)
  <1> DEFINE E == {d \in 0..(k - (n + 1)) : \A l \in (k - d)..k : s[l] = "\\"}
             Starts(m, x) == /\ m \in (n + 1)..x /\ \A l \in m..x : s[l] = "\\"
                             /\ m = n + 1 \/ s[m - 1] # "\\"
  <1>1. \A x : OddRun(s, n, x) <=> \E m \in (n + 1)..x : Starts(m, x) /\ (x - m) % 2 = 0
    BY DEF OddRun
  <1>2. 0 \in E /\ E \in SUBSET Int /\ IsFiniteSet(E)
    <2>1. IsFiniteSet(0..(k - (n + 1))) /\ 0 \in 0..(k - (n + 1))
      BY FS_Interval
    <2>2. \A l \in (k - 0)..k : l = k
      OBVIOUS
    <2> QED BY <2>1, <2>2, FS_Subset
  <1>3. PICK d \in E : \A y \in E : d >= y
    <2> HIDE DEF E
    <2>1. E # {}
      BY <1>2
    <2> QED BY <1>2, <2>1, LargestExists
  <1>4. d \in 0..(k - (n + 1)) /\ \A l \in (k - d)..k : s[l] = "\\"
    OBVIOUS
  <1> DEFINE m == k - d
  <1>5. Starts(m, k)
    <2>1. ASSUME m # n + 1, s[m - 1] = "\\" PROVE FALSE
      <3>1. d + 1 \in 0..(k - (n + 1)) /\ k - (d + 1) = m - 1
        BY <1>4, <2>1
      <3>2. \A l \in (k - (d + 1))..k : l = m - 1 \/ l \in (k - d)..k
        BY <1>4
      <3>3. d + 1 \in E
        BY <1>4, <2>1, <3>1, <3>2
      <3>4. ~(d >= d + 1)
        BY <1>4
      <3> HIDE DEF E
      <3> QED BY <1>3, <3>3, <3>4
    <2> QED BY <1>4, <2>1
  <1>6. m \in Nat /\ m <= k /\ n + 1 <= m
    BY <1>4
  <1> HIDE DEF m, E
  <1>7. ASSUME NEW x \in Nat, NEW y, Starts(m, x), Starts(y, x) PROVE y = m
    <2>1. y \in Nat /\ m <= x /\ y <= x
      BY <1>6, <1>7
    <2>2. y < m => FALSE
      <3> SUFFICES ASSUME y < m PROVE FALSE
        OBVIOUS
      <3>1. m - 1 \in y..x /\ m # n + 1
        BY <1>6, <1>7, <2>1
      <3> QED BY <1>7, <3>1
    <2>3. m < y => FALSE
      <3> SUFFICES ASSUME m < y PROVE FALSE
        OBVIOUS
      <3>1. y - 1 \in m..x /\ y # n + 1
        BY <1>6, <1>7, <2>1
      <3> QED BY <1>7, <3>1
    <2> QED BY <1>6, <2>1, <2>2, <2>3
  <1>8. CASE m < k
    <2>1. k - 1 \in Nat /\ Starts(m, k - 1)
      <3>1. \A l \in m..(k - 1) : l \in m..k
        OBVIOUS
      <3> QED BY <1>5, <1>6, <1>8, <3>1
    <2>2. OddRun(s, n, k) <=> (k - m) % 2 = 0
      <3> HIDE DEF Starts
      <3>1. m \in (n + 1)..k
        BY <1>6
      <3> QED BY <1>1, <1>5, <1>7, <3>1
    <2>3. OddRun(s, n, k - 1) <=> ((k - 1) - m) % 2 = 0
      <3> HIDE DEF Starts
      <3>1. m \in (n + 1)..(k - 1)
        BY <1>6, <1>8
      <3> QED BY <1>1, <1>7, <2>1, <3>1
    <2>4. (k - m) % 2 = 0 <=> ~(((k - 1) - m) % 2 = 0)
      BY <1>6, <1>8
    <2> QED BY <2>2, <2>3, <2>4
  <1>9. CASE m = k
    <2>1. OddRun(s, n, k)
      <3>1. (k - k) % 2 = 0 /\ k \in (n + 1)..k
        OBVIOUS
      <3> HIDE DEF Starts
      <3> QED BY <1>1, <1>5, <1>9, <3>1
    <2>2. k - 1 = n \/ s[k - 1] # "\\"
      BY <1>5, <1>9
    <2>3. ~OddRun(s, n, k - 1)
      BY <2>2, NoRun
    <2> QED BY <2>1, <2>3
  <1> QED BY <1>6, <1>8, <1>9

(* The double quote that ends the part begun at n. *)
Closes(s, n, j) == s[j] = "dquote" /\ ~OddRun(s, n, j - 1)

(* Where a part ends, there is one such place. *)
LEMMA PartEndsOf ==
  ASSUME NEW s \in Seq(Rune), NEW n \in 1..Len(s)
  PROVE  /\ s[n] \in {"a", "space"} => PartEnds(s, n) = {n + 1}
         /\ s[n] = "\\" => PartEnds(s, n) = {IF n = Len(s) THEN n + 1 ELSE n + 2}
         /\ s[n] = "'" =>
              PartEnds(s, n) = {j + 1 : j \in {j \in (n + 1)..Len(s) :
                                  s[j] = "'" /\ \A k \in (n + 1)..(j - 1) : s[k] # "'"}}
         /\ s[n] = "dquote" =>
              PartEnds(s, n) = {j + 1 : j \in {j \in (n + 1)..Len(s) :
                                  Closes(s, n, j) /\ \A k \in (n + 1)..(j - 1) : ~Closes(s, n, k)}}
         /\ \A x \in PartEnds(s, n) : x \in 1..(Len(s) + 1) /\ \A y \in PartEnds(s, n) : x = y
  <1>1. Len(s) \in Nat /\ s[n] \in Rune
    BY LenProperties, ElementOfSeq
  <1>2. s[n] \in {"a", "space"} => PartEnds(s, n) = {n + 1}
    BY DEF PartEnds
  <1>3. s[n] = "\\" => PartEnds(s, n) = {IF n = Len(s) THEN n + 1 ELSE n + 2}
    BY DEF PartEnds
  <1> DEFINE Q(j) == s[j] = "'"
             D(j) == Closes(s, n, j)
             QE == {j \in (n + 1)..Len(s) : Q(j) /\ \A k \in (n + 1)..(j - 1) : ~Q(k)}
             DE == {j \in (n + 1)..Len(s) : D(j) /\ \A k \in (n + 1)..(j - 1) : ~D(k)}
  <1>4. s[n] = "'" => PartEnds(s, n) = {j + 1 : j \in QE}
    BY DEF PartEnds, Ends
  <1>5. s[n] = "dquote" => PartEnds(s, n) = {j + 1 : j \in DE}
    BY DEF PartEnds, Ends, Closes
  <1>6. \A x \in QE, y \in QE : x = y
    <2> HIDE DEF Q
    <2> SUFFICES ASSUME NEW x \in QE, NEW y \in QE PROVE x = y
      OBVIOUS
    <2>1. ~(x < y) /\ ~(y < x)
      BY <1>1
    <2> QED BY <1>1, <2>1
  <1>7. \A x \in DE, y \in DE : x = y
    <2> HIDE DEF D
    <2> SUFFICES ASSUME NEW x \in DE, NEW y \in DE PROVE x = y
      OBVIOUS
    <2>1. ~(x < y) /\ ~(y < x)
      BY <1>1
    <2> QED BY <1>1, <2>1
  <1> DEFINE One == \A x \in PartEnds(s, n) : x \in 1..(Len(s) + 1) /\ \A y \in PartEnds(s, n) : x = y
  <1>8. One
    <2>1. CASE s[n] \in {"a", "space"}
      BY <1>1, <1>2, <2>1
    <2>2. CASE s[n] = "\\"
      BY <1>1, <1>3, <2>2
    <2>3. CASE s[n] = "'"
      <3>1. QE \in SUBSET ((n + 1)..Len(s))
        OBVIOUS
      <3>2. PartEnds(s, n) = {j + 1 : j \in QE}
        BY <1>4, <2>3
      <3> HIDE DEF QE
      <3> QED BY <1>1, <1>6, <3>1, <3>2
    <2>4. CASE s[n] = "dquote"
      <3>1. DE \in SUBSET ((n + 1)..Len(s))
        OBVIOUS
      <3>2. PartEnds(s, n) = {j + 1 : j \in DE}
        BY <1>5, <2>4
      <3> HIDE DEF DE
      <3> QED BY <1>1, <1>7, <3>1, <3>2
    <2>5. s[n] \in {"a", "space"} \/ s[n] = "\\" \/ s[n] = "'" \/ s[n] = "dquote"
      BY <1>1 DEF Rune
    <2> HIDE DEF QE, DE, One
    <2> QED BY <2>1, <2>2, <2>3, <2>4, <2>5
  <1> QED BY <1>2, <1>3, <1>4, <1>5, <1>8

(* The equation of the grammar. *)
LEMMA PartedEquation ==
  ASSUME NEW s \in Seq(Rune)
  PROVE  /\ PartedFrom(s)[Len(s) + 1]
         /\ \A n \in 1..Len(s) : \A m \in PartEnds(s, n) : PartedFrom(s)[n] <=> PartedFrom(s)[m]
         /\ \A n \in 1..Len(s) : PartEnds(s, n) = {} => ~PartedFrom(s)[n]
  <1> DEFINE S == 1..(Len(s) + 1)
             N == {n \in 1..Len(s) : PartEnds(s, n) # {}}
             onward == [n \in N |-> CHOOSE m \in PartEnds(s, n) : TRUE]
             out == [n \in S |-> n = Len(s) + 1]
             IsParted(g) == g = [n \in S |-> n = Len(s) + 1 \/ \E m \in PartEnds(s, n) : g[m]]
             P == CHOOSE g : IsParted(g)
  <1>1. Len(s) \in Nat
    BY LenProperties
  <1>2. \A n \in N : onward[n] \in PartEnds(s, n) /\ onward[n] \in S
    <2> SUFFICES ASSUME NEW n \in N PROVE onward[n] \in PartEnds(s, n) /\ onward[n] \in S
      OBVIOUS
    <2>1. onward[n] \in PartEnds(s, n)
      OBVIOUS
    <2> HIDE DEF onward
    <2> QED BY <2>1, PartEndsOf
  <1>3. N \in SUBSET S /\ onward \in [N -> S] /\ out \in [S -> BOOLEAN]
    <2>1. N \in SUBSET S
      BY <1>1
    <2>2. onward \in [N -> S]
      <3>1. \A n \in N : (CHOOSE m \in PartEnds(s, n) : TRUE) \in S
        BY <1>2
      <3> HIDE DEF N, S
      <3> QED BY <3>1
    <2> QED BY <2>1, <2>2
  <1>4. PICK G \in [S -> BOOLEAN] : IsTailRecursive(G, S, N, onward, out)
    <2>1. N \in SUBSET S
      BY <1>3
    <2>2. onward \in [N -> S]
      BY <1>3
    <2>3. out \in [S -> BOOLEAN]
      BY <1>3
    <2> DEFINE stuck == FALSE
               B == BOOLEAN
    <2>4. stuck \in B /\ out \in [S -> B]
      BY <2>3
    <2> HIDE DEF S, N, onward, out, stuck, B
    <2>5. \E G \in [S -> B] : IsTailRecursive(G, S, N, onward, out)
      BY <2>1, <2>2, <2>4, TailRecursion
    <2> QED BY <2>5 DEF B
  <1>5. IsParted(G)
    <2>1. ASSUME NEW n \in S
          PROVE  G[n] = (n = Len(s) + 1 \/ \E m \in PartEnds(s, n) : G[m])
      <3>1. G[n] \in BOOLEAN /\ G[n] = IF n \in N THEN G[onward[n]] ELSE out[n]
        <4> HIDE DEF S, N, onward, out
        <4> QED BY <1>4 DEF IsTailRecursive
      <3>2. CASE n \in N
        <4>1. n # Len(s) + 1 /\ onward[n] \in PartEnds(s, n)
          BY <1>1, <1>2, <3>2
        <4>2. \A m \in PartEnds(s, n) : m = onward[n]
          BY <3>2, <4>1, PartEndsOf
        <4> HIDE DEF onward
        <4> QED BY <3>1, <3>2, <4>1, <4>2
      <3>3. CASE n \notin N
        <4>1. n = Len(s) + 1 \/ PartEnds(s, n) = {}
          BY <1>1, <3>3
        <4> QED BY <3>1, <3>3, <4>1
      <3> QED BY <3>2, <3>3
    <2> QED BY <2>1
  <1>6. IsParted(P)
    BY <1>5
  <1>7. PartedFrom(s) = P
    BY DEF PartedFrom
  <1> HIDE DEF P
  <1>8. \A n \in S : P[n] = (n = Len(s) + 1 \/ \E m \in PartEnds(s, n) : P[m])
    BY <1>6
  <1>9. ASSUME NEW n \in 1..Len(s), NEW m \in PartEnds(s, n) PROVE P[n] <=> P[m]
    <2>1. n \in S /\ n # Len(s) + 1 /\ \A x \in PartEnds(s, n) : x = m
      <3>1. \A x \in PartEnds(s, n) : x = m
        BY PartEndsOf
      <3> QED BY <1>1, <3>1
    <2> HIDE DEF S
    <2> QED BY <1>8, <2>1
  <1>10. ASSUME NEW n \in 1..Len(s), PartEnds(s, n) = {} PROVE ~P[n]
    <2>1. n \in S /\ n # Len(s) + 1
      BY <1>1
    <2> HIDE DEF S
    <2> QED BY <1>8, <1>10, <2>1
  <1>11. P[Len(s) + 1]
    <2>1. Len(s) + 1 \in S
      BY <1>1
    <2> DEFINE n == Len(s) + 1
    <2>2. P[n] = (n = n \/ \E m \in PartEnds(s, n) : P[m]) /\ n = n
      BY <1>8, <2>1
    <2> HIDE DEF n
    <2>3. P[n]
      BY <2>2
    <2> QED BY <2>3 DEF n
  <1> QED BY <1>7, <1>9, <1>10, <1>11

-----------------------------------------------------------------------------
(* The tokenizer. *)

TokenizerTypeOK ==
  /\ runes \in Seq(Rune) /\ i \in 1..(Len(runes) + 1)
  /\ tokens \in Seq(Seq(Rune)) /\ token \in Seq(Rune)
  /\ inToken \in BOOLEAN /\ quote \in {"none", "single", "double"}

(* A part begun at n is as well-formed from there on as the whole text. *)
Begun(n, mark) ==
  /\ n \in 1..(i - 1) /\ runes[n] = mark
  /\ PartedFrom(runes)[n] <=> WellFormed(runes)

(* The loop is between two parts, or within one whose end is still to come; in
   double quotes it has consumed the rune behind an odd run of backslashes. *)
QuoteInv ==
  /\ quote = "none" => (PartedFrom(runes)[i] <=> WellFormed(runes))
  /\ quote = "single" =>
       \E n \in Nat : Begun(n, "'") /\ \A k \in (n + 1)..(i - 1) : runes[k] # "'"
  /\ quote = "double" =>
       \E n \in Nat :
         /\ Begun(n, "dquote") /\ \A k \in (n + 1)..(i - 1) : ~Closes(runes, n, k)
         /\ OddRun(runes, n, i - 1) => i > Len(runes) \/ runes[i] \notin {"dquote", "\\"}

(* The loop keeps its types and goes on by a rune at least (Tokenize). *)
LEMMA TokenizerTyped ==
  ASSUME TokenizerTypeOK, Step
  PROVE  TokenizerTypeOK' /\ runes' = runes /\ i <= Len(runes) /\ i' > i /\ runes[i] \in Rune
  <1>1. /\ runes \in Seq(Rune) /\ Len(runes) \in Nat /\ i \in Nat /\ i >= 1 /\ i <= Len(runes)
        /\ runes[i] \in Rune /\ (i + 1 <= Len(runes) => runes[i + 1] \in Rune)
        /\ runes' = runes
    <2>1. More /\ runes' = runes
      BY DEF Step, stepSingle, stepDouble, stepNone, OpenQuote, Space, Plain
    <2>2. runes \in Seq(Rune) /\ Len(runes) \in Nat /\ i \in Nat /\ i >= 1
      BY LenProperties DEF TokenizerTypeOK
    <2>3. i <= Len(runes)
      BY <2>1 DEF More
    <2>4. i \in 1..Len(runes) /\ (i + 1 <= Len(runes) => i + 1 \in 1..Len(runes))
      BY <2>2, <2>3
    <2> QED BY <2>1, <2>2, <2>3, <2>4, ElementOfSeq
  <1>2. /\ \A r \in Rune : Append(token, r) \in Seq(Rune)
        /\ Append(tokens, token) \in Seq(Seq(Rune)) /\ <<>> \in Seq(Rune)
    BY AppendProperties DEF TokenizerTypeOK
  <1>3. token \in Seq(Rune) /\ tokens \in Seq(Seq(Rune)) /\ inToken \in BOOLEAN
    BY DEF TokenizerTypeOK
  <1>4. i' = i + 1 \/ (i' = i + 2 /\ i + 1 <= Len(runes))
    BY DEF Step, stepSingle, stepDouble, stepNone, OpenQuote, Space, Plain, HasNext
  <1>5. i' \in 1..(Len(runes) + 1) /\ i' > i
    BY <1>1, <1>4
  <1>6. quote' \in {"none", "single", "double"}
    BY DEF Step, stepSingle, stepDouble, stepNone, OpenQuote, Space, Plain
  <1>7. \/ token' = token \/ token' = <<>> \/ token' = Append(token, runes[i])
        \/ i + 1 <= Len(runes) /\ token' = Append(token, runes[i + 1])
    BY DEF Step, stepSingle, stepDouble, stepNone, OpenQuote, Space, Plain, WriteRune, c, next, HasNext
  <1>8. token' \in Seq(Rune)
    BY <1>1, <1>2, <1>3, <1>7
  <1>9. tokens' = tokens \/ tokens' = Append(tokens, token)
    BY DEF Step, stepSingle, stepDouble, stepNone, OpenQuote, Space, Plain
  <1>10. inToken' \in BOOLEAN
    BY <1>3 DEF Step, stepSingle, stepDouble, stepNone, OpenQuote, Space, Plain
  <1> QED BY <1>1, <1>2, <1>3, <1>5, <1>6, <1>8, <1>9, <1>10 DEF TokenizerTypeOK

(* A step keeps to the grammar. *)
LEMMA StepKeepsQuote ==
  ASSUME TokenizerTypeOK, QuoteInv, Step
  PROVE  QuoteInv'
  <1> DEFINE s == runes
             P == PartedFrom(runes)
             n0 == Len(runes)
  <1>1. /\ runes' = runes /\ s \in Seq(Rune) /\ i \in Nat /\ i >= 1 /\ i <= n0 /\ n0 \in Nat
        /\ i \in 1..n0 /\ s[i] \in Rune /\ quote' \in {"none", "single", "double"}
    BY TokenizerTyped, LenProperties DEF TokenizerTypeOK
  <1>2. \A n \in 1..n0 : \A m \in PartEnds(s, n) : P[n] <=> P[m]
    BY <1>1, PartedEquation
  <1>3. ASSUME NEW n \in Nat, NEW mark, Begun(n, mark), i' > i
        PROVE  Begun(n, mark)' /\ n \in 1..n0 /\ n < i
    <2>1. n \in 1..(i - 1) /\ n \in 1..n0
      BY <1>1, <1>3 DEF Begun
    <2>2. i' \in Nat
      <3>1. TokenizerTypeOK'
        BY TokenizerTyped
      <3> QED BY <3>1 DEF TokenizerTypeOK
    <2>3. n \in 1..(i' - 1)
      <3>1. n \in Nat /\ 1 <= n /\ n <= i - 1 /\ i \in Nat
        BY <1>1, <2>1
      <3>2. PICK m \in Nat : m = i'
        BY <2>2
      <3>3. m > i
        BY <1>3, <3>2, Zenon
      <3>4. n \in 1..(m - 1)
        BY <3>1, <3>3
      <3> QED BY <3>2, <3>4, Zenon
    <2> QED BY <1>1, <1>3, <2>1, <2>3 DEF Begun
  <1>4. i' > i
    BY TokenizerTyped
  <1>5. CASE stepSingle
    <2>1. PICK n \in Nat : Begun(n, "'") /\ \A k \in (n + 1)..(i - 1) : s[k] # "'"
      BY <1>5 DEF stepSingle, QuoteInv
    <2>2. Begun(n, "'")' /\ n \in 1..n0 /\ n < i /\ s[n] = "'" /\ (P[n] <=> WellFormed(s)) /\ i' = i + 1
      BY <1>3, <1>4, <1>5, <2>1 DEF Begun, stepSingle
    <2>3. CASE s[i] = "'"
      <3>1. i \in (n + 1)..n0
        BY <1>1, <2>2
      <3>2. i + 1 \in PartEnds(s, n)
        BY <1>1, <2>1, <2>2, <2>3, <3>1, PartEndsOf
      <3>3. P[i + 1] <=> WellFormed(s)
        BY <1>2, <2>2, <3>2
      <3>4. quote' = "none"
        BY <1>5, <2>3 DEF stepSingle, c
      <3> QED BY <1>1, <2>2, <3>3, <3>4 DEF QuoteInv
    <2>4. CASE s[i] # "'"
      <3>1. quote' = "single"
        BY <1>5, <2>4 DEF stepSingle, c
      <3>2. \A k \in (n + 1)..(i' - 1) : s[k] # "'"
        <4>1. \A k \in (n + 1)..(i' - 1) : k = i \/ k \in (n + 1)..(i - 1)
          BY <1>1, <2>2
        <4> QED BY <2>1, <2>4, <4>1
      <3> QED BY <1>1, <2>2, <3>1, <3>2 DEF QuoteInv
    <2> QED BY <2>3, <2>4
  <1>6. CASE stepDouble
    <2>1. PICK n \in Nat :
            /\ Begun(n, "dquote") /\ \A k \in (n + 1)..(i - 1) : ~Closes(s, n, k)
            /\ OddRun(s, n, i - 1) => i > n0 \/ s[i] \notin {"dquote", "\\"}
      BY <1>6 DEF stepDouble, QuoteInv
    <2>2. Begun(n, "dquote")' /\ n \in 1..n0 /\ n < i /\ s[n] = "dquote" /\ (P[n] <=> WellFormed(s))
      BY <1>3, <1>4, <2>1 DEF Begun
    <2>3. CASE s[i] = "dquote"
      <3>1. quote' = "none" /\ i' = i + 1
        BY <1>6, <2>3 DEF stepDouble, c
      <3>2. Closes(s, n, i) /\ i \in (n + 1)..n0
        BY <1>1, <2>1, <2>2, <2>3 DEF Closes
      <3>3. i + 1 \in PartEnds(s, n)
        BY <1>1, <2>1, <2>2, <3>2, PartEndsOf
      <3>4. P[i + 1] <=> WellFormed(s)
        BY <1>2, <2>2, <3>3
      <3> QED BY <1>1, <3>1, <3>4 DEF QuoteInv
    <2>4. CASE s[i] = "\\" /\ i + 1 <= n0 /\ s[i + 1] \in {"dquote", "\\"}
      <3>1. quote' = "double" /\ i' = i + 2
        BY <1>6, <2>4 DEF stepDouble, c, HasNext, next
      <3>2. ~OddRun(s, n, i - 1)
        BY <1>1, <2>1, <2>4
      <3>3. OddRun(s, n, i)
        BY <1>1, <2>2, <2>4, <3>2, RunFlips
      <3>4. ~OddRun(s, n, i + 1)
        <4>1. CASE s[i + 1] = "dquote"
          BY <1>1, <4>1, NoRun
        <4>2. CASE s[i + 1] = "\\"
          <5>1. (i + 1) - 1 = i /\ i + 1 \in Nat /\ i + 1 > n
            BY <1>1, <2>2
          <5>2. OddRun(s, n, i + 1) <=> ~OddRun(s, n, (i + 1) - 1)
            BY <4>2, <5>1, RunFlips
          <5> QED BY <3>3, <5>1, <5>2
        <4> QED BY <2>4, <4>1, <4>2
      <3>5. ~Closes(s, n, i) /\ ~Closes(s, n, i + 1)
        <4>1. (i + 1) - 1 = i
          BY <1>1
        <4> QED BY <2>4, <3>3, <4>1 DEF Closes
      <3>6. \A k \in (n + 1)..(i' - 1) : ~Closes(s, n, k)
        <4>1. \A k \in (n + 1)..(i' - 1) : k = i \/ k = i + 1 \/ k \in (n + 1)..(i - 1)
          BY <1>1, <2>2, <3>1
        <4> QED BY <2>1, <3>5, <4>1
      <3>7. i' - 1 = i + 1
        BY <1>1, <3>1
      <3> QED BY <1>1, <2>2, <3>1, <3>4, <3>6, <3>7 DEF QuoteInv
    <2>5. CASE s[i] # "dquote" /\ ~(s[i] = "\\" /\ i + 1 <= n0 /\ s[i + 1] \in {"dquote", "\\"})
      <3>1. quote' = "double" /\ i' = i + 1
        BY <1>6, <2>5 DEF stepDouble, c, HasNext, next
      <3>2. ~Closes(s, n, i)
        BY <2>5 DEF Closes
      <3>3. \A k \in (n + 1)..(i' - 1) : ~Closes(s, n, k)
        <4>1. \A k \in (n + 1)..(i' - 1) : k = i \/ k \in (n + 1)..(i - 1)
          BY <1>1, <2>2, <3>1
        <4> QED BY <2>1, <3>2, <4>1
      <3>4. OddRun(s, n, i) => i + 1 > n0 \/ s[i + 1] \notin {"dquote", "\\"}
        <4>1. s[i] # "\\" => ~OddRun(s, n, i)
          BY <1>1, NoRun
        <4> QED BY <1>1, <2>5, <4>1
      <3>5. i' - 1 = i
        BY <1>1, <3>1
      <3> QED BY <1>1, <2>2, <3>1, <3>3, <3>4, <3>5 DEF QuoteInv
    <2> QED BY <2>3, <2>4, <2>5
  <1>7. ASSUME quote = "none" PROVE P[i] <=> WellFormed(s)
    BY <1>7 DEF QuoteInv
  <1>8. CASE OpenQuote
    <2>1. quote = "none" /\ i' = i + 1 /\ s[i] \in {"'", "dquote"}
          /\ quote' = IF s[i] = "'" THEN "single" ELSE "double"
      BY <1>8 DEF OpenQuote, c
    <2>2. i' - 1 = i /\ i \in 1..(i' - 1) /\ \A k \in (i + 1)..(i' - 1) : FALSE
      BY <1>1, <2>1
    <2>3. PICK n \in Nat : n = i
      BY <1>1
    <2>4. /\ n \in 1..(i' - 1) /\ runes'[n] = s[i]
          /\ PartedFrom(runes')[n] <=> WellFormed(runes')
      BY <1>1, <1>7, <2>1, <2>2, <2>3
    <2>5. CASE s[i] = "'"
      <3>1. quote' = "single" /\ Begun(n, "'")'
        BY <2>1, <2>4, <2>5 DEF Begun
      <3>2. \A k \in (n + 1)..(i' - 1) : runes'[k] # "'"
        BY <2>2, <2>3
      <3> QED BY <2>3, <3>1, <3>2 DEF QuoteInv
    <2>6. CASE s[i] = "dquote"
      <3>1. quote' = "double" /\ Begun(n, "dquote")'
        BY <2>1, <2>4, <2>6 DEF Begun
      <3>2. \A k \in (n + 1)..(i' - 1) : ~Closes(runes', n, k)
        BY <2>2, <2>3
      <3>3. ~OddRun(runes', n, i' - 1)
        BY <1>1, <2>2, <2>3, NoRun
      <3> QED BY <2>3, <3>1, <3>2, <3>3 DEF QuoteInv
    <2> QED BY <2>1, <2>5, <2>6
  <1>9. CASE Space \/ Plain
    <2>1. quote = "none" /\ quote' = "none" /\ s[i] \in {"a", "space", "\\"}
          /\ i' = IF s[i] = "\\" /\ i + 1 <= n0 THEN i + 2 ELSE i + 1
      BY <1>1, <1>9 DEF Space, Plain, c, HasNext
    <2>2. i' \in PartEnds(s, i)
      <3>1. CASE s[i] \in {"a", "space"}
        BY <1>1, <2>1, <3>1, PartEndsOf
      <3>2. CASE s[i] = "\\"
        <4>1. i + 1 <= n0 <=> i # n0
          BY <1>1
        <4>2. PartEnds(s, i) = {IF i = n0 THEN i + 1 ELSE i + 2}
          BY <1>1, <3>2, PartEndsOf
        <4> QED BY <2>1, <3>2, <4>1, <4>2
      <3> QED BY <2>1, <3>1, <3>2
    <2>3. P[i'] <=> WellFormed(s)
      BY <1>1, <1>2, <1>7, <2>1, <2>2
    <2> QED BY <1>1, <2>1, <2>3 DEF QuoteInv
  <1> QED BY <1>5, <1>6, <1>8, <1>9 DEF Step, stepNone

(* When the loop has ended a quote is open just when the text has one. *)
LEMMA QuoteDecides ==
  ASSUME TokenizerTypeOK, QuoteInv, ~More
  PROVE  Unterminated <=> ~WellFormed(runes)
  <1> DEFINE n0 == Len(runes)
  <1>1. runes \in Seq(Rune) /\ n0 \in Nat /\ i = n0 + 1
    <2>1. runes \in Seq(Rune) /\ n0 \in Nat
      BY LenProperties DEF TokenizerTypeOK
    <2>2. i \in 1..(n0 + 1) /\ ~(i <= n0)
      BY DEF TokenizerTypeOK, More
    <2> QED BY <2>1, <2>2
  <1>2. CASE quote = "none"
    BY <1>1, <1>2, PartedEquation DEF QuoteInv, Unterminated
  <1>3. CASE quote = "single"
    <2>1. PICK n \in Nat : Begun(n, "'") /\ \A k \in (n + 1)..(i - 1) : runes[k] # "'"
      BY <1>3 DEF QuoteInv
    <2>2. n \in 1..n0 /\ runes[n] = "'" /\ \A k \in (n + 1)..n0 : runes[k] # "'"
      BY <1>1, <2>1 DEF Begun
    <2>3. PartEnds(runes, n) = {}
      BY <1>1, <2>2, PartEndsOf
    <2>4. ~PartedFrom(runes)[n]
      BY <1>1, <2>2, <2>3, PartedEquation
    <2> QED BY <1>3, <2>1, <2>4 DEF Begun, Unterminated
  <1>4. CASE quote = "double"
    <2>1. PICK n \in Nat : Begun(n, "dquote") /\ \A k \in (n + 1)..(i - 1) : ~Closes(runes, n, k)
      BY <1>4 DEF QuoteInv
    <2>2. n \in 1..n0 /\ runes[n] = "dquote" /\ \A k \in (n + 1)..n0 : ~Closes(runes, n, k)
      BY <1>1, <2>1 DEF Begun
    <2>3. PartEnds(runes, n) = {}
      BY <1>1, <2>2, PartEndsOf
    <2>4. ~PartedFrom(runes)[n]
      BY <1>1, <2>2, <2>3, PartedEquation
    <2> QED BY <1>4, <2>1, <2>4 DEF Begun, Unterminated
  <1> QED BY <1>2, <1>3, <1>4 DEF TokenizerTypeOK

-----------------------------------------------------------------------------
(* The arguments that were quoted. *)

(* The tokenizer at n, with tok, q and inside, is reading word between first
   and end: at the start of a rune of it, before or behind its quotes. *)
Within(s, first, end, word, n, tok, q, inside) ==
  \/ /\ word # <<>> /\ q = "none"
     /\ \E at \in [1..(Len(word) + 1) -> first..end], j \in 1..(Len(word) + 1) :
          /\ Spelling(s, first, end, word, "none", at)
          /\ n = at[j] /\ tok = SubSeq(word, 1, j - 1) /\ inside = (j > 1)
  \/ \E style \in {"single", "double"} :
       /\ first < end - 1 /\ s[first] = Mark(style) /\ s[end - 1] = Mark(style)
       /\ \E at \in [1..(Len(word) + 1) -> (first + 1)..(end - 1)] :
            /\ Spelling(s, first + 1, end - 1, word, style, at)
            /\ \/ n = first /\ tok = <<>> /\ q = "none" /\ inside = FALSE
               \/ n = end /\ tok = word /\ q = "none" /\ inside = TRUE
               \/ /\ q = style /\ inside = TRUE
                  /\ \E j \in 1..(Len(word) + 1) : n = at[j] /\ tok = SubSeq(word, 1, j - 1)

(* The first runes of a word and the one behind them. *)
LEMMA WordGrows ==
  ASSUME NEW w \in Seq(Rune)
  PROVE  /\ Len(w) \in Nat /\ SubSeq(w, 1, 0) = <<>> /\ SubSeq(w, 1, Len(w)) = w
         /\ \A j \in 1..Len(w) : /\ w[j] \in Rune
                                 /\ SubSeq(w, 1, j) = Append(SubSeq(w, 1, j - 1), w[j])
  <1>1. Len(w) \in Nat
    BY LenProperties
  <1>2. SubSeq(w, 1, 0) = <<>>
    <2>1. /\ SubSeq(w, 1, 0) \in Seq(Rune) /\ Len(SubSeq(w, 1, 0)) = 0
      BY SubSeqProperties
    <2> QED BY <2>1, EmptySeq
  <1>3. SubSeq(w, 1, Len(w)) = w
    <2>1. \A k \in 1..Len(w) : w[k] \in Rune
      BY ElementOfSeq
    <2>2. /\ SubSeq(w, 1, Len(w)) \in Seq(Rune) /\ Len(SubSeq(w, 1, Len(w))) = Len(w)
          /\ \A k \in 1..Len(w) : SubSeq(w, 1, Len(w))[k] = w[k]
      BY <1>1, <2>1, SubSeqProperties
    <2> QED BY <2>2, SeqEqual
  <1>4. ASSUME NEW j \in 1..Len(w)
        PROVE  w[j] \in Rune /\ SubSeq(w, 1, j) = Append(SubSeq(w, 1, j - 1), w[j])
    <2>1. \A k \in 1..Len(w) : w[k] \in Rune
      BY ElementOfSeq
    <2>2. (\A k \in 1..j : w[k] \in Rune) /\ (\A k \in 1..(j - 1) : w[k] \in Rune)
      BY <1>1, <2>1
    <2>3. /\ SubSeq(w, 1, j) \in Seq(Rune) /\ Len(SubSeq(w, 1, j)) = j
          /\ \A k \in 1..j : SubSeq(w, 1, j)[k] = w[k]
      BY <1>1, <2>2, SubSeqProperties
    <2>4. /\ SubSeq(w, 1, j - 1) \in Seq(Rune) /\ Len(SubSeq(w, 1, j - 1)) = j - 1
          /\ \A k \in 1..(j - 1) : SubSeq(w, 1, j - 1)[k] = w[k]
      BY <1>1, <2>2, SubSeqProperties
    <2> DEFINE u == SubSeq(w, 1, j - 1)
    <2>5. /\ Append(u, w[j]) \in Seq(Rune) /\ Len(Append(u, w[j])) = Len(u) + 1
          /\ \A k \in 1..Len(u) : Append(u, w[j])[k] = u[k]
          /\ Append(u, w[j])[Len(u) + 1] = w[j]
      BY <2>1, <2>4, AppendProperties
    <2>6. \A k \in 1..j : Append(u, w[j])[k] = w[k]
      <3> SUFFICES ASSUME NEW k \in 1..j PROVE Append(u, w[j])[k] = w[k]
        OBVIOUS
      <3>1. k = j \/ k \in 1..(j - 1)
        OBVIOUS
      <3>2. Len(u) = j - 1
        BY <2>4
      <3>3. CASE k = j
        BY <2>5, <3>2, <3>3
      <3>4. CASE k \in 1..(j - 1)
        BY <2>4, <2>5, <3>2, <3>4
      <3> QED BY <3>1, <3>3, <3>4
    <2>7. Len(Append(u, w[j])) = j
      BY <2>4, <2>5
    <2> HIDE DEF u
    <2>8. SubSeq(w, 1, j) = Append(u, w[j])
      BY <2>3, <2>5, <2>6, <2>7, SeqEqual
    <2> QED BY <2>1, <2>8 DEF u
  <1> QED BY <1>1, <1>2, <1>3, <1>4

(* Rune j of a word, and what follows it, lies between the ends. *)
Placed(s, w, first, end, style, at, j) ==
  /\ at[j] \in Nat /\ first <= at[j] /\ at[j] < end /\ at[j + 1] <= end
  /\ \/ at[j + 1] = at[j] + 1 /\ AsItIs(s, at[j], w[j], style)
     \/ at[j + 1] = at[j] + 2 /\ Escaped(s, at[j], w[j], style)

(* The runes of a word are spelled one after the other: each one and what
   follows it lie between the ends. *)
LEMMA Spelled ==
  ASSUME NEW s, NEW w \in Seq(Rune), NEW first \in Nat, NEW end \in Nat, NEW style,
         NEW at \in [1..(Len(w) + 1) -> first..end], Spelling(s, first, end, w, style, at)
  PROVE  /\ at[1] = first /\ at[Len(w) + 1] = end
         /\ \A j \in 1..Len(w) : Placed(s, w, first, end, style, at, j)
  <1>1. Len(w) \in Nat /\ DOMAIN w = 1..Len(w)
    BY LenProperties
  <1>2. at[1] = first /\ at[Len(w) + 1] = end
    BY DEF Spelling
  <1>3. ASSUME NEW j \in 1..Len(w)
        PROVE  Placed(s, w, first, end, style, at, j)
    <2>1. \/ at[j + 1] = at[j] + 1 /\ AsItIs(s, at[j], w[j], style)
          \/ at[j + 1] = at[j] + 2 /\ Escaped(s, at[j], w[j], style)
      BY <1>1 DEF Spelling
    <2>2. j \in 1..(Len(w) + 1) /\ j + 1 \in 1..(Len(w) + 1)
      BY <1>1
    <2>3. at[j] \in first..end /\ at[j + 1] \in first..end
      BY <2>2
    <2>4. at[j + 1] > at[j]
      BY <2>1, <2>3
    <2> QED BY <2>1, <2>3, <2>4 DEF Placed
  <1> QED BY <1>2, <1>3

(* A word is read from its start. *)
LEMMA WordBegins ==
  ASSUME NEW s \in Seq(Rune), NEW w \in Seq(Rune), NEW first \in Nat, NEW end \in Nat,
         first <= end, QuotesWord(s, first, end, w)
  PROVE  Within(s, first, end, w, first, <<>>, "none", FALSE)
  <1>1. Len(w) \in Nat /\ SubSeq(w, 1, 0) = <<>>
    BY WordGrows
  <1>2. CASE w # <<>> /\ Spells(s, first, end, w, "none")
    <2>1. PICK at \in [1..(Len(w) + 1) -> first..end] : Spelling(s, first, end, w, "none", at)
      BY <1>2 DEF Spells
    <2>2. first = at[1] /\ 1 \in 1..(Len(w) + 1) /\ 1 - 1 = 0 /\ ~(1 > 1)
      BY <1>1, <2>1 DEF Spelling
    <2>3. FALSE = (1 > 1) /\ <<>> = SubSeq(w, 1, 1 - 1)
      BY <1>1, <2>2
    <2> QED BY <1>2, <2>1, <2>2, <2>3 DEF Within
  <1>3. ASSUME NEW style \in {"single", "double"},
               first < end - 1 /\ s[first] = Mark(style) /\ s[end - 1] = Mark(style),
               Spells(s, first + 1, end - 1, w, style)
        PROVE  Within(s, first, end, w, first, <<>>, "none", FALSE)
    <2>1. PICK at \in [1..(Len(w) + 1) -> (first + 1)..(end - 1)] :
            Spelling(s, first + 1, end - 1, w, style, at)
      BY <1>3 DEF Spells
    <2> QED BY <1>3, <2>1 DEF Within
  <1> QED BY <1>2, <1>3 DEF QuotesWord

(* A word is read when its end is reached, and not before. *)
ReadAtEnd(end, word, n, tok, q, inside) ==
  /\ n \in Nat /\ n <= end
  /\ n = end => tok = word /\ q = "none" /\ inside = TRUE

(* ... which holds wherever the tokenizer is within it. *)
LEMMA WordEnds ==
  ASSUME NEW s, NEW w \in Seq(Rune), NEW first \in Nat, NEW end \in Nat,
         NEW n, NEW tok, NEW q, NEW inside, Within(s, first, end, w, n, tok, q, inside)
  PROVE  ReadAtEnd(end, w, n, tok, q, inside)
  <1>1. Len(w) \in Nat /\ SubSeq(w, 1, Len(w)) = w /\ (w # <<>> => Len(w) > 0)
    <2>1. w # <<>> => Len(w) > 0
      BY EmptySeq
    <2> QED BY <2>1, WordGrows
  <1>2. ASSUME w # <<>>, q = "none", NEW at \in [1..(Len(w) + 1) -> first..end],
               NEW j \in 1..(Len(w) + 1), Spelling(s, first, end, w, "none", at),
               n = at[j], tok = SubSeq(w, 1, j - 1), inside = (j > 1)
        PROVE  /\ n \in Nat /\ n <= end
               /\ n = end => tok = w /\ q = "none" /\ inside = TRUE
    <2>1. n \in Nat /\ n <= end
      <3>1. at[j] \in first..end
        OBVIOUS
      <3> QED BY <1>2, <3>1
    <2>2. CASE j \in 1..Len(w)
      <3>1. Placed(s, w, first, end, "none", at, j)
        BY <1>2, <2>2, Spelled
      <3> QED BY <1>2, <2>1, <3>1 DEF Placed
    <2>3. CASE j = Len(w) + 1
      <3>1. j - 1 = Len(w) /\ j > 1
        BY <1>1, <1>2, <2>3
      <3>2. tok = w
        BY <1>1, <1>2, <3>1
      <3>3. inside = TRUE
        BY <1>2, <3>1
      <3>4. q = "none"
        BY <1>2
      <3> QED BY <2>1, <3>2, <3>3, <3>4
    <2>4. j \in 1..Len(w) \/ j = Len(w) + 1
      BY <1>1
    <2> QED BY <2>2, <2>3, <2>4
  <1>3. ASSUME NEW style \in {"single", "double"}, first < end - 1,
               NEW at \in [1..(Len(w) + 1) -> (first + 1)..(end - 1)],
               \/ n = first /\ tok = <<>> /\ q = "none" /\ inside = FALSE
               \/ n = end /\ tok = w /\ q = "none" /\ inside = TRUE
               \/ /\ q = style /\ inside = TRUE
                  /\ \E j \in 1..(Len(w) + 1) : n = at[j] /\ tok = SubSeq(w, 1, j - 1)
        PROVE  /\ n \in Nat /\ n <= end
               /\ n = end => tok = w /\ q = "none" /\ inside = TRUE
    <2>1. CASE n = first /\ tok = <<>> /\ q = "none" /\ inside = FALSE
      BY <1>3, <2>1
    <2>2. CASE n = end /\ tok = w /\ q = "none" /\ inside = TRUE
      BY <2>2
    <2>3. CASE \E j \in 1..(Len(w) + 1) : n = at[j]
      <3>1. n \in (first + 1)..(end - 1)
        BY <2>3
      <3>2. n \in Nat /\ n < end
        BY <3>1
      <3> QED BY <3>2
    <2> QED BY <1>3, <2>1, <2>2, <2>3
  <1>4. /\ n \in Nat /\ n <= end
        /\ n = end => tok = w /\ q = "none" /\ inside = TRUE
    BY <1>2, <1>3 DEF Within
  <1> QED BY <1>4 DEF ReadAtEnd

(* Between two runes of a word a step reads the next one, at its first quote
   it opens and at its last it closes. *)
LEMMA WordGoesOn ==
  ASSUME TokenizerTypeOK, Step, NEW w \in Seq(Rune), NEW first \in Nat, NEW end \in Nat,
         end <= Len(runes) + 1, Within(runes, first, end, w, i, token, quote, inToken), i # end
  PROVE  Within(runes, first, end, w, i', token', quote', inToken') /\ tokens' = tokens
  <1>1. /\ runes \in Seq(Rune) /\ Len(runes) \in Nat /\ i \in Nat /\ i >= 1 /\ i <= Len(runes)
        /\ runes[i] \in Rune /\ Len(w) \in Nat
    BY TokenizerTyped, LenProperties DEF TokenizerTypeOK
  <1>2. ASSUME w # <<>>, quote = "none", NEW at \in [1..(Len(w) + 1) -> first..end],
               NEW j \in 1..(Len(w) + 1), Spelling(runes, first, end, w, "none", at),
               i = at[j], token = SubSeq(w, 1, j - 1), inToken = (j > 1)
        PROVE  Within(runes, first, end, w, i', token', quote', inToken') /\ tokens' = tokens
    <2>1. j \in 1..Len(w)
      <3>1. j # Len(w) + 1
        BY <1>2 DEF Spelling
      <3> QED BY <1>1, <3>1
    <2>2. /\ at[j + 1] <= end
          /\ \/ at[j + 1] = i + 1 /\ AsItIs(runes, i, w[j], "none")
             \/ at[j + 1] = i + 2 /\ Escaped(runes, i, w[j], "none")
      <3>1. Placed(runes, w, first, end, "none", at, j)
        BY <1>2, <2>1, Spelled
      <3> QED BY <1>2, <3>1, Zenon DEF Placed
    <2> DEFINE Wrote == /\ i' = at[j + 1] /\ token' = Append(token, w[j]) /\ quote' = "none"
                        /\ inToken' = TRUE /\ tokens' = tokens
    <2>3. ASSUME at[j + 1] = i + 1 /\ AsItIs(runes, i, w[j], "none") PROVE Wrote
      <3>1. runes[i] = w[j] /\ w[j] = "a"
        BY <2>3 DEF AsItIs
      <3>2. Plain
        BY <1>2, <3>1 DEF Step, stepSingle, stepDouble, stepNone, OpenQuote, Space, c
      <3> QED BY <1>2, <2>3, <3>1, <3>2 DEF Plain, WriteRune, c
    <2>4. ASSUME at[j + 1] = i + 2 /\ Escaped(runes, i, w[j], "none") PROVE Wrote
      <3>1. runes[i] = "\\" /\ runes[i + 1] = w[j] /\ i + 1 <= Len(runes)
        BY <1>1, <2>2, <2>4 DEF Escaped
      <3>2. Plain
        BY <1>2, <3>1 DEF Step, stepSingle, stepDouble, stepNone, OpenQuote, Space, c
      <3> QED BY <1>2, <2>4, <3>1, <3>2 DEF Plain, WriteRune, c, HasNext, next
    <2>5. Wrote
      <3> HIDE DEF Wrote
      <3> QED BY <2>2, <2>3, <2>4
    <2>6. /\ j + 1 \in 1..(Len(w) + 1) /\ token' = SubSeq(w, 1, (j + 1) - 1)
          /\ inToken' = (j + 1 > 1)
      <3>1. SubSeq(w, 1, j) = Append(SubSeq(w, 1, j - 1), w[j])
        BY <2>1, WordGrows
      <3>2. (j + 1) - 1 = j /\ j + 1 > 1 /\ j + 1 \in 1..(Len(w) + 1)
        BY <2>1
      <3>3. TRUE = (j + 1 > 1)
        BY <3>2
      <3>4. token' = SubSeq(w, 1, j)
        BY <1>2, <2>5, <3>1
      <3> QED BY <2>5, <3>2, <3>3, <3>4
    <2>7. /\ w # <<>> /\ quote' = "none" /\ Spelling(runes, first, end, w, "none", at)
          /\ i' = at[j + 1] /\ tokens' = tokens
      BY <1>2, <2>5
    <2> QED BY <2>6, <2>7 DEF Within
  <1>3. ASSUME NEW style \in {"single", "double"},
               first < end - 1 /\ runes[first] = Mark(style) /\ runes[end - 1] = Mark(style),
               NEW at \in [1..(Len(w) + 1) -> (first + 1)..(end - 1)],
               Spelling(runes, first + 1, end - 1, w, style, at),
               \/ i = first /\ token = <<>> /\ quote = "none" /\ inToken = FALSE
               \/ /\ quote = style /\ inToken = TRUE
                  /\ \E j \in 1..(Len(w) + 1) : i = at[j] /\ token = SubSeq(w, 1, j - 1)
        PROVE  Within(runes, first, end, w, i', token', quote', inToken') /\ tokens' = tokens
    <2> DEFINE Quoted ==
          /\ tokens' = tokens
          /\ \/ i' = end /\ token' = w /\ quote' = "none" /\ inToken' = TRUE
             \/ /\ quote' = style /\ inToken' = TRUE
                /\ \E j \in 1..(Len(w) + 1) : i' = at[j] /\ token' = SubSeq(w, 1, j - 1)
    <2>1. ASSUME Quoted
          PROVE  Within(runes, first, end, w, i', token', quote', inToken') /\ tokens' = tokens
      BY <1>3, <2>1 DEF Within
    <2>2. CASE i = first /\ token = <<>> /\ quote = "none" /\ inToken = FALSE
      <3>1. runes[i] = IF style = "single" THEN "'" ELSE "dquote"
        BY <1>3, <2>2 DEF Mark
      <3>2. OpenQuote
        BY <2>2, <3>1 DEF Step, stepSingle, stepDouble, stepNone, Plain, Space, c
      <3>3. i' = i + 1 /\ token' = <<>> /\ quote' = style /\ inToken' = TRUE /\ tokens' = tokens
        BY <2>2, <3>1, <3>2 DEF OpenQuote, c
      <3>4. at[1] = first + 1 /\ 1 \in 1..(Len(w) + 1) /\ SubSeq(w, 1, 1 - 1) = <<>>
        <4>1. SubSeq(w, 1, 0) = <<>> /\ 1 - 1 = 0
          BY WordGrows
        <4> QED BY <1>1, <1>3, <4>1 DEF Spelling
      <3> QED BY <2>1, <2>2, <3>3, <3>4
    <2>3. ASSUME quote = style, inToken = TRUE, NEW j \in 1..(Len(w) + 1), i = at[j],
                 token = SubSeq(w, 1, j - 1)
          PROVE  Quoted
      <3>1. CASE j = Len(w) + 1
        <4>1. i = end - 1 /\ runes[i] = IF style = "single" THEN "'" ELSE "dquote"
          BY <1>3, <2>3, <3>1 DEF Spelling, Mark
        <4>2. token = w
          <5>1. j - 1 = Len(w) /\ SubSeq(w, 1, Len(w)) = w
            BY <1>1, <3>1, WordGrows
          <5> QED BY <2>3, <5>1
        <4>3. stepSingle \/ stepDouble
          BY <2>3 DEF Step, stepNone, OpenQuote, Plain, Space
        <4>4. i' = i + 1 /\ token' = token /\ quote' = "none" /\ inToken' = TRUE /\ tokens' = tokens
          BY <1>3, <2>3, <4>1, <4>3 DEF stepSingle, stepDouble, c
        <4>5. i' = end
          BY <1>1, <4>1, <4>4
        <4> QED BY <4>2, <4>4, <4>5
      <3>2. CASE j \in 1..Len(w)
        <4>1. PICK first1 \in Nat, end1 \in Nat :
                /\ first1 = first + 1 /\ end1 = end - 1 /\ end1 <= Len(runes)
          <5>1. first + 1 \in Nat /\ end - 1 \in Nat /\ end - 1 <= Len(runes)
            BY <1>1, <1>3
          <5> QED BY <5>1
        <4>2. /\ at \in [1..(Len(w) + 1) -> first1..end1]
              /\ Spelling(runes, first1, end1, w, style, at)
          BY <1>1, <1>3, <4>1
        <4>3. /\ at[j + 1] <= end1
              /\ \/ at[j + 1] = i + 1 /\ AsItIs(runes, i, w[j], style)
                 \/ at[j + 1] = i + 2 /\ Escaped(runes, i, w[j], style)
          <5>1. Placed(runes, w, first1, end1, style, at, j)
            BY <3>2, <4>2, Spelled
          <5> QED BY <2>3, <5>1, Zenon DEF Placed
        <4>4. w[j] \in Rune /\ SubSeq(w, 1, j) = Append(SubSeq(w, 1, j - 1), w[j])
          BY <3>2, WordGrows
        <4>5. stepSingle \/ stepDouble
          BY <2>3 DEF Step, stepNone, OpenQuote, Plain, Space
        <4> DEFINE Wrote == /\ i' = at[j + 1] /\ token' = Append(token, w[j]) /\ quote' = style
                            /\ inToken' = TRUE /\ tokens' = tokens
        <4>6. ASSUME at[j + 1] = i + 1 /\ AsItIs(runes, i, w[j], "single"), style = "single"
              PROVE  Wrote
          BY <2>3, <4>5, <4>6 DEF AsItIs, stepSingle, stepDouble, WriteRune, c
        <4>7. ASSUME at[j + 1] = i + 1 /\ AsItIs(runes, i, w[j], "double"), style = "double"
              PROVE  Wrote
          BY <2>3, <4>5, <4>7 DEF AsItIs, stepSingle, stepDouble, WriteRune, c, next
        <4>8. ASSUME at[j + 1] = i + 2 /\ Escaped(runes, i, w[j], style)
              PROVE  Wrote
          <5>1. /\ runes[i] = "\\" /\ runes[i + 1] = w[j] /\ style = "double"
                /\ w[j] \in {"dquote", "\\"}
            BY <4>8 DEF Escaped
          <5>2. i + 1 <= Len(runes)
            <6>1. i + 2 <= end1
              BY <4>3, <4>8
            <6> QED BY <1>1, <4>1, <6>1
          <5> QED BY <2>3, <4>5, <4>8, <5>1, <5>2 DEF stepSingle, stepDouble, WriteRune, c, next, HasNext
        <4>9. Wrote
          <5> HIDE DEF Wrote
          <5> QED BY <1>3, <4>3, <4>6, <4>7, <4>8
        <4>10. (j + 1) - 1 = j /\ j + 1 \in 1..(Len(w) + 1)
          BY <3>2
        <4>11. token' = SubSeq(w, 1, (j + 1) - 1)
          BY <2>3, <4>4, <4>9, <4>10
        <4>12. \E k \in 1..(Len(w) + 1) : i' = at[k] /\ token' = SubSeq(w, 1, k - 1)
          BY <4>9, <4>10, <4>11
        <4>13. tokens' = tokens /\ quote' = style /\ inToken' = TRUE
          BY <4>9
        <4> QED BY <4>12, <4>13
      <3>3. j \in 1..Len(w) \/ j = Len(w) + 1
        BY <1>1
      <3> HIDE DEF Quoted
      <3> QED BY <3>1, <3>2, <3>3
    <2> HIDE DEF Quoted
    <2> QED BY <1>3, <2>1, <2>2, <2>3
  <1> QED BY <1>2, <1>3 DEF Within

(* The tokenizer at n has read the first words of list and is within the next. *)
Reading(s, list, n, toks, tok, q, inside) ==
  \E cut \in [1..(Len(list) - 1) -> DOMAIN s], k \in DOMAIN list :
    /\ Cuts(s, list, cut) /\ toks = SubSeq(list, 1, k - 1)
    /\ Within(s, WordFrom(cut, k), WordEnd(s, list, cut, k), list[k], n, tok, q, inside)

(* The first words of a list and the one behind them. *)
LEMMA ListGrows ==
  ASSUME NEW list \in Seq(Seq(Rune)), NEW k \in 1..Len(list)
  PROVE  /\ list[k] \in Seq(Rune) /\ SubSeq(list, 1, 0) = <<>> /\ SubSeq(list, 1, Len(list)) = list
         /\ SubSeq(list, 1, k) = Append(SubSeq(list, 1, k - 1), list[k])
  <1> DEFINE T == Seq(Rune)
  <1>1. list \in Seq(T)
    OBVIOUS
  <1> HIDE DEF T
  <1>2. Len(list) \in Nat /\ \A j \in 1..Len(list) : list[j] \in T
    BY <1>1, LenProperties, ElementOfSeq
  <1>3. SubSeq(list, 1, 0) = <<>>
    <2>1. \A j \in 1..0 : list[j] \in T
      OBVIOUS
    <2>2. /\ SubSeq(list, 1, 0) \in Seq(T) /\ Len(SubSeq(list, 1, 0)) = 0
      BY <2>1, SubSeqProperties
    <2> QED BY <2>2, EmptySeq
  <1>4. SubSeq(list, 1, Len(list)) = list
    <2>1. /\ SubSeq(list, 1, Len(list)) \in Seq(T) /\ Len(SubSeq(list, 1, Len(list))) = Len(list)
          /\ \A j \in 1..Len(list) : SubSeq(list, 1, Len(list))[j] = list[j]
      BY <1>2, SubSeqProperties
    <2> QED BY <1>1, <2>1, SeqEqual
  <1>5. SubSeq(list, 1, k) = Append(SubSeq(list, 1, k - 1), list[k])
    <2>1. /\ k \in 1..Len(list) /\ 1 \in 1..Len(list) /\ k \in 1..Len(list) /\ k \in Int /\ k - 1 \in Int
      BY <1>2
    <2>2. (\A j \in 1..k : list[j] \in T) /\ (\A j \in 1..(k - 1) : list[j] \in T) /\ list[k] \in T
      BY <1>2
    <2>3. /\ SubSeq(list, 1, k) \in Seq(T) /\ Len(SubSeq(list, 1, k)) = k
          /\ \A j \in 1..k : SubSeq(list, 1, k)[j] = list[j]
      BY <1>2, <2>1, <2>2, SubSeqProperties
    <2> DEFINE u == SubSeq(list, 1, k - 1)
    <2>4. u \in Seq(T) /\ Len(u) = k - 1 /\ \A j \in 1..(k - 1) : u[j] = list[j]
      BY <1>2, <2>1, <2>2, SubSeqProperties
    <2> HIDE DEF u
    <2>5. /\ Append(u, list[k]) \in Seq(T) /\ Len(Append(u, list[k])) = Len(u) + 1
          /\ \A j \in 1..Len(u) : Append(u, list[k])[j] = u[j]
          /\ Append(u, list[k])[Len(u) + 1] = list[k]
      BY <2>2, <2>4, AppendProperties
    <2>6. \A j \in 1..k : Append(u, list[k])[j] = list[j]
      BY <2>1, <2>4, <2>5
    <2>7. Len(Append(u, list[k])) = k
      BY <2>1, <2>4, <2>5
    <2>8. SubSeq(list, 1, k) = Append(u, list[k])
      <3> DEFINE a == SubSeq(list, 1, k)
                 b == Append(u, list[k])
      <3>1. a \in Seq(T) /\ b \in Seq(T) /\ Len(a) = Len(b) /\ \A j \in 1..Len(a) : a[j] = b[j]
        BY <2>3, <2>5, <2>6, <2>7
      <3> HIDE DEF a, b
      <3>2. a = b
        BY <3>1, SeqEqual
      <3> QED BY <3>2 DEF a, b
    <2> QED BY <2>8 DEF u
  <1> QED BY <1>2, <1>3, <1>4, <1>5 DEF T

(* Where the words of a list lie. *)
LEMMA CutsOf ==
  ASSUME NEW s \in Seq(Rune), NEW list \in Seq(Seq(Rune)),
         NEW cut \in [1..(Len(list) - 1) -> DOMAIN s], Cuts(s, list, cut), NEW k \in DOMAIN list
  PROVE  /\ Len(list) \in Nat /\ DOMAIN list = 1..Len(list) /\ list[k] \in Seq(Rune)
         /\ WordFrom(cut, k) \in Nat /\ WordFrom(cut, k) >= 1
         /\ WordEnd(s, list, cut, k) \in Nat /\ WordEnd(s, list, cut, k) <= Len(s) + 1
         /\ k = Len(list) => WordEnd(s, list, cut, k) = Len(s) + 1
         /\ k < Len(list) =>
              /\ WordEnd(s, list, cut, k) \in 1..Len(s) /\ s[WordEnd(s, list, cut, k)] = "space"
              /\ WordFrom(cut, k + 1) = WordEnd(s, list, cut, k) + 1
         /\ WordFrom(cut, 1) = 1
         /\ Within(s, WordFrom(cut, k), WordEnd(s, list, cut, k), list[k],
                   WordFrom(cut, k), <<>>, "none", FALSE)
  <1>1. Len(list) \in Nat /\ DOMAIN list = 1..Len(list) /\ Len(s) \in Nat /\ DOMAIN s = 1..Len(s)
    BY LenProperties
  <1>2. list[k] \in Seq(Rune)
    BY <1>1, ListGrows
  <1>3. \A j \in 1..(Len(list) - 1) : cut[j] \in 1..Len(s) /\ s[cut[j]] = "space"
    BY <1>1 DEF Cuts
  <1>4. WordFrom(cut, k) \in Nat /\ WordFrom(cut, k) >= 1
    <2>1. k # 1 => k - 1 \in 1..(Len(list) - 1)
      BY <1>1
    <2> QED BY <1>1, <1>3, <2>1 DEF WordFrom
  <1>5. /\ WordEnd(s, list, cut, k) \in Nat /\ WordEnd(s, list, cut, k) <= Len(s) + 1
        /\ k = Len(list) => WordEnd(s, list, cut, k) = Len(s) + 1
        /\ k < Len(list) =>
             /\ WordEnd(s, list, cut, k) \in 1..Len(s) /\ s[WordEnd(s, list, cut, k)] = "space"
    <2>1. k = Len(list) \/ k \in 1..(Len(list) - 1)
      BY <1>1
    <2> QED BY <1>1, <1>3, <2>1 DEF WordEnd
  <1>6. k < Len(list) => WordFrom(cut, k + 1) = WordEnd(s, list, cut, k) + 1
    <2>1. (k + 1) - 1 = k /\ k + 1 # 1 /\ (k < Len(list) => k # Len(list))
      BY <1>1
    <2> QED BY <2>1 DEF WordFrom, WordEnd
  <1>7. /\ WordFrom(cut, k) <= WordEnd(s, list, cut, k)
        /\ QuotesWord(s, WordFrom(cut, k), WordEnd(s, list, cut, k), list[k])
    BY DEF Cuts
  <1>8. Within(s, WordFrom(cut, k), WordEnd(s, list, cut, k), list[k],
               WordFrom(cut, k), <<>>, "none", FALSE)
    <2> DEFINE first == WordFrom(cut, k)
               end == WordEnd(s, list, cut, k)
    <2>1. first \in Nat /\ end \in Nat /\ first <= end /\ QuotesWord(s, first, end, list[k])
      BY <1>4, <1>5, <1>7
    <2> HIDE DEF first, end
    <2>2. Within(s, first, end, list[k], first, <<>>, "none", FALSE)
      BY <1>2, <2>1, WordBegins
    <2> QED BY <2>2 DEF first, end
  <1>9. WordFrom(cut, 1) = 1
    BY DEF WordFrom
  <1> QED BY <1>1, <1>2, <1>4, <1>5, <1>6, <1>8, <1>9

(* Before its first step the tokenizer is reading whatever list was quoted. *)
LEMMA ReadingBegins ==
  ASSUME NEW s \in Seq(Rune), NEW list \in Seq(Seq(Rune)), Quotes(s, list)
  PROVE  Reading(s, list, 1, <<>>, <<>>, "none", FALSE)
  <1>1. PICK cut \in [1..(Len(list) - 1) -> DOMAIN s] : Cuts(s, list, cut)
    BY DEF Quotes
  <1>2. 1 \in DOMAIN list /\ 1 \in 1..Len(list)
    <2>1. Len(list) \in Nat \ {0} /\ DOMAIN list = 1..Len(list)
      BY EmptySeq, LenProperties DEF Quotes
    <2> QED BY <2>1
  <1>3. /\ WordFrom(cut, 1) = 1
        /\ Within(s, WordFrom(cut, 1), WordEnd(s, list, cut, 1), list[1],
                  WordFrom(cut, 1), <<>>, "none", FALSE)
    BY <1>1, <1>2, CutsOf
  <1>4. <<>> = SubSeq(list, 1, 1 - 1)
    <2>1. SubSeq(list, 1, 0) = <<>> /\ 1 - 1 = 0
      BY <1>2, ListGrows
    <2> QED BY <2>1
  <1> QED BY <1>1, <1>2, <1>3, <1>4 DEF Reading

(* A step reads on. *)
LEMMA ReadingGoesOn ==
  ASSUME TokenizerTypeOK, Step, NEW list \in Seq(Seq(Rune)),
         Reading(runes, list, i, tokens, token, quote, inToken)
  PROVE  Reading(runes, list, i', tokens', token', quote', inToken')
  <1>1. runes \in Seq(Rune) /\ Len(runes) \in Nat /\ i \in Nat /\ i <= Len(runes)
    BY TokenizerTyped, LenProperties DEF TokenizerTypeOK
  <1>2. PICK cut \in [1..(Len(list) - 1) -> DOMAIN runes], k \in DOMAIN list :
          /\ Cuts(runes, list, cut) /\ tokens = SubSeq(list, 1, k - 1)
          /\ Within(runes, WordFrom(cut, k), WordEnd(runes, list, cut, k), list[k],
                    i, token, quote, inToken)
    BY DEF Reading
  <1> DEFINE first == WordFrom(cut, k)
             end == WordEnd(runes, list, cut, k)
  <1>3. /\ Len(list) \in Nat /\ DOMAIN list = 1..Len(list) /\ list[k] \in Seq(Rune)
        /\ first \in Nat /\ end \in Nat /\ end <= Len(runes) + 1
        /\ k = Len(list) => end = Len(runes) + 1
        /\ k < Len(list) =>
             /\ end \in 1..Len(runes) /\ runes[end] = "space" /\ WordFrom(cut, k + 1) = end + 1
    BY <1>1, <1>2, CutsOf
  <1>4. Within(runes, first, end, list[k], i, token, quote, inToken)
    BY <1>2
  <1>5. ASSUME NEW m \in DOMAIN list, tokens' = SubSeq(list, 1, m - 1),
               Within(runes, WordFrom(cut, m), WordEnd(runes, list, cut, m), list[m],
                      i', token', quote', inToken')
        PROVE  Reading(runes, list, i', tokens', token', quote', inToken')
    BY <1>2, <1>5 DEF Reading
  <1>6. CASE i # end
    <2> HIDE DEF first, end
    <2>1. Within(runes, first, end, list[k], i', token', quote', inToken') /\ tokens' = tokens
      BY <1>3, <1>4, <1>6, WordGoesOn
    <2> QED BY <1>2, <1>5, <2>1 DEF first, end
  <1>7. CASE i = end
    <2> HIDE DEF first, end
    <2>1. token = list[k] /\ quote = "none" /\ inToken = TRUE
      <3>1. list[k] \in Seq(Rune) /\ first \in Nat /\ end \in Nat
        BY <1>3
      <3>2. ReadAtEnd(end, list[k], i, token, quote, inToken)
        BY <1>4, <3>1, WordEnds
      <3> QED BY <1>7, <3>2 DEF ReadAtEnd
    <2>2. k < Len(list)
      BY <1>1, <1>3, <1>7
    <2>3. /\ runes[i] = "space" /\ k + 1 \in DOMAIN list /\ k \in 1..Len(list) /\ (k + 1) - 1 = k
          /\ WordFrom(cut, k + 1) = i + 1
      <3>1. k \in 1..Len(list) /\ Len(list) \in Nat
        BY <1>2, <1>3
      <3>2. k + 1 \in 1..Len(list) /\ (k + 1) - 1 = k
        BY <2>2, <3>1
      <3>3. runes[i] = "space" /\ WordFrom(cut, k + 1) = i + 1
        BY <1>3, <1>7, <2>2
      <3> QED BY <1>3, <3>1, <3>2, <3>3
    <2>4. Space
      BY <2>1, <2>3 DEF Step, stepSingle, stepDouble, stepNone, OpenQuote, Plain, c
    <2>5. /\ i' = i + 1 /\ tokens' = Append(tokens, token) /\ token' = <<>> /\ quote' = "none"
          /\ inToken' = FALSE
      BY <2>1, <2>4 DEF Space
    <2>6. tokens' = SubSeq(list, 1, (k + 1) - 1)
      <3>1. SubSeq(list, 1, k) = Append(SubSeq(list, 1, k - 1), list[k])
        BY <2>3, ListGrows
      <3> QED BY <1>2, <2>1, <2>3, <2>5, <3>1
    <2>7. Within(runes, WordFrom(cut, k + 1), WordEnd(runes, list, cut, k + 1), list[k + 1],
                 WordFrom(cut, k + 1), <<>>, "none", FALSE)
      BY <1>1, <1>2, <2>3, CutsOf
    <2>8. Within(runes, WordFrom(cut, k + 1), WordEnd(runes, list, cut, k + 1), list[k + 1],
                 i', token', quote', inToken')
      BY <2>3, <2>5, <2>7
    <2> QED BY <1>5, <2>3, <2>6, <2>8
  <1> QED BY <1>6, <1>7

(* When the text has been read, so has the list. *)
LEMMA ReadingEnds ==
  ASSUME TokenizerTypeOK, ~More, NEW list \in Seq(Seq(Rune)),
         Reading(runes, list, i, tokens, token, quote, inToken)
  PROVE  Result = list /\ ~Unterminated
  <1>1. runes \in Seq(Rune) /\ Len(runes) \in Nat /\ i = Len(runes) + 1
    <2>1. runes \in Seq(Rune) /\ Len(runes) \in Nat
      BY LenProperties DEF TokenizerTypeOK
    <2>2. i \in 1..(Len(runes) + 1) /\ ~(i <= Len(runes))
      BY DEF TokenizerTypeOK, More
    <2> QED BY <2>1, <2>2
  <1>2. PICK cut \in [1..(Len(list) - 1) -> DOMAIN runes], k \in DOMAIN list :
          /\ Cuts(runes, list, cut) /\ tokens = SubSeq(list, 1, k - 1)
          /\ Within(runes, WordFrom(cut, k), WordEnd(runes, list, cut, k), list[k],
                    i, token, quote, inToken)
    BY DEF Reading
  <1> DEFINE first == WordFrom(cut, k)
             end == WordEnd(runes, list, cut, k)
  <1>3. /\ Len(list) \in Nat /\ DOMAIN list = 1..Len(list) /\ list[k] \in Seq(Rune)
        /\ first \in Nat /\ end \in Nat /\ end <= Len(runes) + 1
        /\ k < Len(list) => end \in 1..Len(runes)
    BY <1>1, <1>2, CutsOf
  <1>4. Within(runes, first, end, list[k], i, token, quote, inToken)
    BY <1>2
  <1> HIDE DEF first, end
  <1>5. i <= end /\ (i = end => token = list[k] /\ quote = "none" /\ inToken = TRUE)
    <2>1. list[k] \in Seq(Rune) /\ first \in Nat /\ end \in Nat
      BY <1>3
    <2>2. ReadAtEnd(end, list[k], i, token, quote, inToken)
      BY <1>4, <2>1, WordEnds
    <2> QED BY <2>2 DEF ReadAtEnd
  <1>6. i = end /\ k = Len(list) /\ k \in 1..Len(list)
    BY <1>1, <1>3, <1>5
  <1>7. SubSeq(list, 1, k) = Append(SubSeq(list, 1, k - 1), list[k]) /\ SubSeq(list, 1, Len(list)) = list
    BY <1>6, ListGrows
  <1>8. Append(tokens, token) = list
    BY <1>2, <1>5, <1>6, <1>7
  <1> QED BY <1>5, <1>6, <1>8 DEF Result, Unterminated

-----------------------------------------------------------------------------
(* The split is on its way, or has ended as it should. *)
TokensInv ==
  /\ pc = "tokenize" =>
       /\ checked = Unchecked /\ TokenizerTypeOK /\ QuoteInv
       /\ \A list \in meant :
            list \in Seq(Seq(Rune)) /\ Reading(runes, list, i, tokens, token, quote, inToken)
  /\ pc = "validate" => meant = {}
  /\ pc = "run" => WellFormed(runes) /\ \A list \in meant : Result = list
  /\ pc = "refused" => meant = {} /\ (checked = Unchecked => ~WellFormed(runes))

(* What of the split holds from the first step on. *)
THEOREM TokensInvariant == Spec => []TokensInv
  <1>1. Init => TokensInv
    <2> SUFFICES ASSUME Init PROVE TokensInv
      OBVIOUS
    <2>1. CASE ToValidate
      BY <2>1 DEF ToValidate, TokensInv
    <2>2. CASE ToTokenize
      <3>1. PICK a \in TestArgs : meant = a.meant /\ TokenizerInit(a.runes)
        BY <2>2 DEF ToTokenize
      <3>2. /\ a.runes \in Seq(Rune)
            /\ \A list \in a.meant : list \in Seq(Seq(Rune)) /\ Quotes(a.runes, list)
        BY InputsAssumption
      <3>3. /\ runes = a.runes /\ i = 1 /\ tokens = <<>> /\ token = <<>> /\ inToken = FALSE
            /\ quote = "none" /\ runes \in Seq(Rune) /\ Len(runes) \in Nat
        BY <3>1, <3>2, LenProperties DEF TokenizerInit
      <3>4. TokenizerTypeOK
        <4>1. <<>> \in Seq(Rune) /\ <<>> \in Seq(Seq(Rune))
          BY EmptySeq
        <4>2. i \in 1..(Len(runes) + 1)
          BY <3>3
        <4> QED BY <3>3, <4>1, <4>2 DEF TokenizerTypeOK
      <3>5. QuoteInv
        BY <3>3 DEF QuoteInv, WellFormed
      <3>6. \A list \in meant :
              list \in Seq(Seq(Rune)) /\ Reading(runes, list, i, tokens, token, quote, inToken)
        BY <3>1, <3>2, <3>3, ReadingBegins
      <3>7. pc = "tokenize" /\ checked = Unchecked
        BY <2>2 DEF Init, ToTokenize
      <3> QED BY <3>4, <3>5, <3>6, <3>7 DEF TokensInv
    <2> QED BY <2>1, <2>2 DEF Init
  <1>2. TokensInv /\ [Next]_vars => TokensInv'
    <2> SUFFICES ASSUME TokensInv, [Next]_vars PROVE TokensInv'
      OBVIOUS
    <2>1. CASE ValidatePath
      <3>1. /\ pc = "validate" /\ pc' \in {"valid", "refused"} /\ meant' = meant
            /\ checked' \in InputPaths
        BY <2>1 DEF ValidatePath
      <3>2. meant' = {} /\ checked' # Unchecked
        BY <3>1, InputsAssumption DEF TokensInv
      <3> QED BY <3>1, <3>2 DEF TokensInv
    <2>2. CASE Step
      <3>1. /\ pc = "tokenize" /\ pc' = pc /\ meant' = meant /\ checked' = checked
            /\ checked = Unchecked /\ TokenizerTypeOK /\ QuoteInv
        BY <2>2 DEF Step, pathVars, TokensInv
      <3>2. TokenizerTypeOK' /\ runes' = runes
        BY <2>2, <3>1, TokenizerTyped
      <3>3. QuoteInv'
        BY <2>2, <3>1, StepKeepsQuote
      <3>4. ASSUME NEW list \in meant
            PROVE  /\ list \in Seq(Seq(Rune))
                   /\ Reading(runes, list, i', tokens', token', quote', inToken')
        <4>1. list \in Seq(Seq(Rune)) /\ Reading(runes, list, i, tokens, token, quote, inToken)
          BY <3>1 DEF TokensInv
        <4> QED BY <2>2, <3>1, <4>1, ReadingGoesOn
      <3>5. \A list \in meant' :
              /\ list \in Seq(Seq(Rune))
              /\ Reading(runes', list, i', tokens', token', quote', inToken')
        BY <3>1, <3>2, <3>4
      <3> QED BY <3>1, <3>2, <3>3, <3>5 DEF TokensInv
    <2>3. CASE Tokenized
      <3>1. /\ pc = "tokenize" /\ ~More /\ pc' = (IF Unterminated THEN "refused" ELSE "run")
            /\ meant' = meant /\ checked' = checked /\ runes' = runes /\ Result' = Result
        BY <2>3 DEF Tokenized, pathVars, tokenizerVars, Result
      <3>2. TokenizerTypeOK /\ QuoteInv
        BY <3>1 DEF TokensInv
      <3>3. Unterminated <=> ~WellFormed(runes)
        BY <3>1, <3>2, QuoteDecides
      <3>4. ASSUME NEW list \in meant PROVE Result = list /\ ~Unterminated
        <4>1. list \in Seq(Seq(Rune)) /\ Reading(runes, list, i, tokens, token, quote, inToken)
          BY <3>1 DEF TokensInv
        <4> QED BY <3>1, <3>2, <4>1, ReadingEnds
      <3>5. CASE Unterminated
        <4>1. pc' = "refused" /\ meant' = {} /\ ~WellFormed(runes')
          BY <3>1, <3>3, <3>4, <3>5
        <4> QED BY <4>1 DEF TokensInv
      <3>6. CASE ~Unterminated
        <4>1. pc' = "run" /\ WellFormed(runes') /\ \A list \in meant' : Result' = list
          BY <3>1, <3>3, <3>4, <3>6
        <4> QED BY <4>1 DEF TokensInv
      <3> QED BY <3>5, <3>6
    <2>4. CASE UNCHANGED vars
      BY <2>4 DEF vars, pathVars, tokenizerVars, TokensInv, TokenizerTypeOK, QuoteInv, Begun, Result
    <2> QED BY <2>1, <2>2, <2>3, <2>4 DEF Next
  <1> QED BY <1>1, <1>2, PTL DEF Spec

(* Of test_args, gtr refuses exactly the texts with a quote left open, and
   reads back every list of arguments, however long and however quoted. *)
THEOREM TokenizeIsExact == Spec => []TokenizeExact
  <1>1. TokensInv => TokenizeExact
    <2> SUFFICES ASSUME TokensInv PROVE TokenizeExact
      OBVIOUS
    <2>1. checked = Unchecked =>
            /\ pc = "refused" => ~WellFormed(runes)
            /\ pc = "run" => WellFormed(runes)
      BY DEF TokensInv
    <2>2. pc \in {"run", "refused"} => \A list \in meant : pc = "run" /\ Result = list
      BY DEF TokensInv
    <2> QED BY <2>1, <2>2 DEF TokenizeExact
  <1> QED BY <1>1, TokensInvariant, PTL
=============================================================================
