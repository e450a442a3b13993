------------------------------ MODULE PathGuard ------------------------------
(***************************************************************************)
(* internal/pathguard/pathguard.go on a file system with symbolic links.   *)
(*                                                                         *)
(* A path is the sequence of its elements from the root of the file        *)
(* system; the root is <<>>.  A file system maps the paths that exist to   *)
(* their entries: a directory, a file, or a link to a path.  os.Lstat and  *)
(* filepath.EvalSymlinks are the kernel's, of which Walks is a model.      *)
(***************************************************************************)
EXTENDS Integers, Sequences, FiniteSets, SequencesExt

CONSTANTS
  Name,       \* names of directory entries
  MaxLinks    \* links the kernel follows before it gives up

ASSUME PathGuardAssumption ==
  /\ "." \notin Name /\ ".." \notin Name
  /\ MaxLinks \in Nat

Element == Name \cup {".", ".."}
Path    == Seq(Element)

Entry    == [kind : {"dir", "file", "link"}, to : Path]
Dir      == [kind |-> "dir", to |-> <<>>]
File     == [kind |-> "file", to |-> <<>>]
Link(to) == [kind |-> "link", to |-> to]

IsFileSystem(fs) == DOMAIN fs \subseteq Seq(Name) /\ \A p \in DOMAIN fs : fs[p] \in Entry

(* What exists lies in a directory. *)
InDirectories(fs) ==
  \A p \in DOMAIN fs : \A k \in 1..(Len(p) - 1) :
    SubSeq(p, 1, k) \in DOMAIN fs /\ fs[SubSeq(p, 1, k)].kind = "dir"

Found(p) == [ok |-> TRUE, path |-> p]
Failure  == [ok |-> FALSE, path |-> <<>>]

(* How far a walk has come: the real path behind it, what is left to follow,
   and the links it may still follow. *)
Place == [done : Path, rest : Path, links : 0..MaxLinks]

here(s)       == Append(s.done, Head(s.rest))
Moves(s)      == Head(s.rest) \in {".", ".."}
IsA(fs, s, k) == ~Moves(s) /\ here(s) \in DOMAIN fs /\ fs[here(s)].kind = k

LeadsOn(fs, s) ==
  /\ s.rest # <<>>
  /\ Moves(s) \/ IsA(fs, s, "dir") \/ (IsA(fs, s, "link") /\ s.links > 0)

Follow(fs, s) ==
  CASE Head(s.rest) = "."   -> [s EXCEPT !.rest = Tail(@)]
    [] Head(s.rest) = ".."  -> [s EXCEPT !.done = IF @ = <<>> THEN @ ELSE Front(@), !.rest = Tail(@)]
    [] IsA(fs, s, "dir")    -> [s EXCEPT !.done = here(s), !.rest = Tail(@)]
    [] IsA(fs, s, "link")   -> [done |-> <<>>, rest |-> fs[here(s)].to \o Tail(s.rest), links |-> s.links - 1]

(* Where a walk ends that leads no further: of its elements only the last may
   be a file. *)
End(fs, s) ==
  CASE s.rest = <<>>                                                    -> Found(s.done)
    [] s.rest # <<>> /\ IsA(fs, s, "file") /\ Tail(s.rest) = <<>>       -> Found(here(s))
    [] s.rest # <<>> /\ ~(IsA(fs, s, "file") /\ Tail(s.rest) = <<>>)    -> Failure

Walks(fs) ==
  LET walk[s \in Place] == IF LeadsOn(fs, s) THEN walk[Follow(fs, s)] ELSE End(fs, s)
  IN  walk

EvalSymlinks(fs, p) == Walks(fs)[[done |-> <<>>, rest |-> p, links |-> MaxLinks]]

(* os.MkdirAll and os.WriteFile: the path whose contents a write to p changes.
   Whatever is missing on the way is made first, so that the walk goes on as if
   it were there. *)
Made(fs) == [p \in Seq(Name) |-> IF p \in DOMAIN fs THEN fs[p] ELSE Dir]

Target(fs, p) == EvalSymlinks(Made(fs), p)

(* os.Lstat succeeds: the last element itself is not followed. *)
Lstat(fs, p) ==
  \/ p = <<>>
  \/ LET parent == EvalSymlinks(fs, Front(p))
     IN  parent.ok /\ Append(parent.path, Last(p)) \in DOMAIN fs

(* filepath.Clean of an absolute path: one more element behind those done. *)
cleaned(done, e) ==
  CASE e = "."  -> done
    [] e = ".." -> IF done = <<>> THEN done ELSE Front(done)
    [] OTHER    -> Append(done, e)

Clean(p) == FoldLeft(cleaned, <<>>, p)

-----------------------------------------------------------------------------
(* Guard. *)

(* New: the workspace may be reached through a link, or not be there. *)
New(fs, workspace) ==
  LET resolved == EvalSymlinks(fs, Clean(workspace))
  IN  IF resolved.ok THEN resolved.path ELSE Clean(workspace)

(* Mutant: a prefix of the text, which that of a sibling "w2" of "w" also is. *)
withinRootText(root, target) ==
  \/ IsPrefix(root, target)
  \/ target # <<>> /\ IsPrefix(Front(root), target) /\ target[Len(root)] = "w2"

withinRoot(root, target) == IsPrefix(root, target)

(* Mutant: only a parent that exists is asked for, not the path itself. *)
resolveParentOnly(fs, p) ==
  LET k    == CHOOSE k \in 0..(Len(p) - 1) :
                /\ Lstat(fs, SubSeq(p, 1, k))
                /\ \A j \in (k + 1)..(Len(p) - 1) : ~Lstat(fs, SubSeq(p, 1, j))
      real == EvalSymlinks(fs, SubSeq(p, 1, k))
  IN  IF real.ok THEN Found(real.path \o SubSeq(p, k + 1, Len(p))) ELSE Failure

(* The deepest ancestor that exists, resolved, and what remains below it. *)
resolveExistingAncestor(fs, p) ==
  LET k    == CHOOSE k \in 0..Len(p) :
                /\ Lstat(fs, SubSeq(p, 1, k))
                /\ \A j \in (k + 1)..Len(p) : ~Lstat(fs, SubSeq(p, 1, j))
      real == EvalSymlinks(fs, SubSeq(p, 1, k))
  IN  IF real.ok THEN Found(real.path \o SubSeq(p, k + 1, Len(p))) ELSE Failure

(* A path as it is given; a relative one is meant from the workspace, where
   the steps of the action also run. *)
Given(root, p) == IF p.abs THEN p.elems ELSE root \o p.elems

(* Resolve of a path that is not empty. *)
Resolve(fs, root, p) ==
  LET abs  == Clean(Given(root, p))
      real == resolveExistingAncestor(fs, abs)
  IN  IF withinRoot(root, abs) /\ real.ok /\ withinRoot(root, real.path)
      THEN Found(abs) ELSE Failure
=============================================================================
