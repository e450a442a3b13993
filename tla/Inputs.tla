------------------------------- MODULE Inputs -------------------------------
(***************************************************************************)
(* The inputs of the action before anything is run: validate-inputs.sh     *)
(* hands the paths to gtr validate-paths (cmd/gtr/validate.go), and gtr    *)
(* run splits test_args (cmd/gtr/main.go, runCmd).  They are two processes *)
(* that share nothing, and the guard keeps nothing between two paths, so   *)
(* that a behaviour is one path validated or one text split.               *)
(***************************************************************************)
EXTENDS PathGuard, Tokenizer, FiniteSets

CONSTANTS
  FileSystems,   \* file systems a runner may have
  Workspaces,    \* paths GITHUB_WORKSPACE may be given by
  InputPaths,    \* paths the inputs may name, [abs, elems]
  TestArgs       \* values of test_args, [runes, meant]; meant holds the list
                 \* of arguments that was quoted, nothing when none was

-----------------------------------------------------------------------------
(* How a user quotes a list of arguments. *)

(* One rune of a word at position p, as it is or behind a backslash. *)
AsItIs(s, p, r, style) ==
  /\ s[p] = r
  /\ CASE style = "none"   -> r = "a"
       [] style = "single" -> r # "'"
       [] style = "double" -> r # "dquote" /\ (r = "\\" => s[p + 1] \notin {"dquote", "\\"})

Escaped(s, p, r, style) ==
  /\ s[p] = "\\" /\ s[p + 1] = r
  /\ style = "none" \/ (style = "double" /\ r \in {"dquote", "\\"})

(* at[k] is where rune k of word is spelled, the last where the next text begins. *)
Spelling(s, first, end, word, style, at) ==
  /\ at[1] = first /\ at[Len(word) + 1] = end
  /\ \A k \in DOMAIN word :
       \/ at[k + 1] = at[k] + 1 /\ AsItIs(s, at[k], word[k], style)
       \/ at[k + 1] = at[k] + 2 /\ Escaped(s, at[k], word[k], style)

Spells(s, first, end, word, style) ==
  \E at \in [1..(Len(word) + 1) -> first..end] : Spelling(s, first, end, word, style, at)

Mark(style) == IF style = "single" THEN "'" ELSE "dquote"

QuotesWord(s, first, end, word) ==
  \/ word # <<>> /\ Spells(s, first, end, word, "none")
  \/ \E style \in {"single", "double"} :
       /\ first < end - 1 /\ s[first] = Mark(style) /\ s[end - 1] = Mark(style)
       /\ Spells(s, first + 1, end - 1, word, style)

(* Word k of list lies between two of the spaces, or the ends of the text. *)
WordFrom(cut, k)          == IF k = 1 THEN 1 ELSE cut[k - 1] + 1
WordEnd(s, list, cut, k)  == IF k = Len(list) THEN Len(s) + 1 ELSE cut[k]

Cuts(s, list, cut) ==
  /\ \A k \in 1..(Len(list) - 1) : s[cut[k]] = "space"
  /\ \A k \in DOMAIN list :
       /\ WordFrom(cut, k) <= WordEnd(s, list, cut, k)
       /\ QuotesWord(s, WordFrom(cut, k), WordEnd(s, list, cut, k), list[k])

Quotes(s, list) ==
  list # <<>> /\ \E cut \in [1..(Len(list) - 1) -> DOMAIN s] : Cuts(s, list, cut)

(* No path yet: the relative path without an element is the empty text, which
   the script leaves out. *)
Unchecked == [abs |-> FALSE, elems |-> <<>>]

ASSUME InputsAssumption ==
  /\ \A f \in FileSystems : IsFileSystem(f) /\ InDirectories(f)
  /\ Workspaces \subseteq Path
  /\ InputPaths \subseteq [abs : BOOLEAN, elems : Path] \ {Unchecked}
  /\ \A a \in TestArgs :
       /\ a.runes \in Seq(Rune)
       /\ \A list \in a.meant : list \in Seq(Seq(Rune)) /\ Quotes(a.runes, list)

-----------------------------------------------------------------------------
(* validate-paths and the split of test_args. *)

VARIABLES
  pc,        \* "validate" | "valid" | "tokenize" | "run" | "refused"
  fs,        \* the file system
  root,      \* Guard.root
  checked,   \* the path resolved last, [abs, elems]
  resolved,  \* what Resolve made of it
  meant      \* history: the meant of test_args

pathVars == <<fs, root, checked, resolved>>
vars     == <<pc, meant, pathVars, tokenizerVars>>

Nowhere == [p \in {} |-> Dir]

ToValidate ==
  /\ pc = "validate"
  /\ fs \in FileSystems
  /\ \E w \in Workspaces : root = New(fs, w)
  /\ meant = {}
  /\ TokenizerInit(<<>>)

ToTokenize ==
  /\ pc = "tokenize"
  /\ fs = Nowhere /\ root = <<>>
  /\ \E a \in TestArgs : meant = a.meant /\ TokenizerInit(a.runes)

Init ==
  /\ ToValidate \/ ToTokenize
  /\ checked = Unchecked /\ resolved = Failure

-----------------------------------------------------------------------------
(* One -path flag; the script leaves out the inputs that are empty.  What
   Resolve returns is printed and not used again: the steps that write are
   handed the input as it was given. *)
ValidatePath ==
  /\ pc = "validate"
  /\ \E p \in InputPaths :
       /\ checked' = p
       /\ resolved' = Resolve(fs, root, p)
  /\ pc' = IF resolved'.ok THEN "valid" ELSE "refused"
  /\ UNCHANGED <<fs, root, meant, tokenizerVars>>

Step ==
  /\ pc = "tokenize"
  /\ stepSingle \/ stepDouble \/ stepNone
  /\ UNCHANGED <<pc, meant, pathVars>>

Tokenized ==
  /\ pc = "tokenize" /\ ~More
  /\ pc' = IF Unterminated THEN "refused" ELSE "run"
  /\ UNCHANGED <<meant, pathVars, tokenizerVars>>

Next == ValidatePath \/ Step \/ Tokenized

Spec == Init /\ [][Next]_vars

-----------------------------------------------------------------------------
(* Properties. *)

(* The kernel takes ".." from behind a link, filepath.Clean from before it:
   they mean the same path where there are not both. *)
CleanMeansTheSame ==
  ".." \notin ToSet(checked.elems) \/ \A p \in DOMAIN fs : fs[p].kind # "link"

(* A path that is accepted leads into the workspace: writing to it as it was
   given, which is what gtr run does (main.go, writeReports), through whatever
   links are on the way, what is missing made first, changes nothing outside,
   as long as no ".." meets a link. *)
AcceptedLandsInside ==
  LET target == Target(fs, Given(root, checked))
  IN  resolved.ok /\ CleanMeansTheSame /\ target.ok => IsPrefix(root, target.path)

(* Of a relative path that exists the guard's answer is exact: it accepts what
   lies in the workspace and refuses what does not, as long as no ".." meets a
   link. *)
ExistingPathsExact ==
  LET real == EvalSymlinks(fs, Given(root, checked))
  IN  checked # Unchecked /\ ~checked.abs /\ real.ok /\ CleanMeansTheSame
      => (resolved.ok <=> IsPrefix(root, real.path))

(* The grammar of test_args: the positions behind the first word, quoted part
   or escape of s from n on, none if a quote is left open. *)
Ends(s, n, closes(_)) ==
  {j + 1 : j \in {j \in (n + 1)..Len(s) : closes(j) /\ \A k \in (n + 1)..(j - 1) : ~closes(k)}}

(* Behind n an odd number of backslashes ends at position k. *)
OddRun(s, n, k) ==
  \E m \in (n + 1)..k :
    /\ (k - m) % 2 = 0 /\ \A l \in m..k : s[l] = "\\"
    /\ m = n + 1 \/ s[m - 1] # "\\"

PartEnds(s, n) ==
  CASE s[n] \in {"a", "space"} -> {n + 1}
    [] s[n] = "\\" -> {IF n = Len(s) THEN n + 1 ELSE n + 2}
    [] s[n] = "'"  -> Ends(s, n, LAMBDA j : s[j] = "'")
    [] s[n] = "dquote" -> Ends(s, n, LAMBDA j : s[j] = "dquote" /\ ~OddRun(s, n, j - 1))

(* From n on, part after part ends where s ends. *)
PartedFrom(s) ==
  LET parted[n \in 1..(Len(s) + 1)] == n = Len(s) + 1 \/ \E m \in PartEnds(s, n) : parted[m]
  IN  parted

WellFormed(s) == PartedFrom(s)[1]

(* The arguments are refused exactly when a quote is left open; whatever list
   of arguments is quoted, by whatever of the means the grammar has, gtr reads
   back that list. *)
TokenizeExact ==
  /\ checked = Unchecked =>
       /\ pc = "refused" => ~WellFormed(runes)
       /\ pc = "run" => WellFormed(runes)
  /\ pc \in {"run", "refused"} => \A list \in meant : pc = "run" /\ Result = list
=============================================================================
