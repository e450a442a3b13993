------------------------------ MODULE Tokenizer ------------------------------
(***************************************************************************)
(* internal/gotest/tokenize.go: the split of test_args into arguments, one *)
(* action per kind of step of the loop of Tokenize.                        *)
(*                                                                         *)
(* A rune is one of the four with a meaning, "dquote" being the double     *)
(* quote, and "a" for all others; the four space runes are one.            *)
(***************************************************************************)
EXTENDS Integers, Sequences, SequencesExt

Rune == {"a", "space", "'", "dquote", "\\"}

VARIABLES
  runes,    \* t.runes
  i,        \* the index of the loop, from 1
  tokens,   \* t.tokens
  token,    \* t.cur
  inToken,  \* t.inToken
  quote     \* t.quote: "none" | "single" | "double"

tokenizerVars == <<runes, i, tokens, token, inToken, quote>>

TokenizerInit(s) ==
  runes = s /\ i = 1 /\ tokens = <<>> /\ token = <<>> /\ inToken = FALSE /\ quote = "none"

More    == i <= Len(runes)
c       == runes[i]
HasNext == i + 1 <= Len(runes)
next    == runes[i + 1]

WriteRune(r) == token' = Append(token, r)

stepSingle ==
  /\ More /\ quote = "single"
  /\ IF c = "'" THEN quote' = "none" /\ UNCHANGED token
     ELSE WriteRune(c) /\ UNCHANGED quote
  /\ i' = i + 1
  /\ UNCHANGED <<runes, tokens, inToken>>

(* Mutant: a backslash escapes every rune between double quotes. *)
stepDoubleAll ==
  /\ More /\ quote = "double"
  /\ \/ c = "\\" /\ HasNext /\ WriteRune(next) /\ i' = i + 2 /\ UNCHANGED quote
     \/ c = "\\" /\ ~HasNext /\ WriteRune(c) /\ i' = i + 1 /\ UNCHANGED quote
     \/ c = "dquote" /\ quote' = "none" /\ i' = i + 1 /\ UNCHANGED token
     \/ c \notin {"\\", "dquote"} /\ WriteRune(c) /\ i' = i + 1 /\ UNCHANGED quote
  /\ UNCHANGED <<runes, tokens, inToken>>

(* A backslash escapes a quote and itself, and else stands for itself. *)
stepDouble ==
  LET escapes == c = "\\" /\ HasNext /\ next \in {"dquote", "\\"}
  IN  /\ More /\ quote = "double"
      /\ \/ escapes /\ WriteRune(next) /\ i' = i + 2 /\ UNCHANGED quote
         \/ c = "dquote" /\ quote' = "none" /\ i' = i + 1 /\ UNCHANGED token
         \/ ~escapes /\ c # "dquote" /\ WriteRune(c) /\ i' = i + 1 /\ UNCHANGED quote
      /\ UNCHANGED <<runes, tokens, inToken>>

OpenQuote ==
  /\ More /\ quote = "none" /\ c \in {"'", "dquote"}
  /\ quote' = IF c = "'" THEN "single" ELSE "double"
  /\ inToken' = TRUE
  /\ i' = i + 1
  /\ UNCHANGED <<runes, tokens, token>>

Space ==
  /\ More /\ quote = "none" /\ c = "space"
  /\ IF inToken THEN tokens' = Append(tokens, token) /\ token' = <<>>
     ELSE UNCHANGED <<tokens, token>>
  /\ inToken' = FALSE
  /\ i' = i + 1
  /\ UNCHANGED <<runes, quote>>

(* A backslash at the very end stands for itself. *)
Plain ==
  /\ More /\ quote = "none" /\ c \in {"a", "\\"}
  /\ IF c = "\\" /\ HasNext THEN WriteRune(next) /\ i' = i + 2
     ELSE WriteRune(c) /\ i' = i + 1
  /\ inToken' = TRUE
  /\ UNCHANGED <<runes, tokens, quote>>

stepNone == OpenQuote \/ Space \/ Plain

(* What Tokenize returns when the loop has ended. *)
Unterminated == quote # "none"
Result == IF inToken THEN Append(tokens, token) ELSE tokens
=============================================================================
