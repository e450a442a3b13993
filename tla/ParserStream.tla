---------------------------- MODULE ParserStream ----------------------------
(***************************************************************************)
(* The parser on every short stream of events, well formed or not, against *)
(* definitions that look at the stream as a whole.                         *)
(***************************************************************************)
EXTENDS Parser

CONSTANTS
  Alphabet,    \* the events of the streams
  MaxStream    \* bound on the length of a stream

ASSUME StreamAssumption == Alphabet \subseteq event /\ MaxStream \in Nat

VARIABLE stream   \* the events read so far

streamVars == <<parserVars, stream>>

StreamInit == ParserInit /\ stream = <<>>

Read(ev) ==
  /\ Len(stream) < MaxStream
  /\ Scan(ev)
  /\ stream' = Append(stream, ev)

StreamNext ==
  \/ \E ev \in Alphabet : Read(ev)
  \/ Finish /\ UNCHANGED stream
  \/ ScanError /\ UNCHANGED stream

StreamSpec == StreamInit /\ [][StreamNext]_streamVars

-----------------------------------------------------------------------------
Named == {i \in DOMAIN stream : stream[i].Package # NoPkg}

(* Everything printed by test t of package p and its subtests. *)
By(p, t) ==
  {ev \in event : /\ ev.Package = p /\ ev.Action = "output"
                  /\ ev.Test # <<>> /\ topLevel(ev.Test) = t}

Said(evs, p, t) ==
  FoldLeft(LAMBDA text, ev : IF ev \in By(p, t) THEN text \o ev.Output.text ELSE text,
           <<>>, evs)

(* A failure is reported with the beginning of what that test printed, cut at
   the bound and rid of its trailing newlines: never with the output of
   another test or package, never out of order. *)
OutputExact ==
  phase = "returned" =>
    \A i \in DOMAIN res.Failures :
      LET f    == res.Failures[i]
          all  == Said(stream, f.Package, f.Test)
          n    == IF Len(all) > maxFailureOutputBytes THEN maxFailureOutputBytes ELSE Len(all)
          kept == SubSeq(all, 1, n)
      IN  /\ IsPrefix(f.Output, kept)
          /\ \A k \in Len(f.Output) + 1 .. Len(kept) : kept[k] = 10
          /\ f.Output # <<>> => Last(f.Output) # 10

(* What the two flags of a result say of the stream, however packages and
   tests interleave in it: CompileFailed that some package failed, or printed
   the text of a build failure, before any event about one of its tests (which
   is not always that it failed to build: CompileFlagHonest of TestRun);
   Panicked that a named package printed a panic. *)
CompileAndPanicExact ==
  phase = "returned" =>
    /\ res.CompileFailed <=>
         \E i \in Named :
           /\ stream[i].Test = <<>>
           /\ \/ stream[i].Action = "fail"
              \/ /\ stream[i].Action = "output"
                 /\ "build failed" \in stream[i].Output.marks
           /\ \A j \in 1..(i - 1) :
                ~(stream[j].Package = stream[i].Package /\ AboutTest(stream[j]))
    /\ res.Panicked <=> \E i \in Named : "panic:" \in stream[i].Output.marks

=============================================================================
