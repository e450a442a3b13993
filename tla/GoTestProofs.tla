---------------------------- MODULE GoTestProofs ----------------------------
(***************************************************************************)
(* Theorems about internal/gotest, for any constants.                      *)
(*                                                                         *)
(* Runner: for any child, with any lines, chunks and capacities of pipes,  *)
(* and with every fault allowed or not.                                    *)
(*                                                                         *)
(* Parser, ParserStream and TestRun: for any packages, tests, texts and    *)
(* bound.  AggregateProofs deals with every transition of one aggregate.   *)
(* The theorems lift them to the map of packages, relate the result to the *)
(* whole stream, whatever its events and its length, and then to what the  *)
(* process that wrote the stream has really done.                          *)
(***************************************************************************)
EXTENDS Runner, ParserStream, TestRun, AggregateProofs

(* The parser. *)

(* From one aggregate to the map of packages. *)

(* getPkg returns an aggregate, a new one if need be. *)
LEMMA AggregateOf ==
  ASSUME ParserTypeOK, NEW ip
  PROVE  getPkg(ip) \in Aggregate
  BY NewAggregate DEF ParserTypeOK, getPkg

(* What one iteration of the scan loop does to the map. *)
LEMMA ScanStep ==
  ASSUME ParserTypeOK, NEW ev \in event, Scan(ev)
  PROVE  \/ pkgs' = pkgs
         \/ /\ ev.Package \in Pkg
            /\ DOMAIN pkgs' = DOMAIN pkgs \cup {ev.Package}
            /\ pkgs'[ev.Package] = applyEvent(getPkg(ev.Package), ev)
            /\ \A q \in DOMAIN pkgs : q # ev.Package => pkgs'[q] = pkgs[q]
  <1>1. CASE ev.Package = NoPkg
    BY <1>1 DEF Scan
  <1>2. CASE ev.Package # NoPkg
    <2> DEFINE v == applyEvent(getPkg(ev.Package), ev)
    <2>1. pkgs' = Put(pkgs, ev.Package, v)
      BY <1>2 DEF Scan
    <2>2. ev.Package \in Pkg
      BY <1>2, EventFields
    <2> HIDE DEF v
    <2>3. /\ DOMAIN pkgs' = DOMAIN pkgs \cup {ev.Package}
          /\ pkgs'[ev.Package] = v
          /\ \A q \in DOMAIN pkgs : q # ev.Package => pkgs'[q] = pkgs[q]
      BY <2>1 DEF Put
    <2> QED BY <2>2, <2>3 DEF v
  <1> QED BY <1>1, <1>2

(* The map of packages is a function after one iteration of the scan loop. *)
LEMMA MapIsFunction ==
  ASSUME NEW ev \in event, ParserTypeOK, Scan(ev)
  PROVE  pkgs' = [q \in DOMAIN pkgs' |-> pkgs'[q]]
  <1>1. pkgs = [q \in DOMAIN pkgs |-> pkgs[q]]
    BY DEF ParserTypeOK
  <1>2. CASE ev.Package = NoPkg
    BY <1>1, <1>2 DEF Scan
  <1>3. CASE ev.Package # NoPkg
    BY <1>3 DEF Scan, Put
  <1> QED BY <1>2, <1>3

(* The parser starts with the shape of its state. *)
LEMMA ParserTypeInit == ParserInit => ParserTypeOK
  BY DEF ParserInit, ParserTypeOK

(* Every step of the parser keeps the shape of its state. *)
LEMMA ParserTypeStep == ParserTypeOK /\ [ParserNext]_parserVars => ParserTypeOK'
  <1> SUFFICES ASSUME ParserTypeOK, [ParserNext]_parserVars
               PROVE  ParserTypeOK'
    OBVIOUS
  <1>1. ASSUME NEW ev \in event, Scan(ev)
        PROVE  ParserTypeOK'
    <2>1. \A q \in DOMAIN pkgs' : q \in Pkg /\ pkgs'[q] \in Aggregate
      <3>1. \A q \in DOMAIN pkgs : q \in Pkg /\ pkgs[q] \in Aggregate
        BY DEF ParserTypeOK
      <3>2. applyEvent(getPkg(ev.Package), ev) \in Aggregate
        BY AggregateOf, ApplyType
      <3> QED BY <1>1, <3>1, <3>2, ScanStep
    <2>2. pkgs' = [q \in DOMAIN pkgs' |-> pkgs'[q]]
      BY <1>1, MapIsFunction
    <2>3. Panicked' \in BOOLEAN /\ phase' = phase
      BY <1>1 DEF Scan, ParserTypeOK
    <2> QED BY <2>1, <2>2, <2>3 DEF ParserTypeOK
  <1>2. CASE Finish
    BY <1>2 DEF Finish, ParserTypeOK
  <1>3. CASE ScanError
    BY <1>3 DEF ScanError, ParserTypeOK
  <1>4. CASE UNCHANGED parserVars
    BY <1>4 DEF parserVars, ParserTypeOK
  <1> QED BY <1>1, <1>2, <1>3, <1>4 DEF ParserNext

(* Whatever the stream, the state of Parse has the shape of its Go types. *)
THEOREM ParserTypeCorrect == ParserSpec => []ParserTypeOK
  BY ParserTypeInit, ParserTypeStep, PTL DEF ParserSpec

(* A predicate of single aggregates that a new aggregate has and that every
   event preserves holds of all packages: the common shape of the next two
   proofs, spelled out for each of them. *)

(* Every step of the parser keeps the books of every package. *)
LEMMA BookkeepingStep ==
  ParserTypeOK /\ FailureBookkeeping /\ [ParserNext]_parserVars => FailureBookkeeping'
  <1> SUFFICES ASSUME ParserTypeOK, FailureBookkeeping, [ParserNext]_parserVars
               PROVE  FailureBookkeeping'
    OBVIOUS
  <1>1. ASSUME NEW ev \in event, Scan(ev)
        PROVE  FailureBookkeeping'
    <2>1. Bookkept(getPkg(ev.Package)) /\ getPkg(ev.Package) \in Aggregate
      BY NewAggregate, AggregateOf DEF FailureBookkeeping, getPkg
    <2>2. Bookkept(applyEvent(getPkg(ev.Package), ev))
      BY <2>1, ApplyBookkept
    <2>3. \A q \in DOMAIN pkgs' : Bookkept(pkgs'[q])
      BY <1>1, <2>2, ScanStep DEF FailureBookkeeping
    <2> QED BY <2>3 DEF FailureBookkeeping
  <1>2. CASE Finish \/ ScanError \/ UNCHANGED parserVars
    BY <1>2 DEF Finish, ScanError, parserVars, FailureBookkeeping
  <1> QED BY <1>1, <1>2 DEF ParserNext

(* Whatever the stream, the list of failures, the set that guards it and the
   map of tests agree: no failed test is lost, none is listed twice. *)
THEOREM FailuresBookkept == ParserSpec => []FailureBookkeeping
  <1>1. ParserInit => FailureBookkeeping
    BY DEF ParserInit, FailureBookkeeping
  <1> QED BY <1>1, BookkeepingStep, ParserTypeCorrect, PTL DEF ParserSpec

(* Every step of the parser keeps the texts of every package bounded. *)
LEMMA BoundedStep ==
  ParserTypeOK /\ OutputBounded /\ [ParserNext]_parserVars => OutputBounded'
  <1> SUFFICES ASSUME ParserTypeOK, OutputBounded, [ParserNext]_parserVars
               PROVE  OutputBounded'
    OBVIOUS
  <1>1. ASSUME NEW ev \in event, Scan(ev)
        PROVE  OutputBounded'
    <2>1. Bounded(getPkg(ev.Package)) /\ getPkg(ev.Package) \in Aggregate
      BY NewAggregate, AggregateOf, ParserAssumption DEF OutputBounded, Bounded, getPkg
    <2>2. Bounded(applyEvent(getPkg(ev.Package), ev))
      BY <2>1, ApplyBounded
    <2>3. \A q \in DOMAIN pkgs' : Bounded(pkgs'[q])
      BY <1>1, <2>2, ScanStep DEF OutputBounded, Bounded
    <2> QED BY <2>3 DEF OutputBounded, Bounded
  <1>2. CASE Finish \/ ScanError \/ UNCHANGED parserVars
    BY <1>2 DEF Finish, ScanError, parserVars, OutputBounded
  <1> QED BY <1>1, <1>2 DEF ParserNext

(* No stream makes the parser keep more of a test's output than the bound. *)
THEOREM OutputStaysBounded == ParserSpec => []OutputBounded
  <1>1. ParserInit => OutputBounded
    BY DEF ParserInit, OutputBounded
  <1> QED BY <1>1, BoundedStep, ParserTypeCorrect, PTL DEF ParserSpec

(* After the first event about a test the compile verdict of its package does
   not move, and a compile failure is never taken back. *)
THEOREM CompileVerdictIsFrozen == ParserSpec => CompileVerdictFrozen
  <1> DEFINE Frozen == \A p \in DOMAIN pkgs :
               /\ pkgs[p].sawAnyTest => pkgs'[p].pkgCompile = pkgs[p].pkgCompile
               /\ pkgs[p].pkgCompile => pkgs'[p].pkgCompile
  <1>1. ParserTypeOK /\ [ParserNext]_parserVars => [Frozen]_parserVars
    <2> SUFFICES ASSUME ParserTypeOK, ParserNext
                 PROVE  Frozen
      BY DEF parserVars
    <2>1. ASSUME NEW ev \in event, Scan(ev)
          PROVE  Frozen
      <3>1. \A p \in DOMAIN pkgs : pkgs[p] \in Aggregate /\ getPkg(p) = pkgs[p]
        BY DEF ParserTypeOK, getPkg
      <3>2. \A p \in DOMAIN pkgs :
              LET b == applyEvent(pkgs[p], ev)
              IN  /\ pkgs[p].sawAnyTest => b.pkgCompile = pkgs[p].pkgCompile
                  /\ pkgs[p].pkgCompile => b.pkgCompile
        BY <3>1, ApplyCompile
      <3>3. \A p \in DOMAIN pkgs : pkgs'[p] \in {pkgs[p], applyEvent(pkgs[p], ev)}
        BY <2>1, <3>1, ScanStep
      <3> QED BY <3>2, <3>3
    <2>2. CASE Finish \/ ScanError
      BY <2>2 DEF Finish, ScanError
    <2> QED BY <2>1, <2>2 DEF ParserNext
  <1> QED BY <1>1, ParserTypeCorrect, PTL DEF ParserSpec, CompileVerdictFrozen

-----------------------------------------------------------------------------
(* The parser implements TestTally. *)

(* One iteration of the scan loop is a step of the tally or a stutter. *)
LEMMA TallyScan ==
  ASSUME ParserTypeOK, NEW ev \in event, Scan(ev)
  PROVE  Tally!TallyNext \/ UNCHANGED Verdicts
  <1> DEFINE ip == ev.Package
             a  == getPkg(ip)
             b  == applyEvent(a, ev)
             u  == topLevel(ev.Test)
  <1>1. CASE pkgs' = pkgs
    BY <1>1 DEF Verdicts
  <1>2. CASE /\ ip \in Pkg
             /\ DOMAIN pkgs' = DOMAIN pkgs \cup {ip}
             /\ pkgs'[ip] = b
             /\ \A q \in DOMAIN pkgs : q # ip => pkgs'[q] = pkgs[q]
    <2>1. a \in Aggregate
      BY AggregateOf
    <2>2. \A t \in Top : Verdicts[ip][t] = VerdictOf(a, t)
      BY <1>2, NewAggregate DEF Verdicts, getPkg
    <2>3. \A t \in Top : Verdicts'[ip][t] = VerdictOf(b, t)
      BY <1>2 DEF Verdicts
    <2>4. \A q \in Pkg : q # ip => Verdicts'[q] = Verdicts[q]
      BY <1>2 DEF Verdicts
    <2>5. /\ Verdicts = [p \in Pkg |-> [t \in Top |-> Verdicts[p][t]]]
          /\ Verdicts' = [p \in Pkg |-> [t \in Top |-> Verdicts'[p][t]]]
      BY DEF Verdicts
    <2> HIDE DEF a, b, u, ip
    <2>6. CASE \A t \in Top : VerdictOf(b, t) = VerdictOf(a, t)
      <3>1. \A q \in Pkg, t \in Top : Verdicts'[q][t] = Verdicts[q][t]
        BY <2>2, <2>3, <2>4, <2>6
      <3>2. [p \in Pkg |-> [t \in Top |-> Verdicts'[p][t]]]
              = [p \in Pkg |-> [t \in Top |-> Verdicts[p][t]]]
        BY <3>1
      <3>3. Verdicts' = Verdicts
        BY <2>5, <3>2
      <3> QED BY <3>3
    <2>7. CASE /\ u \in Top
               /\ \A t \in Top : t # u => VerdictOf(b, t) = VerdictOf(a, t)
               /\ \/ VerdictOf(b, u) = "failed"
                  \/ /\ VerdictOf(a, u) = "none"
                     /\ VerdictOf(b, u) \in {"passed", "skipped"}
      <3> DEFINE v == VerdictOf(b, u)
      <3>1. \A p \in Pkg, t \in Top :
              Verdicts'[p][t] = IF p = ip /\ t = u THEN v ELSE Verdicts[p][t]
        BY <2>2, <2>3, <2>4, <2>7
      <3> HIDE DEF v
      <3>2. Verdicts' = [Verdicts EXCEPT ![ip][u] = v]
        BY <1>2, <2>5, <2>7, <3>1
      <3>3. Tally!TallyNext
        BY <1>2, <2>2, <2>7, <3>2 DEF Tally!TallyNext, Tally!Settle, Tally!Break, v
      <3> QED BY <3>3
    <2> QED BY <2>1, <2>6, <2>7, ApplyVerdict DEF b, u
  <1> QED BY <1>1, <1>2, ScanStep

(* Every behaviour of the parser, on any stream, is one of TestTally. *)
THEOREM ParserImplementsTally == ParserSpec => ImplementsTally
  <1>1. ParserInit => Tally!TallyInit
    BY DEF ParserInit, Tally!TallyInit, Verdicts
  <1>2. ParserTypeOK /\ [ParserNext]_parserVars => [Tally!TallyNext]_Verdicts
    <2> SUFFICES ASSUME ParserTypeOK, [ParserNext]_parserVars
                 PROVE  Tally!TallyNext \/ UNCHANGED Verdicts
      OBVIOUS
    <2>1. ASSUME NEW ev \in event, Scan(ev)
          PROVE  Tally!TallyNext \/ UNCHANGED Verdicts
      BY <2>1, TallyScan
    <2>2. CASE Finish \/ ScanError \/ UNCHANGED parserVars
      BY <2>2 DEF Finish, ScanError, parserVars, Verdicts
    <2> QED BY <2>1, <2>2 DEF ParserNext
  <1> QED BY <1>1, <1>2, ParserTypeCorrect, PTL
          DEF ParserSpec, ImplementsTally, Tally!TallySpec

-----------------------------------------------------------------------------
(* ParserStream: the aggregates against the stream as a whole. *)

(* A stream over an alphabet is a stream of events. *)
LEMMA StreamIsParser == StreamSpec => ParserSpec
  <1>1. StreamInit => ParserInit
    BY DEF StreamInit
  <1>2. [StreamNext]_streamVars => [ParserNext]_parserVars
    BY StreamAssumption DEF StreamNext, Read, ParserNext, streamVars, parserVars
  <1> QED BY <1>1, <1>2, PTL DEF StreamSpec, ParserSpec

(* What Parse returns is the ParseResult of the aggregates. *)
ResultOfAggregates == phase = "returned" => res = ParseResult(pkgs, Panicked)

(* What Parse returns is ParseResult of the aggregates it leaves. *)
LEMMA ResultIsOfAggregates == ParserSpec => []ResultOfAggregates
  <1>1. ParserInit => ResultOfAggregates
    BY DEF ParserInit, ResultOfAggregates
  <1>2. ResultOfAggregates /\ [ParserNext]_parserVars => ResultOfAggregates'
    BY DEF ResultOfAggregates, ParserNext, Scan, Finish, ScanError, parserVars
  <1> QED BY <1>1, <1>2, PTL DEF ParserSpec

SawTest(evs, p) == \E i \in DOMAIN evs : evs[i].Package = p /\ AboutTest(evs[i])

BreaksFirst(evs, p) ==
  \E i \in DOMAIN evs :
    /\ evs[i].Package = p /\ Breaks(evs[i])
    /\ \A j \in 1..(i - 1) : ~(evs[j].Package = p /\ AboutTest(evs[j]))

Panics(evs) == \E i \in DOMAIN evs : evs[i].Package # NoPkg /\ "panic:" \in evs[i].Output.marks

(* One more event of a stream. *)
LEMMA OneMoreEvent ==
  ASSUME NEW evs \in Seq(event), NEW ev \in event, NEW p
  PROVE  LET w == Append(evs, ev)
         IN  /\ w \in Seq(event)
             /\ SawTest(w, p) <=> SawTest(evs, p) \/ (ev.Package = p /\ AboutTest(ev))
             /\ BreaksFirst(w, p) <=> \/ BreaksFirst(evs, p)
                                      \/ ev.Package = p /\ Breaks(ev) /\ ~SawTest(evs, p)
             /\ Panics(w) <=> Panics(evs) \/ (ev.Package # NoPkg /\ "panic:" \in ev.Output.marks)
  <1> DEFINE w == Append(evs, ev)
             n == Len(evs)
  <1>1. /\ n \in Nat /\ DOMAIN evs = 1..n /\ DOMAIN w = 1..(n + 1) /\ w \in Seq(event)
        /\ w[n + 1] = ev /\ \A i \in 1..n : w[i] = evs[i]
    BY AppendProperties, LenProperties
  <1> HIDE DEF w, n
  <1>2. /\ \A i \in 1..(n + 1) : i \in 1..n \/ i = n + 1
        /\ \A i \in 1..n : i \in 1..(n + 1)
        /\ n + 1 \in 1..(n + 1) /\ 1..((n + 1) - 1) = 1..n
        /\ \A i \in 1..n : \A j \in 1..(i - 1) : j \in 1..n
    BY <1>1
  <1>3. SawTest(w, p) <=> SawTest(evs, p) \/ (ev.Package = p /\ AboutTest(ev))
    BY <1>1, <1>2 DEF SawTest
  <1>4. Panics(w) <=> Panics(evs) \/ (ev.Package # NoPkg /\ "panic:" \in ev.Output.marks)
    BY <1>1, <1>2 DEF Panics
  <1>5. BreaksFirst(w, p) <=> \/ BreaksFirst(evs, p)
                              \/ ev.Package = p /\ Breaks(ev) /\ ~SawTest(evs, p)
    <2>1. ASSUME NEW i \in 1..n
          PROVE  (\A j \in 1..(i - 1) : ~(w[j].Package = p /\ AboutTest(w[j])))
                   <=> (\A j \in 1..(i - 1) : ~(evs[j].Package = p /\ AboutTest(evs[j])))
      BY <1>1, <1>2
    <2>2. (\A j \in 1..((n + 1) - 1) : ~(w[j].Package = p /\ AboutTest(w[j]))) <=> ~SawTest(evs, p)
      BY <1>1, <1>2 DEF SawTest
    <2> QED BY <1>1, <1>2, <2>1, <2>2 DEF BreaksFirst
  <1> QED BY <1>1, <1>3, <1>4, <1>5 DEF w

(* What the two bits of every package, and Panicked, remember of the stream. *)
BitsExact ==
  /\ stream \in Seq(event)
  /\ Panicked <=> Panics(stream)
  /\ \A p \in Pkg : /\ getPkg(p).sawAnyTest <=> SawTest(stream, p)
                    /\ getPkg(p).pkgCompile <=> BreaksFirst(stream, p)

(* getPkg after one iteration of the scan loop. *)
LEMMA ScanOf ==
  ASSUME ParserTypeOK, NEW ev \in event, Scan(ev), NEW p \in Pkg
  PROVE  getPkg(p)' = IF ev.Package = p THEN applyEvent(getPkg(p), ev) ELSE getPkg(p)
  <1>1. CASE ev.Package = NoPkg
    <2>1. pkgs' = pkgs /\ ev.Package # p
      BY <1>1, ParserAssumption DEF Scan
    <2> QED BY <2>1 DEF getPkg
  <1>2. CASE ev.Package # NoPkg
    <2> DEFINE v == applyEvent(getPkg(ev.Package), ev)
    <2>1. pkgs' = Put(pkgs, ev.Package, v)
      BY <1>2 DEF Scan
    <2> HIDE DEF v
    <2>2. /\ DOMAIN pkgs' = DOMAIN pkgs \cup {ev.Package}
          /\ pkgs'[ev.Package] = v
          /\ \A q \in DOMAIN pkgs : q # ev.Package => pkgs'[q] = pkgs[q]
      BY <2>1 DEF Put
    <2>3. CASE ev.Package = p
      <3>1. getPkg(p)' = v
        BY <2>2, <2>3 DEF getPkg
      <3> QED BY <2>3, <3>1 DEF v
    <2>4. CASE ev.Package # p
      BY <2>2, <2>4 DEF getPkg
    <2> QED BY <2>3, <2>4
  <1> QED BY <1>1, <1>2

(* Reading one event more keeps the flags exact. *)
LEMMA BitsStep ==
  ASSUME ParserTypeOK, BitsExact, [StreamNext]_streamVars
  PROVE  BitsExact'
  <1>1. ASSUME NEW ev \in Alphabet, Read(ev)
        PROVE  BitsExact'
    <2>1. ev \in event /\ Scan(ev) /\ stream' = Append(stream, ev)
      BY <1>1, StreamAssumption DEF Read
    <2>2. stream \in Seq(event)
      BY DEF BitsExact
    <2>3. /\ Append(stream, ev) \in Seq(event)
          /\ Panics(Append(stream, ev))
               <=> Panics(stream) \/ (ev.Package # NoPkg /\ "panic:" \in ev.Output.marks)
      BY <2>1, <2>2, OneMoreEvent
    <2>4. Panicked' <=> Panics(stream')
      <3> DEFINE new == ev.Package # NoPkg /\ "panic:" \in ev.Output.marks
      <3>1. Panicked' <=> Panicked \/ new
        BY <2>1 DEF Scan, ParserTypeOK
      <3>2. Panics(stream') <=> Panics(stream) \/ new
        BY <2>1, <2>3
      <3>3. Panicked <=> Panics(stream)
        BY DEF BitsExact
      <3> HIDE DEF new
      <3> QED BY <3>1, <3>2, <3>3
    <2>5. ASSUME NEW p \in Pkg
          PROVE  /\ getPkg(p)'.sawAnyTest <=> SawTest(stream', p)
                 /\ getPkg(p)'.pkgCompile <=> BreaksFirst(stream', p)
      <3>1. getPkg(p)' = IF ev.Package = p THEN applyEvent(getPkg(p), ev) ELSE getPkg(p)
        BY <2>1, ScanOf
      <3>2. /\ SawTest(stream', p) <=> SawTest(stream, p) \/ (ev.Package = p /\ AboutTest(ev))
            /\ BreaksFirst(stream', p) <=> \/ BreaksFirst(stream, p)
                                           \/ ev.Package = p /\ Breaks(ev) /\ ~SawTest(stream, p)
        BY <2>1, <2>2, OneMoreEvent
      <3>3. /\ getPkg(p).sawAnyTest <=> SawTest(stream, p)
            /\ getPkg(p).pkgCompile <=> BreaksFirst(stream, p)
        BY DEF BitsExact
      <3>4. /\ applyEvent(getPkg(p), ev).sawAnyTest <=> getPkg(p).sawAnyTest \/ AboutTest(ev)
            /\ applyEvent(getPkg(p), ev).pkgCompile
                 <=> getPkg(p).pkgCompile \/ (~getPkg(p).sawAnyTest /\ Breaks(ev))
        BY <2>1, AggregateOf, ApplyBits
      <3> QED BY <3>1, <3>2, <3>3, <3>4
    <2> QED BY <2>1, <2>3, <2>4, <2>5 DEF BitsExact
  <1>2. CASE (Finish /\ UNCHANGED stream) \/ (ScanError /\ UNCHANGED stream)
             \/ UNCHANGED streamVars
    <2>1. pkgs' = pkgs /\ Panicked' = Panicked /\ stream' = stream
      BY <1>2 DEF Finish, ScanError, streamVars, parserVars
    <2> QED BY <2>1 DEF BitsExact, getPkg
  <1> QED BY <1>1, <1>2 DEF StreamNext

(* Whatever events are read: Parse reports a compile failure exactly when a
   package broke before anything about its tests was read, and a panic exactly
   when one was printed. *)
THEOREM CompileAndPanicAreExact == StreamSpec => []CompileAndPanicExact
  <1>1. StreamInit => BitsExact
    <2> SUFFICES ASSUME StreamInit PROVE BitsExact
      OBVIOUS
    <2>1. stream = <<>> /\ Panicked = FALSE /\ \A p \in Pkg : getPkg(p) = newPkgAgg
      BY DEF StreamInit, ParserInit, getPkg
    <2>2. newPkgAgg.sawAnyTest = FALSE /\ newPkgAgg.pkgCompile = FALSE
      BY DEF newPkgAgg
    <2>3. DOMAIN stream = {}
      BY <2>1
    <2> QED BY <2>1, <2>2, <2>3 DEF BitsExact, Panics, SawTest, BreaksFirst
  <1>2. ParserTypeOK /\ FailureBookkeeping /\ ResultOfAggregates /\ BitsExact
          => CompileAndPanicExact
    <2> SUFFICES ASSUME ParserTypeOK, FailureBookkeeping, BitsExact,
                        res = ParseResult(pkgs, Panicked)
                 PROVE  /\ res.CompileFailed <=>
                             \E i \in Named :
                               /\ stream[i].Test = <<>>
                               /\ \/ stream[i].Action = "fail"
                                  \/ /\ stream[i].Action = "output"
                                     /\ "build failed" \in stream[i].Output.marks
                               /\ \A j \in 1..(i - 1) :
                                    ~(stream[j].Package = stream[i].Package /\ AboutTest(stream[j]))
                        /\ res.Panicked <=> \E i \in Named : "panic:" \in stream[i].Output.marks
      BY DEF ResultOfAggregates, CompileAndPanicExact
    <2>1. (\E p \in Pkg : BreaksFirst(stream, p)) <=>
             \E i \in Named :
               /\ stream[i].Test = <<>>
               /\ \/ stream[i].Action = "fail"
                  \/ /\ stream[i].Action = "output"
                     /\ "build failed" \in stream[i].Output.marks
               /\ \A j \in 1..(i - 1) :
                    ~(stream[j].Package = stream[i].Package /\ AboutTest(stream[j]))
      <3>1. \A i \in DOMAIN stream : stream[i] \in event
        BY DEF BitsExact
      <3>2. \A i \in DOMAIN stream : stream[i].Package # NoPkg <=> stream[i].Package \in Pkg
        BY <3>1, EventFields, ParserAssumption
      <3> QED BY <3>2 DEF BreaksFirst, Breaks, Named
    <2>2. Panics(stream) <=> \E i \in Named : "panic:" \in stream[i].Output.marks
      BY DEF Panics, Named
    <2>3. AccountsFor(res, pkgs, DOMAIN pkgs) /\ res.Panicked = Panicked
      BY ParseResultIs DEF ParserTypeOK, FailureBookkeeping
    <2>4. res.CompileFailed <=> \E p \in DOMAIN pkgs : pkgs[p].pkgCompile
      BY <2>3 DEF AccountsFor, PackagesReported
    <2>5. (\E p \in DOMAIN pkgs : pkgs[p].pkgCompile) <=> \E p \in Pkg : getPkg(p).pkgCompile
      BY DEF ParserTypeOK, getPkg, newPkgAgg
    <2> QED BY <2>1, <2>2, <2>3, <2>4, <2>5 DEF BitsExact
  <1>3. ParserTypeOK /\ BitsExact /\ [StreamNext]_streamVars => BitsExact'
    BY BitsStep
  <1> QED BY <1>1, <1>2, <1>3, StreamIsParser, ParserTypeCorrect, FailuresBookkept,
             ResultIsOfAggregates, PTL DEF StreamSpec

-----------------------------------------------------------------------------
(* The text kept of a test against everything it said. *)

Beginning(all) ==
  SubSeq(all, 1, IF Len(all) > maxFailureOutputBytes THEN maxFailureOutputBytes ELSE Len(all))

(* What is kept of a text is its beginning. *)
LEMMA BeginningProperties ==
  ASSUME NEW all \in Seq(Int)
  PROVE  LET n == IF Len(all) > maxFailureOutputBytes THEN maxFailureOutputBytes ELSE Len(all)
         IN  /\ n \in Nat /\ n <= Len(all) /\ n <= maxFailureOutputBytes
             /\ Beginning(all) \in Seq(Int) /\ Len(Beginning(all)) = n
             /\ \A i \in 1..n : Beginning(all)[i] = all[i]
  <1> DEFINE n == IF Len(all) > maxFailureOutputBytes THEN maxFailureOutputBytes ELSE Len(all)
  <1>1. n \in Nat /\ n <= Len(all) /\ n <= maxFailureOutputBytes /\ Len(all) \in Nat
    BY ParserAssumption, LenProperties
  <1>2. Beginning(all) = SubSeq(all, 1, n)
    BY DEF Beginning
  <1> HIDE DEF n
  <1>3. \A i \in 1..n : all[i] \in Int
    BY <1>1, ElementOfSeq
  <1>4. /\ SubSeq(all, 1, n) \in Seq(Int)
        /\ Len(SubSeq(all, 1, n)) = n
        /\ \A i \in 1..n : SubSeq(all, 1, n)[i] = all[i]
    BY <1>1, <1>3, SubSeqProperties
  <1> QED BY <1>1, <1>2, <1>4 DEF n

(* appendBounded keeps the beginning of what it would have kept unbounded. *)
LEMMA BeginningOfMore ==
  ASSUME NEW all \in Seq(Int), NEW s \in Seq(Int)
  PROVE  appendBounded(Beginning(all), s) = Beginning(all \o s)
  <1> DEFINE M == maxFailureOutputBytes
             k == Beginning(all)
             n == Len(k)
             w == all \o s
             v == Beginning(w)
             a == appendBounded(k, s)
  <1>1. /\ Len(all) \in Nat /\ Len(s) \in Nat /\ M \in Nat
        /\ w \in Seq(Int) /\ Len(w) = Len(all) + Len(s)
        /\ \A i \in 1..Len(w) : w[i] = IF i <= Len(all) THEN all[i] ELSE s[i - Len(all)]
    BY ParserAssumption, LenProperties, ConcatProperties
  <1>2. /\ k \in Seq(Int) /\ n = IF Len(all) > M THEN M ELSE Len(all)
        /\ \A i \in 1..n : k[i] = all[i]
    BY BeginningProperties
  <1> HIDE DEF w, k
  <1>3. /\ v \in Seq(Int) /\ Len(v) = IF Len(w) > M THEN M ELSE Len(w)
        /\ \A i \in 1..Len(v) : v[i] = w[i]
    BY <1>1, BeginningProperties
  <1> HIDE DEF v
  <1>4. a \in Seq(Int)
    BY <1>2, AppendBoundedType
  <1>5. Len(a) = Len(v) /\ \A i \in 1..Len(v) : a[i] = v[i]
    <2> DEFINE l == Len(all)
               m == Len(s)
    <2>1. a = IF n >= M THEN k ELSE IF m > M - n THEN k \o SubSeq(s, 1, M - n) ELSE k \o s
      BY DEF appendBounded
    <2>2. l \in Nat /\ m \in Nat /\ M \in Nat /\ Len(w) = l + m
      BY <1>1
    <2>3. n = (IF l > M THEN M ELSE l) /\ Len(v) = (IF l + m > M THEN M ELSE l + m)
      BY <1>2, <1>3, <2>2
    <2>4. /\ \A i \in 1..n : k[i] = all[i]
          /\ \A i \in 1..Len(v) : v[i] = w[i]
          /\ \A i \in 1..(l + m) : w[i] = IF i <= l THEN all[i] ELSE s[i - l]
      BY <1>1, <1>2, <1>3
    <2>5. ASSUME NEW c \in Seq(Int)
          PROVE  /\ Len(k \o c) = n + Len(c)
                 /\ \A i \in 1..(n + Len(c)) : (k \o c)[i] = IF i <= n THEN k[i] ELSE c[i - n]
      BY <1>2, ConcatProperties
    <2>6. Len(k) = n
      OBVIOUS
    <2>7. \A i \in 1..m : s[i] \in Int
      BY ElementOfSeq
    <2> HIDE DEF a, n, l, M, m
    <2>8. CASE l >= M
      <3>1. n = M /\ a = k /\ Len(v) = M
        BY <2>8, <2>1, <2>2, <2>3
      <3>2. ASSUME NEW j \in 1..M PROVE k[j] = v[j]
        <4>1. j \in 1..n /\ j \in 1..Len(v) /\ j \in 1..(l + m) /\ j <= l
          BY <2>2, <2>8, <3>1
        <4> QED BY <2>4, <4>1
      <3> QED BY <2>6, <3>1, <3>2
    <2>9. CASE l < M /\ m > M - l
      <3> DEFINE r == M - l
                 c == SubSeq(s, 1, r)
      <3>1. n = l /\ a = k \o c /\ Len(v) = l + r /\ r \in Nat /\ r <= m /\ l + r <= l + m
        BY <2>9, <2>1, <2>2, <2>3
      <3>2. \A i \in 1..r : s[i] \in Int
        BY <2>2, <2>7, <3>1
      <3> HIDE DEF r
      <3>3. c \in Seq(Int) /\ Len(c) = r /\ \A i \in 1..r : c[i] = s[i]
        BY <3>1, <3>2, SubSeqProperties
      <3> HIDE DEF c
      <3>4. /\ Len(k \o c) = l + r
            /\ \A i \in 1..(l + r) : (k \o c)[i] = IF i <= l THEN k[i] ELSE c[i - l]
        BY <2>5, <3>1, <3>3
      <3>5. ASSUME NEW i \in 1..(l + r) PROVE (k \o c)[i] = v[i]
        <4>1. i \in 1..(l + m) /\ i \in 1..Len(v)
          BY <2>2, <3>1
        <4>2. CASE i <= l
          <5>1. i \in 1..n
            BY <2>2, <3>1, <4>2
          <5> QED BY <2>4, <3>1, <3>4, <4>1, <4>2, <5>1
        <4>3. CASE ~(i <= l)
          <5>1. i - l \in 1..r
            BY <2>2, <3>1, <4>3
          <5> QED BY <2>4, <3>3, <3>4, <4>1, <4>3, <5>1
        <4> QED BY <4>2, <4>3
      <3> QED BY <3>1, <3>4, <3>5
    <2>10. CASE l < M /\ ~(m > M - l)
      <3>1. n = l /\ a = k \o s /\ Len(v) = l + m
        BY <2>10, <2>1, <2>2, <2>3
      <3>2. /\ Len(k \o s) = l + m
            /\ \A i \in 1..(l + m) : (k \o s)[i] = IF i <= l THEN k[i] ELSE s[i - l]
        BY <2>5, <3>1 DEF m
      <3>3. ASSUME NEW i \in 1..(l + m) PROVE (k \o s)[i] = v[i]
        <4>1. i \in 1..Len(v)
          BY <3>1
        <4>2. i <= l => i \in 1..n
          BY <2>2, <3>1
        <4> QED BY <2>4, <3>2, <4>1, <4>2
      <3> QED BY <3>1, <3>2, <3>3
    <2> QED BY <2>8, <2>9, <2>10, <2>2
  <1> HIDE DEF a
  <1>6. a = v
    BY <1>3, <1>4, <1>5, SeqEqual
  <1> QED BY <1>6 DEF a, v, w, k

(* What a test said, event by event. *)
SaidStep(p, t) ==
  [x \in Seq(Int) \X event |->
     IF x[2] \in By(p, t) THEN x[1] \o x[2].Output.text ELSE x[1]]

(* What a test said is a fold over the stream. *)
LEMMA SaidStepType ==
  ASSUME NEW p, NEW t
  PROVE  /\ SaidStep(p, t) \in [Seq(Int) \X event -> Seq(Int)]
         /\ \A x \in Seq(Int), ev \in event :
              SaidStep(p, t)[<<x, ev>>] = IF ev \in By(p, t) THEN x \o ev.Output.text ELSE x
  <1>1. \A x \in Seq(Int), ev \in event : x \o ev.Output.text \in Seq(Int)
    BY EventFields, ConcatProperties
  <1> QED BY <1>1 DEF SaidStep

(* What a test has said is a fold of the events. *)
LEMMA SaidFolded ==
  ASSUME NEW evs \in Seq(event), NEW p, NEW t
  PROVE  Folded(Said(evs, p, t), Seq(Int), <<>>, SaidStep(p, t), evs)
  <1> DEFINE V == Seq(Int)
             I == SUBSET DOMAIN evs
             step == SaidStep(p, t)
             Folds(f) == f = [s \in I |->
                           IF s = {} THEN <<>>
                           ELSE IF evs[Max(s)] \in By(p, t)
                                THEN f[s \ {Max(s)}] \o evs[Max(s)].Output.text
                                ELSE f[s \ {Max(s)}]]
             F == CHOOSE f : Folds(f)
  <1>1. Said(evs, p, t) = F[DOMAIN evs]
    BY DEF Said, FoldLeft, MapThenFoldSet
  <1>2. /\ step \in [V \X event -> V]
        /\ \A x \in V, ev \in event :
             step[<<x, ev>>] = IF ev \in By(p, t) THEN x \o ev.Output.text ELSE x
    <2>1. step \in [V \X event -> V]
      BY SaidStepType
    <2>2. \A x \in V, ev \in event :
            step[<<x, ev>>] = IF ev \in By(p, t) THEN x \o ev.Output.text ELSE x
      BY DEF SaidStep
    <2> QED BY <2>1, <2>2
  <1>3. <<>> \in V
    OBVIOUS
  <1> HIDE DEF step, V
  <1>4. \A s \in I : s # {} => evs[Max(s)] \in event /\ s \ {Max(s)} \in I
    BY LastElement
  <1>5. PICK G \in [I -> V] : IsFoldLeft(G, <<>>, step, evs)
    BY <1>2, <1>3, FoldLeftExists
  <1>6. Folds(G)
    <2>1. \A s \in I : s # {} =>
            step[<<G[s \ {Max(s)}], evs[Max(s)]>>] =
              IF evs[Max(s)] \in By(p, t)
              THEN G[s \ {Max(s)}] \o evs[Max(s)].Output.text
              ELSE G[s \ {Max(s)}]
      BY <1>2, <1>4
    <2> QED BY <1>5, <2>1 DEF IsFoldLeft
  <1>7. Folds(F)
    BY <1>6
  <1> HIDE DEF F
  <1>8. /\ F[{}] = <<>>
        /\ \A s \in I : s # {} /\ F[s \ {Max(s)}] \in V =>
             F[s] = step[<<F[s \ {Max(s)}], evs[Max(s)]>>]
    BY <1>2, <1>4, <1>7
  <1>9. Folded(F[DOMAIN evs], V, <<>>, step, evs)
    BY <1>2, <1>8, <1>3, FoldLeftFolded
  <1> QED BY <1>1, <1>9 DEF step, V

(* What a test has said in no stream, and in a stream of one event more. *)
LEMMA SaidOfNone == ASSUME NEW p, NEW t PROVE Said(<<>>, p, t) = <<>>
  <1>1. <<>> \in Seq(event)
    OBVIOUS
  <1> QED BY <1>1, SaidFolded, FoldedOfNone

(* An event of the test adds its text, another one nothing. *)
LEMMA SaidOfMore ==
  ASSUME NEW evs \in Seq(event), NEW ev \in event, NEW p, NEW t
  PROVE  /\ Said(evs, p, t) \in Seq(Int)
         /\ Said(Append(evs, ev), p, t) =
              IF ev \in By(p, t) THEN Said(evs, p, t) \o ev.Output.text ELSE Said(evs, p, t)
  <1>1. Append(evs, ev) \in Seq(event)
    BY AppendProperties
  <1>2. /\ Folded(Said(evs, p, t), Seq(Int), <<>>, SaidStep(p, t), evs)
        /\ Folded(Said(Append(evs, ev), p, t), Seq(Int), <<>>, SaidStep(p, t), Append(evs, ev))
    BY <1>1, SaidFolded
  <1>3. /\ Said(evs, p, t) \in Seq(Int)
        /\ Said(Append(evs, ev), p, t) = SaidStep(p, t)[<<Said(evs, p, t), ev>>]
    BY <1>2, FoldedOfMore
  <1> QED BY <1>3, SaidStepType

(* One event and the texts of an aggregate. *)
LEMMA ApplyText ==
  ASSUME NEW a \in Aggregate, NEW ev \in event, NEW t \in Top
  PROVE  applyEvent(a, ev).failOutput[t] =
           IF ev.Action = "output" /\ ev.Test # <<>> /\ topLevel(ev.Test) = t
           THEN appendBounded(a.failOutput[t], ev.Output.text)
           ELSE a.failOutput[t]
  <1>1. CASE ev.Action = "output" /\ ev.Test # <<>>
    <2>1. applyEvent(a, ev) = captureOutput(a, topLevel(ev.Test), ev.Output)
      BY <1>1 DEF applyEvent, applyTestEvent
    <2> QED BY <1>1, <2>1 DEF captureOutput, Aggregate
  <1>2. CASE ~(ev.Test # <<>> /\ ev.Action = "output")
    <2>1. CASE ev.Test = <<>>
      BY <1>2, <2>1, PackageEventType DEF applyEvent
    <2>2. CASE ev.Test # <<>>
      <3>1. applyEvent(a, ev) = applyTestEvent(a, ev) /\ ev.Action # "output"
        BY <1>2, <2>2 DEF applyEvent
      <3>2. \A u : /\ onRun(a, u).failOutput = a.failOutput
                  /\ onFail(a, u).failOutput = a.failOutput
        BY DEF onRun, onFail, Aggregate
      <3>3. \A n : /\ onPass(a, n).failOutput = a.failOutput
                  /\ onSkip(a, n).failOutput = a.failOutput
        BY DEF onPass, onSkip, Aggregate
      <3>4. applyTestEvent(a, ev).failOutput = a.failOutput
        BY <3>1, <3>2, <3>3 DEF applyTestEvent
      <3> QED BY <1>2, <3>1, <3>4
    <2> QED BY <2>1, <2>2
  <1> QED BY <1>1, <1>2

(* What is kept of every test is the beginning of what it said. *)
TextsExact ==
  /\ stream \in Seq(event)
  /\ \A p \in Pkg, t \in Top : getPkg(p).failOutput[t] = Beginning(Said(stream, p, t))

(* Reading one event more keeps the texts exact. *)
LEMMA TextsStep ==
  ASSUME ParserTypeOK, TextsExact, [StreamNext]_streamVars
  PROVE  TextsExact'
  <1>1. ASSUME NEW ev \in Alphabet, Read(ev)
        PROVE  TextsExact'
    <2>1. ev \in event /\ Scan(ev) /\ stream' = Append(stream, ev)
      BY <1>1, StreamAssumption DEF Read
    <2>2. stream \in Seq(event) /\ stream' \in Seq(event)
      BY <2>1, AppendProperties DEF TextsExact
    <2>3. ASSUME NEW p \in Pkg, NEW t \in Top
          PROVE  getPkg(p)'.failOutput[t] = Beginning(Said(stream', p, t))
      <3> DEFINE all == Said(stream, p, t)
                 a == getPkg(p)
      <3>1. getPkg(p)' = IF ev.Package = p THEN applyEvent(a, ev) ELSE a
        BY <2>1, ScanOf
      <3>2. /\ all \in Seq(Int)
            /\ Said(stream', p, t) = IF ev \in By(p, t) THEN all \o ev.Output.text ELSE all
        BY <2>1, <2>2, SaidOfMore
      <3>3. a \in Aggregate /\ a.failOutput[t] = Beginning(all) /\ ev.Output.text \in Seq(Int)
        BY <2>1, AggregateOf, EventFields DEF TextsExact
      <3>4. ev \in By(p, t) <=> /\ ev.Package = p
                                /\ ev.Action = "output" /\ ev.Test # <<>> /\ topLevel(ev.Test) = t
        BY <2>1 DEF By
      <3> HIDE DEF a, all
      <3>5. CASE ev \in By(p, t)
        <4>1. getPkg(p)'.failOutput[t] = appendBounded(a.failOutput[t], ev.Output.text)
          BY <2>1, <3>1, <3>3, <3>4, <3>5, ApplyText
        <4>2. appendBounded(Beginning(all), ev.Output.text) = Beginning(all \o ev.Output.text)
          BY <3>2, <3>3, BeginningOfMore
        <4> QED BY <3>2, <3>3, <3>5, <4>1, <4>2
      <3>6. CASE ev \notin By(p, t)
        <4>1. getPkg(p)'.failOutput[t] = a.failOutput[t]
          BY <2>1, <3>1, <3>3, <3>4, <3>6, ApplyText
        <4> QED BY <3>2, <3>3, <3>6, <4>1
      <3> QED BY <3>5, <3>6
    <2> QED BY <2>2, <2>3 DEF TextsExact
  <1>2. CASE (Finish /\ UNCHANGED stream) \/ (ScanError /\ UNCHANGED stream)
             \/ UNCHANGED streamVars
    <2>1. pkgs' = pkgs /\ stream' = stream
      BY <1>2 DEF Finish, ScanError, streamVars, parserVars
    <2> QED BY <2>1 DEF TextsExact, getPkg
  <1> QED BY <1>1, <1>2 DEF StreamNext

(* A text that TrimRight made of the beginning kept of another. *)
LEMMA TrimmedText ==
  ASSUME NEW kept \in Seq(Int), NEW out, out = TrimRight(kept)
  PROVE  /\ IsPrefix(out, kept)
         /\ \A k \in Len(out) + 1 .. Len(kept) : kept[k] = 10
         /\ out # <<>> => Last(out) # 10
  <1>1. /\ out \in Seq(Int) /\ Len(out) <= Len(kept)
        /\ out = SubSeq(kept, 1, Len(out))
        /\ \A k \in Len(out) + 1 .. Len(kept) : kept[k] = 10
        /\ out # <<>> => out[Len(out)] # 10
    BY TrimRightOf
  <1>2. SubSeq(out, 1, Len(out)) = out
    BY <1>1
  <1> QED BY <1>1, <1>2 DEF IsPrefix, Last

(* Whatever events are read: the output reported with a failure is the
   beginning of what that test and its subtests printed, in that order, up to
   the bound and without the newlines it would end in. *)
THEOREM OutputIsExact == StreamSpec => []OutputExact
  <1>1. StreamInit => TextsExact
    <2> SUFFICES ASSUME StreamInit, NEW p \in Pkg, NEW t \in Top
                 PROVE  getPkg(p).failOutput[t] = Beginning(Said(stream, p, t))
      BY DEF StreamInit, TextsExact
    <2>1. stream = <<>> /\ getPkg(p) = newPkgAgg
      BY DEF StreamInit, ParserInit, getPkg
    <2>2. Said(stream, p, t) = <<>>
      BY <2>1, SaidOfNone
    <2>3. newPkgAgg.failOutput[t] = <<>>
      BY DEF newPkgAgg
    <2>4. Beginning(<<>>) = <<>>
      <3>1. Len(<<>>) = 0 /\ ~(0 > maxFailureOutputBytes)
        BY ParserAssumption
      <3>2. SubSeq(<<>>, 1, 0) = <<>>
        BY SubSeqEmpty
      <3> QED BY <3>1, <3>2 DEF Beginning
    <2> QED BY <2>1, <2>2, <2>3, <2>4
  <1>2. ParserTypeOK /\ FailureBookkeeping /\ ResultOfAggregates /\ TextsExact => OutputExact
    <2> SUFFICES ASSUME ParserTypeOK, FailureBookkeeping, TextsExact,
                        res = ParseResult(pkgs, Panicked),
                        NEW i \in DOMAIN res.Failures
                 PROVE  LET f    == res.Failures[i]
                            kept == Beginning(Said(stream, f.Package, f.Test))
                        IN  /\ IsPrefix(f.Output, kept)
                            /\ \A k \in Len(f.Output) + 1 .. Len(kept) : kept[k] = 10
                            /\ f.Output # <<>> => Last(f.Output) # 10
      BY DEF ResultOfAggregates, OutputExact, Beginning
    <2> DEFINE f == res.Failures[i]
               p == f.Package
               t == f.Test
    <2>1. AccountsFor(res, pkgs, DOMAIN pkgs)
      BY ParseResultIs DEF ParserTypeOK, FailureBookkeeping
    <2>2. f \in {FailureOf(pkgs, pt) : pt \in FailedIn(pkgs, DOMAIN pkgs)}
      BY <2>1 DEF AccountsFor, FailuresReported, ToSet
    <2>3. p \in DOMAIN pkgs /\ t \in Top /\ f.Output = TrimRight(pkgs[p].failOutput[t])
      <3>1. PICK pt \in FailedIn(pkgs, DOMAIN pkgs) : f = FailureOf(pkgs, pt)
        BY <2>2
      <3>2. pt[1] \in DOMAIN pkgs /\ pt[2] \in Top
        BY DEF FailedIn
      <3> HIDE DEF f
      <3> QED BY <3>1, <3>2 DEF FailureOf
    <2> HIDE DEF p, t, f
    <2>4. p \in Pkg /\ getPkg(p) = pkgs[p] /\ pkgs[p] \in Aggregate
      BY <2>3 DEF ParserTypeOK, getPkg
    <2>5. pkgs[p].failOutput[t] = Beginning(Said(stream, p, t)) /\ pkgs[p].failOutput[t] \in Seq(Int)
      BY <2>3, <2>4, AggregateFields DEF TextsExact
    <2> DEFINE kept == Beginning(Said(stream, p, t))
               out == f.Output
    <2>6. kept \in Seq(Int) /\ out = TrimRight(kept)
      BY <2>3, <2>5
    <2> HIDE DEF kept, out
    <2>7. /\ IsPrefix(out, kept)
          /\ \A k \in Len(out) + 1 .. Len(kept) : kept[k] = 10
          /\ out # <<>> => Last(out) # 10
      BY <2>6, TrimmedText
    <2> QED BY <2>7 DEF kept, out, f, p, t
  <1>3. ParserTypeOK /\ TextsExact /\ [StreamNext]_streamVars => TextsExact'
    BY TextsStep
  <1> QED BY <1>1, <1>2, <1>3, StreamIsParser, ParserTypeCorrect, FailuresBookkept,
             ResultIsOfAggregates, PTL DEF StreamSpec

-----------------------------------------------------------------------------
(* TestRun: the aggregates against what really happened in the process. *)

(* A predicate for each package: its aggregate matches its process. *)
TrueVerdict(p, t) ==
  IF t \in hadFail[p] THEN "failed"
  ELSE IF firstEnd[p][t] = "pass" THEN "passed"
  ELSE IF firstEnd[p][t] = "skip" THEN "skipped" ELSE "none"

Matches(p) ==
  /\ p \in DOMAIN pkgs <=> proc[p] # "idle"
  /\ \A t \in Top : VerdictOf(getPkg(p), t) = TrueVerdict(p, t)
  /\ getPkg(p).pkgFailed <=> outcome[p] \in {"fail", "broken"}
  /\ getPkg(p).sawAnyTest <=> ~NoTestYet(p)
  /\ getPkg(p).pkgCompile <=> p \in announced \/ (outcome[p] = "fail" /\ NoTestYet(p))
  /\ proc[p] = "broken" \/ outcome[p] = "broken" => p \in announced
  /\ proc[p] = "idle" => p \notin announced
  /\ proc[p] \in {"idle", "broken"} => NoTestYet(p)
  /\ outcome[p] # "none" <=> proc[p] = "done"

ProcessTypeOK ==
  /\ proc \in [Pkg -> {"idle", "running", "broken", "done"}]
  /\ tst \in [Pkg -> [TestName -> {"idle", "running", "pass", "fail", "skip"}]]
  /\ outcome \in [Pkg -> {"none", "pass", "fail", "skip", "broken"}]
  /\ hadFail \in [Pkg -> SUBSET Top]
  /\ firstEnd \in [Pkg -> [Top -> {"none", "pass", "skip"}]]
  /\ announced \in SUBSET Pkg

(* Only package p and its process move. *)
Local(p) ==
  \A q \in Pkg : q # p =>
    /\ proc'[q] = proc[q] /\ tst'[q] = tst[q] /\ outcome'[q] = outcome[q]
    /\ hadFail'[q] = hadFail[q] /\ firstEnd'[q] = firstEnd[q]
    /\ q \in announced' <=> q \in announced

(* What reading an event of package p does to the packages. *)
Alone(p) ==
  /\ DOMAIN pkgs' = DOMAIN pkgs \cup {p}
  /\ \A q \in Pkg : q # p => getPkg(q)' = getPkg(q)

Follows(p, ev) ==
  /\ Alone(p)
  /\ \A t \in Top :
       VerdictOf(getPkg(p)', t) = VerdictAfter(VerdictOf(getPkg(p), t), ev, t)
  /\ getPkg(p)'.sawAnyTest <=> getPkg(p).sawAnyTest \/ AboutTest(ev)
  /\ getPkg(p)'.pkgCompile <=> getPkg(p).pkgCompile \/ (~getPkg(p).sawAnyTest /\ Breaks(ev))
  /\ getPkg(p)'.pkgFailed <=> getPkg(p).pkgFailed \/ (ev.Test = <<>> /\ ev.Action = "fail")

(* Reading an event of a package does what Follows says. *)
LEMMA ScanAt ==
  ASSUME ParserTypeOK, NEW p \in Pkg, NEW ev \in event, ev.Package = p, Scan(ev)
  PROVE  Follows(p, ev)
  <1> DEFINE a == getPkg(p)
             b == applyEvent(a, ev)
  <1>1. a \in Aggregate
    BY AggregateOf
  <1>2. getPkg(p)' = b /\ \A q \in Pkg : q # p => getPkg(q)' = getPkg(q)
    BY ScanOf
  <1>3. DOMAIN pkgs' = DOMAIN pkgs \cup {p}
    BY ParserAssumption DEF Scan, Put
  <1> HIDE DEF a
  <1>4. \A t \in Top : VerdictOf(b, t) = VerdictAfter(VerdictOf(a, t), ev, t)
    BY <1>1, ApplyVerdictExact
  <1>5. /\ b.sawAnyTest <=> a.sawAnyTest \/ AboutTest(ev)
        /\ b.pkgCompile <=> a.pkgCompile \/ (~a.sawAnyTest /\ Breaks(ev))
    BY <1>1, ApplyBits
  <1>6. b.pkgFailed <=> a.pkgFailed \/ (ev.Test = <<>> /\ ev.Action = "fail")
    BY <1>1, ApplyPkgFailed, AggregateFields
  <1> HIDE DEF b
  <1> QED BY <1>2, <1>3, <1>4, <1>5, <1>6 DEF a, Follows, Alone

(* The events of the process are events. *)
LEMMA EventType ==
  ASSUME NEW a \in Action, NEW p \in Pkg, NEW n \in TestName \cup {<<>>}, NEW o \in Output
  PROVE  /\ Event(a, p, n, o) \in event
         /\ Event(a, p, n, o).Action = a /\ Event(a, p, n, o).Package = p
         /\ Event(a, p, n, o).Test = n /\ Event(a, p, n, o).Output = o
  BY DEF Event, event, Test, TestName

(* The event the process emits, as the parser reads it. *)
LEMMA EventRead ==
  ASSUME ParserTypeOK, NEW a \in Action, NEW p \in Pkg, NEW n \in TestName \cup {<<>>},
         NEW o \in Output, Scan(Event(a, p, n, o))
  PROVE  \E ev \in event : /\ ev.Action = a /\ ev.Test = n /\ ev.Output = o
                           /\ Follows(p, ev)
  <1> DEFINE ev == Event(a, p, n, o)
  <1>1. ev \in event /\ ev.Action = a /\ ev.Package = p /\ ev.Test = n /\ ev.Output = o
    BY EventType
  <1> HIDE DEF ev
  <1>2. Follows(p, ev)
    BY <1>1, ScanAt DEF ev
  <1> QED BY <1>1, <1>2

(* The names of a top-level test and of its subtest. *)
LEMMA TestNames ==
  ASSUME NEW n \in TestName
  PROVE  /\ n # <<>> /\ topLevel(n) = n[1] /\ n[1] \in Top /\ <<n[1]>> \in TestName
         /\ IsTop(n) <=> Len(n) = 1
         /\ IsTop(n) => n = <<n[1]>>
  BY DEF TestName, topLevel, IsTop

(* Packages that do not move keep matching. *)
LEMMA OthersMatch ==
  ASSUME NEW p \in Pkg, Local(p), Alone(p), NEW q \in Pkg, q # p, Matches(q)
  PROVE  Matches(q)'
  <1>1. /\ proc'[q] = proc[q] /\ tst'[q] = tst[q] /\ outcome'[q] = outcome[q]
        /\ hadFail'[q] = hadFail[q] /\ firstEnd'[q] = firstEnd[q] /\ getPkg(q)' = getPkg(q)
        /\ q \in announced' <=> q \in announced
        /\ q \in DOMAIN pkgs' <=> q \in DOMAIN pkgs
    BY DEF Local, Alone
  <1>2. (\A t \in Top : VerdictOf(getPkg(q), t) = TrueVerdict(q, t))'
    BY <1>1 DEF Matches, TrueVerdict
  <1>3. NoTestYet(q)' <=> NoTestYet(q)
    BY <1>1 DEF NoTestYet
  <1> QED BY <1>1, <1>2, <1>3 DEF Matches

(* A package starts. *)
LEMMA StartMatches ==
  ASSUME ParserTypeOK, ProcessTypeOK, NEW p \in Pkg, Start(p), Matches(p)
  PROVE  Local(p) /\ Alone(p) /\ ProcessTypeOK' /\ Matches(p)'
  <1>1. PICK ev \in event : ev.Action = "start" /\ ev.Test = <<>> /\ Follows(p, ev)
    <2>1. "start" \in Action /\ <<>> \in TestName \cup {<<>>} /\ PlainText \in Output
      BY TestRunAssumption DEF Action
    <2>2. Scan(Event("start", p, <<>>, PlainText))
      BY DEF Start
    <2> QED BY <2>1, <2>2, EventRead
  <1>2. /\ proc[p] = "idle" /\ proc'[p] = "running"
        /\ tst' = tst /\ outcome' = outcome /\ hadFail' = hadFail /\ firstEnd' = firstEnd
        /\ announced' = announced
        /\ ProcessTypeOK' /\ Local(p)
    BY DEF Start, GoStart, ProcessTypeOK, Local
  <1>3. ~AboutTest(ev) /\ ~Breaks(ev) /\ \A v, t : VerdictAfter(v, ev, t) = v
    BY <1>1 DEF AboutTest, Breaks, VerdictAfter
  <1>4. /\ Alone(p) /\ p \in DOMAIN pkgs'
        /\ \A t \in Top : VerdictOf(getPkg(p)', t) = VerdictOf(getPkg(p), t)
        /\ getPkg(p)'.sawAnyTest <=> getPkg(p).sawAnyTest
        /\ getPkg(p)'.pkgCompile <=> getPkg(p).pkgCompile
        /\ getPkg(p)'.pkgFailed <=> getPkg(p).pkgFailed
    BY <1>1, <1>3 DEF Follows, Alone
  <1>5. (\A t \in Top : VerdictOf(getPkg(p), t) = TrueVerdict(p, t))'
    BY <1>2, <1>4 DEF Matches, TrueVerdict
  <1>6. NoTestYet(p)' <=> NoTestYet(p)
    BY <1>2 DEF NoTestYet
  <1> QED BY <1>2, <1>4, <1>5, <1>6 DEF Matches

(* A package does not build: the line that says so. *)
LEMMA BuildOutputMatches ==
  ASSUME ParserTypeOK, ProcessTypeOK, NEW p \in Pkg, BuildOutput(p), Matches(p)
  PROVE  Local(p) /\ Alone(p) /\ ProcessTypeOK' /\ Matches(p)'
  <1>1. PICK ev \in event : /\ ev.Action = "output" /\ ev.Test = <<>> /\ ev.Output = BuildText
                            /\ Follows(p, ev)
    <2>1. "output" \in Action /\ <<>> \in TestName \cup {<<>>} /\ BuildText \in Output
      BY TestRunAssumption DEF Action
    <2>2. Scan(Event("output", p, <<>>, BuildText))
      BY DEF BuildOutput
    <2> QED BY <2>1, <2>2, EventRead
  <1>2. /\ proc[p] = "idle" /\ proc'[p] = "broken"
        /\ tst' = tst /\ outcome' = outcome /\ hadFail' = hadFail /\ firstEnd' = firstEnd
        /\ announced' = announced \cup {p}
        /\ ProcessTypeOK' /\ Local(p)
    BY DEF BuildOutput, GoBuildOutput, ProcessTypeOK, Local
  <1>3. ~AboutTest(ev) /\ Breaks(ev) /\ \A v, t : VerdictAfter(v, ev, t) = v
    BY <1>1, TestRunAssumption DEF AboutTest, Breaks, VerdictAfter
  <1>4. /\ Alone(p) /\ p \in DOMAIN pkgs'
        /\ \A t \in Top : VerdictOf(getPkg(p)', t) = VerdictOf(getPkg(p), t)
        /\ getPkg(p)'.sawAnyTest <=> getPkg(p).sawAnyTest
        /\ getPkg(p)'.pkgCompile <=> getPkg(p).pkgCompile \/ ~getPkg(p).sawAnyTest
        /\ getPkg(p)'.pkgFailed <=> getPkg(p).pkgFailed
    BY <1>1, <1>3 DEF Follows, Alone
  <1>5. (\A t \in Top : VerdictOf(getPkg(p), t) = TrueVerdict(p, t))'
    BY <1>2, <1>4 DEF Matches, TrueVerdict
  <1>6. NoTestYet(p) /\ NoTestYet(p)'
    BY <1>2 DEF NoTestYet, Matches
  <1> QED BY <1>2, <1>4, <1>5, <1>6 DEF Matches

(* The end of a package that did not build. *)
LEMMA BuildEndMatches ==
  ASSUME ParserTypeOK, ProcessTypeOK, NEW p \in Pkg, BuildEnd(p), Matches(p)
  PROVE  Local(p) /\ Alone(p) /\ ProcessTypeOK' /\ Matches(p)'
  <1>1. PICK ev \in event : ev.Action = "fail" /\ ev.Test = <<>> /\ Follows(p, ev)
    <2>1. "fail" \in Action /\ <<>> \in TestName \cup {<<>>} /\ PlainText \in Output
      BY TestRunAssumption DEF Action
    <2>2. Scan(Event("fail", p, <<>>, PlainText))
      BY DEF BuildEnd
    <2> QED BY <2>1, <2>2, EventRead
  <1>2. /\ proc[p] = "broken" /\ proc'[p] = "done" /\ outcome'[p] = "broken"
        /\ tst' = tst /\ hadFail' = hadFail /\ firstEnd' = firstEnd
        /\ announced' = announced
        /\ ProcessTypeOK' /\ Local(p)
    BY DEF BuildEnd, GoBuildEnd, ProcessTypeOK, Local
  <1>3. ~AboutTest(ev) /\ Breaks(ev) /\ \A v, t : VerdictAfter(v, ev, t) = v
    BY <1>1 DEF AboutTest, Breaks, VerdictAfter
  <1>4. /\ Alone(p) /\ p \in DOMAIN pkgs'
        /\ \A t \in Top : VerdictOf(getPkg(p)', t) = VerdictOf(getPkg(p), t)
        /\ getPkg(p)'.sawAnyTest <=> getPkg(p).sawAnyTest
        /\ getPkg(p)'.pkgCompile <=> getPkg(p).pkgCompile \/ ~getPkg(p).sawAnyTest
        /\ getPkg(p)'.pkgFailed
    BY <1>1, <1>3 DEF Follows, Alone
  <1>5. (\A t \in Top : VerdictOf(getPkg(p), t) = TrueVerdict(p, t))'
    BY <1>2, <1>4 DEF Matches, TrueVerdict
  <1>6. NoTestYet(p) /\ NoTestYet(p)' /\ ~getPkg(p).sawAnyTest
    BY <1>2 DEF NoTestYet, Matches
  <1> QED BY <1>2, <1>4, <1>5, <1>6 DEF Matches

(* The end of a package that was built or has no tests. *)
LEMMA PkgEndMatches ==
  ASSUME ParserTypeOK, ProcessTypeOK, NEW p \in Pkg, NEW how \in {"pass", "fail", "skip"},
         PkgEnd(p, how), Matches(p)
  PROVE  Local(p) /\ Alone(p) /\ ProcessTypeOK' /\ Matches(p)'
  <1>1. PICK ev \in event : ev.Action = how /\ ev.Test = <<>> /\ Follows(p, ev)
    <2>1. how \in Action /\ <<>> \in TestName \cup {<<>>} /\ PlainText \in Output
      BY TestRunAssumption DEF Action
    <2>2. Scan(Event(how, p, <<>>, PlainText))
      BY DEF PkgEnd
    <2> QED BY <2>1, <2>2, EventRead
  <1>2. /\ proc[p] \in {"idle", "running"} /\ proc'[p] = "done" /\ outcome'[p] = how
        /\ tst' = tst /\ hadFail' = hadFail /\ firstEnd' = firstEnd
        /\ announced' = announced
    BY DEF PkgEnd, GoPkgEnd, ProcessTypeOK
  <1>3. ProcessTypeOK' /\ Local(p)
    BY DEF PkgEnd, GoPkgEnd, ProcessTypeOK, Local
  <1>4. ~AboutTest(ev) /\ (Breaks(ev) <=> how = "fail") /\ \A v, t : VerdictAfter(v, ev, t) = v
    BY <1>1 DEF AboutTest, Breaks, VerdictAfter
  <1>5. /\ Alone(p) /\ p \in DOMAIN pkgs'
        /\ \A t \in Top : VerdictOf(getPkg(p)', t) = VerdictOf(getPkg(p), t)
        /\ getPkg(p)'.sawAnyTest <=> getPkg(p).sawAnyTest
        /\ getPkg(p)'.pkgCompile <=> getPkg(p).pkgCompile \/ (~getPkg(p).sawAnyTest /\ how = "fail")
        /\ getPkg(p)'.pkgFailed <=> getPkg(p).pkgFailed \/ how = "fail"
    BY <1>1, <1>4 DEF Follows, Alone
  <1>6. (\A t \in Top : VerdictOf(getPkg(p), t) = TrueVerdict(p, t))'
    BY <1>2, <1>5 DEF Matches, TrueVerdict
  <1>7. NoTestYet(p)' <=> NoTestYet(p)
    BY <1>2 DEF NoTestYet
  <1>8. /\ outcome[p] = "none" /\ ~getPkg(p).pkgFailed
        /\ getPkg(p).pkgCompile <=> p \in announced
    BY <1>2 DEF Matches, ProcessTypeOK
  <1> QED BY <1>2, <1>5, <1>6, <1>7, <1>3, <1>8 DEF Matches

(* While a package runs, it has neither ended nor broken. *)
LEMMA RunningPackage ==
  ASSUME ProcessTypeOK, NEW p \in Pkg, proc[p] = "running", Matches(p)
  PROVE  /\ outcome[p] = "none" /\ p \in DOMAIN pkgs
         /\ getPkg(p).pkgCompile <=> p \in announced
         /\ ~getPkg(p).pkgFailed
  BY DEF Matches, ProcessTypeOK

(* A top-level test starts, or starts again. *)
LEMMA RunTopMatches ==
  ASSUME ParserTypeOK, ProcessTypeOK, NEW p \in Pkg, NEW t \in Top, RunTop(p, t), Matches(p)
  PROVE  Local(p) /\ Alone(p) /\ ProcessTypeOK' /\ Matches(p)'
  <1>1. PICK ev \in event : ev.Action = "run" /\ ev.Test = <<t>> /\ Follows(p, ev)
    <2>1. "run" \in Action /\ PlainText \in Output
      BY TestRunAssumption DEF Action
    <2>2. <<t>> \in TestName \cup {<<>>}
      BY DEF TestName
    <2>3. Scan(Event("run", p, <<t>>, PlainText))
      BY DEF RunTop
    <2> QED BY <2>1, <2>2, <2>3, EventRead
  <1>2. /\ proc[p] = "running" /\ proc' = proc
        /\ outcome' = outcome /\ hadFail' = hadFail /\ firstEnd' = firstEnd
        /\ announced' = announced
    BY DEF RunTop, GoRunTop
  <1>3. ProcessTypeOK' /\ Local(p)
    <2> DEFINE f == [n \in TestName |-> IF n = <<t>> THEN "running"
                                        ELSE IF n \in SubsOf(t) THEN "idle" ELSE tst[p][n]]
    <2>1. tst' = [tst EXCEPT ![p] = f]
      BY DEF RunTop, GoRunTop
    <2>2. f \in [TestName -> {"idle", "running", "pass", "fail", "skip"}]
      BY DEF ProcessTypeOK
    <2> HIDE DEF f
    <2> QED BY <1>2, <2>1, <2>2 DEF ProcessTypeOK, Local
  <1>4. AboutTest(ev) /\ ~Breaks(ev) /\ \A v, u : VerdictAfter(v, ev, u) = v
    BY <1>1 DEF AboutTest, Breaks, VerdictAfter
  <1>5. /\ Alone(p) /\ p \in DOMAIN pkgs'
        /\ \A u \in Top : VerdictOf(getPkg(p)', u) = VerdictOf(getPkg(p), u)
        /\ getPkg(p)'.sawAnyTest
        /\ getPkg(p)'.pkgCompile <=> getPkg(p).pkgCompile
        /\ getPkg(p)'.pkgFailed <=> getPkg(p).pkgFailed
    BY <1>1, <1>4 DEF Follows, Alone
  <1>6. (\A u \in Top : VerdictOf(getPkg(p), u) = TrueVerdict(p, u))'
    BY <1>2, <1>5 DEF Matches, TrueVerdict
  <1>7. ~NoTestYet(p)'
    <2>1. <<t>> \in TestName
      BY DEF TestName
    <2>2. tst'[p][<<t>>] = "running"
      BY <2>1 DEF RunTop, GoRunTop, ProcessTypeOK
    <2> QED BY <2>1, <2>2 DEF NoTestYet
  <1> QED BY <1>2, <1>3, <1>5, <1>6, <1>7, RunningPackage DEF Matches

(* A subtest starts. *)
LEMMA RunSubMatches ==
  ASSUME ParserTypeOK, ProcessTypeOK, NEW p \in Pkg, NEW n \in TestName, RunSub(p, n), Matches(p)
  PROVE  Local(p) /\ Alone(p) /\ ProcessTypeOK' /\ Matches(p)'
  <1>1. PICK ev \in event : ev.Action = "run" /\ ev.Test = n /\ Follows(p, ev)
    <2>1. "run" \in Action /\ n \in TestName \cup {<<>>} /\ PlainText \in Output
      BY TestRunAssumption DEF Action
    <2>2. Scan(Event("run", p, n, PlainText))
      BY DEF RunSub
    <2> QED BY <2>1, <2>2, EventRead
  <1>2. /\ proc[p] = "running" /\ proc' = proc
        /\ outcome' = outcome /\ hadFail' = hadFail /\ firstEnd' = firstEnd
        /\ announced' = announced
    BY DEF RunSub, GoRunSub
  <1>3. ProcessTypeOK' /\ Local(p)
    BY <1>2 DEF RunSub, GoRunSub, ProcessTypeOK, Local
  <1>4. AboutTest(ev) /\ ~Breaks(ev) /\ \A v, u : VerdictAfter(v, ev, u) = v
    BY <1>1, TestNames DEF AboutTest, Breaks, VerdictAfter
  <1>5. /\ Alone(p) /\ p \in DOMAIN pkgs'
        /\ \A u \in Top : VerdictOf(getPkg(p)', u) = VerdictOf(getPkg(p), u)
        /\ getPkg(p)'.sawAnyTest
        /\ getPkg(p)'.pkgCompile <=> getPkg(p).pkgCompile
        /\ getPkg(p)'.pkgFailed <=> getPkg(p).pkgFailed
    BY <1>1, <1>4 DEF Follows, Alone
  <1>6. (\A u \in Top : VerdictOf(getPkg(p), u) = TrueVerdict(p, u))'
    BY <1>2, <1>5 DEF Matches, TrueVerdict
  <1>7. ~NoTestYet(p)'
    <2>1. tst'[p][n] = "running"
      BY DEF RunSub, GoRunSub, ProcessTypeOK
    <2> QED BY <2>1 DEF NoTestYet
  <1> QED BY <1>2, <1>3, <1>5, <1>6, <1>7, RunningPackage DEF Matches

(* A test or subtest ends. *)
LEMMA EndMatches ==
  ASSUME ParserTypeOK, ProcessTypeOK, NEW p \in Pkg, NEW n \in TestName,
         NEW how \in {"pass", "fail", "skip"}, End(p, n, how), Matches(p)
  PROVE  Local(p) /\ Alone(p) /\ ProcessTypeOK' /\ Matches(p)'
  <1>1. PICK ev \in event : ev.Action = how /\ ev.Test = n /\ Follows(p, ev)
    <2>1. how \in Action /\ n \in TestName \cup {<<>>} /\ PlainText \in Output
      BY TestRunAssumption DEF Action
    <2>2. Scan(Event(how, p, n, PlainText))
      BY DEF End
    <2> QED BY <2>1, <2>2, EventRead
  <1>2. /\ proc[p] = "running" /\ proc' = proc /\ outcome' = outcome
        /\ announced' = announced
    BY DEF End, GoEnd, MayEnd
  <1>3. /\ n # <<>> /\ topLevel(n) = n[1] /\ n[1] \in Top
        /\ IsTop(n) <=> Len(n) = 1
    BY TestNames
  <1>4. /\ tst' = [tst EXCEPT ![p][n] = how]
        /\ hadFail' = IF how = "fail" THEN [hadFail EXCEPT ![p] = @ \cup {n[1]}] ELSE hadFail
        /\ firstEnd' = IF /\ Len(n) = 1 /\ how # "fail"
                          /\ firstEnd[p][n[1]] = "none" /\ n[1] \notin hadFail[p]
                       THEN [firstEnd EXCEPT ![p][n[1]] = how] ELSE firstEnd
    BY DEF End, GoEnd
  <1> DEFINE u == n[1]
             top == IsTop(n)
  <1>5. /\ hadFail'[p] = hadFail[p] \cup (IF how = "fail" THEN {u} ELSE {})
        /\ \A x \in Top : firstEnd'[p][x] =
             IF x = u /\ top /\ how # "fail" /\ firstEnd[p][u] = "none" /\ u \notin hadFail[p]
             THEN how ELSE firstEnd[p][x]
    BY <1>3, <1>4 DEF ProcessTypeOK
  <1>6. Local(p) /\ ProcessTypeOK'
    <2> HIDE DEF u, top
    <2>1. tst' \in [Pkg -> [TestName -> {"idle", "running", "pass", "fail", "skip"}]]
      BY <1>4 DEF ProcessTypeOK
    <2>2. hadFail' \in [Pkg -> SUBSET Top] /\ \A q \in Pkg : q # p => hadFail'[q] = hadFail[q]
      BY <1>3, <1>4 DEF ProcessTypeOK
    <2>3. /\ firstEnd' \in [Pkg -> [Top -> {"none", "pass", "skip"}]]
          /\ \A q \in Pkg : q # p => firstEnd'[q] = firstEnd[q]
      BY <1>3, <1>4 DEF ProcessTypeOK
    <2>4. \A q \in Pkg : q # p => tst'[q] = tst[q]
      BY <1>4 DEF ProcessTypeOK
    <2> QED BY <1>2, <2>1, <2>2, <2>3, <2>4 DEF ProcessTypeOK, Local
  <1>7. AboutTest(ev) /\ ~Breaks(ev)
    BY <1>1, <1>3 DEF AboutTest, Breaks
  <1>8. \A v, x : VerdictAfter(v, ev, x) =
          IF x # u THEN v
          ELSE IF how = "fail" THEN "failed"
          ELSE IF how = "pass" /\ top /\ v = "none" THEN "passed"
          ELSE IF how = "skip" /\ top /\ v = "none" THEN "skipped" ELSE v
    BY <1>1, <1>3 DEF VerdictAfter
  <1>9. /\ Alone(p) /\ p \in DOMAIN pkgs'
        /\ \A x \in Top : VerdictOf(getPkg(p)', x) = VerdictAfter(VerdictOf(getPkg(p), x), ev, x)
        /\ getPkg(p)'.sawAnyTest
        /\ getPkg(p)'.pkgCompile <=> getPkg(p).pkgCompile
        /\ getPkg(p)'.pkgFailed <=> getPkg(p).pkgFailed
    BY <1>1, <1>3, <1>7 DEF Follows, Alone
  <1> HIDE DEF u, top
  <1>10. \A x \in Top : VerdictAfter(TrueVerdict(p, x), ev, x) = TrueVerdict(p, x)'
    <2> SUFFICES ASSUME NEW x \in Top
                 PROVE  VerdictAfter(TrueVerdict(p, x), ev, x) = TrueVerdict(p, x)'
      OBVIOUS
    <2>1. firstEnd[p][x] \in {"none", "pass", "skip"}
      BY DEF ProcessTypeOK
    <2>2. CASE x # u
      BY <1>5, <1>8, <2>2 DEF TrueVerdict
    <2>3. CASE x = u
      BY <1>5, <1>8, <2>1, <2>3 DEF TrueVerdict
    <2> QED BY <2>2, <2>3
  <1>11. (\A x \in Top : VerdictOf(getPkg(p), x) = TrueVerdict(p, x))'
    BY <1>9, <1>10 DEF Matches
  <1>12. ~NoTestYet(p)'
    <2>1. tst'[p][n] = how
      BY <1>4 DEF ProcessTypeOK
    <2> QED BY <2>1 DEF NoTestYet
  <1> QED BY <1>2, <1>6, <1>9, <1>11, <1>12, RunningPackage DEF Matches

(* A test prints. *)
LEMMA TestPrintsMatches ==
  ASSUME ParserTypeOK, ProcessTypeOK, NEW p \in Pkg, NEW n \in TestName, NEW o \in TestPrint,
         TestPrints(p, n, o), Matches(p)
  PROVE  Local(p) /\ Alone(p) /\ ProcessTypeOK' /\ Matches(p)'
  <1>1. PICK ev \in event : ev.Action = "output" /\ ev.Test = n /\ Follows(p, ev)
    <2>1. "output" \in Action /\ n \in TestName \cup {<<>>} /\ o \in Output
      BY TestRunAssumption DEF Action
    <2>2. Scan(Event("output", p, n, o))
      BY DEF TestPrints
    <2> QED BY <2>1, <2>2, EventRead
  <1>2. /\ proc[p] = "running" /\ proc' = proc /\ tst' = tst
        /\ outcome' = outcome /\ hadFail' = hadFail /\ firstEnd' = firstEnd
        /\ announced' = announced
        /\ ProcessTypeOK' /\ Local(p)
    BY DEF TestPrints, GoTestPrints, ProcessTypeOK, Local
  <1>3. ~AboutTest(ev) /\ ~Breaks(ev) /\ \A v, u : VerdictAfter(v, ev, u) = v
    BY <1>1, TestNames DEF AboutTest, Breaks, VerdictAfter
  <1>4. /\ Alone(p) /\ p \in DOMAIN pkgs'
        /\ \A u \in Top : VerdictOf(getPkg(p)', u) = VerdictOf(getPkg(p), u)
        /\ getPkg(p)'.sawAnyTest <=> getPkg(p).sawAnyTest
        /\ getPkg(p)'.pkgCompile <=> getPkg(p).pkgCompile
        /\ getPkg(p)'.pkgFailed <=> getPkg(p).pkgFailed
    BY <1>1, <1>3 DEF Follows, Alone
  <1>5. (\A u \in Top : VerdictOf(getPkg(p), u) = TrueVerdict(p, u))'
    BY <1>2, <1>4 DEF Matches, TrueVerdict
  <1>6. NoTestYet(p)' <=> NoTestYet(p)
    BY <1>2 DEF NoTestYet
  <1> QED BY <1>2, <1>4, <1>5, <1>6, RunningPackage DEF Matches

(* A package prints outside its tests. *)
LEMMA PackagePrintsMatches ==
  ASSUME ParserTypeOK, ProcessTypeOK, NEW p \in Pkg, NEW o \in PackagePrint,
         PackagePrints(p, o), Matches(p)
  PROVE  Local(p) /\ Alone(p) /\ ProcessTypeOK' /\ Matches(p)'
  <1>1. PICK ev \in event : /\ ev.Action = "output" /\ ev.Test = <<>> /\ ev.Output = o
                            /\ Follows(p, ev)
    <2>1. "output" \in Action /\ <<>> \in TestName \cup {<<>>} /\ o \in Output
      BY TestRunAssumption DEF Action
    <2>2. Scan(Event("output", p, <<>>, o))
      BY DEF PackagePrints
    <2> QED BY <2>1, <2>2, EventRead
  <1> DEFINE says == "build failed" \in o.marks
  <1>2. /\ proc[p] = "running" /\ proc' = proc /\ tst' = tst
        /\ outcome' = outcome /\ hadFail' = hadFail /\ firstEnd' = firstEnd
        /\ announced' = IF says /\ NoTestYet(p) THEN announced \cup {p} ELSE announced
    BY DEF PackagePrints, GoPackagePrints
  <1>3. ~AboutTest(ev) /\ (Breaks(ev) <=> says) /\ \A v, u : VerdictAfter(v, ev, u) = v
    BY <1>1 DEF AboutTest, Breaks, VerdictAfter
  <1> HIDE DEF says
  <1>4. ProcessTypeOK' /\ Local(p)
    BY <1>2 DEF ProcessTypeOK, Local
  <1>5. /\ Alone(p) /\ p \in DOMAIN pkgs'
        /\ \A u \in Top : VerdictOf(getPkg(p)', u) = VerdictOf(getPkg(p), u)
        /\ getPkg(p)'.sawAnyTest <=> getPkg(p).sawAnyTest
        /\ getPkg(p)'.pkgCompile <=> getPkg(p).pkgCompile \/ (~getPkg(p).sawAnyTest /\ says)
        /\ getPkg(p)'.pkgFailed <=> getPkg(p).pkgFailed
    BY <1>1, <1>3 DEF Follows, Alone
  <1>6. (\A u \in Top : VerdictOf(getPkg(p), u) = TrueVerdict(p, u))'
    BY <1>2, <1>5 DEF Matches, TrueVerdict
  <1>7. NoTestYet(p)' <=> NoTestYet(p)
    BY <1>2 DEF NoTestYet
  <1>8. p \in announced' <=> p \in announced \/ (says /\ NoTestYet(p))
    BY <1>2
  <1> QED BY <1>2, <1>4, <1>5, <1>6, <1>7, <1>8, RunningPackage DEF Matches

RunInv == ProcessTypeOK /\ \A p \in Pkg : Matches(p)

(* Process and parser start in agreement. *)
LEMMA RunStarts == RunInit => RunInv
  <1> SUFFICES ASSUME RunInit PROVE RunInv
    OBVIOUS
  <1>1. ProcessTypeOK
    BY DEF RunInit, GoInit, ProcessTypeOK
  <1>2. ASSUME NEW p \in Pkg PROVE Matches(p)
    <2>1. p \notin DOMAIN pkgs /\ getPkg(p) = newPkgAgg
      BY DEF RunInit, ParserInit, getPkg
    <2>2. ~newPkgAgg.pkgFailed /\ ~newPkgAgg.sawAnyTest /\ ~newPkgAgg.pkgCompile
      BY DEF newPkgAgg
    <2>3. /\ proc[p] = "idle" /\ outcome[p] = "none" /\ hadFail[p] = {}
          /\ p \notin announced
          /\ NoTestYet(p) /\ \A t \in Top : firstEnd[p][t] = "none"
      BY DEF RunInit, GoInit, NoTestYet
    <2>4. \A t \in Top : VerdictOf(newPkgAgg, t) = "none" /\ TrueVerdict(p, t) = "none"
      BY <2>3, NewAggregate DEF TrueVerdict
    <2> QED BY <2>1, <2>2, <2>3, <2>4 DEF Matches
  <1> QED BY <1>1, <1>2 DEF RunInv

(* Every step of the process moves at most one package and writes at most one
   event, which the parser reads. *)
LEMMA RunStep ==
  ASSUME ParserTypeOK, RunInv, [RunNext]_runVars
  PROVE  RunInv'
  <1>1. ASSUME NEW p \in Pkg, Local(p), Alone(p), ProcessTypeOK', Matches(p)'
        PROVE  RunInv'
    <2>1. \A q \in Pkg : q # p => Matches(q)'
      BY <1>1, OthersMatch DEF RunInv
    <2> QED BY <1>1, <2>1 DEF RunInv
  <1>2. ProcessTypeOK /\ \A p \in Pkg : Matches(p)
    BY DEF RunInv
  <1>3. ASSUME NEW p \in Pkg, Start(p)
        PROVE  RunInv'
    BY <1>1, <1>2, <1>3, StartMatches
  <1>4. ASSUME NEW p \in Pkg, BuildOutput(p)
        PROVE  RunInv'
    BY <1>1, <1>2, <1>4, BuildOutputMatches
  <1>5. ASSUME NEW p \in Pkg, BuildEnd(p)
        PROVE  RunInv'
    BY <1>1, <1>2, <1>5, BuildEndMatches
  <1>6. ASSUME NEW p \in Pkg, NEW t \in Top, RunTop(p, t)
        PROVE  RunInv'
    BY <1>1, <1>2, <1>6, RunTopMatches
  <1>7. ASSUME NEW p \in Pkg, NEW n \in TestName, RunSub(p, n)
        PROVE  RunInv'
    BY <1>1, <1>2, <1>7, RunSubMatches
  <1>8. ASSUME NEW p \in Pkg, NEW n \in TestName, NEW how \in {"pass", "fail", "skip"},
               End(p, n, how)
        PROVE  RunInv'
    BY <1>1, <1>2, <1>8, EndMatches
  <1>9. ASSUME NEW p \in Pkg, NEW how \in {"pass", "fail", "skip"}, PkgEnd(p, how)
        PROVE  RunInv'
    BY <1>1, <1>2, <1>9, PkgEndMatches
  <1>10. ASSUME NEW p \in Pkg, NEW n \in TestName, NEW o \in TestPrint, TestPrints(p, n, o)
         PROVE  RunInv'
    BY <1>1, <1>2, <1>10, TestPrintsMatches
  <1>11. ASSUME NEW p \in Pkg, NEW o \in PackagePrint, PackagePrints(p, o)
         PROVE  RunInv'
    BY <1>1, <1>2, <1>11, PackagePrintsMatches
  <1>12. CASE ((Finish \/ ScanError) /\ UNCHANGED processVars) \/ UNCHANGED runVars
    <2>1. pkgs' = pkgs /\ UNCHANGED processVars
      BY <1>12 DEF Finish, ScanError, runVars, parserVars
    <2>2. \A p \in Pkg : getPkg(p)' = getPkg(p)
      BY <2>1 DEF getPkg
    <2>3. \A p \in Pkg, t \in Top : TrueVerdict(p, t)' = TrueVerdict(p, t)
      BY <2>1 DEF TrueVerdict, processVars
    <2>4. \A p \in Pkg : NoTestYet(p)' <=> NoTestYet(p)
      BY <2>1 DEF NoTestYet, processVars
    <2>5. ProcessTypeOK'
      BY <1>2, <2>1 DEF ProcessTypeOK, processVars
    <2>6. \A p \in Pkg : Matches(p)'
      BY <1>2, <2>1, <2>2, <2>3, <2>4 DEF Matches, processVars
    <2> QED BY <2>5, <2>6 DEF RunInv
  <1>13. \A t \in Top, s \in Sub : <<t, s>> \in TestName
    BY DEF TestName
  <1> QED BY <1>3, <1>4, <1>5, <1>6, <1>7, <1>8, <1>9, <1>10, <1>11, <1>12, <1>13 DEF RunNext

(* Every step of the process is a step of the parser. *)
LEMMA RunReads ==
  ASSUME RunNext
  PROVE  ParserNext
  <1>1. ASSUME NEW a \in Action, NEW p \in Pkg, NEW n \in TestName \cup {<<>>}, NEW o \in Output,
               Scan(Event(a, p, n, o))
        PROVE  ParserNext
    <2>1. Event(a, p, n, o) \in event
      BY EventType
    <2> QED BY <1>1, <2>1 DEF ParserNext
  <1>2. /\ PlainText \in Output /\ BuildText \in Output /\ TestPrint \subseteq Output
        /\ PackagePrint \subseteq Output
    BY TestRunAssumption
  <1>3. /\ "start" \in Action /\ "run" \in Action /\ "output" \in Action
        /\ "pass" \in Action /\ "fail" \in Action /\ "skip" \in Action
    BY DEF Action
  <1>4. \A t \in Top : <<t>> \in TestName /\ \A s \in Sub : <<t, s>> \in TestName
    BY DEF TestName
  <1>5. ASSUME NEW p \in Pkg, Start(p) \/ BuildOutput(p) \/ BuildEnd(p)
        PROVE  ParserNext
    BY <1>1, <1>2, <1>3, <1>5 DEF Start, BuildOutput, BuildEnd
  <1>6. ASSUME NEW p \in Pkg, NEW t \in Top,
               RunTop(p, t) \/ \E s \in Sub : RunSub(p, <<t, s>>)
        PROVE  ParserNext
    BY <1>1, <1>2, <1>3, <1>4, <1>6 DEF RunTop, RunSub
  <1>7. ASSUME NEW p \in Pkg, NEW how \in {"pass", "fail", "skip"},
               PkgEnd(p, how) \/ \E n \in TestName : End(p, n, how)
        PROVE  ParserNext
    BY <1>1, <1>2, <1>3, <1>7 DEF PkgEnd, End
  <1>8. ASSUME NEW p \in Pkg, NEW n \in TestName, NEW o \in TestPrint, TestPrints(p, n, o)
        PROVE  ParserNext
    BY <1>1, <1>2, <1>3, <1>8 DEF TestPrints
  <1>9. ASSUME NEW p \in Pkg, NEW o \in PackagePrint, PackagePrints(p, o)
        PROVE  ParserNext
    BY <1>1, <1>2, <1>3, <1>9 DEF PackagePrints
  <1> QED BY <1>5, <1>6, <1>7, <1>8, <1>9 DEF RunNext, ParserNext

(* A run of the composition is a run of the parser. *)
LEMMA RunIsParser == RunSpec => ParserSpec
  <1>1. RunInit => ParserInit
    BY DEF RunInit
  <1>2. [RunNext]_runVars => [ParserNext]_parserVars
    <2>1. UNCHANGED runVars => UNCHANGED parserVars
      BY DEF runVars, parserVars
    <2> QED BY <2>1, RunReads
  <1> QED BY <1>1, <1>2, PTL DEF RunSpec, ParserSpec

(* In every state the aggregates match the process. *)
LEMMA RunCorrect ==
  RunSpec => [](ParserTypeOK /\ FailureBookkeeping /\ ResultOfAggregates /\ RunInv)
  <1>1. ParserTypeOK /\ RunInv /\ [RunNext]_runVars => RunInv'
    BY RunStep
  <1> QED BY <1>1, RunStarts, RunIsParser, ParserTypeCorrect, FailuresBookkept,
             ResultIsOfAggregates, PTL DEF RunSpec

(* What a returned result reports. *)
LEMMA ReturnedReports ==
  ASSUME ParserTypeOK, FailureBookkeeping, ResultOfAggregates, Returned
  PROVE  /\ res \in Results /\ AccountsFor(res, pkgs, DOMAIN pkgs)
         /\ DOMAIN pkgs \in SUBSET Pkg /\ IsFiniteSet(DOMAIN pkgs)
         /\ \A p \in DOMAIN pkgs : pkgs[p] \in Aggregate /\ getPkg(p) = pkgs[p]
  <1>1. /\ DOMAIN pkgs \in SUBSET Pkg /\ pkgs \in [DOMAIN pkgs -> Aggregate]
        /\ \A p \in DOMAIN pkgs : Bookkept(pkgs[p])
        /\ Panicked \in BOOLEAN /\ res = ParseResult(pkgs, Panicked)
    BY DEF ParserTypeOK, FailureBookkeeping, ResultOfAggregates, Returned
  <1>2. res \in Results /\ AccountsFor(res, pkgs, DOMAIN pkgs)
    BY <1>1, ParseResultIs
  <1>3. IsFiniteSet(DOMAIN pkgs)
    BY <1>1, ParserAssumption, FS_Subset
  <1> QED BY <1>1, <1>2, <1>3 DEF getPkg

(* The pairs a result counts are those of the process. *)
LEMMA PairsOfRun ==
  ASSUME ParserTypeOK, RunInv
  PROVE  /\ FailedIn(pkgs, DOMAIN pkgs) = {f \in Pkg \X Top : f[2] \in hadFail[f[1]]}
         /\ PassedIn(pkgs, DOMAIN pkgs) = EndedAs("pass")
         /\ SkippedIn(pkgs, DOMAIN pkgs) = EndedAs("skip")
  <1> DEFINE D == DOMAIN pkgs
  <1>1. D \in SUBSET Pkg /\ \A p \in D : pkgs[p] \in Aggregate /\ getPkg(p) = pkgs[p]
    BY DEF ParserTypeOK, getPkg
  <1>2. \A p \in D, t \in Top : VerdictOf(pkgs[p], t) = TrueVerdict(p, t)
    BY <1>1 DEF RunInv, Matches
  <1>3. \A p \in Pkg \ D, t \in Top : TrueVerdict(p, t) = "none"
    <2>1. \A p \in Pkg \ D : getPkg(p) = newPkgAgg
      BY DEF getPkg
    <2> QED BY <2>1, NewAggregate DEF RunInv, Matches
  <1>4. \A p \in Pkg, t \in Top :
          /\ TrueVerdict(p, t) = "failed" <=> t \in hadFail[p]
          /\ TrueVerdict(p, t) = "passed" <=> firstEnd[p][t] = "pass" /\ t \notin hadFail[p]
          /\ TrueVerdict(p, t) = "skipped" <=> firstEnd[p][t] = "skip" /\ t \notin hadFail[p]
    BY DEF TrueVerdict
  <1> HIDE DEF D
  <1>5. FailedIn(pkgs, D) = {f \in Pkg \X Top : f[2] \in hadFail[f[1]]}
    <2>1. \A p \in D, t \in Top : t \in failedOf(pkgs[p]) <=> t \in hadFail[p]
      BY <1>1, <1>2, <1>4, Buckets
    <2>2. \A p \in Pkg \ D, t \in Top : t \notin hadFail[p]
      BY <1>3, <1>4
    <2> QED BY <1>1, <2>1, <2>2 DEF FailedIn
  <1>6. PassedIn(pkgs, D) = EndedAs("pass")
    <2>1. \A p \in D, t \in Top :
            t \in passedOf(pkgs[p]) <=> firstEnd[p][t] = "pass" /\ t \notin hadFail[p]
      BY <1>1, <1>2, <1>4, Buckets
    <2>2. \A p \in Pkg \ D, t \in Top : ~(firstEnd[p][t] = "pass" /\ t \notin hadFail[p])
      BY <1>3, <1>4
    <2> QED BY <1>1, <2>1, <2>2 DEF PassedIn, EndedAs
  <1>7. SkippedIn(pkgs, D) = EndedAs("skip")
    <2>1. \A p \in D, t \in Top :
            t \in skippedOf(pkgs[p]) <=> firstEnd[p][t] = "skip" /\ t \notin hadFail[p]
      BY <1>1, <1>2, <1>4, Buckets
    <2>2. \A p \in Pkg \ D, t \in Top : ~(firstEnd[p][t] = "skip" /\ t \notin hadFail[p])
      BY <1>3, <1>4
    <2> QED BY <1>1, <2>1, <2>2 DEF SkippedIn, EndedAs
  <1> QED BY <1>5, <1>6, <1>7 DEF D

(* However packages, tests, subtests and repeated runs interleave, and wherever
   the stream stops: Parse lists exactly the top-level tests that failed, each
   once, in the order of packages and tests. *)
THEOREM FailuresAreExact == RunSpec => []FailuresExact
  <1>1. ParserTypeOK /\ FailureBookkeeping /\ ResultOfAggregates /\ RunInv => FailuresExact
    <2> SUFFICES ASSUME ParserTypeOK, FailureBookkeeping, ResultOfAggregates, RunInv, Returned
                 PROVE  /\ FailurePairs = {f \in Pkg \X Top : f[2] \in hadFail[f[1]]}
                        /\ \A i, j \in DOMAIN res.Failures :
                             i < j => Before(res.Failures[i], res.Failures[j])
      BY DEF FailuresExact, Before
    <2>1. FailuresReported(res, pkgs, DOMAIN pkgs) /\ res \in Results
      BY ReturnedReports DEF AccountsFor
    <2>2. DOMAIN res.Failures = 1..Len(res.Failures)
      BY <2>1 DEF Results
    <2>3. \A pt \in FailedIn(pkgs, DOMAIN pkgs) :
            pt = <<FailureOf(pkgs, pt).Package, FailureOf(pkgs, pt).Test>>
      BY DEF FailedIn, FailureOf
    <2>4. FailurePairs = FailedIn(pkgs, DOMAIN pkgs)
      <3>1. \A f \in ToSet(res.Failures) : \E pt \in FailedIn(pkgs, DOMAIN pkgs) :
              <<f.Package, f.Test>> = pt
        BY <2>1, <2>3 DEF FailuresReported
      <3>2. \A pt \in FailedIn(pkgs, DOMAIN pkgs) : \E f \in ToSet(res.Failures) :
              pt = <<f.Package, f.Test>>
        BY <2>1, <2>3 DEF FailuresReported
      <3> QED BY <3>1, <3>2 DEF FailurePairs
    <2> QED BY <2>1, <2>2, <2>4, PairsOfRun DEF FailuresReported
  <1> QED BY <1>1, RunCorrect, PTL

(* Every top-level test that reported an ending is counted once: as failed if
   it ever failed, otherwise as it first ended. *)
THEOREM TotalsAreExact == RunSpec => []TotalsExact
  <1>1. ParserTypeOK /\ FailureBookkeeping /\ ResultOfAggregates /\ RunInv => TotalsExact
    <2> SUFFICES ASSUME ParserTypeOK, FailureBookkeeping, ResultOfAggregates, RunInv, Returned
                 PROVE  /\ res.Tests.Failed = Len(res.Failures)
                        /\ res.Tests.Passed = Cardinality(EndedAs("pass"))
                        /\ res.Tests.Skipped = Cardinality(EndedAs("skip"))
                        /\ res.Tests.Total = res.Tests.Passed + res.Tests.Failed + res.Tests.Skipped
      BY DEF TotalsExact
    <2>1. TestsReported(res, pkgs, DOMAIN pkgs) /\ FailuresReported(res, pkgs, DOMAIN pkgs)
      BY ReturnedReports DEF AccountsFor
    <2> QED BY <2>1, PairsOfRun DEF TestsReported, FailuresReported
  <1> QED BY <1>1, RunCorrect, PTL

(* The row of a package whose aggregate matches its process. *)
LEMMA RowOfRun ==
  ASSUME NEW p \in Pkg, pkgs[p] \in Aggregate, getPkg(p) = pkgs[p], Matches(p),
         ProcessTypeOK
  PROVE  /\ RowOf(pkgs, p).Status = "fail" <=>
              p \in announced \/ outcome[p] \in {"fail", "broken"} \/ hadFail[p] # {}
         /\ RowOf(pkgs, p).Status = "no_tests" <=>
              RowOf(pkgs, p).Status # "fail" /\ \A t \in Top : firstEnd[p][t] = "none"
  <1> DEFINE a == pkgs[p]
             failed == RowOf(pkgs, p).Status = "fail"
             untested == RowOf(pkgs, p).Status = "no_tests"
             unended == \A t \in Top : firstEnd[p][t] = "none"
  <1>1. /\ failed <=> a.pkgCompile \/ a.pkgFailed \/ failedOf(a) # {}
        /\ untested <=> ~failed /\ passedOf(a) = {} /\ failedOf(a) = {} /\ skippedOf(a) = {}
    BY RowStatus
  <1>2. \A t \in Top : VerdictOf(a, t) = TrueVerdict(p, t)
    BY DEF Matches
  <1>3. failedOf(a) = hadFail[p]
    <2>1. \A t \in Top : t \in failedOf(a) <=> t \in hadFail[p]
      BY <1>2, Buckets DEF TrueVerdict
    <2>2. failedOf(a) \subseteq Top
      BY AggregateFields DEF failedOf
    <2> QED BY <2>1, <2>2 DEF ProcessTypeOK
  <1>4. /\ a.pkgCompile <=> p \in announced \/ (outcome[p] = "fail" /\ NoTestYet(p))
        /\ a.pkgFailed <=> outcome[p] \in {"fail", "broken"}
    BY DEF Matches
  <1> HIDE DEF a
  <1>5. failedOf(a) = {} => (passedOf(a) = {} /\ skippedOf(a) = {} <=> unended)
    <2> SUFFICES ASSUME failedOf(a) = {}
                 PROVE  passedOf(a) = {} /\ skippedOf(a) = {} <=> unended
      OBVIOUS
    <2>1. \A t \in Top : /\ t \in passedOf(a) <=> firstEnd[p][t] = "pass"
                         /\ t \in skippedOf(a) <=> firstEnd[p][t] = "skip"
      <3>1. a \in Aggregate
        BY DEF a
      <3>2. \A t \in Top : TrueVerdict(p, t) = "passed" <=> firstEnd[p][t] = "pass"
        BY <1>3 DEF TrueVerdict
      <3>3. \A t \in Top : TrueVerdict(p, t) = "skipped" <=> firstEnd[p][t] = "skip"
        BY <1>3 DEF TrueVerdict
      <3> QED BY <1>2, <3>1, <3>2, <3>3, Buckets
    <2>2. \A t \in Top : firstEnd[p][t] \in {"none", "pass", "skip"}
      BY DEF ProcessTypeOK
    <2>3. passedOf(a) \subseteq Top /\ skippedOf(a) \subseteq Top
      BY AggregateFields DEF passedOf, skippedOf, a
    <2> QED BY <2>1, <2>2, <2>3
  <1> HIDE DEF failed, untested, unended
  <1>6. /\ failed <=> p \in announced \/ outcome[p] \in {"fail", "broken"} \/ hadFail[p] # {}
        /\ untested <=> ~failed /\ unended
    BY <1>1, <1>3, <1>4, <1>5
  <1> QED BY <1>6 DEF failed, untested, unended

(* For every run of go test, whatever packages and tests print and wherever
   the stream stops: every package that wrote an event is reported once, with
   exactly the status its process, its tests and an announced build failure
   give it, and the run is a compile failure exactly when such an announcement
   came before a package's first test or a package failed without a test. *)
THEOREM StatusIsExact == RunSpec => []StatusExact
  <1>1. ParserTypeOK /\ FailureBookkeeping /\ ResultOfAggregates /\ RunInv => StatusExact
    <2> SUFFICES ASSUME ParserTypeOK, FailureBookkeeping, ResultOfAggregates, RunInv, Returned
                 PROVE  StatusExact
      BY DEF StatusExact
    <2> DEFINE D == DOMAIN pkgs
    <2>1. /\ Len(res.Packages) = Cardinality(D)
          /\ ToSet(res.Packages) = {RowOf(pkgs, p) : p \in D}
          /\ res.CompileFailed <=> \E p \in D : pkgs[p].pkgCompile
      BY ReturnedReports DEF AccountsFor, PackagesReported
    <2>2. D \in SUBSET Pkg /\ \A p \in D : pkgs[p] \in Aggregate /\ getPkg(p) = pkgs[p]
      BY ReturnedReports
    <2>3. ProcessTypeOK /\ \A p \in Pkg : Matches(p)
      BY DEF RunInv
    <2>4. \A p \in Pkg : p \in D <=> proc[p] # "idle"
      BY <2>3 DEF Matches
    <2> HIDE DEF D
    <2>5. \A p \in D : RowOf(pkgs, p).ImportPath = p
      BY DEF RowOf
    <2>6. {r.ImportPath : r \in ToSet(res.Packages)} = {p \in Pkg : proc[p] # "idle"}
      <3>1. {r.ImportPath : r \in ToSet(res.Packages)} = D
        BY <2>1, <2>5
      <3> QED BY <2>2, <2>4, <3>1
    <2>7. \A p \in D : PkgResult(p) = RowOf(pkgs, p)
      BY <2>1, <2>5 DEF PkgResult
    <2>8. ASSUME NEW p \in Pkg, proc[p] # "idle"
          PROVE  /\ PkgResult(p).Status = "fail" <=>
                      p \in announced \/ outcome[p] \in {"fail", "broken"} \/ hadFail[p] # {}
                 /\ PkgResult(p).Status = "no_tests" <=>
                      PkgResult(p).Status # "fail" /\ \A t \in Top : firstEnd[p][t] = "none"
      <3>1. p \in D /\ Matches(p) /\ pkgs[p] \in Aggregate /\ getPkg(p) = pkgs[p]
        BY <2>2, <2>3, <2>4, <2>8
      <3>2. PkgResult(p) = RowOf(pkgs, p)
        BY <2>7, <3>1
      <3> QED BY <2>3, <3>1, <3>2, RowOfRun
    <2>9. res.CompileFailed <=>
            \E p \in Pkg : p \in announced \/ (outcome[p] = "fail" /\ NoTestYet(p))
      <3> DEFINE Flagged(p) == p \in announced \/ (outcome[p] = "fail" /\ NoTestYet(p))
      <3>1. \A p \in D : pkgs[p].pkgCompile <=> Flagged(p)
        BY <2>2, <2>3 DEF Matches
      <3>2. \A p \in Pkg \ D : ~Flagged(p)
        BY <2>3, <2>4 DEF Matches
      <3> HIDE DEF Flagged
      <3>3. res.CompileFailed <=> \E p \in Pkg : Flagged(p)
        BY <2>1, <2>2, <3>1, <3>2
      <3> QED BY <3>3 DEF Flagged
    <2> QED BY <2>1, <2>6, <2>8, <2>9 DEF StatusExact, D
  <1> QED BY <1>1, RunCorrect, PTL

-----------------------------------------------------------------------------
(* The runner. *)

(* What makes TypeOK inductive: the child decides on a write only below its
   bounds, and streamEvents persists and logs a line it has read. *)
Bounds ==
  /\ child = "running" /\ intent \in Kinds => Len(wrote) < MaxOut
  /\ child = "running" /\ intent = "stderr" => chunks < MaxErr
  /\ mainPc \in {"persist", "log"} => cur \in Line

-----------------------------------------------------------------------------
(* Facts about the data. *)

(* What is read from a pipe is a line or a chunk, and the rest is a pipe. *)
LEMMA HeadsOfPipes ==
  ASSUME TypeOK
  PROVE  /\ outPipe # <<>> => Head(outPipe) \in Line /\ Tail(outPipe) \in Seq(Line)
         /\ errPipe # <<>> => Head(errPipe) \in 1..MaxErr /\ Tail(errPipe) \in Seq(1..MaxErr)
         /\ Len(wrote) \in Nat
  BY HeadTailProperties, LenProperties DEF TypeOK

(* What the child writes is a line. *)
LEMMA NewLine ==
  ASSUME NEW k \in Kind, NEW n \in 1..(MaxOut + 1)
  PROVE  [n |-> n, kind |-> k] \in Line
  BY DEF Line

(* A line cut off is a line. *)
LEMMA TornLine ==
  ASSUME NEW line \in Line
  PROVE  [line EXCEPT !.kind = "cut"] \in Line
  BY DEF Line, Kind

(* A line or a chunk in progress has a number that fits a piece of the log. *)
LEMMA PieceTyped ==
  ASSUME NEW w \in Writer, NEW id \in 0..(MaxOut + MaxErr + 1), NEW k \in 1..2
  PROVE  <<w, id, k>> \in Piece3
  BY DEF Piece3

(* The line and the chunk in progress have numbers that fit a piece of the log. *)
LEMMA Numbers ==
  ASSUME TypeOK
  PROVE  /\ cur.n \in 0..(MaxOut + MaxErr + 1)
         /\ chunk \in 0..(MaxOut + MaxErr + 1)
  <1>1. cur.n \in 0..(MaxOut + 1)
    BY RunnerAssumption DEF TypeOK, Line, NoLine
  <1> QED BY <1>1, RunnerAssumption DEF TypeOK

-----------------------------------------------------------------------------
(* Run starts well typed. *)
LEMMA InitTyped == Init => TypeOK /\ Bounds
  <1> SUFFICES ASSUME Init PROVE TypeOK /\ Bounds
    OBVIOUS
  <1>1. /\ wrote \in Seq(Line) /\ jsonl \in Seq(Line) /\ outPipe \in Seq(Line)
        /\ errPipe \in Seq(1..MaxErr) /\ log \in Seq(Piece3)
    BY DEF Init
  <1>2. result \in [err : {"none", "stream", "execution"}, ExitCode : Int]
    BY DEF Init, NotReturned
  <1>3. /\ intent \in Kinds \cup {"think", "stderr", "exit"}
        /\ chunks \in 0..MaxErr /\ chunk \in 0..MaxErr
        /\ intent \notin Kinds
    BY RunnerAssumption DEF Init, Kind
  <1>4. /\ cur \in Line \cup {NoLine} /\ mu \in Writer \cup {Nobody} /\ pieces \in 0..2
        /\ code \in Codes \cup {0}
    BY DEF Init
  <1>5. /\ child \in {"running", "exited", "killed"}
        /\ ctx \in {"live", "cancelled", "handled"} /\ ctxErr \in BOOLEAN
        /\ mainPc \in {"scan", "persist", "log", "stderrDone", "wait", "returned"}
        /\ streamErr \in BOOLEAN /\ errPc \in {"read", "log", "done"}
    BY DEF Init
  <1>6. Bounds
    BY <1>3 DEF Init, Bounds
  <1>7. dropped \subseteq Writer
    BY DEF Init
  <1> QED BY <1>1, <1>2, <1>3, <1>4, <1>5, <1>6, <1>7 DEF TypeOK

(* The child, the context and its watcher keep the state well typed. *)
LEMMA ChildTyped ==
  ASSUME TypeOK, Bounds, ChildStep \/ WatcherStep \/ Cancel
  PROVE  TypeOK' /\ Bounds'
  <1> USE DEF childVars, pipeVars, ctxVars, mainVars, errVars, logVars
  <1>1. CASE Decide
    BY <1>1, RunnerAssumption DEF Decide, TypeOK, Bounds, Kind
  <1>2. CASE WriteOut
    <2> DEFINE line == [n |-> Len(wrote) + 1, kind |-> intent]
    <2>1. line \in Line
      BY <1>2, RunnerAssumption, HeadsOfPipes, NewLine DEF WriteOut, Bounds
    <2>2. wrote' \in Seq(Line) /\ outPipe' \in Seq(Line)
      BY <1>2, <2>1, AppendProperties DEF WriteOut, TypeOK
    <2> HIDE DEF line
    <2> QED BY <1>2, <2>2, RunnerAssumption DEF WriteOut, TypeOK, Bounds, Kind
  <1>3. CASE WriteErr
    <2>1. chunks + 1 \in 1..MaxErr
      BY <1>3, RunnerAssumption DEF WriteErr, TypeOK, Bounds
    <2>2. errPipe' \in Seq(1..MaxErr)
      BY <1>3, <2>1, AppendProperties DEF WriteErr, TypeOK
    <2> QED BY <1>3, <2>1, <2>2, RunnerAssumption DEF WriteErr, TypeOK, Bounds, Kind
  <1>4. CASE Exit
    BY <1>4 DEF Exit, TypeOK, Bounds
  <1>5. CASE Cancel
    BY <1>5 DEF Cancel, TypeOK, Bounds
  <1>6. CASE KillTooLate
    BY <1>6 DEF KillTooLate, TypeOK, Bounds
  <1>7. CASE Kill
    <2>1. wrote' \in Seq(Line) /\ outPipe' \in Seq(Line)
      <3>1. CASE UNCHANGED <<wrote, outPipe>>
        BY <3>1 DEF TypeOK
      <3>2. CASE ~UNCHANGED <<wrote, outPipe>>
        <4> DEFINE line == [n |-> Len(wrote) + 1, kind |-> "cut"]
        <4>1. line \in Line
          <5>1. Len(wrote) + 1 \in 1..(MaxOut + 1)
            BY <1>7, <3>2, RunnerAssumption, HeadsOfPipes DEF Kill, Bounds
          <5> QED BY <5>1, NewLine DEF Kind
        <4>2. wrote' = Append(wrote, line) /\ outPipe' = Append(outPipe, line)
          BY <1>7, <3>2 DEF Kill
        <4> HIDE DEF line
        <4> QED BY <4>1, <4>2, AppendProperties DEF TypeOK
      <3> QED BY <3>1, <3>2
    <2> QED BY <1>7, <2>1 DEF Kill, TypeOK, Bounds
  <1> QED BY <1>1, <1>2, <1>3, <1>4, <1>7, <1>5, <1>6 DEF ChildStep, WatcherStep

(* streamEvents and the rest of Run keep the state well typed. *)
LEMMA MainTyped ==
  ASSUME TypeOK, Bounds, MainStep
  PROVE  TypeOK' /\ Bounds'
  <1> USE DEF childVars, pipeVars, ctxVars, mainVars, errVars, logVars, mainElse
  <1>1. CASE ScanLine
    <2>1. cur' \in Line /\ outPipe' \in Seq(Line)
      BY <1>1, HeadsOfPipes DEF ScanLine
    <2>2. mainPc' \in {"scan", "stderrDone", "persist"}
      BY <1>1 DEF ScanLine
    <2>3. streamErr' \in BOOLEAN
      <3>1. streamErr' = (Head(outPipe).kind = "long")
        BY <1>1, Zenon DEF ScanLine
      <3>2. (Head(outPipe).kind = "long") \in BOOLEAN
        OBVIOUS
      <3> QED BY <3>1, <3>2, Zenon
    <2> QED BY <1>1, <2>1, <2>2, <2>3 DEF ScanLine, TypeOK, Bounds
  <1>2. CASE ScanEOF \/ AwaitStderr
    BY <1>2 DEF ScanEOF, AwaitStderr, TypeOK, Bounds
  <1>3. CASE Persist
    <2>1. jsonl' \in Seq(Line)
      BY <1>3, AppendProperties DEF Persist, TypeOK, Bounds
    <2> QED BY <1>3, <2>1 DEF Persist, TypeOK, Bounds
  <1>4. CASE PersistFails
    <2>1. jsonl' \in Seq(Line)
      <3> DEFINE torn == [cur EXCEPT !.kind = "cut"]
      <3>1. torn \in Line
        BY <1>4, TornLine DEF PersistFails, Bounds
      <3>2. jsonl' \in {jsonl, Append(jsonl, torn)}
        BY <1>4 DEF PersistFails
      <3>3. jsonl \in Seq(Line)
        BY DEF TypeOK
      <3> HIDE DEF torn
      <3>4. Append(jsonl, torn) \in Seq(Line)
        BY <3>1, <3>3, AppendProperties
      <3> QED BY <3>2, <3>3, <3>4
    <2> QED BY <1>4, <2>1 DEF PersistFails, TypeOK, Bounds
  <1>5. CASE MainLock
    BY <1>5 DEF MainLock, Lock, TypeOK, Bounds, Writer
  <1>6. CASE MainPiece
    <2>1. pieces + 1 \in 1..2
      BY <1>6 DEF MainPiece, Piece, TypeOK
    <2>2. log' \in Seq(Piece3)
      <3>1. <<"main", cur.n, pieces + 1>> \in Piece3
        BY <2>1, Numbers, PieceTyped DEF Writer
      <3> QED BY <1>6, <3>1, AppendProperties DEF MainPiece, Piece, TypeOK
    <2> QED BY <1>6, <2>1, <2>2 DEF MainPiece, Piece, TypeOK, Bounds
  <1>7. CASE MainUnlock
    BY <1>7 DEF MainUnlock, Unlock, TypeOK, Bounds
  <1>8. CASE MainLogFails
    <2>1. mainPc' \in {"stderrDone", "scan"} /\ streamErr' \in BOOLEAN
      BY <1>8 DEF MainLogFails, TypeOK
    <2>2. dropped' \subseteq Writer
      BY <1>8 DEF MainLogFails, LogFails, TypeOK, Writer
    <2> QED BY <1>8, <2>1, <2>2 DEF MainLogFails, LogFails, TypeOK, Bounds
  <1>9. CASE Wait
    <2>1. result' \in [err : {"none", "stream", "execution"}, ExitCode : Int]
      BY <1>9, RunnerAssumption DEF Wait, waitErr, TypeOK
    <2> QED BY <1>9, <2>1 DEF Wait, TypeOK, Bounds
  <1> QED BY <1>1, <1>2, <1>3, <1>4, <1>5, <1>6, <1>7, <1>8, <1>9 DEF MainStep

(* The stderr goroutine keeps the state well typed. *)
LEMMA StderrTyped ==
  ASSUME TypeOK, Bounds, StderrStep
  PROVE  TypeOK' /\ Bounds'
  <1> USE DEF childVars, pipeVars, ctxVars, mainVars, errVars, logVars, errElse
  <1>1. CASE ErrRead
    <2>1. chunk' \in 0..MaxErr /\ errPipe' \in Seq(1..MaxErr)
      BY <1>1, HeadsOfPipes, RunnerAssumption DEF ErrRead
    <2> QED BY <1>1, <2>1 DEF ErrRead, TypeOK, Bounds
  <1>2. CASE ErrEOF
    BY <1>2 DEF ErrEOF, TypeOK, Bounds
  <1>3. CASE ErrLock
    BY <1>3 DEF ErrLock, Lock, TypeOK, Bounds, Writer
  <1>4. CASE ErrPiece
    <2>1. pieces + 1 \in 1..2
      BY <1>4 DEF ErrPiece, Piece, TypeOK
    <2>2. log' \in Seq(Piece3)
      <3>1. <<"stderr", chunk, pieces + 1>> \in Piece3
        BY <2>1, Numbers, PieceTyped DEF Writer
      <3> QED BY <1>4, <3>1, AppendProperties DEF ErrPiece, Piece, TypeOK
    <2> QED BY <1>4, <2>1, <2>2 DEF ErrPiece, Piece, TypeOK, Bounds
  <1>5. CASE ErrUnlock
    BY <1>5 DEF ErrUnlock, Unlock, TypeOK, Bounds
  <1>6. CASE ErrLogFails
    <2>1. dropped' \subseteq Writer
      BY <1>6 DEF ErrLogFails, LogFails, TypeOK, Writer
    <2> QED BY <1>6, <2>1 DEF ErrLogFails, LogFails, TypeOK, Bounds
  <1> QED BY <1>1, <1>2, <1>3, <1>4, <1>5, <1>6 DEF StderrStep

(* Well-typedness and the bounds, as an invariant. *)
LEMMA RunnerTypedInv == Spec => [](TypeOK /\ Bounds)
  <1>1. TypeOK /\ Bounds /\ [Next]_vars => TypeOK' /\ Bounds'
    <2>1. TypeOK /\ Bounds /\ UNCHANGED vars => TypeOK' /\ Bounds'
      BY DEF vars, childVars, pipeVars, ctxVars, mainVars, errVars, logVars, TypeOK, Bounds
    <2> QED BY <2>1, ChildTyped, MainTyped, StderrTyped DEF Next
  <1> QED BY <1>1, InitTyped, PTL DEF Spec

(* Type correctness of Run, for any child: any kinds and numbers of lines and
   chunks, any capacities of the pipes, any faults. *)
THEOREM RunnerTypeCorrect == Spec => []TypeOK
  BY RunnerTypedInv, PTL

-----------------------------------------------------------------------------
(* The mutex. *)

(* Every step leaves the mutex held by a goroutine inside a Write, or free. *)
LEMMA MutexStep ==
  ASSUME MutexHeld, [Next]_vars
  PROVE  MutexHeld'
  <1> USE DEF MutexHeld, childVars, pipeVars, ctxVars, mainVars, errVars, logVars,
              mainElse, errElse, Nobody
  <1>1. CASE ChildStep \/ WatcherStep \/ Cancel \/ UNCHANGED vars
    BY <1>1 DEF ChildStep, Decide, WriteOut, WriteErr, Exit, WatcherStep, Kill,
                KillTooLate, Cancel, vars
  <1>2. CASE ScanLine \/ ScanEOF \/ Persist \/ PersistFails \/ AwaitStderr \/ Wait
    BY <1>2 DEF ScanLine, ScanEOF, Persist, PersistFails, AwaitStderr, Wait
  <1>3. CASE MainLock \/ ErrLock
    BY <1>3 DEF MainLock, ErrLock, Lock
  <1>4. CASE MainPiece \/ ErrPiece
    BY <1>4 DEF MainPiece, ErrPiece, Piece
  <1>5. CASE MainUnlock \/ ErrUnlock
    BY <1>5 DEF MainUnlock, ErrUnlock, Unlock
  <1>6. CASE MainLogFails \/ ErrLogFails
    BY <1>6 DEF MainLogFails, ErrLogFails, LogFails
  <1>7. CASE ErrRead \/ ErrEOF
    BY <1>7 DEF ErrRead, ErrEOF
  <1> QED BY <1>1, <1>2, <1>3, <1>4, <1>5, <1>6, <1>7 DEF Next, MainStep, StderrStep

(* The lock of syncWriter is held exactly during a Write and by its writer. *)
THEOREM MutexIsHeld == Spec => []MutexHeld
  <1>1. Init => MutexHeld
    BY DEF Init, MutexHeld, Nobody
  <1> QED BY <1>1, MutexStep, PTL DEF Spec

-----------------------------------------------------------------------------
(* The log.  While one piece of a Write is out the last entry of the log is
   that piece, and neither the line nor the chunk it belongs to moves on. *)
HalfWritten ==
  pieces = 1 =>
    /\ Len(log) > 0
    /\ log[Len(log)] = <<mu, IF mu = "main" THEN cur.n ELSE chunk, 1>>

LogInv == LogNotTorn /\ HalfWritten

(* Parity of consecutive numbers. *)
LEMMA Parity ==
  ASSUME NEW n \in Nat
  PROVE  /\ n % 2 = 0 => (n + 1) % 2 = 1
         /\ n % 2 = 1 => (n + 1) % 2 = 0
         /\ n % 2 \in 0..1
  OBVIOUS

(* A step that leaves the log and the Write in progress alone. *)
LEMMA LogUntouched ==
  ASSUME LogInv, UNCHANGED <<log, pieces>>,
         pieces = 1 => UNCHANGED mu /\ (mu = "main" => UNCHANGED cur)
                                   /\ (mu # "main" => UNCHANGED chunk)
  PROVE  LogInv'
  BY DEF LogInv, LogNotTorn, HalfWritten

(* A piece goes behind the other piece of its own Write, or begins a Write. *)
LEMMA PieceStep ==
  ASSUME TypeOK, MutexHeld, LogInv, NEW w \in Writer, NEW id,
         id = IF w = "main" THEN cur.n ELSE chunk,
         id \in 0..(MaxOut + MaxErr + 1),
         Piece(w, id), UNCHANGED <<cur, chunk>>
  PROVE  LogInv'
  <1> DEFINE n == Len(log)
             piece == <<w, id, pieces + 1>>
  <1>1. /\ log \in Seq(Piece3) /\ n \in Nat
        /\ pieces \in 0..1 /\ pieces' = pieces + 1
        /\ mu = w /\ mu' = w
        /\ log' = Append(log, piece)
    BY LenProperties DEF Piece, TypeOK
  <1>2. piece \in Piece3
    <2>1. pieces + 1 \in 1..2
      BY <1>1
    <2> QED BY <2>1, PieceTyped
  <1> HIDE DEF piece
  <1>3. /\ Len(log') = n + 1
        /\ \A i \in 1..n : log'[i] = log[i]
        /\ log'[n + 1] = piece
    BY <1>1, <1>2, AppendProperties
  <1>4. n % 2 = pieces
    BY <1>1 DEF LogInv, LogNotTorn
  <1>5. (n + 1) % 2 = pieces' % 2
    BY <1>1, <1>4, Parity
  <1>6. pieces = 1 => n > 0 /\ log[n] = <<w, id, 1>>
    BY <1>1 DEF LogInv, HalfWritten
  <1>7. IF (n + 1) % 2 = 1 THEN log'[n + 1][3] = 1
        ELSE log'[n + 1] = <<log'[n][1], log'[n][2], 2>>
    <2>1. CASE pieces = 0
      BY <2>1, <1>3, <1>4, <1>1, Parity DEF piece
    <2>2. CASE pieces = 1
      <3>1. n > 0 /\ log'[n] = <<w, id, 1>> /\ log'[n + 1] = <<w, id, 2>>
        BY <2>2, <1>1, <1>3, <1>6 DEF piece
      <3>2. (n + 1) % 2 = 0
        BY <2>2, <1>1, <1>4, Parity
      <3> QED BY <3>1, <3>2
    <2> QED BY <2>1, <2>2, <1>1
  <1>8. \A i \in 1..n : IF i % 2 = 1 THEN log'[i][3] = 1
                        ELSE log'[i] = <<log'[i - 1][1], log'[i - 1][2], 2>>
    <2> SUFFICES ASSUME NEW i \in 1..n
                 PROVE  IF i % 2 = 1 THEN log'[i][3] = 1
                        ELSE log'[i] = <<log'[i - 1][1], log'[i - 1][2], 2>>
      OBVIOUS
    <2>1. i % 2 # 1 => i - 1 \in 1..n
      BY <1>1
    <2> QED BY <2>1, <1>3 DEF LogInv, LogNotTorn
  <1>9. LogNotTorn'
    BY <1>1, <1>3, <1>5, <1>7, <1>8 DEF LogNotTorn
  <1>10. HalfWritten'
    BY <1>1, <1>3 DEF HalfWritten, piece
  <1> QED BY <1>9, <1>10 DEF LogInv

(* The end of a Write leaves the log whole. *)
LEMMA UnlockStep ==
  ASSUME TypeOK, LogInv, NEW w, Unlock(w)
  PROVE  LogInv'
  BY DEF Unlock, LogInv, LogNotTorn, HalfWritten

(* Every step keeps the log a sequence of whole Writes, the last one perhaps in
   progress. *)
LEMMA LogStep ==
  ASSUME TypeOK, MutexHeld, LogInv, [Next]_vars
  PROVE  LogInv'
  <1> USE DEF childVars, pipeVars, ctxVars, mainVars, errVars, logVars, mainElse, errElse
  <1>1. CASE ChildStep \/ WatcherStep \/ Cancel \/ UNCHANGED vars
    <2>1. UNCHANGED <<log, pieces, mu, cur, chunk>>
      BY <1>1 DEF ChildStep, Decide, WriteOut, WriteErr, Exit, WatcherStep, Kill,
                  KillTooLate, Cancel, vars
    <2> QED BY <2>1, LogUntouched
  <1>2. CASE ScanLine
    <2>1. UNCHANGED <<log, pieces, mu, chunk>> /\ mu # "main"
      BY <1>2 DEF ScanLine, MutexHeld
    <2> QED BY <2>1, LogUntouched
  <1>3. CASE ScanEOF \/ Persist \/ PersistFails \/ AwaitStderr \/ Wait \/ ErrEOF
    <2>1. UNCHANGED <<log, pieces, mu, cur, chunk>>
      BY <1>3 DEF ScanEOF, Persist, PersistFails, AwaitStderr, Wait, ErrEOF
    <2> QED BY <2>1, LogUntouched
  <1>4. CASE ErrRead
    <2>1. UNCHANGED <<log, pieces, mu, cur>> /\ mu # "stderr"
      BY <1>4 DEF ErrRead, MutexHeld
    <2>2. pieces = 1 => mu = "main"
      BY <2>1 DEF MutexHeld, TypeOK, Writer, Nobody
    <2> QED BY <2>1, <2>2, LogUntouched
  <1>5. CASE MainLock \/ ErrLock
    <2>1. UNCHANGED <<log, pieces, cur, chunk>> /\ mu = Nobody
      BY <1>5 DEF MainLock, ErrLock, Lock
    <2>2. pieces # 1
      BY <2>1 DEF MutexHeld
    <2> QED BY <2>1, <2>2, LogUntouched
  <1>6. CASE MainPiece
    <2>1. Piece("main", cur.n) /\ UNCHANGED <<cur, chunk>>
      BY <1>6 DEF MainPiece
    <2> QED BY <2>1, PieceStep, Numbers DEF Writer
  <1>7. CASE ErrPiece
    <2>1. Piece("stderr", chunk) /\ UNCHANGED <<cur, chunk>>
      BY <1>7 DEF ErrPiece
    <2> QED BY <2>1, PieceStep, Numbers DEF Writer
  <1>8. CASE MainUnlock \/ ErrUnlock
    BY <1>8, UnlockStep DEF MainUnlock, ErrUnlock
  <1>9. CASE MainLogFails \/ ErrLogFails
    <2>1. UNCHANGED <<log, pieces, cur, chunk>> /\ pieces = 0
      BY <1>9 DEF MainLogFails, ErrLogFails, LogFails
    <2> QED BY <2>1, LogUntouched
  <1> QED BY <1>1, <1>2, <1>3, <1>4, <1>5, <1>6, <1>7, <1>8, <1>9
          DEF Next, MainStep, StderrStep

(* Whatever the two goroutines interleave, no Write to the log is torn. *)
THEOREM LogIsNotTorn == Spec => []LogNotTorn
  <1>1. Init => LogInv
    BY DEF Init, LogInv, LogNotTorn, HalfWritten
  <1>2. LogInv => LogNotTorn
    BY DEF LogInv
  <1> QED BY <1>1, <1>2, LogStep, RunnerTypeCorrect, MutexIsHeld, PTL DEF Spec

-----------------------------------------------------------------------------
(* The end of Run.  Once it is past <-stderrDone the goroutine is gone, and
   what Wait saw of the child cannot change any more. *)
Joined == mainPc \in {"wait", "returned"} => errPc = "done"

(* Every step keeps what Run knows of the end of the child, its stderr and its
   result. *)
LEMMA EndStep ==
  ASSUME TypeOK, Joined, ExitCodeExact, [Next]_vars
  PROVE  Joined' /\ ExitCodeExact'
  <1> USE DEF childVars, pipeVars, ctxVars, mainVars, errVars, logVars, mainElse, errElse,
              Joined, ExitCodeExact
  <1>1. CASE ChildStep
    BY <1>1 DEF ChildStep, Decide, WriteOut, WriteErr, Exit
  <1>2. CASE WatcherStep \/ Cancel
    BY <1>2 DEF WatcherStep, Kill, KillTooLate, Cancel
  <1>3. CASE ScanLine \/ ScanEOF \/ Persist \/ PersistFails
    BY <1>3 DEF ScanLine, ScanEOF, Persist, PersistFails
  <1>4. CASE MainLock \/ MainPiece \/ MainUnlock \/ MainLogFails
    BY <1>4 DEF MainLock, MainPiece, MainUnlock, MainLogFails
  <1>5. CASE AwaitStderr
    BY <1>5 DEF AwaitStderr
  <1>6. CASE Wait
    BY <1>6 DEF Wait, waitErr, TypeOK
  <1>7. CASE StderrStep
    BY <1>7 DEF StderrStep, ErrRead, ErrEOF, ErrLock, ErrPiece, ErrUnlock, ErrLogFails
  <1>8. CASE UNCHANGED vars
    BY <1>8 DEF vars
  <1> QED BY <1>1, <1>2, <1>3, <1>4, <1>5, <1>6, <1>7, <1>8 DEF Next, MainStep

(* How the goroutines are joined and what Run reports, as an invariant. *)
LEMMA EndInv == Spec => [](Joined /\ ExitCodeExact)
  <1>1. Init => Joined /\ ExitCodeExact
    BY DEF Init, Joined, ExitCodeExact
  <1> QED BY <1>1, EndStep, RunnerTypeCorrect, PTL DEF Spec

(* The exit code Run reports is that of the child, in every interleaving of
   its end with the cancellation of the context. *)
THEOREM ExitCodeIsExact == Spec => []ExitCodeExact
  BY EndInv, PTL

(* No goroutine of Run touches the log or the file after Run has returned. *)
THEOREM SilenceAfterReturn == Spec => SilentAfterReturn
  <1>1. ASSUME MutexHeld, Joined, [Next]_vars
        PROVE  [mainPc = "returned" => UNCHANGED <<log, jsonl, mu, errPc>>]_vars
    <2> SUFFICES ASSUME Next, mainPc = "returned"
                 PROVE  UNCHANGED <<log, jsonl, mu, errPc>>
      BY <1>1
    <2> USE DEF childVars, pipeVars, ctxVars, mainVars, errVars, logVars, mainElse, errElse
    <2>1. errPc = "done" /\ mu # "main" /\ mu # "stderr"
      BY <1>1 DEF Joined, MutexHeld
    <2>2. ~MainStep
      BY DEF MainStep, ScanLine, ScanEOF, Persist, PersistFails, MainLock, MainPiece,
             MainUnlock, MainLogFails, AwaitStderr, Wait
    <2>3. ~StderrStep
      BY <2>1 DEF StderrStep, ErrRead, ErrEOF, ErrLock, ErrPiece, ErrUnlock, ErrLogFails
    <2>4. CASE ChildStep \/ WatcherStep \/ Cancel
      BY <2>4 DEF ChildStep, Decide, WriteOut, WriteErr, Exit, WatcherStep, Kill,
                  KillTooLate, Cancel
    <2> QED BY <2>2, <2>3, <2>4 DEF Next
  <1> QED BY <1>1, EndInv, MutexIsHeld, PTL DEF Spec, SilentAfterReturn
-----------------------------------------------------------------------------
(* Nothing is lost on the way from the child to test.jsonl and the log.  The
   lines streamEvents has taken out of the pipe are the first of those the
   child wrote, and the chunks likewise. *)
taken    == Len(wrote) - Len(outPipe)
takenErr == chunks - Len(errPipe)

(* The pipe holds the lines not yet taken, streamEvents works on the last one
   taken, and an unbroken stream ends behind the last line of all. *)
OutInv ==
  /\ Len(outPipe) <= Len(wrote)
  /\ \A i \in 1..Len(wrote) : wrote[i].n = i
  /\ \A i \in 1..Len(outPipe) : outPipe[i] = wrote[taken + i]
  /\ mainPc \in {"persist", "log"} =>
       taken > 0 /\ cur = wrote[taken] /\ cur.kind \notin {"empty", "long"}
  /\ mainPc = "log" => cur.kind # "event"
  /\ streamErr => mainPc \in {"stderrDone", "wait", "returned"}
  /\ mainPc \in {"stderrDone", "wait", "returned"} /\ ~streamErr =>
       outPipe = <<>> /\ child # "running"
  /\ mainPc = "returned" /\ streamErr => result.err # "none"

(* The numbers of the taken lines are those of lines. *)
LEMMA TakenLines ==
  ASSUME TypeOK, OutInv
  PROVE  /\ Len(wrote) \in Nat /\ Len(outPipe) \in Nat
         /\ taken \in Nat /\ taken <= Len(wrote)
         /\ \A i \in 1..Len(wrote) : wrote[i] \in Line
         /\ DOMAIN wrote = 1..Len(wrote)
  BY LenProperties, ElementOfSeq DEF TypeOK, OutInv, taken

(* The child writes a line, or part of one when it is killed. *)
LEMMA LineWritten ==
  ASSUME TypeOK, OutInv, child = "running", NEW line \in Line, line.n = Len(wrote) + 1,
         wrote' = Append(wrote, line), outPipe' = Append(outPipe, line),
         UNCHANGED mainVars
  PROVE  OutInv' /\ taken' = taken /\ \A i \in 1..Len(wrote) : wrote'[i] = wrote[i]
  <1>1. /\ Len(wrote') = Len(wrote) + 1 /\ Len(outPipe') = Len(outPipe) + 1
        /\ \A i \in 1..Len(wrote) : wrote'[i] = wrote[i]
        /\ \A i \in 1..Len(outPipe) : outPipe'[i] = outPipe[i]
        /\ wrote'[Len(wrote) + 1] = line /\ outPipe'[Len(outPipe) + 1] = line
    BY AppendProperties DEF TypeOK
  <1>2. taken' = taken
    BY <1>1, TakenLines DEF taken
  <1>3. \A i \in 1..Len(wrote') : wrote'[i].n = i
    BY <1>1, TakenLines DEF OutInv
  <1>4. \A i \in 1..Len(outPipe') : outPipe'[i] = wrote'[taken' + i]
    <2> SUFFICES ASSUME NEW i \in 1..Len(outPipe') PROVE outPipe'[i] = wrote'[taken' + i]
      OBVIOUS
    <2>1. CASE i \in 1..Len(outPipe)
      <3>1. taken + i \in 1..Len(wrote)
        BY <2>1, TakenLines DEF taken
      <3> QED BY <1>1, <1>2, <2>1, <3>1 DEF OutInv
    <2>2. CASE i = Len(outPipe) + 1
      <3>1. taken + i = Len(wrote) + 1
        BY <2>2, TakenLines DEF taken
      <3> QED BY <1>1, <1>2, <2>2, <3>1
    <2>3. Len(outPipe) \in Nat
      BY TakenLines
    <2>4. i \in 1..Len(outPipe) \/ i = Len(outPipe) + 1
      BY <1>1, <2>3
    <2> QED BY <2>1, <2>2, <2>4
  <1>5. mainPc \in {"persist", "log"} => wrote'[taken'] = wrote[taken]
    BY <1>1, <1>2, TakenLines DEF OutInv
  <1>6. Len(outPipe') <= Len(wrote')
    BY <1>1, TakenLines DEF OutInv
  <1>7. /\ mainPc \in {"persist", "log"} =>
             taken > 0 /\ cur = wrote[taken] /\ cur.kind \notin {"empty", "long"}
        /\ mainPc = "log" => cur.kind # "event"
        /\ streamErr => mainPc \in {"stderrDone", "wait", "returned"}
        /\ mainPc \notin {"stderrDone", "wait", "returned"} \/ streamErr
        /\ mainPc = "returned" /\ streamErr => result.err # "none"
    BY DEF OutInv
  <1> QED BY <1>1, <1>2, <1>3, <1>4, <1>5, <1>6, <1>7 DEF OutInv, mainVars

(* The pieces of state the account of lines is about. *)
outSide == <<wrote, outPipe, mainPc, cur, streamErr, result>>

(* streamEvents takes a line out of the pipe. *)
LEMMA LineTaken ==
  ASSUME TypeOK, OutInv, ScanLine
  PROVE  /\ OutInv' /\ taken' = taken + 1 /\ taken' <= Len(wrote)
         /\ cur' = wrote[taken'] /\ ~streamErr
         /\ streamErr' = (cur'.kind = "long")
         /\ mainPc' = CASE cur'.kind = "empty" -> "scan"
                        [] cur'.kind = "long"  -> "stderrDone"
                        [] OTHER               -> "persist"
  <1>1. outPipe # <<>> /\ outPipe' = Tail(outPipe) /\ cur' = Head(outPipe) /\ mainPc = "scan"
    BY DEF ScanLine
  <1>2. wrote' = wrote /\ child' = child /\ result' = result
    BY DEF ScanLine, mainElse, childVars
  <1>3. /\ Len(outPipe) > 0 /\ Len(outPipe') = Len(outPipe) - 1
        /\ \A i \in 1..Len(outPipe') : outPipe'[i] = outPipe[i + 1]
        /\ cur' = outPipe[1]
    BY <1>1, HeadTailProperties, EmptySeq DEF TypeOK
  <1>4. taken' = taken + 1 /\ taken' <= Len(wrote)
    BY <1>2, <1>3, TakenLines DEF taken
  <1>5. cur' = wrote[taken']
    BY <1>3, <1>4, TakenLines DEF OutInv
  <1>6. \A i \in 1..Len(outPipe') : outPipe'[i] = wrote'[taken' + i]
    <2> SUFFICES ASSUME NEW i \in 1..Len(outPipe') PROVE outPipe'[i] = wrote'[taken' + i]
      OBVIOUS
    <2>1. Len(outPipe) \in Nat /\ taken \in Nat
      BY TakenLines
    <2>2. i \in Nat /\ i + 1 \in 1..Len(outPipe)
      BY <1>3, <2>1
    <2>3. taken + (i + 1) = taken' + i
      BY <1>4, <2>1, <2>2
    <2> QED BY <1>2, <1>3, <2>2, <2>3 DEF OutInv
  <1>7. ~streamErr
    <2>1. streamErr => mainPc \in {"stderrDone", "wait", "returned"}
      BY DEF OutInv
    <2> QED BY <1>1, <2>1
  <1>8. /\ streamErr' = (cur'.kind = "long")
        /\ mainPc' = CASE cur'.kind = "empty" -> "scan"
                       [] cur'.kind = "long"  -> "stderrDone"
                       [] OTHER               -> "persist"
    BY <1>1, Zenon DEF ScanLine
  <1>9. /\ mainPc' \in {"scan", "stderrDone", "persist"}
        /\ mainPc' = "persist" => cur'.kind \notin {"empty", "long"}
        /\ streamErr' <=> mainPc' = "stderrDone"
    BY <1>8
  <1>10. OutInv'
    BY <1>1, <1>2, <1>3, <1>4, <1>5, <1>6, <1>9, TakenLines DEF OutInv
  <1> QED BY <1>4, <1>5, <1>7, <1>8, <1>10

(* A step of anyone but streamEvents adds lines at most, behind the others. *)
Aside == ChildStep \/ WatcherStep \/ Cancel \/ StderrStep \/ UNCHANGED vars

(* Such a step leaves the lines written and the lines taken as they are. *)
LEMMA LinesStay ==
  ASSUME TypeOK, Bounds, OutInv, Aside
  PROVE  /\ OutInv' /\ taken' = taken /\ UNCHANGED mainVars
         /\ \A i \in 1..Len(wrote) : wrote'[i] = wrote[i]
  <1> USE DEF childVars, pipeVars, ctxVars, mainVars, errVars, logVars, mainElse, errElse
  <1>1. CASE WriteOut
    <2>1. [n |-> Len(wrote) + 1, kind |-> intent] \in Line
      BY <1>1, RunnerAssumption, HeadsOfPipes, NewLine DEF WriteOut, Bounds
    <2> QED BY <1>1, <2>1, LineWritten DEF WriteOut
  <1>2. CASE Kill
    <2>1. CASE UNCHANGED <<wrote, outPipe>>
      BY <1>2, <2>1 DEF Kill, OutInv, taken
    <2>2. CASE ~UNCHANGED <<wrote, outPipe>>
      <3> DEFINE line == [n |-> Len(wrote) + 1, kind |-> "cut"]
      <3>1. intent \in Kinds /\ wrote' = Append(wrote, line) /\ outPipe' = Append(outPipe, line)
        BY <1>2, <2>2 DEF Kill
      <3>2. line \in Line
        <4>1. Len(wrote) + 1 \in 1..(MaxOut + 1)
          BY <1>2, <3>1, RunnerAssumption, HeadsOfPipes DEF Kill, Bounds
        <4> QED BY <4>1, NewLine DEF Kind
      <3> QED BY <1>2, <3>1, <3>2, LineWritten DEF Kill
    <2> QED BY <2>1, <2>2
  <1>3. CASE Decide \/ WriteErr \/ Exit \/ KillTooLate \/ Cancel
    <2>1. UNCHANGED <<outSide, mainVars>> /\ (child # "running" => child' = child)
      BY <1>3 DEF Decide, WriteErr, Exit, KillTooLate, Cancel, outSide
    <2>2. child # "running" => child' # "running"
      BY <2>1
    <2> QED BY <2>1, <2>2 DEF outSide, OutInv, taken
  <1>4. CASE StderrStep \/ UNCHANGED vars
    <2>1. UNCHANGED <<outSide, mainVars>> /\ child' = child
      BY <1>4 DEF StderrStep, ErrRead, ErrEOF, ErrLock, ErrPiece, ErrUnlock, ErrLogFails,
                  vars, outSide
    <2> QED BY <2>1 DEF outSide, OutInv, taken
  <1> QED BY <1>1, <1>2, <1>3, <1>4 DEF Aside, ChildStep, WatcherStep

(* Every step keeps account of the lines. *)
LEMMA OutStep ==
  ASSUME TypeOK, Bounds, OutInv, [Next]_vars
  PROVE  OutInv'
  <1> USE DEF childVars, pipeVars, ctxVars, mainVars, errVars, logVars, mainElse, errElse
  <1>1. CASE Aside
    BY <1>1, LinesStay
  <1>2. CASE ScanLine
    BY <1>2, LineTaken
  <1>3. CASE ScanEOF
    BY <1>3 DEF ScanEOF, EOF, OutInv, taken
  <1>4. CASE Persist \/ PersistFails \/ MainLock \/ MainPiece \/ MainUnlock \/ MainLogFails
    BY <1>4 DEF Persist, PersistFails, MainLock, MainPiece, MainUnlock, MainLogFails,
                OutInv, taken
  <1>5. CASE AwaitStderr
    BY <1>5 DEF AwaitStderr, OutInv, taken
  <1>6. CASE Wait
    BY <1>6 DEF Wait, OutInv, taken
  <1> QED BY <1>1, <1>2, <1>3, <1>4, <1>5, <1>6 DEF Next, Aside, MainStep

-----------------------------------------------------------------------------
(* test.jsonl. *)

(* The non-empty ones among the first k lines. *)
First(k) == {wrote[i] : i \in {j \in 1..k : wrote[j].kind # "empty"}}

(* The line in progress was left torn. *)
TornAtLast ==
  /\ jsonl # <<>> /\ taken > 0
  /\ ToSet(Front(jsonl)) = First(taken - 1)
  /\ wrote[taken].kind # "empty"
  /\ Last(jsonl) = [wrote[taken] EXCEPT !.kind = "cut"]

(* The file has the non-empty lines that were taken, in order; the one in
   progress is missing as yet, and may miss or be torn if the stream broke. *)
FileInv ==
  /\ InOrder(jsonl)
  /\ ~streamErr => ToSet(jsonl) = First(IF mainPc = "persist" THEN taken - 1 ELSE taken)
  /\ streamErr => \/ ToSet(jsonl) = First(taken)
                  \/ ToSet(jsonl) = First(taken - 1)
                  \/ TornAtLast

(* A line appended to a sequence of lines: its set, its front and its last. *)
LEMMA LineAppended ==
  ASSUME NEW lines \in Seq(Line), NEW line \in Line
  PROVE  /\ ToSet(Append(lines, line)) = ToSet(lines) \cup {line}
         /\ Front(Append(lines, line)) = lines /\ Last(Append(lines, line)) = line
         /\ Append(lines, line) # <<>>
         /\ InOrder(lines) /\ (\A l \in ToSet(lines) : l.n < line.n) =>
              InOrder(Append(lines, line))
  <1> DEFINE more == Append(lines, line)
             k == Len(lines)
  <1>1. /\ k \in Nat /\ DOMAIN lines = 1..k
        /\ more \in Seq(Line) /\ Len(more) = k + 1 /\ DOMAIN more = 1..(k + 1)
        /\ \A i \in 1..k : more[i] = lines[i] /\ lines[i] \in Line
        /\ more[k + 1] = line
        /\ more # <<>>
    BY LenProperties, AppendProperties, ElementOfSeq
  <1> HIDE DEF more, k
  <1>2. ToSet(more) = ToSet(lines) \cup {line}
    BY <1>1 DEF ToSet
  <1>3. Front(more) = lines
    <2>1. SubSeq(more, 1, k) \in Seq(Line) /\ Len(SubSeq(more, 1, k)) = k
      BY <1>1, SubSeqProperties
    <2>2. \A i \in 1..k : SubSeq(more, 1, k)[i] = lines[i]
      BY <1>1, SubSeqProperties
    <2>3. SubSeq(more, 1, k) = lines
      BY <1>1, <2>1, <2>2, SeqEqual DEF k
    <2> QED BY <1>1, <2>3 DEF Front
  <1>4. Last(more) = line
    BY <1>1 DEF Last
  <1>5. ASSUME InOrder(lines), \A l \in ToSet(lines) : l.n < line.n
        PROVE  InOrder(more)
    <2> SUFFICES ASSUME NEW i \in 1..(k + 1), NEW j \in 1..(k + 1), i < j
                 PROVE  more[i].n < more[j].n
      BY <1>1 DEF InOrder
    <2>1. i \in 1..k /\ more[i] = lines[i] /\ more[i] \in ToSet(lines)
      BY <1>1 DEF ToSet
    <2>2. CASE j \in 1..k
      BY <1>1, <1>5, <2>1, <2>2 DEF InOrder
    <2>3. CASE j = k + 1
      BY <1>1, <1>5, <2>1, <2>3
    <2> QED BY <1>1, <2>2, <2>3
  <1> QED BY <1>1, <1>2, <1>3, <1>4, <1>5 DEF more

(* The lines taken first are numbered first, and one more may join them. *)
LEMMA FirstLines ==
  ASSUME TypeOK, OutInv, NEW k \in Nat, k <= Len(wrote)
  PROVE  /\ \A l \in First(k) : l \in Line /\ l.n <= k
         /\ k > 0 => First(k) = IF wrote[k].kind = "empty" THEN First(k - 1)
                                ELSE First(k - 1) \cup {wrote[k]}
  <1>1. \A i \in 1..k : wrote[i] \in Line /\ wrote[i].n = i
    BY TakenLines DEF OutInv
  <1>2. k > 0 => \A i : i \in 1..k <=> (i \in 1..(k - 1) \/ i = k)
    OBVIOUS
  <1> QED BY <1>1, <1>2 DEF First

(* What the child goes on to write does not change the lines taken before. *)
LEMMA FileUntouched ==
  ASSUME FileInv, taken \in Nat, taken' = taken, \A i \in 1..taken : wrote'[i] = wrote[i],
         UNCHANGED <<jsonl, streamErr>>, mainPc' = "persist" <=> mainPc = "persist"
  PROVE  FileInv'
  <1>1. First(taken)' = First(taken)
    BY DEF First
  <1>2. First(taken - 1)' = First(taken - 1)
    BY DEF First
  <1>3. TornAtLast' <=> TornAtLast
    BY <1>2 DEF TornAtLast
  <1> QED BY <1>1, <1>2, <1>3 DEF FileInv

(* Every step keeps account of the file. *)
LEMMA FileStep ==
  ASSUME TypeOK, Bounds, OutInv, FileInv, [Next]_vars
  PROVE  FileInv'
  <1> USE DEF childVars, pipeVars, ctxVars, mainVars, errVars, logVars, mainElse, errElse
  <1>1. taken \in Nat /\ taken <= Len(wrote) /\ Len(wrote) \in Nat
    BY TakenLines
  <1>2. CASE Aside
    <2>1. \A i \in 1..taken : wrote'[i] = wrote[i]
      BY <1>1, <1>2, LinesStay
    <2> QED BY <1>1, <1>2, <2>1, LinesStay, FileUntouched
  <1>3. CASE ScanEOF \/ MainLock \/ MainPiece \/ AwaitStderr \/ Wait
    <2>1. /\ UNCHANGED <<wrote, outPipe, jsonl, streamErr>>
          /\ mainPc # "persist" /\ mainPc' # "persist"
      BY <1>3 DEF ScanEOF, MainLock, MainPiece, AwaitStderr, Wait
    <2> QED BY <1>1, <2>1, FileUntouched DEF taken
  <1>4. CASE MainUnlock
    <2>1. /\ UNCHANGED <<wrote, outPipe, jsonl, streamErr>>
          /\ mainPc # "persist" /\ mainPc' # "persist"
      BY <1>4 DEF MainUnlock
    <2> QED BY <1>1, <2>1, FileUntouched DEF taken
  <1>5. CASE MainLogFails
    <2>1. /\ UNCHANGED <<wrote, outPipe, jsonl>>
          /\ mainPc = "log" /\ mainPc' # "persist" /\ ~streamErr
      BY <1>5 DEF MainLogFails, OutInv
    <2>2. ToSet(jsonl) = First(taken) /\ First(taken)' = First(taken) /\ jsonl' = jsonl
      BY <2>1 DEF FileInv, First, taken
    <2> QED BY <2>1, <2>2 DEF FileInv
  <1>6. CASE ScanLine
    <2>1. /\ UNCHANGED <<wrote, jsonl>> /\ ~streamErr /\ mainPc = "scan"
          /\ taken' = taken + 1 /\ taken' <= Len(wrote) /\ cur' = wrote[taken']
          /\ streamErr' = (cur'.kind = "long")
          /\ mainPc' = CASE cur'.kind = "empty" -> "scan"
                         [] cur'.kind = "long"  -> "stderrDone"
                         [] OTHER               -> "persist"
      BY <1>6, LineTaken DEF ScanLine
    <2>2. ToSet(jsonl) = First(taken) /\ InOrder(jsonl)
      BY <2>1 DEF FileInv
    <2>3. First(taken - 1)' = First(taken) /\ First(taken)' = First(taken + 1)
      <3>1. taken' - 1 = taken
        BY <1>1, <2>1
      <3> QED BY <2>1, <3>1 DEF First
    <2>4. CASE cur'.kind = "empty"
      <3>1. First(taken + 1) = First(taken)
        <4>1. /\ taken + 1 \in Nat /\ taken + 1 > 0 /\ (taken + 1) - 1 = taken
              /\ taken + 1 <= Len(wrote) /\ wrote[taken + 1].kind = "empty"
          BY <1>1, <2>1, <2>4
        <4>2. First(taken + 1) = First((taken + 1) - 1)
          BY <4>1, FirstLines
        <4> QED BY <4>1, <4>2
      <3> QED BY <2>1, <2>2, <2>3, <2>4, <3>1 DEF FileInv
    <2>5. CASE cur'.kind # "empty"
      <3>1. streamErr' \/ mainPc' = "persist"
        BY <2>1, <2>5
      <3> QED BY <2>1, <2>2, <2>3, <3>1 DEF FileInv
    <2> QED BY <2>4, <2>5
  <1>7. CASE Persist \/ PersistFails
    <2>1. /\ UNCHANGED <<wrote, outPipe>> /\ mainPc = "persist" /\ ~streamErr
          /\ taken > 0 /\ cur = wrote[taken] /\ cur.kind # "empty"
      BY <1>7 DEF Persist, PersistFails, OutInv
    <2>2. /\ ToSet(jsonl) = First(taken - 1) /\ InOrder(jsonl)
          /\ jsonl \in Seq(Line) /\ cur \in Line
          /\ taken' = taken /\ taken - 1 \in Nat
      BY <1>1, <2>1 DEF FileInv, TypeOK, Bounds, taken
    <2>3. First(taken) = First(taken - 1) \cup {cur}
      BY <1>1, <2>1, FirstLines
    <2>4. First(taken)' = First(taken) /\ First(taken - 1)' = First(taken - 1)
      BY <2>1, <2>2 DEF First
    <2>5. cur.n = taken
      BY <1>1, <2>1 DEF OutInv
    <2>6. \A l \in ToSet(jsonl) : l.n < cur.n
      <3>1. taken - 1 <= Len(wrote)
        BY <1>1
      <3>2. \A l \in First(taken - 1) : l \in Line /\ l.n <= taken - 1
        BY <2>2, <3>1, FirstLines
      <3>3. \A l \in Line : l.n \in Nat
        BY RunnerAssumption DEF Line
      <3> QED BY <1>1, <2>2, <2>5, <3>2, <3>3
    <2>7. CASE Persist
      <3>1. jsonl' = Append(jsonl, cur) /\ streamErr' = streamErr /\ mainPc' # "persist"
        BY <2>7 DEF Persist
      <3>2. ToSet(jsonl') = First(taken) /\ InOrder(jsonl')
        BY <2>2, <2>3, <2>6, <3>1, LineAppended
      <3> QED BY <2>1, <2>2, <2>4, <3>1, <3>2 DEF FileInv
    <2>8. CASE PersistFails
      <3> DEFINE torn == [cur EXCEPT !.kind = "cut"]
      <3>1. torn \in Line /\ torn.n = cur.n
        BY <2>2, TornLine DEF Line
      <3>2. /\ streamErr' = TRUE
            /\ jsonl' \in {jsonl, Append(jsonl, torn)}
        BY <2>8 DEF PersistFails
      <3>3. CASE jsonl' = jsonl
        BY <2>2, <2>4, <3>2, <3>3 DEF FileInv
      <3>4. CASE jsonl' = Append(jsonl, torn)
        <4>1. \A l \in ToSet(jsonl) : l.n < torn.n
          BY <2>6, <3>1
        <4>2. torn = [wrote[taken] EXCEPT !.kind = "cut"]
          BY <2>1
        <4> HIDE DEF torn
        <4>3. /\ Front(jsonl') = jsonl /\ Last(jsonl') = torn /\ jsonl' # <<>>
              /\ InOrder(jsonl')
          BY <2>2, <3>1, <3>4, <4>1, LineAppended
        <4>4. TornAtLast'
          BY <2>1, <2>2, <2>4, <4>2, <4>3 DEF TornAtLast
        <4> QED BY <3>2, <4>3, <4>4 DEF FileInv
      <3> QED BY <3>2, <3>3, <3>4
    <2> QED BY <1>7, <2>7, <2>8
  <1> QED BY <1>2, <1>3, <1>4, <1>5, <1>6, <1>7 DEF Next, Aside, MainStep

(* What is written to test.jsonl, as an invariant. *)
LEMMA FileIsFirst == Spec => [](OutInv /\ FileInv)
  <1>1. Init => OutInv /\ FileInv
    <2> SUFFICES ASSUME Init PROVE OutInv /\ FileInv
      OBVIOUS
    <2>1. OutInv
      BY DEF Init, OutInv, taken
    <2>2. taken = 0 /\ First(0) = {} /\ ToSet(jsonl) = {} /\ InOrder(jsonl)
      BY DEF Init, taken, First, ToSet, InOrder
    <2> QED BY <2>1, <2>2 DEF Init, FileInv
  <1>2. TypeOK /\ Bounds /\ OutInv /\ FileInv /\ [Next]_vars => (OutInv /\ FileInv)'
    BY OutStep, FileStep
  <1> QED BY <1>1, <1>2, RunnerTypedInv, PTL DEF Spec

(* The lines taken are lines the child wrote. *)
LEMMA FirstOfKept ==
  ASSUME TypeOK, OutInv, NEW k \in Nat, k <= Len(wrote)
  PROVE  /\ First(k) = {l \in Kept : l.n <= k}
         /\ First(Len(wrote)) = Kept
  <1>1. /\ Len(wrote) \in Nat /\ DOMAIN wrote = 1..Len(wrote)
        /\ \A i \in 1..Len(wrote) : wrote[i].n = i
    BY TakenLines DEF OutInv
  <1>2. \A i \in 1..k : i \in 1..Len(wrote)
    BY <1>1
  <1>3. \A i \in 1..Len(wrote) : i <= k => i \in 1..k
    BY <1>1
  <1>4. First(Len(wrote)) = Kept
    BY <1>1 DEF First, Kept, ToSet
  <1>5. ASSUME NEW l \in First(k) PROVE l \in Kept /\ l.n <= k
    BY <1>1, <1>2 DEF First, Kept, ToSet
  <1>6. ASSUME NEW l \in Kept, l.n <= k PROVE l \in First(k)
    <2>1. PICK i \in 1..Len(wrote) : l = wrote[i] /\ l.kind # "empty"
      BY <1>1 DEF Kept, ToSet
    <2> QED BY <1>1, <1>3, <1>6, <2>1 DEF First
  <1> QED BY <1>4, <1>5, <1>6

(* A file of the first k lines, whole, is a prefix of the lines kept. *)
LEMMA WholeFile ==
  ASSUME TypeOK, OutInv, InOrder(jsonl), NEW k \in Nat, k <= Len(wrote),
         ToSet(jsonl) = First(k)
  PROVE  /\ ~PersistTorn /\ ToSet(jsonl) \subseteq Kept
         /\ \A l \in Kept, m \in ToSet(jsonl) : l.n < m.n => l \in ToSet(jsonl)
  <1>1. First(k) = {l \in Kept : l.n <= k}
    BY FirstOfKept
  <1>2. \A l \in Kept : l.n \in Nat /\ wrote[l.n] = l
    BY TakenLines DEF Kept, ToSet, OutInv
  <1>3. ~PersistTorn
    <2> SUFFICES ASSUME jsonl # <<>> PROVE wrote[Last(jsonl).n] = Last(jsonl)
      BY DEF PersistTorn
    <2>1. Last(jsonl) \in ToSet(jsonl)
      BY EmptySeq, LenProperties DEF TypeOK, Last, ToSet
    <2> QED BY <1>1, <1>2, <2>1
  <1> QED BY <1>1, <1>2, <1>3

(* Of a torn file everything but the torn line is whole. *)
LEMMA TornFile ==
  ASSUME TypeOK, OutInv, InOrder(jsonl), TornAtLast
  PROVE  /\ ToSet(Front(jsonl)) \subseteq Kept
         /\ wrote[Last(jsonl).n] \in Kept
         /\ \A l \in Kept, m \in ToSet(jsonl) : l.n < m.n => l \in ToSet(Front(jsonl))
         /\ ~PersistTorn => ToSet(jsonl) = First(taken)
         /\ streamErr => (mainPc = "returned" => result.err # "none")
  <1>1. /\ taken \in Nat /\ taken > 0 /\ taken <= Len(wrote) /\ taken - 1 \in Nat
        /\ wrote[taken] \in Line /\ wrote[taken].n = taken
    BY TakenLines DEF TornAtLast, OutInv
  <1>2. First(taken - 1) = {l \in Kept : l.n <= taken - 1}
    BY <1>1, TakenLines, FirstOfKept
  <1>3. Last(jsonl).n = taken /\ Last(jsonl).kind = "cut"
    BY <1>1 DEF TornAtLast, Line
  <1>4. wrote[taken] \in Kept
    BY <1>1, TakenLines DEF TornAtLast, Kept, ToSet
  <1>5. /\ Len(jsonl) \in Nat \ {0} /\ jsonl \in Seq(Line)
        /\ ToSet(jsonl) = ToSet(Front(jsonl)) \cup {Last(jsonl)}
    <2>1. jsonl \in Seq(Line) /\ Len(jsonl) \in Nat \ {0} /\ DOMAIN jsonl = 1..Len(jsonl)
      BY EmptySeq, LenProperties DEF TypeOK, TornAtLast
    <2>2. /\ Len(Front(jsonl)) = Len(jsonl) - 1 /\ Front(jsonl) \in Seq(Line)
          /\ \A i \in 1..(Len(jsonl) - 1) : Front(jsonl)[i] = jsonl[i]
      <3>1. \A i \in 1..(Len(jsonl) - 1) : jsonl[i] \in Line
        BY <2>1, ElementOfSeq
      <3>2. /\ SubSeq(jsonl, 1, Len(jsonl) - 1) \in Seq(Line)
            /\ Len(SubSeq(jsonl, 1, Len(jsonl) - 1)) = Len(jsonl) - 1
            /\ \A i \in 1..(Len(jsonl) - 1) : SubSeq(jsonl, 1, Len(jsonl) - 1)[i] = jsonl[i]
        BY <2>1, <3>1, SubSeqProperties
      <3> QED BY <3>2 DEF Front
    <2>3. DOMAIN Front(jsonl) = 1..(Len(jsonl) - 1)
      BY <2>1, <2>2, LenProperties
    <2> QED BY <2>1, <2>2, <2>3 DEF ToSet, Last
  <1>6. \A l \in Kept : l.n \in Nat
    BY TakenLines DEF Kept, ToSet, OutInv
  <1>7. \A m \in ToSet(jsonl) : m.n \in Nat /\ m.n <= taken
    <2> SUFFICES ASSUME NEW m \in ToSet(jsonl) PROVE m.n \in Nat /\ m.n <= taken
      OBVIOUS
    <2>1. CASE m = Last(jsonl)
      BY <1>1, <1>3, <2>1
    <2>2. CASE m # Last(jsonl)
      <3>1. m \in Kept /\ m.n <= taken - 1
        BY <1>2, <1>5, <2>2 DEF TornAtLast
      <3> QED BY <1>1, <1>6, <3>1
    <2> QED BY <2>1, <2>2
  <1>8. \A l \in Kept, m \in ToSet(jsonl) : l.n < m.n => l \in ToSet(Front(jsonl))
    <2> SUFFICES ASSUME NEW l \in Kept, NEW m \in ToSet(jsonl), l.n < m.n
                 PROVE  l \in First(taken - 1)
      BY DEF TornAtLast
    <2>1. l.n <= taken - 1
      BY <1>1, <1>6, <1>7
    <2> QED BY <1>2, <2>1
  <1>9. ASSUME ~PersistTorn PROVE ToSet(jsonl) = First(taken)
    <2>1. wrote[taken].kind = "cut"
      BY <1>3, <1>9 DEF PersistTorn, TornAtLast
    <2>2. Last(jsonl) = wrote[taken]
      BY <1>1, <2>1 DEF TornAtLast, Line
    <2>3. First(taken) = First(taken - 1) \cup {wrote[taken]}
      BY <1>1, FirstLines DEF TornAtLast
    <2> QED BY <1>5, <2>2, <2>3 DEF TornAtLast
  <1> QED BY <1>2, <1>3, <1>4, <1>8, <1>9 DEF TornAtLast, OutInv

(* However the stream ends, test.jsonl is a prefix of the non-empty lines the
   child wrote, with a torn line at its end at most, which Run reports. *)
THEOREM JsonlIsPrefix == Spec => []JsonlPrefix
  <1>1. ASSUME TypeOK, OutInv, FileInv PROVE JsonlPrefix
    <2>1. InOrder(jsonl)
      BY <1>1 DEF FileInv
    <2>2. taken \in Nat /\ taken <= Len(wrote) /\ Len(wrote) \in Nat
      BY <1>1, TakenLines
    <2>3. ASSUME NEW k \in Nat, k <= Len(wrote), ToSet(jsonl) = First(k) PROVE JsonlPrefix
      <3>1. /\ ~PersistTorn /\ ToSet(jsonl) \subseteq Kept
            /\ \A l \in Kept, m \in ToSet(jsonl) : l.n < m.n => l \in ToSet(jsonl)
        BY <1>1, <2>1, <2>3, WholeFile
      <3> QED BY <2>1, <3>1 DEF JsonlPrefix
    <2>4. CASE ToSet(jsonl) = First(taken)
      BY <2>2, <2>3, <2>4
    <2>5. CASE ToSet(jsonl) = First(taken - 1)
      <3>1. CASE taken = 0
        <4>1. First(taken - 1) = First(0)
          BY <3>1 DEF First
        <4> QED BY <2>2, <2>3, <2>5, <4>1
      <3>2. CASE taken # 0
        BY <2>2, <2>3, <2>5, <3>2
      <3> QED BY <3>1, <3>2
    <2>6. CASE TornAtLast /\ streamErr
      <3>1. CASE PersistTorn
        BY <1>1, <2>1, <2>6, <3>1, TornFile DEF JsonlPrefix
      <3>2. CASE ~PersistTorn
        <4>1. ToSet(jsonl) = First(taken)
          BY <1>1, <2>1, <2>6, <3>2, TornFile
        <4> QED BY <2>4, <4>1
      <3> QED BY <3>1, <3>2
    <2>7. streamErr \in BOOLEAN
      BY <1>1 DEF TypeOK
    <2> QED BY <1>1, <2>4, <2>5, <2>6, <2>7 DEF FileInv
  <1> QED BY <1>1, FileIsFirst, RunnerTypeCorrect, PTL

-----------------------------------------------------------------------------
(* The log. *)

Done(w) == mu = w /\ pieces = 2

(* The last line, and the last chunk, that was dealt with as far as the log
   goes. *)
logDone == IF mainPc \in {"persist", "log"} /\ ~Done("main") THEN taken - 1 ELSE taken
errDone == IF errPc = "log" /\ ~Done("stderr") THEN takenErr - 1 ELSE takenErr

(* Until its stream breaks streamEvents has logged what it took. *)
MainLogInv ==
  /\ LoggedInOrder("main")
  /\ ~streamErr =>
       /\ Logged("main") \subseteq 1..logDone
       /\ {n \in 1..logDone : wrote[n].kind = "output"} \subseteq Logged("main")
       /\ "main" \notin dropped =>
            Logged("main") = {n \in 1..logDone : wrote[n].kind \notin {"empty", "event"}}

(* Until one of its Writes fails so has the stderr goroutine, to the end. *)
ErrLogInv ==
  /\ LoggedInOrder("stderr")
  /\ Len(errPipe) <= chunks
  /\ \A i \in 1..Len(errPipe) : errPipe[i] = takenErr + i
  /\ errPc = "log" => chunk = takenErr /\ chunk > 0
  /\ "stderr" \in dropped => errPc = "done"
  /\ "stderr" \notin dropped =>
       /\ errPc = "done" => errPipe = <<>> /\ child # "running"
       /\ Logged("stderr") = 1..errDone

(* What one more piece makes of the log of the one who writes it, and of that
   of the other. *)
LEMMA PieceLogged ==
  ASSUME TypeOK, NEW w \in Writer, NEW id \in 0..(MaxOut + MaxErr + 1), Piece(w, id)
  PROVE  /\ \A v \in Writer \ {w} :
              /\ Logged(v)' = Logged(v)
              /\ LoggedInOrder(v) => LoggedInOrder(v)'
         /\ pieces = 0 => /\ Logged(w)' = Logged(w)
                          /\ LoggedInOrder(w) => LoggedInOrder(w)'
         /\ pieces = 1 => /\ Logged(w)' = Logged(w) \cup {id}
                          /\ LoggedInOrder(w) /\ (\A n \in Logged(w) : n < id) =>
                               LoggedInOrder(w)'
  <1> DEFINE k == Len(log)
             piece == <<w, id, pieces + 1>>
  <1>1. pieces \in 0..1 /\ pieces + 1 \in 1..2 /\ log' = Append(log, piece)
    BY DEF Piece, TypeOK
  <1>2. piece \in Piece3 /\ piece[1] = w /\ piece[2] = id /\ piece[3] = pieces + 1
    BY <1>1, PieceTyped
  <1> HIDE DEF piece
  <1>3. /\ k \in Nat /\ DOMAIN log = 1..k /\ DOMAIN log' = 1..(k + 1)
        /\ \A i \in 1..k : log'[i] = log[i]
        /\ log'[k + 1] = piece
    BY <1>1, <1>2, LenProperties, AppendProperties DEF TypeOK
  <1> HIDE DEF k
  <1>4. \A v \in Writer : Whole(v)' = IF v = w /\ pieces = 1 THEN Whole(v) \cup {k + 1}
                                     ELSE Whole(v)
    <2> SUFFICES ASSUME NEW v \in Writer, NEW i
                 PROVE  i \in Whole(v)' <=>
                          i \in IF v = w /\ pieces = 1 THEN Whole(v) \cup {k + 1}
                                ELSE Whole(v)
      OBVIOUS
    <2>1. CASE i \in 1..k
      BY <1>3, <2>1 DEF Whole
    <2>2. CASE i = k + 1
      BY <1>1, <1>2, <1>3, <2>2 DEF Whole
    <2>3. CASE i \notin 1..(k + 1)
      BY <1>3, <2>3 DEF Whole
    <2> QED BY <1>3, <2>1, <2>2, <2>3
  <1>5. \A v : Whole(v) \subseteq 1..k
    BY <1>3 DEF Whole
  <1>6. ASSUME NEW v \in Writer, Whole(v)' = Whole(v)
        PROVE  Logged(v)' = Logged(v) /\ (LoggedInOrder(v) => LoggedInOrder(v)')
    BY <1>3, <1>5, <1>6 DEF Logged, LoggedInOrder
  <1>7. ASSUME pieces = 1
        PROVE  /\ Logged(w)' = Logged(w) \cup {id}
               /\ LoggedInOrder(w) /\ (\A n \in Logged(w) : n < id) => LoggedInOrder(w)'
    <2>1. Whole(w)' = Whole(w) \cup {k + 1} /\ log'[k + 1][2] = id
      BY <1>2, <1>3, <1>4, <1>7
    <2>2. \A i \in Whole(w) : log'[i] = log[i] /\ i \in 1..k
      BY <1>3, <1>5
    <2>3. Logged(w)' = Logged(w) \cup {id}
      BY <2>1, <2>2 DEF Logged
    <2>4. ASSUME LoggedInOrder(w), \A n \in Logged(w) : n < id
          PROVE  LoggedInOrder(w)'
      <3> SUFFICES ASSUME NEW i \in Whole(w)', NEW j \in Whole(w)', i < j
                   PROVE  log'[i][2] < log'[j][2]
        BY DEF LoggedInOrder
      <3>1. i \in Whole(w) /\ log'[i] = log[i] /\ log[i][2] \in Logged(w)
        BY <1>3, <2>1, <2>2 DEF Logged
      <3>2. CASE j = k + 1
        BY <2>1, <2>4, <3>1, <3>2
      <3>3. CASE j \in Whole(w)
        BY <2>2, <2>4, <3>1, <3>3 DEF LoggedInOrder
      <3> QED BY <2>1, <3>2, <3>3
    <2> QED BY <2>3, <2>4
  <1> QED BY <1>1, <1>4, <1>6, <1>7

(* A step that leaves alone what streamEvents logged and the lines it took. *)
LEMMA MainLogUntouched ==
  ASSUME MainLogInv,
         Logged("main")' = Logged("main"), LoggedInOrder("main") => LoggedInOrder("main")',
         ~streamErr' => ~streamErr /\ logDone' = logDone,
         \A i \in 1..logDone : wrote'[i] = wrote[i],
         "main" \notin dropped' => "main" \notin dropped
  PROVE  MainLogInv'
  BY DEF MainLogInv

(* A step by which one more line is dealt with, logged or without a place in
   the log. *)
LEMMA MainLogMore ==
  ASSUME MainLogInv, OutInv, taken \in Nat, wrote' = wrote, LoggedInOrder("main")',
         ~streamErr, NEW k \in Nat, logDone = k, logDone' = k + 1,
         \/ /\ Logged("main")' = Logged("main") \cup {k + 1}
            /\ wrote[k + 1].kind \notin {"empty", "event"}
            /\ UNCHANGED dropped
         \/ /\ Logged("main")' = Logged("main")
            /\ wrote[k + 1].kind # "output"
            /\ "main" \notin dropped' =>
                 "main" \notin dropped /\ wrote[k + 1].kind \in {"empty", "event"}
  PROVE  MainLogInv'
  <1>1. \A n : n \in 1..(k + 1) <=> n \in 1..k \/ n = k + 1
    OBVIOUS
  <1>2. /\ Logged("main") \subseteq 1..k
        /\ {n \in 1..k : wrote[n].kind = "output"} \subseteq Logged("main")
        /\ "main" \notin dropped =>
             Logged("main") = {n \in 1..k : wrote[n].kind \notin {"empty", "event"}}
    BY DEF MainLogInv
  <1>3. /\ Logged("main")' \subseteq 1..(k + 1)
        /\ {n \in 1..(k + 1) : wrote[n].kind = "output"} \subseteq Logged("main")'
        /\ "main" \notin dropped' =>
             Logged("main")' = {n \in 1..(k + 1) : wrote[n].kind \notin {"empty", "event"}}
    BY <1>1, <1>2
  <1> QED BY <1>3 DEF MainLogInv

(* The log as far as a step leaves it alone. *)
LEMMA SameLog ==
  ASSUME log' = log, NEW w
  PROVE  Logged(w)' = Logged(w) /\ (LoggedInOrder(w)' <=> LoggedInOrder(w))
  BY DEF Logged, LoggedInOrder, Whole

(* Every step keeps account of what streamEvents logs. *)
LEMMA MainLogStep ==
  ASSUME TypeOK, Bounds, MutexHeld, OutInv, MainLogInv, [Next]_vars
  PROVE  MainLogInv'
  <1> USE DEF childVars, pipeVars, ctxVars, mainVars, errVars, logVars, mainElse, errElse
  <1>1. taken \in Nat /\ taken <= Len(wrote) /\ Len(wrote) \in Nat
    BY TakenLines
  <1>2. CASE Aside
    <2>1. /\ UNCHANGED mainVars /\ taken' = taken
          /\ \A i \in 1..taken : wrote'[i] = wrote[i]
      BY <1>1, <1>2, LinesStay
    <2>2. /\ Done("main")' <=> Done("main")
          /\ "main" \notin dropped' => "main" \notin dropped
      BY <1>2 DEF Aside, ChildStep, Decide, WriteOut, WriteErr, Exit, WatcherStep, Kill,
                  KillTooLate, Cancel, StderrStep, ErrRead, ErrEOF, ErrLock, Lock, ErrPiece,
                  Piece, ErrUnlock, Unlock, ErrLogFails, LogFails, vars, Done, Nobody
    <2>3. /\ Logged("main")' = Logged("main")
          /\ LoggedInOrder("main") => LoggedInOrder("main")'
      <3>1. CASE ErrPiece
        BY <3>1, Numbers, PieceLogged DEF ErrPiece, Writer
      <3>2. CASE ~ErrPiece
        <4>1. log' = log
          BY <1>2, <3>2 DEF Aside, ChildStep, Decide, WriteOut, WriteErr, Exit, WatcherStep,
                  Kill, KillTooLate, Cancel, StderrStep, ErrRead, ErrEOF, ErrLock, Lock,
                  ErrUnlock, Unlock, ErrLogFails, LogFails, vars
        <4> QED BY <4>1, SameLog
      <3> QED BY <3>1, <3>2
    <2>4. logDone' = logDone /\ \A i \in 1..logDone : wrote'[i] = wrote[i]
      BY <1>1, <2>1, <2>2 DEF logDone
    <2> QED BY <2>1, <2>2, <2>3, <2>4, MainLogUntouched
  <1>3. CASE ScanEOF \/ MainLock \/ MainUnlock \/ AwaitStderr \/ Wait
    <2>1. UNCHANGED <<wrote, outPipe, log, streamErr, dropped>>
      BY <1>3 DEF ScanEOF, MainLock, Lock, MainUnlock, Unlock, AwaitStderr, Wait
    <2>2. logDone' = logDone
      <3>1. CASE ScanEOF \/ AwaitStderr \/ Wait
        BY <2>1, <3>1 DEF ScanEOF, AwaitStderr, Wait, logDone, taken
      <3>2. CASE MainLock
        BY <2>1, <3>2 DEF MainLock, Lock, logDone, taken, Done, MutexHeld, Nobody
      <3>3. CASE MainUnlock
        BY <2>1, <3>3 DEF MainUnlock, Unlock, logDone, taken, Done
      <3> QED BY <1>3, <3>1, <3>2, <3>3
    <2> QED BY <2>1, <2>2, SameLog, MainLogUntouched
  <1>4. CASE PersistFails
    <2>1. UNCHANGED <<wrote, log, dropped>> /\ streamErr'
      BY <1>4 DEF PersistFails
    <2> QED BY <2>1, SameLog, MainLogUntouched
  <1>5. CASE ScanLine
    <2>1. /\ UNCHANGED <<wrote, log, dropped, mu, pieces>> /\ mainPc = "scan" /\ mu # "main"
          /\ ~streamErr /\ taken' = taken + 1 /\ cur' = wrote[taken']
          /\ streamErr' = (cur'.kind = "long")
          /\ mainPc' = CASE cur'.kind = "empty" -> "scan"
                         [] cur'.kind = "long"  -> "stderrDone"
                         [] OTHER               -> "persist"
      BY <1>5, LineTaken DEF ScanLine, MutexHeld
    <2>2. logDone = taken
      BY <2>1 DEF logDone
    <2>3. CASE cur'.kind = "empty"
      <3>1. logDone' = taken + 1
        BY <2>1, <2>3 DEF logDone
      <3>2. LoggedInOrder("main")' /\ Logged("main")' = Logged("main")
        BY <2>1, SameLog DEF MainLogInv
      <3> QED BY <1>1, <2>1, <2>2, <2>3, <3>1, <3>2, MainLogMore
    <2>4. CASE cur'.kind = "long"
      <3>1. streamErr'
        BY <2>1, <2>4
      <3> QED BY <2>1, <3>1, SameLog, MainLogUntouched
    <2>5. CASE cur'.kind \notin {"empty", "long"}
      <3>1. mainPc' = "persist"
        BY <2>1, <2>5
      <3>2. logDone' = taken
        BY <1>1, <2>1, <3>1 DEF logDone, Done
      <3> QED BY <2>1, <2>2, <3>2, SameLog, MainLogUntouched
    <2> QED BY <2>3, <2>4, <2>5
  <1>6. CASE Persist
    <2>1. /\ UNCHANGED <<wrote, outPipe, log, dropped, mu, pieces, streamErr>>
          /\ mainPc = "persist" /\ mu # "main" /\ ~streamErr
          /\ mainPc' = IF cur.kind = "event" THEN "scan" ELSE "log"
          /\ cur = wrote[taken] /\ taken > 0
      BY <1>6 DEF Persist, MutexHeld, OutInv
    <2>2. logDone = taken - 1
      BY <2>1 DEF logDone, Done
    <2>3. CASE cur.kind = "event"
      <3>1. logDone' = (taken - 1) + 1 /\ taken - 1 \in Nat
        BY <1>1, <2>1, <2>3 DEF logDone, taken
      <3>2. LoggedInOrder("main")' /\ Logged("main")' = Logged("main")
        BY <2>1, SameLog DEF MainLogInv
      <3>3. wrote[(taken - 1) + 1].kind = "event"
        BY <1>1, <2>1, <2>3
      <3> QED BY <1>1, <2>1, <2>2, <3>1, <3>2, <3>3, MainLogMore
    <2>4. CASE cur.kind # "event"
      <3>1. logDone' = taken - 1
        BY <2>1, <2>4 DEF logDone, Done, taken
      <3> QED BY <2>1, <2>2, <3>1, SameLog, MainLogUntouched
    <2> QED BY <2>3, <2>4
  <1>7. CASE MainPiece
    <2>1. /\ UNCHANGED <<wrote, outPipe, dropped, mu, streamErr, mainPc>>
          /\ mainPc = "log" /\ mu = "main" /\ ~streamErr
          /\ pieces \in 0..1 /\ pieces' = pieces + 1 /\ Piece("main", cur.n)
          /\ cur = wrote[taken] /\ taken > 0 /\ cur.kind \notin {"empty", "event"}
          /\ taken' = taken
      BY <1>7 DEF MainPiece, Piece, OutInv, TypeOK, taken
    <2>2. logDone = taken - 1 /\ logDone' = IF pieces = 1 THEN taken ELSE taken - 1
      BY <2>1 DEF logDone, Done
    <2>3. cur.n = taken /\ cur.n \in 0..(MaxOut + MaxErr + 1)
      BY <1>1, <2>1, Numbers DEF OutInv
    <2>4. CASE pieces = 0
      <3>1. Logged("main")' = Logged("main") /\ (LoggedInOrder("main") => LoggedInOrder("main")')
        BY <2>1, <2>3, <2>4, PieceLogged DEF Writer
      <3> QED BY <2>1, <2>2, <2>4, <3>1, MainLogUntouched
    <2>5. CASE pieces = 1
      <3>1. \A n \in Logged("main") : n < taken
        BY <1>1, <2>1, <2>2 DEF MainLogInv
      <3>2. Logged("main")' = Logged("main") \cup {taken} /\ LoggedInOrder("main")'
        BY <2>1, <2>3, <2>5, <3>1, PieceLogged DEF Writer, MainLogInv
      <3>3. taken - 1 \in Nat /\ (taken - 1) + 1 = taken
        BY <1>1, <2>1
      <3>4. logDone' = (taken - 1) + 1
        BY <2>2, <2>5, <3>3
      <3> QED BY <1>1, <2>1, <2>2, <3>2, <3>3, <3>4, MainLogMore
    <2> QED BY <2>1, <2>4, <2>5
  <1>8. CASE MainLogFails
    <2>1. /\ UNCHANGED <<wrote, outPipe, log>> /\ mainPc = "log" /\ pieces = 0 /\ ~streamErr
          /\ cur = wrote[taken] /\ taken > 0 /\ "main" \in dropped'
      BY <1>8 DEF MainLogFails, LogFails, OutInv
    <2>2. CASE cur.kind = "output"
      <3>1. streamErr'
        BY <1>8, <2>2 DEF MainLogFails
      <3> QED BY <2>1, <3>1, SameLog, MainLogUntouched
    <2>3. CASE cur.kind # "output"
      <3>1. mainPc' = "scan"
        BY <1>8, <2>3 DEF MainLogFails
      <3>2. taken - 1 \in Nat /\ (taken - 1) + 1 = taken
        BY <1>1, <2>1
      <3>3. logDone = taken - 1 /\ logDone' = (taken - 1) + 1
        BY <2>1, <3>1, <3>2 DEF logDone, Done, taken
      <3>4. LoggedInOrder("main")' /\ Logged("main")' = Logged("main")
        BY <2>1, SameLog DEF MainLogInv
      <3> QED BY <1>1, <2>1, <2>3, <3>2, <3>3, <3>4, MainLogMore
    <2> QED BY <2>2, <2>3
  <1> QED BY <1>2, <1>3, <1>4, <1>5, <1>6, <1>7, <1>8 DEF Next, Aside, MainStep

(* A step that leaves alone the chunks and what was logged of them. *)
LEMMA ErrLogUntouched ==
  ASSUME ErrLogInv, UNCHANGED <<chunks, errPipe, chunk, errPc>>,
         child # "running" => child' # "running",
         Logged("stderr")' = Logged("stderr"),
         LoggedInOrder("stderr") => LoggedInOrder("stderr")',
         Done("stderr")' <=> Done("stderr"),
         "stderr" \in dropped' <=> "stderr" \in dropped
  PROVE  ErrLogInv'
  <1>1. takenErr' = takenErr
    BY DEF takenErr
  <1>2. errDone' = errDone
    BY <1>1 DEF errDone
  <1> QED BY <1>1, <1>2 DEF ErrLogInv

(* Every step keeps account of the chunks. *)
LEMMA ErrLogStep ==
  ASSUME TypeOK, Bounds, MutexHeld, ErrLogInv, [Next]_vars
  PROVE  ErrLogInv'
  <1> USE DEF childVars, pipeVars, ctxVars, mainVars, errVars, logVars, mainElse, errElse
  <1>1. /\ Len(errPipe) \in Nat /\ chunks \in Nat /\ takenErr \in Nat
        /\ \A i \in 1..Len(errPipe) : errPipe[i] \in 1..MaxErr
    <2>1. errPipe \in Seq(1..MaxErr) /\ chunks \in Nat /\ Len(errPipe) <= chunks
      BY RunnerAssumption DEF TypeOK, ErrLogInv
    <2>2. Len(errPipe) \in Nat /\ \A i \in 1..Len(errPipe) : errPipe[i] \in 1..MaxErr
      BY <2>1, LenProperties, ElementOfSeq
    <2> QED BY <2>1, <2>2 DEF takenErr
  <1>2. CASE Decide \/ WriteOut \/ Exit \/ WatcherStep \/ Cancel \/ UNCHANGED vars
    <2>1. /\ UNCHANGED <<chunks, errPipe, chunk, errPc, log, mu, pieces, dropped>>
          /\ child # "running" => child' # "running"
      BY <1>2 DEF Decide, WriteOut, Exit, WatcherStep, Kill, KillTooLate, Cancel, vars
    <2>2. Done("stderr")' <=> Done("stderr")
      BY <2>1 DEF Done
    <2> QED BY <2>1, <2>2, SameLog, ErrLogUntouched
  <1>3. CASE MainStep
    <2>1. UNCHANGED <<chunks, errPipe, chunk, errPc, child>>
      BY <1>3 DEF MainStep, ScanLine, ScanEOF, Persist, PersistFails, MainLock, MainPiece,
                  MainUnlock, MainLogFails, AwaitStderr, Wait
    <2>2. /\ Done("stderr")' <=> Done("stderr")
          /\ "stderr" \in dropped' <=> "stderr" \in dropped
      BY <1>3 DEF MainStep, ScanLine, ScanEOF, Persist, PersistFails, MainLock, MainPiece,
                  MainUnlock, MainLogFails, AwaitStderr, Wait, Lock, Piece, Unlock, LogFails,
                  Done, Nobody
    <2>3. /\ Logged("stderr")' = Logged("stderr")
          /\ LoggedInOrder("stderr") => LoggedInOrder("stderr")'
      <3>1. CASE MainPiece
        BY <3>1, Numbers, PieceLogged DEF MainPiece, Writer
      <3>2. CASE ~MainPiece
        <4>1. log' = log
          BY <1>3, <3>2 DEF MainStep, ScanLine, ScanEOF, Persist, PersistFails, MainLock,
                  MainUnlock, MainLogFails, AwaitStderr, Wait, Lock, Unlock, LogFails
        <4> QED BY <4>1, SameLog
      <3> QED BY <3>1, <3>2
    <2> QED BY <2>1, <2>2, <2>3, ErrLogUntouched
  <1>4. CASE WriteErr
    <2>1. /\ UNCHANGED <<chunk, errPc, log, mu, pieces, dropped>> /\ child = "running"
          /\ chunks' = chunks + 1 /\ errPipe' = Append(errPipe, chunks + 1)
      BY <1>4 DEF WriteErr
    <2>2. /\ Len(errPipe') = Len(errPipe) + 1
          /\ \A i \in 1..Len(errPipe) : errPipe'[i] = errPipe[i]
          /\ errPipe'[Len(errPipe) + 1] = chunks + 1
      <3>1. chunks + 1 \in 1..MaxErr
        BY <1>4, RunnerAssumption DEF WriteErr, TypeOK, Bounds
      <3> QED BY <2>1, <3>1, AppendProperties DEF TypeOK
    <2>3. takenErr' = takenErr
      BY <1>1, <2>1, <2>2 DEF takenErr
    <2>4. \A i \in 1..Len(errPipe') : errPipe'[i] = takenErr' + i
      <3> SUFFICES ASSUME NEW i \in 1..Len(errPipe') PROVE errPipe'[i] = takenErr + i
        BY <2>3
      <3>1. CASE i \in 1..Len(errPipe)
        BY <2>2, <3>1 DEF ErrLogInv
      <3>2. CASE i = Len(errPipe) + 1
        BY <1>1, <2>2, <3>2 DEF takenErr
      <3> QED BY <1>1, <2>2, <3>1, <3>2
    <2>5. errDone' = errDone /\ Len(errPipe') <= chunks'
      BY <1>1, <2>1, <2>2, <2>3 DEF errDone, Done, ErrLogInv
    <2>6. Logged("stderr")' = Logged("stderr") /\ LoggedInOrder("stderr")'
      BY <2>1, SameLog DEF ErrLogInv
    <2>7. "stderr" \notin dropped => errPc # "done"
      BY <2>1 DEF ErrLogInv
    <2> QED BY <2>1, <2>3, <2>4, <2>5, <2>6, <2>7 DEF ErrLogInv
  <1>5. CASE ErrRead
    <2>1. /\ UNCHANGED <<chunks, log, mu, pieces, dropped, child>>
          /\ errPc = "read" /\ errPc' = "log" /\ mu # "stderr" /\ errPipe # <<>>
          /\ chunk' = Head(errPipe) /\ errPipe' = Tail(errPipe)
      BY <1>5 DEF ErrRead, MutexHeld
    <2>2. /\ Len(errPipe) > 0 /\ Len(errPipe') = Len(errPipe) - 1
          /\ \A i \in 1..Len(errPipe') : errPipe'[i] = errPipe[i + 1]
          /\ chunk' = errPipe[1]
      BY <2>1, HeadTailProperties, EmptySeq DEF TypeOK
    <2>3. takenErr' = takenErr + 1 /\ chunk' = takenErr' /\ chunk' > 0
      BY <1>1, <2>1, <2>2 DEF takenErr, ErrLogInv
    <2>4. \A i \in 1..Len(errPipe') : errPipe'[i] = takenErr' + i
      <3> SUFFICES ASSUME NEW i \in 1..Len(errPipe') PROVE errPipe'[i] = takenErr' + i
        OBVIOUS
      <3>1. i \in Nat /\ i + 1 \in 1..Len(errPipe) /\ takenErr + (i + 1) = takenErr' + i
        BY <1>1, <2>2, <2>3
      <3> QED BY <2>2, <3>1 DEF ErrLogInv
    <2>5. errDone' = errDone
      BY <1>1, <2>1, <2>3 DEF errDone, Done
    <2>6. Logged("stderr")' = Logged("stderr") /\ LoggedInOrder("stderr")'
      BY <2>1, SameLog DEF ErrLogInv
    <2>7. "stderr" \notin dropped' /\ Len(errPipe') <= chunks'
      BY <1>1, <2>1, <2>2 DEF ErrLogInv
    <2> QED BY <2>1, <2>3, <2>4, <2>5, <2>6, <2>7 DEF ErrLogInv
  <1>6. CASE ErrEOF \/ ErrLock \/ ErrUnlock \/ ErrLogFails
    <2>1. UNCHANGED <<chunks, errPipe, chunk, log, child>> /\ errPc # "done"
      BY <1>6 DEF ErrEOF, ErrLock, Lock, ErrUnlock, Unlock, ErrLogFails, LogFails
    <2>2. takenErr' = takenErr /\ Logged("stderr")' = Logged("stderr") /\ LoggedInOrder("stderr")'
      BY <2>1, SameLog DEF takenErr, ErrLogInv
    <2>3. CASE ErrLogFails
      <3>1. "stderr" \in dropped' /\ errPc' = "done"
        BY <2>3 DEF ErrLogFails, LogFails
      <3> QED BY <2>1, <2>2, <3>1 DEF ErrLogInv
    <2>4. CASE ErrEOF \/ ErrLock \/ ErrUnlock
      <3>1. /\ dropped' = dropped /\ "stderr" \notin dropped
            /\ errPc' = "log" => errPc = "log"
            /\ errPc' = "done" => errPipe = <<>> /\ child # "running"
        BY <2>1, <2>4 DEF ErrEOF, EOF, ErrLock, Lock, ErrUnlock, Unlock, ErrLogInv
      <3>2. errDone' = errDone
        <4>1. CASE ErrEOF
          BY <2>2, <4>1 DEF ErrEOF, errDone
        <4>2. CASE ErrLock
          BY <2>2, <4>2 DEF ErrLock, Lock, errDone, Done, MutexHeld, Nobody
        <4>3. CASE ErrUnlock
          BY <2>2, <4>3 DEF ErrUnlock, Unlock, errDone, Done
        <4> QED BY <2>4, <4>1, <4>2, <4>3
      <3> QED BY <2>1, <2>2, <3>1, <3>2 DEF ErrLogInv
    <2> QED BY <1>6, <2>3, <2>4
  <1>7. CASE ErrPiece
    <2>1. /\ UNCHANGED <<chunks, errPipe, chunk, errPc, child, dropped, mu>>
          /\ errPc = "log" /\ mu = "stderr"
          /\ pieces \in 0..1 /\ pieces' = pieces + 1 /\ Piece("stderr", chunk)
      BY <1>7 DEF ErrPiece, Piece, TypeOK
    <2>2. takenErr' = takenErr /\ chunk = takenErr /\ chunk > 0 /\ "stderr" \notin dropped
      BY <2>1 DEF takenErr, ErrLogInv
    <2>3. errDone = takenErr - 1 /\ errDone' = IF pieces = 1 THEN takenErr ELSE takenErr - 1
      BY <2>1, <2>2 DEF errDone, Done
    <2>4. Logged("stderr") = 1..(takenErr - 1) /\ LoggedInOrder("stderr")
      BY <2>2, <2>3 DEF ErrLogInv
    <2>5. chunk \in 0..(MaxOut + MaxErr + 1)
      BY Numbers
    <2>6. Logged("stderr")' = 1..errDone' /\ LoggedInOrder("stderr")'
      <3>1. CASE pieces = 0
        BY <2>1, <2>3, <2>4, <2>5, <3>1, PieceLogged DEF Writer
      <3>2. CASE pieces = 1
        <4>1. \A n \in Logged("stderr") : n < chunk
          BY <1>1, <2>2, <2>4
        <4>2. Logged("stderr")' = Logged("stderr") \cup {chunk} /\ LoggedInOrder("stderr")'
          BY <2>1, <2>4, <2>5, <3>2, <4>1, PieceLogged DEF Writer
        <4>3. (1..(takenErr - 1)) \cup {takenErr} = 1..takenErr
          BY <1>1, <2>2
        <4> QED BY <2>2, <2>3, <2>4, <3>2, <4>2, <4>3
      <3> QED BY <2>1, <3>1, <3>2
    <2> QED BY <2>1, <2>2, <2>6 DEF ErrLogInv
  <1> QED BY <1>2, <1>3, <1>4, <1>5, <1>6, <1>7 DEF Next, ChildStep, StderrStep

(* What the two goroutines log, as an invariant. *)
LEMMA LogsAreExact == Spec => [](MainLogInv /\ ErrLogInv)
  <1>1. Init => MainLogInv /\ ErrLogInv
    <2> SUFFICES ASSUME Init PROVE MainLogInv /\ ErrLogInv
      OBVIOUS
    <2>1. /\ taken = 0 /\ takenErr = 0 /\ logDone = 0 /\ errDone = 0
          /\ \A w \in Writer : Logged(w) = {} /\ LoggedInOrder(w)
      <3>1. taken = 0 /\ takenErr = 0
        <4>1. wrote = <<>> /\ outPipe = <<>> /\ errPipe = <<>> /\ chunks = 0
          BY DEF Init
        <4>2. Len(wrote) = 0 /\ Len(outPipe) = 0 /\ Len(errPipe) = 0
          BY <4>1
        <4>3. Len(wrote) - Len(outPipe) = 0
          BY <4>2
        <4>4. chunks = 0 /\ Len(errPipe) = 0
          BY <4>1, <4>2
        <4> QED BY <4>3, <4>4 DEF taken, takenErr
      <3>2. logDone = 0 /\ errDone = 0
        BY <3>1 DEF Init, logDone, errDone
      <3>3. \A w : Whole(w) = {}
        BY DEF Init, Whole
      <3> QED BY <3>1, <3>2, <3>3 DEF Logged, LoggedInOrder
    <2> QED BY <2>1 DEF Init, MainLogInv, ErrLogInv, Writer
  <1>2. ASSUME TypeOK, Bounds, MutexHeld, OutInv, MainLogInv, ErrLogInv, [Next]_vars
        PROVE  (MainLogInv /\ ErrLogInv)'
    BY <1>2, MainLogStep, ErrLogStep
  <1> QED BY <1>1, <1>2, RunnerTypedInv, MutexIsHeld, FileIsFirst, PTL DEF Spec

(* When Run returns no error neither test.jsonl nor the log lacks anything the
   child wrote, whatever the two goroutines interleaved. *)
THEOREM EverythingIsReturned == Spec => []ReturnsEverything
  <1>1. ASSUME TypeOK, Joined, OutInv, FileInv, MainLogInv, ErrLogInv
        PROVE  ReturnsEverything
    <2> SUFFICES ASSUME mainPc = "returned", result.err = "none"
                 PROVE  /\ InOrder(jsonl) /\ ToSet(jsonl) = Kept
                        /\ LoggedInOrder("main") /\ LoggedInOrder("stderr")
                        /\ {n \in DOMAIN wrote : wrote[n].kind = "output"} \subseteq Logged("main")
                        /\ "main" \notin dropped =>
                             Logged("main") = {n \in DOMAIN wrote :
                                                 wrote[n].kind \notin {"empty", "event"}}
                        /\ "stderr" \notin dropped => Logged("stderr") = 1..chunks
      BY DEF ReturnsEverything
    <2>1. ~streamErr /\ outPipe = <<>>
      BY <1>1 DEF OutInv
    <2>2. taken = Len(wrote) /\ Len(wrote) \in Nat /\ DOMAIN wrote = 1..Len(wrote)
      BY <1>1, <2>1, TakenLines DEF taken
    <2>3. InOrder(jsonl) /\ ToSet(jsonl) = Kept
      BY <1>1, <2>1, <2>2, FirstOfKept DEF FileInv
    <2>4. logDone = Len(wrote)
      BY <2>2 DEF logDone
    <2>5. "stderr" \notin dropped => errDone = chunks
      BY <1>1, RunnerAssumption DEF Joined, errDone, takenErr, ErrLogInv, TypeOK
    <2> QED BY <1>1, <2>1, <2>2, <2>3, <2>4, <2>5 DEF MainLogInv, ErrLogInv
  <1> QED BY <1>1, RunnerTypeCorrect, EndInv, FileIsFirst, LogsAreExact, PTL

=============================================================================
