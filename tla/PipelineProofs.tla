--------------------------- MODULE PipelineProofs ---------------------------
(***************************************************************************)
(* Theorems about Pipeline, for any packages, configurations, outcomes,    *)
(* counts and files of earlier invocations: the verdict is the one the run *)
(* and the coverage call for, what the reports say is what was run, and    *)
(* which files can be trusted after which exit code.                       *)
(***************************************************************************)
EXTENDS Pipeline, AggregateProofs, Invocation

(* While the reports are written, the first ones are done and the others are
   those of an earlier invocation. *)
FirstWritten ==
  /\ \A i \in 1..3 :
       IF i <= written /\ Reports[i] \in enabled
       THEN files[Reports[i]] = Content(Reports[i], TRUE)
       ELSE ~Mine(Reports[i])
  /\ ~Mine("summary")

Progress ==
  /\ enabled \subseteq File /\ DOMAIN files = File
  /\ written \in 0..3
  /\ pc # "exited" => exit = -1
  /\ pc \notin {"write", "exited"} => written = 0 /\ \A f \in File : ~Mine(f)
  /\ pc = "write" => FirstWritten

Inv == Progress /\ (pc = "exited" => WrittenIsPrefix)

-----------------------------------------------------------------------------
(* Facts about the data. *)

(* What a report says is settled before the first one is written. *)
LEMMA ContentStays ==
  ASSUME UNCHANGED <<inputVars, runVars>>, NEW f \in File, NEW w \in BOOLEAN
  PROVE  Content(f, w)' = Content(f, w)
  BY DEF Content, says, Rep, decideExitCode, deriveModulePath, inputVars, runVars

(* A report just written is of this invocation, and whole if it is not torn. *)
LEMMA ContentIsMine ==
  ASSUME NEW f, NEW w
  PROVE  Content(f, w).by = "now" /\ Content(f, w).whole = w
  BY DEF Content

(* The three reports, in their order, are files other than the summary. *)
LEMMA ReportOrder ==
  /\ Len(Reports) = 3 /\ DOMAIN Reports = 1..3
  /\ \A i \in 1..3 : Reports[i] \in File /\ Reports[i] # "summary"
  /\ \A i, j \in 1..3 : Reports[i] = Reports[j] => i = j
  /\ \A f \in File : f = "summary" \/ \E i \in 1..3 : Reports[i] = f
  BY DEF Reports, File

(* An error is no verdict, and neither is no exit code. *)
LEMMA Errors == {-1, ExitConfigError, ExitToolchainError} \cap Verdict = {}
  BY DEF Verdict, ExitSuccess, ExitTestFailure, ExitTotalCoverage, ExitPackageCoverage,
         ExitConfigError, ExitToolchainError

-----------------------------------------------------------------------------
(* While the reports are written, those of this invocation are the requested
   ones among the first, and whole. *)
LEMMA WhatIsMine ==
  ASSUME Progress, pc = "write"
  PROVE  /\ \A i \in 1..3 : Mine(Reports[i]) <=> i <= written /\ Reports[i] \in enabled
         /\ \A i \in 1..3 : Mine(Reports[i]) => files[Reports[i]].whole
         /\ ~Mine("summary")
  <1>1. FirstWritten
    BY DEF Progress
  <1>2. ASSUME NEW i \in 1..3
        PROVE  /\ Mine(Reports[i]) <=> i <= written /\ Reports[i] \in enabled
               /\ Mine(Reports[i]) => files[Reports[i]].whole
    <2>1. CASE i <= written /\ Reports[i] \in enabled
      <3>1. files[Reports[i]] = Content(Reports[i], TRUE)
        BY <1>1, <2>1 DEF FirstWritten
      <3>2. Content(Reports[i], TRUE).by = "now" /\ Content(Reports[i], TRUE).whole = TRUE
        BY ContentIsMine
      <3> QED BY <2>1, <3>1, <3>2 DEF Mine
    <2>2. CASE ~(i <= written /\ Reports[i] \in enabled)
      BY <1>1, <2>2 DEF FirstWritten
    <2> QED BY <2>1, <2>2
  <1> QED BY <1>1, <1>2 DEF FirstWritten

(* Before the exit the property says what Progress says. *)
LEMMA PrefixBeforeExit ==
  ASSUME Progress, pc # "exited"
  PROVE  WrittenIsPrefix /\ \A f \in File : Mine(f) => files[f].whole
  <1>1. exit \notin Verdict
    BY Errors DEF Progress
  <1>2. CASE pc # "write"
    <2>1. \A f \in File : ~Mine(f)
      BY <1>2 DEF Progress
    <2>2. "summary" \in File /\ \A i \in DOMAIN Reports : Reports[i] \in File
      BY ReportOrder DEF File
    <2> QED BY <1>1, <2>1, <2>2 DEF WrittenIsPrefix
  <1>3. CASE pc = "write"
    <2>1. \A f \in File : Mine(f) => files[f].whole /\ f \in enabled
      BY <1>3, ReportOrder, WhatIsMine
    <2>2. \A i, j \in 1..3 : i < j /\ Mine(Reports[j]) /\ Reports[i] \in enabled =>
            Mine(Reports[i]) /\ files[Reports[i]].whole
      <3>1. written \in 0..3
        BY DEF Progress
      <3> QED BY <1>3, <3>1, WhatIsMine
    <2>3. ~Mine("summary")
      BY <1>3, WhatIsMine
    <2> QED BY <1>1, <2>1, <2>2, <2>3, ReportOrder DEF WrittenIsPrefix
  <1> QED BY <1>2, <1>3

(* An invocation that ends early leaves the files as they were. *)
LEMMA PrefixAtError ==
  ASSUME Progress, pc # "exited", files' = files, enabled' = enabled,
         exit' \in {ExitConfigError, ExitToolchainError}
  PROVE  WrittenIsPrefix'
  <1>1. exit' \notin Verdict
    BY Errors
  <1>2. WrittenIsPrefix /\ \A f \in File : Mine(f) => files[f].whole
    BY PrefixBeforeExit
  <1>3. \A f : Mine(f)' <=> Mine(f)
    BY DEF Mine
  <1> QED BY <1>1, <1>2, <1>3 DEF WrittenIsPrefix

(* A report that is torn comes behind those written. *)
LEMMA PrefixAtTorn ==
  ASSUME Progress, pc = "write", written < 3, Reports[written + 1] \in enabled,
         files' = [files EXCEPT ![Reports[written + 1]] = Content(Reports[written + 1], FALSE)],
         enabled' = enabled, exit' = ExitToolchainError
  PROVE  WrittenIsPrefix'
  <1> DEFINE n == written + 1
  <1>1. exit' \notin Verdict
    BY Errors
  <1>2. n \in 1..3 /\ written \in 0..3 /\ DOMAIN files = File /\ Reports[n] \in File
    BY ReportOrder DEF Progress
  <1>3. /\ \A f \in File : f # Reports[n] => files'[f] = files[f]
        /\ files'[Reports[n]].by = "now"
    BY <1>2, ContentIsMine
  <1>4. \A f \in File : Mine(f)' <=> Mine(f) \/ f = Reports[n]
    BY <1>3 DEF Mine
  <1>5. \A i, j \in 1..3 : i < j /\ Mine(Reports[j])' /\ Reports[i] \in enabled =>
          Mine(Reports[i])' /\ files'[Reports[i]].whole
    <2> TAKE i, j \in 1..3
    <2> HAVE i < j /\ Mine(Reports[j])' /\ Reports[i] \in enabled
    <2>1. j <= n
      BY <1>2, <1>4, ReportOrder, WhatIsMine
    <2>2. i <= written /\ Reports[i] # Reports[n] /\ Reports[i] \in File
      BY <1>2, <2>1, ReportOrder
    <2>3. Mine(Reports[i]) /\ files[Reports[i]].whole
      BY <2>2, WhatIsMine
    <2> QED BY <1>3, <1>4, <2>2, <2>3
  <1>6. ~Mine("summary")'
    BY <1>2, <1>4, ReportOrder, WhatIsMine DEF File
  <1>7. \A f \in File : Mine(f)' => f \in enabled
    BY <1>4, ReportOrder, WhatIsMine
  <1> QED BY <1>1, <1>5, <1>6, <1>7, ReportOrder DEF WrittenIsPrefix

(* The summary, torn or whole, comes behind all reports, and a verdict with it. *)
LEMMA PrefixAtSummary ==
  ASSUME Progress, pc = "write", written = 3, enabled' = enabled,
         UNCHANGED <<inputVars, runVars>>, NEW w \in BOOLEAN,
         IF "summary" \in enabled
         THEN files' = [files EXCEPT !["summary"] = Content("summary", w)]
         ELSE files' = files,
         w \/ exit' = ExitToolchainError
  PROVE  WrittenIsPrefix'
  <1>1. /\ "summary" \in File /\ DOMAIN files = File /\ FirstWritten
        /\ \A i \in 1..3 : i <= written
    BY DEF Progress, File
  <1>2. /\ \A f \in File : f # "summary" => files'[f] = files[f]
        /\ "summary" \in enabled => files'["summary"] = Content("summary", w)
        /\ "summary" \notin enabled => files'["summary"] = files["summary"]
    BY <1>1
  <1>3. \A i \in 1..3 : /\ Mine(Reports[i])' <=> Reports[i] \in enabled
                        /\ Mine(Reports[i])' => files'[Reports[i]].whole
    BY <1>1, <1>2, ReportOrder, WhatIsMine DEF Mine
  <1>4. /\ Mine("summary")' <=> "summary" \in enabled
        /\ Mine("summary")' => files'["summary"].whole = w
    <2>1. CASE "summary" \in enabled
      BY <1>2, <2>1, ContentIsMine DEF Mine
    <2>2. CASE "summary" \notin enabled
      BY <1>2, <2>2, WhatIsMine DEF Mine
    <2> QED BY <2>1, <2>2
  <1>5. exit' \in Verdict => \A f \in enabled : files'[f] = Content(f, TRUE)'
    <2> SUFFICES ASSUME exit' \in Verdict, NEW f \in enabled
                 PROVE  files'[f] = Content(f, TRUE)'
      OBVIOUS
    <2>1. w = TRUE
      BY Errors
    <2>2. f \in File
      BY DEF Progress
    <2>3. CASE f = "summary"
      BY <1>2, <2>1, <2>2, <2>3, ContentStays
    <2>4. CASE f # "summary"
      <3>1. PICK i \in 1..3 : Reports[i] = f
        BY <2>2, <2>4, ReportOrder
      <3>2. files[f] = Content(f, TRUE)
        BY <1>1, <3>1 DEF FirstWritten
      <3> QED BY <1>2, <2>2, <2>4, <3>2, ContentStays
    <2> QED BY <2>3, <2>4
  <1>6. \A f \in File : Mine(f)' => f \in enabled /\ (files'[f].whole \/ exit' = ExitToolchainError)
    <2> TAKE f \in File
    <2>1. CASE f = "summary"
      BY <1>4, <2>1
    <2>2. CASE f # "summary"
      <3>1. PICK i \in 1..3 : Reports[i] = f
        BY <2>2, ReportOrder
      <3> QED BY <1>3, <3>1
    <2> QED BY <2>1, <2>2
  <1>7. \A i, j \in DOMAIN Reports :
          i < j /\ Mine(Reports[j])' /\ Reports[i] \in enabled =>
            Mine(Reports[i])' /\ files'[Reports[i]].whole
    BY <1>3, ReportOrder
  <1>8. \A i \in DOMAIN Reports :
          Reports[i] \in enabled => Mine(Reports[i])' /\ files'[Reports[i]].whole
    BY <1>3, ReportOrder
  <1>9. (\E f \in File : Mine(f)' /\ ~files'[f].whole) => exit' = ExitToolchainError
    BY <1>6
  <1> QED BY <1>5, <1>6, <1>7, <1>8, <1>9, Zenon DEF WrittenIsPrefix

-----------------------------------------------------------------------------
(* An invocation starts with the files of an earlier one, or none. *)
LEMMA InitProgress == Init => Progress
  <1> SUFFICES ASSUME Init PROVE Progress
    OBVIOUS
  <1>1. pc = "config" /\ exit = -1 /\ written = 0 /\ enabled \subseteq File
    BY PipelineAssumption DEF Init
  <1>2. DOMAIN files = File /\ \A f \in File : files[f] = NoFile \/ files[f] = EarlierFile
    BY DEF Init
  <1>3. NoFile.by # "now" /\ EarlierFile.by # "now"
    BY DEF NoFile, EarlierFile
  <1> QED BY <1>1, <1>2, <1>3 DEF Progress, Mine

(* A step that ends the invocation, or leaves it where it is not yet writing. *)
LEMMA Elsewhere ==
  ASSUME Progress, pc # "exited", files' = files, enabled' = enabled, written' = written,
         \/ pc' = "exited" /\ exit' \in {ExitConfigError, ExitToolchainError}
         \/ pc # "write" /\ pc' \notin {"write", "exited"} /\ exit' = exit
  PROVE  Inv'
  <1>1. pc' = "exited" => WrittenIsPrefix'
    BY PrefixAtError
  <1>2. \A f : Mine(f)' <=> Mine(f)
    BY DEF Mine
  <1> QED BY <1>1, <1>2 DEF Inv, Progress

(* The next report is written, or skipped: it is behind those written. *)
LEMMA NextWritten ==
  ASSUME Progress, WriteReport
  PROVE  Inv'
  <1>1. /\ pc = "write" /\ pc' = "write" /\ written \in 0..2 /\ written' = written + 1
        /\ exit' = exit /\ enabled' = enabled /\ DOMAIN files = File /\ FirstWritten
        /\ UNCHANGED <<inputVars, runVars>>
    BY ReportOrder DEF Progress, WriteReport, CanWrite, inputVars, runVars
  <1> DEFINE n == written + 1
  <1>2. n \in 1..3 /\ Reports[n] \in File
    BY <1>1, ReportOrder
  <1>3. files' = IF Reports[n] \in enabled
                 THEN [files EXCEPT ![Reports[n]] = Content(Reports[n], TRUE)] ELSE files
    BY DEF WriteReport
  <1>4. /\ DOMAIN files' = File
        /\ \A f \in File : f # Reports[n] => files'[f] = files[f]
        /\ Reports[n] \in enabled => files'[Reports[n]] = Content(Reports[n], TRUE)
        /\ Reports[n] \notin enabled => files'[Reports[n]] = files[Reports[n]]
    BY <1>1, <1>2, <1>3
  <1>5. ASSUME NEW i \in 1..3
        PROVE  IF i <= written' /\ Reports[i] \in enabled
               THEN files'[Reports[i]] = Content(Reports[i], TRUE)'
               ELSE ~Mine(Reports[i])'
    <2>1. Content(Reports[i], TRUE)' = Content(Reports[i], TRUE)
      BY <1>1, ContentStays, ReportOrder
    <2>2. CASE i = n
      <3>1. i <= written' /\ ~(i <= written)
        BY <1>1, <2>2
      <3>2. ~Mine(Reports[i])
        BY <1>1, <3>1 DEF FirstWritten
      <3>3. CASE Reports[i] \in enabled
        BY <1>1, <1>4, <2>1, <2>2, <3>1, <3>3
      <3>4. CASE Reports[i] \notin enabled
        <4>1. ~Mine(Reports[i])'
          BY <1>4, <2>2, <3>2, <3>4 DEF Mine
        <4> QED BY <1>1, <3>4, <4>1
      <3> QED BY <3>3, <3>4
    <2>3. CASE i # n
      <3>1. Reports[i] # Reports[n] /\ Reports[i] \in File
        BY <1>2, <2>3, ReportOrder
      <3>2. i <= written' <=> i <= written
        BY <1>1, <2>3
      <3> QED BY <1>1, <1>4, <2>1, <3>1, <3>2 DEF FirstWritten, Mine
    <2> QED BY <2>2, <2>3
  <1>6. ~Mine("summary")'
    BY <1>1, <1>2, <1>4, ReportOrder DEF FirstWritten, Mine, File
  <1>7. FirstWritten'
    BY <1>1, <1>5, <1>6 DEF FirstWritten
  <1> QED BY <1>1, <1>4, <1>7 DEF Inv, Progress

(* Every step of an invocation keeps the order of its files. *)
LEMMA InvKept ==
  ASSUME Inv, [Next]_vars
  PROVE  Inv'
  <1> USE DEF runVars, reportVars, inputVars, Return
  <1>1. Progress
    BY DEF Inv
  <1>2. CASE ConfigFails \/ ToolchainFails \/ ParseFileFails \/ RenderFails \/ WriteReportPathFails
    BY <1>1, <1>2, Elsewhere DEF ConfigFails, ToolchainFails, ParseFileFails, RenderFails,
                               WriteReportPathFails, CanWrite
  <1>3. CASE ConfigOK \/ List \/ RawDir \/ Run \/ RunRefused \/ ParseFile
    BY <1>1, <1>3, Elsewhere DEF ConfigOK, List, RawDir, Run, RunRefused, ParseFile
  <1>4. CASE ParseCoverage
    <2>1. pc = "coverage" /\ files' = files /\ enabled' = enabled /\ written' = written
      BY <1>4 DEF ParseCoverage
    <2>2. CASE profile = "malformed"
      BY <1>1, <1>4, <2>1, <2>2, Elsewhere DEF ParseCoverage
    <2>3. CASE profile # "malformed"
      <3>1. pc' = "write" /\ exit' = exit /\ written = 0 /\ \A f \in File : ~Mine(f)
        BY <1>1, <1>4, <2>1, <2>3 DEF ParseCoverage, Progress
      <3>2. FirstWritten'
        BY <2>1, <3>1, ReportOrder DEF FirstWritten, Mine, File
      <3> QED BY <1>1, <2>1, <3>1, <3>2 DEF Inv, Progress
    <2> QED BY <2>2, <2>3
  <1>5. CASE WriteReport
    BY <1>1, <1>5, NextWritten
  <1>6. CASE WriteReportFails
    <2>1. /\ pc = "write" /\ written < 3 /\ Reports[written + 1] \in enabled
          /\ enabled' = enabled /\ written' = written
          /\ pc' = "exited" /\ exit' = ExitToolchainError
      BY <1>6, ReportOrder DEF WriteReportFails, CanWrite
    <2>2. CASE files' = files
      BY <1>1, <2>1, <2>2, Elsewhere
    <2>3. CASE files' = [files EXCEPT ![Reports[written + 1]] = Content(Reports[written + 1], FALSE)]
      <3>1. WrittenIsPrefix'
        BY <1>1, <2>1, <2>3, PrefixAtTorn
      <3>2. DOMAIN files' = File
        BY <1>1, <2>3 DEF Progress
      <3> QED BY <1>1, <2>1, <3>1, <3>2 DEF Inv, Progress
    <2> QED BY <1>6, <2>2, <2>3 DEF WriteReportFails
  <1>7. CASE WriteSummary
    <2>1. /\ pc = "write" /\ written = 3 /\ pc' = "exited"
          /\ enabled' = enabled /\ written' = written /\ UNCHANGED <<inputVars, runVars>>
          /\ IF "summary" \in enabled
             THEN files' = [files EXCEPT !["summary"] = Content("summary", TRUE)]
             ELSE files' = files
      BY <1>7, ReportOrder DEF WriteSummary
    <2>2. WrittenIsPrefix'
      BY <1>1, <2>1, PrefixAtSummary
    <2>3. DOMAIN files' = File
      BY <1>1, <2>1 DEF Progress
    <2> QED BY <1>1, <2>1, <2>2, <2>3 DEF Inv, Progress
  <1>8. CASE WriteSummaryFails
    <2>1. /\ pc = "write" /\ written = 3 /\ pc' = "exited" /\ exit' = ExitToolchainError
          /\ enabled' = enabled /\ written' = written /\ UNCHANGED <<inputVars, runVars>>
          /\ "summary" \in enabled
      BY <1>8, ReportOrder DEF WriteSummaryFails
    <2>2. CASE files' = files
      BY <1>1, <2>1, <2>2, Elsewhere
    <2>3. CASE files' = [files EXCEPT !["summary"] = Content("summary", FALSE)]
      <3>1. WrittenIsPrefix'
        BY <1>1, <2>1, <2>3, PrefixAtSummary
      <3>2. DOMAIN files' = File
        BY <1>1, <2>3 DEF Progress
      <3> QED BY <1>1, <2>1, <3>1, <3>2 DEF Inv, Progress
    <2> QED BY <1>8, <2>2, <2>3 DEF WriteSummaryFails
  <1>9. CASE UNCHANGED vars
    <2>1. /\ \A f : Mine(f)' <=> Mine(f)
          /\ \A f \in File, w \in BOOLEAN : Content(f, w)' = Content(f, w)
      BY <1>9, ContentStays DEF vars, Mine
    <2>2. Progress'
      BY <1>1, <1>9, <2>1, ReportOrder DEF vars, Progress, FirstWritten
    <2>3. WrittenIsPrefix => WrittenIsPrefix'
      <3>1. enabled \subseteq File
        BY <1>1 DEF Progress
      <3> QED BY <1>9, <2>1, <3>1 DEF vars, WrittenIsPrefix
    <2> QED BY <1>9, <2>2, <2>3 DEF Inv, vars
  <1> QED BY <1>2, <1>3, <1>4, <1>5, <1>6, <1>7, <1>8, <1>9 DEF Next

-----------------------------------------------------------------------------
(* The run: what the aggregates of the chosen outcomes amount to. *)

(* Of the assumptions, what most proofs below need. *)
LEMMA Given ==
  /\ Top # {} /\ Outcomes \subseteq Outcome
  /\ Plain \in Output /\ BuildFailed \in Output /\ "build failed" \in BuildFailed.marks
  /\ Module \in Seq(Nat) /\ Module # <<>>
  /\ Counts \subseteq [covered : Nat, total : Nat]
  BY PipelineAssumption, Zenon


TheTest == CHOOSE t \in Top : TRUE

(* What an outcome comes to: the verdict on the test, the text of a failed build
   or a death before it, and a package that go test calls failed. *)
Seen(what) ==
  IF what = "fail" THEN "failed"
  ELSE IF what \in {"pass", "chatty", "cutlate"} THEN "passed" ELSE "none"

Breaking == {"early", "broken", "chatty"}
Losing   == {"fail", "crash", "early", "broken"}

(* The aggregate of a package of each outcome. *)
LEMMA ScriptLooks ==
  ASSUME NEW p \in Pkg, NEW what \in Outcome
  PROVE  \E saw : Looks(AfterEvents(Script(p, what)), TheTest, Seen(what), saw,
                        what \in Breaking, what \in Losing)
  <1> DEFINE t == TheTest
             start == Ev("start", p, <<>>, Plain)
             run   == Ev("run", p, <<t>>, Plain)
             pass  == Ev("pass", p, <<t>>, Plain)
             fail  == Ev("fail", p, <<t>>, Plain)
             lost  == Ev("fail", p, <<>>, Plain)
             over  == Ev("pass", p, <<>>, Plain)
             skip  == Ev("skip", p, <<>>, Plain)
             text  == Ev("output", p, <<>>, BuildFailed)
             a1    == applyEvent(newPkgAgg, start)
             a2    == applyEvent(a1, run)
             ap    == applyEvent(a2, pass)
             af    == applyEvent(a2, fail)
             at    == applyEvent(a1, text)
             at2   == applyEvent(at, run)
             at3   == applyEvent(at2, pass)
  <1>1. t \in Top /\ <<t>> \in Test \cup {<<>>}
    <2>1. t \in Top
      BY Given, Zenon DEF TheTest
    <2> QED BY <2>1 DEF Test
  <1>2. /\ start \in event /\ run \in event /\ pass \in event /\ fail \in event
        /\ lost \in event /\ over \in event /\ skip \in event /\ text \in event
    BY <1>1, Given DEF Ev, event, Action
  <1>3. /\ start.Action = "start" /\ start.Test = <<>>
        /\ run.Action = "run" /\ run.Test = <<t>>
        /\ pass.Action = "pass" /\ pass.Test = <<t>>
        /\ fail.Action = "fail" /\ fail.Test = <<t>>
        /\ lost.Action = "fail" /\ lost.Test = <<>>
        /\ over.Action = "pass" /\ over.Test = <<>>
        /\ skip.Action = "skip" /\ skip.Test = <<>>
        /\ text.Action = "output" /\ text.Test = <<>>
        /\ "build failed" \in text.Output.marks
    BY Given DEF Ev
  <1>4. Looks(newPkgAgg, t, "none", FALSE, FALSE, FALSE)
    BY NewAggregate DEF Looks, newPkgAgg
  <1>5. /\ Script(p, "pass") = <<start, run, pass, over>>
        /\ Script(p, "fail") = <<start, run, fail, lost>>
        /\ Script(p, "crash") = <<start, run, lost>>
        /\ Script(p, "early") = <<start, lost>>
        /\ Script(p, "broken") = <<start, text, lost>>
        /\ Script(p, "chatty") = <<start, text, run, pass, over>>
        /\ Script(p, "cut") = <<start, run>>
        /\ Script(p, "cutlate") = <<start, run, pass>>
        /\ Script(p, "none") = <<start, skip>>
        /\ Script(p, "unstarted") = <<>>
    BY DEF Script, TheTest
  <1> HIDE DEF t, start, run, pass, fail, lost, over, skip, text
  <1>6. Looks(a1, t, "none", FALSE, FALSE, FALSE)
    BY <1>1, <1>2, <1>3, <1>4, LooksAfter
  <1>7. /\ AfterEvents(Script(p, "pass")) = applyEvent(ap, over)
        /\ AfterEvents(Script(p, "fail")) = applyEvent(af, lost)
        /\ AfterEvents(Script(p, "crash")) = applyEvent(a2, lost)
        /\ AfterEvents(Script(p, "early")) = applyEvent(a1, lost)
        /\ AfterEvents(Script(p, "broken")) = applyEvent(at, lost)
        /\ AfterEvents(Script(p, "chatty")) = applyEvent(at3, over)
        /\ AfterEvents(Script(p, "cut")) = a2
        /\ AfterEvents(Script(p, "cutlate")) = ap
        /\ AfterEvents(Script(p, "none")) = applyEvent(a1, skip)
        /\ AfterEvents(Script(p, "unstarted")) = newPkgAgg
    <2> HIDE DEF AfterEvents
    <2>0. AfterEvents(<<start>>) = a1
      BY <1>2, FewEvents
    <2>1. /\ AfterEvents(<<start, run>>) = a2
          /\ AfterEvents(<<start, lost>>) = applyEvent(a1, lost)
          /\ AfterEvents(<<start, skip>>) = applyEvent(a1, skip)
          /\ AfterEvents(<<start, text>>) = at
      BY <1>2, <2>0, FewEvents
    <2>2. /\ AfterEvents(<<start, run, lost>>) = applyEvent(a2, lost)
          /\ AfterEvents(<<start, run, pass>>) = ap
          /\ AfterEvents(<<start, run, fail>>) = af
          /\ AfterEvents(<<start, text, lost>>) = applyEvent(at, lost)
          /\ AfterEvents(<<start, text, run>>) = at2
      BY <1>2, <2>1, FewEvents
    <2>3. /\ AfterEvents(<<start, run, pass, over>>) = applyEvent(ap, over)
          /\ AfterEvents(<<start, run, fail, lost>>) = applyEvent(af, lost)
          /\ AfterEvents(<<start, text, run, pass>>) = at3
      BY <1>2, <2>2, FewEvents
    <2>4. AfterEvents(<<start, text, run, pass, over>>) = applyEvent(at3, over)
      BY <1>2, <2>3, FewEvents
    <2>5. AfterEvents(<<>>) = newPkgAgg
      BY NoEvents
    <2> HIDE DEF a1, a2, ap, af, at, at3
    <2> QED BY <1>5, <2>1, <2>2, <2>3, <2>4, <2>5
  <1> HIDE DEF a1, a2, ap, af, at, at2, at3
  <1>8. Looks(a2, t, "none", TRUE, FALSE, FALSE)
    BY <1>1, <1>2, <1>3, <1>6, LooksAfter DEF a2
  <1>9. /\ Looks(ap, t, "passed", TRUE, FALSE, FALSE)
        /\ Looks(af, t, "failed", TRUE, FALSE, FALSE)
        /\ Looks(applyEvent(a2, lost), t, "none", TRUE, FALSE \/ ~TRUE, TRUE)
    BY <1>1, <1>2, <1>3, <1>8, LooksAfter DEF ap, af
  <1>10. /\ Looks(applyEvent(ap, over), t, "passed", TRUE, FALSE, FALSE)
         /\ Looks(applyEvent(af, lost), t, "failed", TRUE, FALSE \/ ~TRUE, TRUE)
    BY <1>1, <1>2, <1>3, <1>9, LooksAfter
  <1>11. /\ Looks(applyEvent(a1, lost), t, "none", FALSE, FALSE \/ ~FALSE, TRUE)
         /\ Looks(applyEvent(a1, skip), t, "none", FALSE, FALSE, FALSE)
    BY <1>1, <1>2, <1>3, <1>6, LooksAfter
  <1>12. Looks(at, t, "none", FALSE, TRUE, FALSE)
    <2>1. Looks(at, t, "none", FALSE,
                FALSE \/ (~FALSE /\ "build failed" \in text.Output.marks), FALSE)
      BY <1>1, <1>2, <1>3, <1>6, LooksAfter DEF at
    <2> QED BY <1>3, <2>1 DEF Looks
  <1>13. Looks(applyEvent(at, lost), t, "none", FALSE, TRUE \/ ~FALSE, TRUE)
    BY <1>1, <1>2, <1>3, <1>12, LooksAfter
  <1>14. Looks(at2, t, "none", TRUE, TRUE, FALSE)
    BY <1>1, <1>2, <1>3, <1>12, LooksAfter DEF at2
  <1>15. Looks(at3, t, "passed", TRUE, TRUE, FALSE)
    BY <1>1, <1>2, <1>3, <1>14, LooksAfter DEF at3
  <1>16. Looks(applyEvent(at3, over), t, "passed", TRUE, TRUE, FALSE)
    BY <1>1, <1>2, <1>3, <1>15, LooksAfter
  <1> HIDE DEF AfterEvents
  <1> DEFINE Goal(w) ==
        \E saw : Looks(AfterEvents(Script(p, w)), t, Seen(w), saw, w \in Breaking, w \in Losing)
  <1>17. Goal("pass") /\ Goal("fail") /\ Goal("crash") /\ Goal("early")
    <2>1. Goal("pass")
      BY <1>7, <1>10 DEF Looks, Seen, Breaking, Losing
    <2>2. Goal("fail")
      BY <1>7, <1>10 DEF Looks, Seen, Breaking, Losing
    <2>3. Goal("crash")
      BY <1>7, <1>9 DEF Looks, Seen, Breaking, Losing
    <2>4. Goal("early")
      BY <1>7, <1>11 DEF Looks, Seen, Breaking, Losing
    <2> QED BY <2>1, <2>2, <2>3, <2>4
  <1>18. Goal("broken") /\ Goal("chatty") /\ Goal("cut")
    <2>1. Goal("broken")
      BY <1>7, <1>13 DEF Looks, Seen, Breaking, Losing
    <2>2. Goal("chatty")
      BY <1>7, <1>16 DEF Looks, Seen, Breaking, Losing
    <2>3. Goal("cut")
      BY <1>7, <1>8 DEF Looks, Seen, Breaking, Losing
    <2> QED BY <2>1, <2>2, <2>3
  <1>19. Goal("cutlate") /\ Goal("none") /\ Goal("unstarted")
    <2>1. Goal("cutlate")
      BY <1>7, <1>9 DEF Looks, Seen, Breaking, Losing
    <2>2. Goal("none")
      BY <1>7, <1>11 DEF Looks, Seen, Breaking, Losing
    <2>3. Goal("unstarted")
      BY <1>7, <1>4 DEF Looks, Seen, Breaking, Losing
    <2> QED BY <2>1, <2>2, <2>3
  <1>20. Goal(what)
    <2> HIDE DEF Goal
    <2> QED BY <1>17, <1>18, <1>19 DEF Outcome
  <1> QED BY <1>20 DEF t

(* The packages of which go test wrote an event. *)
Started(oc) == {p \in Pkg : oc[p] # "unstarted"}

(* What an aggregate says of a package of an outcome. *)
Tells(a, what) ==
  /\ a \in Aggregate /\ Bookkept(a)
  /\ failedOf(a) = IF what = "fail" THEN {TheTest} ELSE {}
  /\ passedOf(a) = IF Seen(what) = "passed" THEN {TheTest} ELSE {}
  /\ skippedOf(a) = {}
  /\ a.pkgCompile <=> what \in Breaking
  /\ a.pkgFailed <=> what \in Losing

(* The aggregates of a run. *)
LEMMA AggregatesOfRun ==
  ASSUME NEW oc \in [Pkg -> Outcome]
  PROVE  LET ps == AggregatesOf(oc)
         IN  /\ ps \in [Started(oc) -> Aggregate]
             /\ \A p \in Started(oc) : Tells(ps[p], oc[p])
  <1> DEFINE ps == AggregatesOf(oc)
  <1>1. TheTest \in Top
    BY Given DEF TheTest
  <1>2. DOMAIN ps = Started(oc) /\ ps = [p \in Started(oc) |-> ps[p]]
        /\ \A p \in Started(oc) : ps[p] = AfterEvents(Script(p, oc[p]))
    BY DEF AggregatesOf, AfterEvents, Started
  <1> HIDE DEF ps
  <1>3. ASSUME NEW p \in Started(oc)
        PROVE  Tells(ps[p], oc[p])
    <2> DEFINE a == ps[p]
               what == oc[p]
    <2>1. PICK saw : Looks(a, TheTest, Seen(what), saw, what \in Breaking, what \in Losing)
      BY <1>2, ScriptLooks DEF Started
    <2> HIDE DEF a, what
    <2>2. /\ a \in Aggregate /\ Bookkept(a)
          /\ \A x \in Top : VerdictOf(a, x) = IF x = TheTest THEN Seen(what) ELSE "none"
          /\ a.pkgCompile <=> what \in Breaking
          /\ a.pkgFailed <=> what \in Losing
      BY <2>1 DEF Looks
    <2>3. failedOf(a) \subseteq Top /\ passedOf(a) \subseteq Top /\ skippedOf(a) \subseteq Top
      BY <2>2, AggregateFields DEF failedOf, passedOf, skippedOf
    <2>4. /\ Seen(what) = "failed" <=> what = "fail"
          /\ Seen(what) \in {"failed", "passed", "none"}
      BY DEF Seen
    <2>5. failedOf(a) = IF what = "fail" THEN {TheTest} ELSE {}
      <3>1. \A x \in Top : x \in failedOf(a) <=> x = TheTest /\ what = "fail"
        BY <2>2, <2>4, Buckets
      <3> QED BY <1>1, <2>3, <3>1
    <2>6. passedOf(a) = IF Seen(what) = "passed" THEN {TheTest} ELSE {}
      <3>1. \A x \in Top : x \in passedOf(a) <=> x = TheTest /\ Seen(what) = "passed"
        BY <2>2, Buckets
      <3> QED BY <1>1, <2>3, <3>1
    <2>7. skippedOf(a) = {}
      <3>1. \A x \in Top : x \notin skippedOf(a)
        BY <2>2, <2>4, Buckets
      <3> QED BY <2>3, <3>1
    <2>8. Tells(a, what)
      BY <2>2, <2>5, <2>6, <2>7 DEF Tells
    <2> QED BY <2>8 DEF a, what
  <1>4. ps \in [Started(oc) -> Aggregate]
    <2>1. \A p \in Started(oc) : ps[p] \in Aggregate
      BY <1>3 DEF Tells
    <2> QED BY <1>2, <2>1
  <1> QED BY <1>3, <1>4 DEF ps

-----------------------------------------------------------------------------
(* What the reports and the verdict are made of. *)

(* What the steps before the reports found, from the beginning on: what became
   of each package, what the parser makes of its events, and counts of some
   packages.  Where go test succeeded no package failed. *)
Found ==
  /\ outcome \in [Pkg -> Outcome]
  /\ parseRes = ParseResult(AggregatesOf(outcome), FALSE)
  /\ \E D \in SUBSET Pkg : \E c \in [D -> [covered : Nat, total : Nat]] : covRes = Result(c)
  /\ goTestCode = 0 => \A p \in Pkg : outcome[p] \notin Losing

Settled == Found /\ included = filterPackages(cfg.Packages) /\ Validate(cfg) /\ ~JSONFails(Rep)

Facts ==
  /\ cfg \in Configs
  /\ leftover \in {NoCoverage, EarlierCoverage}
  /\ Found
  /\ pc \in {"rawdir", "run", "parse", "coverage", "write"} =>
       included = filterPackages(cfg.Packages)
  /\ pc \notin {"config", "exited"} => Validate(cfg)
  /\ pc = "write" /\ written > 0 => ~JSONFails(Rep)

(* A file of this invocation says what the steps found, a verdict is the one
   they call for, and a whole summary comes with it. *)
Told ==
  /\ \A f \in File : Mine(f) => Settled /\ files[f].says = says(f)
  /\ pc = "exited" =>
       \/ exit \in {ExitConfigError, ExitToolchainError}
       \/ exit = decideExitCode /\ Settled
  /\ Mine("summary") /\ files["summary"].whole => pc = "exited" /\ exit = decideExitCode

(* What was found does not change while the reports are written. *)
LEMMA FoundStays ==
  ASSUME UNCHANGED <<inputVars, runVars>>
  PROVE  /\ Found' <=> Found
         /\ Settled' <=> Settled
         /\ JSONFails(Rep)' <=> JSONFails(Rep)
         /\ decideExitCode' = decideExitCode
         /\ \A f \in File : says(f)' = says(f)
  <1>1. /\ cfg' = cfg /\ included' = included /\ outcome' = outcome
        /\ goTestCode' = goTestCode /\ parseRes' = parseRes /\ profile' = profile
        /\ covRes' = covRes
    BY DEF inputVars, runVars
  <1>2. deriveModulePath' = deriveModulePath /\ decideExitCode' = decideExitCode
    BY <1>1 DEF deriveModulePath, decideExitCode
  <1>3. Rep' = Rep
    BY <1>1, <1>2 DEF Rep
  <1>4. Found' <=> Found
    BY <1>1 DEF Found
  <1>5. JSONFails(Rep)' <=> JSONFails(Rep)
    BY <1>3 DEF JSONFails
  <1>6. filterPackages(cfg.Packages)' = filterPackages(cfg.Packages)
    BY <1>1 DEF filterPackages
  <1> QED BY <1>1, <1>2, <1>3, <1>4, <1>5, <1>6 DEF Settled, says

(* Counts that some packages have, or all, or none, are a coverage. *)
LEMMA IsCoverage ==
  /\ \A D \in SUBSET Pkg : \A cov \in [D -> Counts] :
       \E c \in [D -> [covered : Nat, total : Nat]] : Result(cov) = Result(c)
  /\ \A r \in {NoCoverage, EarlierCoverage} :
       \E D \in SUBSET Pkg : \E c \in [D -> [covered : Nat, total : Nat]] : r = Result(c)
  <1>1. ASSUME NEW D \in SUBSET Pkg, NEW cov \in [D -> Counts]
        PROVE  \E c \in [D -> [covered : Nat, total : Nat]] : Result(cov) = Result(c)
    <2>1. cov \in [D -> [covered : Nat, total : Nat]]
      BY Given
    <2> QED BY <2>1
  <1>2. \E D \in SUBSET Pkg : \E c \in [D -> [covered : Nat, total : Nat]] : NoCoverage = Result(c)
    <2>1. NoCounts \in [{} -> [covered : Nat, total : Nat]] /\ {} \in SUBSET Pkg
      BY DEF NoCounts
    <2> QED BY <2>1 DEF NoCoverage
  <1>3. \E D \in SUBSET Pkg : \E c \in [D -> [covered : Nat, total : Nat]] : EarlierCoverage = Result(c)
    <2>1. [p \in Pkg |-> [covered |-> 2, total |-> 2]] \in [Pkg -> [covered : Nat, total : Nat]]
      OBVIOUS
    <2> QED BY <2>1 DEF EarlierCoverage
  <1> QED BY <1>1, <1>2, <1>3

(* The invocation starts with nothing found and nothing told. *)
LEMMA FactsAtStart == Init => Facts /\ Told
  <1> SUFFICES ASSUME Init PROVE Facts /\ Told
    OBVIOUS
  <1>1. pc = "config" /\ \A f \in File : ~Mine(f)
    BY InitProgress DEF Init, Progress
  <1>2. "summary" \in File
    BY DEF File
  <1>3. outcome = [p \in Pkg |-> "unstarted"] /\ parseRes = NoParse /\ covRes = NoCoverage
    BY DEF Init
  <1>4. AggregatesOf(outcome) = NoAggregates
    BY <1>3 DEF AggregatesOf, NoAggregates
  <1>5. \E D \in SUBSET Pkg : \E c \in [D -> [covered : Nat, total : Nat]] : covRes = Result(c)
    BY <1>3, IsCoverage
  <1>6. outcome \in [Pkg -> Outcome] /\ \A p \in Pkg : outcome[p] \notin Losing
    BY <1>3 DEF Outcome, Losing
  <1>7. Found
    BY <1>3, <1>4, <1>5, <1>6 DEF Found, NoParse
  <1> QED BY <1>1, <1>2, <1>7 DEF Init, Facts, Told

(* A step that ends the invocation in an error. *)
LEMMA ToldAtError ==
  ASSUME Facts, Told, pc # "exited", UNCHANGED <<inputVars, runVars>>, files' = files,
         pc' = "exited", exit' \in {ExitConfigError, ExitToolchainError}
  PROVE  Facts' /\ Told'
  <1>1. \A f : Mine(f)' <=> Mine(f)
    BY DEF Mine
  <1>2. ~(Mine("summary") /\ files["summary"].whole)
    BY DEF Told
  <1>3. Facts'
    <2>1. cfg' = cfg /\ included' = included /\ leftover' = leftover
      BY DEF inputVars, runVars
    <2>2. filterPackages(cfg.Packages)' = filterPackages(cfg.Packages)
      BY <2>1 DEF filterPackages
    <2> QED BY <2>1, <2>2, FoundStays DEF Facts
  <1> QED BY <1>1, <1>2, <1>3, FoundStays DEF Told

(* A step before the reports. *)
LEMMA ToldBefore ==
  ASSUME Progress, pc \notin {"write", "exited"}, pc' # "exited", files' = files, Facts'
  PROVE  Told'
  <1>1. \A f \in File : ~Mine(f) /\ (Mine(f)' <=> Mine(f))
    BY DEF Progress, Mine
  <1>2. "summary" \in File
    BY DEF File
  <1> QED BY <1>1, <1>2 DEF Told

(* One file more of this invocation, written or torn. *)
LEMMA ToldOfMore ==
  ASSUME Told, Settled, UNCHANGED <<inputVars, runVars>>, DOMAIN files = File,
         NEW g \in File, NEW w \in BOOLEAN,
         files' = [files EXCEPT ![g] = Content(g, w)] \/ files' = files
  PROVE  \A f \in File : Mine(f)' => Settled' /\ files'[f].says = says(f)'
  <1> SUFFICES ASSUME NEW f \in File, Mine(f)'
               PROVE  Settled' /\ files'[f].says = says(f)'
    OBVIOUS
  <1>1. Settled' /\ says(f)' = says(f)
    BY FoundStays
  <1>2. CASE files'[f] = files[f]
    BY <1>1, <1>2 DEF Told, Mine
  <1>3. CASE files'[f] # files[f]
    <2>1. f = g /\ files'[f] = Content(f, w)
      BY <1>3
    <2> QED BY <1>1, <2>1 DEF Content
  <1> QED BY <1>2, <1>3

(* Every step keeps what is told true. *)
LEMMA FactsKept ==
  ASSUME Progress, Facts, Told, [Next]_vars
  PROVE  Facts' /\ Told'
  <1> USE DEF Return
  <1>1. CASE ConfigFails \/ ToolchainFails \/ ParseFileFails \/ RenderFails \/ WriteReportPathFails
    BY <1>1, ToldAtError DEF ConfigFails, ToolchainFails, ParseFileFails, RenderFails,
                             WriteReportPathFails, CanWrite, reportVars
  <1>2. CASE ConfigOK \/ RawDir \/ ParseFile
    <2>1. /\ UNCHANGED <<inputVars, runVars>> /\ files' = files
          /\ \/ pc = "config" /\ pc' = "list" /\ Validate(cfg)
             \/ pc = "rawdir" /\ pc' = "run"
             \/ pc = "parse" /\ pc' = "coverage"
      BY <1>2 DEF ConfigOK, RawDir, ParseFile, reportVars
    <2>2. Facts'
      <3>1. cfg' = cfg /\ included' = included /\ leftover' = leftover
        BY <2>1 DEF inputVars, runVars
      <3>2. filterPackages(cfg.Packages)' = filterPackages(cfg.Packages)
        BY <3>1 DEF filterPackages
      <3> QED BY <2>1, <3>1, <3>2, FoundStays DEF Facts
    <2> QED BY <2>1, <2>2, ToldBefore
  <1>3. CASE List
    <2>1. /\ pc = "list" /\ pc' = "rawdir" /\ files' = files /\ cfg' = cfg
          /\ included' = filterPackages(cfg.Packages) /\ outcome' = outcome
          /\ parseRes' = parseRes /\ covRes' = covRes /\ leftover' = leftover
          /\ goTestCode' = goTestCode
      BY <1>3 DEF List, reportVars, inputVars
    <2>2. filterPackages(cfg.Packages)' = filterPackages(cfg.Packages)
      BY <2>1 DEF filterPackages
    <2>3. Found'
      BY <2>1 DEF Facts, Found
    <2>4. Facts'
      BY <2>1, <2>2, <2>3 DEF Facts
    <2> QED BY <2>1, <2>4, ToldBefore
  <1>4. CASE Run
    <2>1. /\ pc = "run" /\ pc' = "parse" /\ files' = files /\ cfg' = cfg
          /\ included' = included /\ leftover' = leftover
          /\ parseRes' = ParseResult(AggregatesOf(outcome'), FALSE)
      BY <1>4 DEF Run, reportVars, inputVars
    <2>2. /\ outcome' \in [Pkg -> Outcome]
          /\ goTestCode' = 0 => \A p \in Pkg : outcome'[p] \notin Losing
      <3>1. PICK oc \in [cfg.Packages -> Outcomes] :
              /\ outcome' = [p \in Pkg |-> IF p \in cfg.Packages THEN oc[p] ELSE "unstarted"]
              /\ goTestCode' =
                   IF \E p \in cfg.Packages : oc[p] \in {"cut", "cutlate", "unstarted"} THEN -1
                   ELSE IF \A p \in cfg.Packages : oc[p] \in {"pass", "none", "chatty"} THEN 0 ELSE 1
        BY <1>4 DEF Run
      <3>2. Outcomes \subseteq Outcome /\ "unstarted" \in Outcome
        BY Given DEF Outcome
      <3>3. outcome' \in [Pkg -> Outcome]
        BY <3>1, <3>2
      <3>4. goTestCode' = 0 => \A p \in cfg.Packages : oc[p] \in {"pass", "none", "chatty"}
        BY <3>1
      <3>5. goTestCode' = 0 => \A p \in Pkg : outcome'[p] \notin Losing
        BY <3>1, <3>4 DEF Losing
      <3> QED BY <3>3, <3>5
    <2>3. \E D \in SUBSET Pkg : \E c \in [D -> [covered : Nat, total : Nat]] : covRes' = Result(c)
      <3>1. CASE \E cov \in [Measured(outcome') -> Counts] : covRes' = Result(cov)
        <4>1. cfg.CoverPkg \subseteq Pkg
          BY PipelineAssumption DEF Facts
        <4>2. Measured(outcome') \in SUBSET Pkg
          BY <4>1 DEF Measured
        <4> DEFINE D == Measured(outcome')
        <4> HIDE DEF D
        <4>3. D \in SUBSET Pkg
          BY <4>2 DEF D
        <4>4. PICK cov \in [D -> Counts] : covRes' = Result(cov)
          BY <3>1 DEF D
        <4>5. \E c \in [D -> [covered : Nat, total : Nat]] : Result(cov) = Result(c)
          BY <4>3, IsCoverage, Zenon
        <4> QED BY <4>3, <4>4, <4>5, Zenon
      <3>2. CASE covRes' = covRes
        BY <3>2 DEF Facts, Found
      <3>3. CASE covRes' = leftover
        <4>1. leftover \in {NoCoverage, EarlierCoverage}
          BY DEF Facts
        <4> QED BY <3>3, <4>1, IsCoverage, Zenon
      <3>4. \/ \E cov \in [Measured(outcome') -> Counts] : covRes' = Result(cov)
            \/ covRes' = covRes \/ covRes' = leftover
        BY <1>4 DEF Run, FoundProfile
      <3> QED BY <3>1, <3>2, <3>3, <3>4
    <2>4. Found'
      BY <2>1, <2>2, <2>3 DEF Found
    <2>5. filterPackages(cfg.Packages)' = filterPackages(cfg.Packages)
      BY <2>1 DEF filterPackages
    <2>6. Facts'
      BY <2>1, <2>4, <2>5 DEF Facts
    <2> QED BY <2>1, <2>6, ToldBefore
  <1>5. CASE RunRefused
    <2>1. /\ pc = "run" /\ pc' = "parse" /\ files' = files /\ cfg' = cfg
          /\ included' = included /\ leftover' = leftover /\ goTestCode' = 2
          /\ outcome' = outcome /\ parseRes' = parseRes
          /\ covRes' = leftover \/ covRes' = covRes
      BY <1>5 DEF RunRefused, FoundProfile, reportVars, inputVars
    <2>2. Found'
      <3>1. \E D \in SUBSET Pkg : \E c \in [D -> [covered : Nat, total : Nat]] : covRes' = Result(c)
        BY <2>1, IsCoverage DEF Facts, Found
      <3> QED BY <2>1, <3>1 DEF Facts, Found
    <2>3. filterPackages(cfg.Packages)' = filterPackages(cfg.Packages)
      BY <2>1 DEF filterPackages
    <2>4. Facts'
      BY <2>1, <2>2, <2>3 DEF Facts
    <2> QED BY <2>1, <2>4, ToldBefore
  <1>6. CASE ParseCoverage
    <2>1. pc = "coverage" /\ UNCHANGED <<inputVars, runVars>> /\ files' = files
          /\ written' = written /\ written = 0
      BY <1>6 DEF ParseCoverage, reportVars, Progress
    <2>2. CASE profile = "malformed"
      BY <1>6, <2>1, <2>2, ToldAtError DEF ParseCoverage
    <2>3. CASE profile # "malformed"
      <3>1. pc' = "write"
        BY <1>6, <2>3 DEF ParseCoverage
      <3>2. Facts'
        <4>1. /\ cfg' = cfg /\ included' = included /\ leftover' = leftover
          BY <2>1 DEF inputVars, runVars
        <4>2. filterPackages(cfg.Packages)' = filterPackages(cfg.Packages)
          BY <4>1 DEF filterPackages
        <4> QED BY <2>1, <3>1, <4>1, <4>2, FoundStays DEF Facts
      <3> QED BY <2>1, <3>1, <3>2, ToldBefore
    <2> QED BY <2>2, <2>3
  <1>7. CASE WriteReport \/ WriteReportFails
    <2> DEFINE g == Reports[written + 1]
    <2>1. /\ pc = "write" /\ written \in 0..2 /\ ~JSONFails(Rep)
          /\ UNCHANGED <<inputVars, runVars>>
          /\ \/ pc' = "write"
             \/ pc' = "exited" /\ exit' = ExitToolchainError
      <3>1. CanWrite /\ UNCHANGED <<inputVars, runVars>>
        BY <1>7 DEF WriteReport, WriteReportFails
      <3>2. pc = "write" /\ written \in 0..2 /\ ~JSONFails(Rep)
        BY <3>1, ReportOrder DEF CanWrite, Progress
      <3>3. CASE WriteReport
        BY <3>1, <3>2, <3>3 DEF WriteReport
      <3>4. CASE WriteReportFails
        BY <3>1, <3>2, <3>4 DEF WriteReportFails
      <3> QED BY <1>7, <3>3, <3>4
    <2>2. g \in File /\ g # "summary" /\ DOMAIN files = File
      BY <2>1, ReportOrder DEF Progress
    <2>3. PICK w \in BOOLEAN : files' = [files EXCEPT ![g] = Content(g, w)] \/ files' = files
      BY <1>7 DEF WriteReport, WriteReportFails
    <2>4. Settled
      BY <2>1 DEF Settled, Facts
    <2> HIDE DEF g
    <2>5. \A f \in File : Mine(f)' => Settled' /\ files'[f].says = says(f)'
      BY <2>1, <2>2, <2>3, <2>4, ToldOfMore
    <2>6. ~(Mine("summary") /\ files["summary"].whole)'
      <3>1. files'["summary"] = files["summary"]
        BY <2>2, <2>3 DEF File
      <3>2. ~(Mine("summary") /\ files["summary"].whole)
        BY <2>1 DEF Told
      <3> QED BY <3>1, <3>2 DEF Mine
    <2>7. Told'
      BY <2>1, <2>5, <2>6 DEF Told
    <2>8. Facts'
      <3>1. cfg' = cfg /\ included' = included /\ leftover' = leftover
        BY <2>1 DEF inputVars, runVars
      <3>2. filterPackages(cfg.Packages)' = filterPackages(cfg.Packages)
        BY <3>1 DEF filterPackages
      <3> QED BY <2>1, <3>1, <3>2, FoundStays DEF Facts
    <2> QED BY <2>7, <2>8
  <1>8. CASE WriteSummary
    <2>1. /\ pc = "write" /\ written = 3 /\ UNCHANGED <<inputVars, runVars>>
          /\ pc' = "exited" /\ exit' = decideExitCode /\ DOMAIN files = File
      BY <1>8, ReportOrder DEF WriteSummary, Progress
    <2>2. files' = [files EXCEPT !["summary"] = Content("summary", TRUE)] \/ files' = files
      BY <1>8 DEF WriteSummary
    <2>3. Settled
      BY <2>1 DEF Settled, Facts
    <2>4. \A f \in File : Mine(f)' => Settled' /\ files'[f].says = says(f)'
      BY <2>1, <2>2, <2>3, ToldOfMore DEF File
    <2>5. exit' = decideExitCode' /\ Settled'
      BY <2>1, <2>3, FoundStays
    <2>6. Told'
      BY <2>1, <2>4, <2>5 DEF Told
    <2>7. Facts'
      <3>1. cfg' = cfg /\ leftover' = leftover
        BY <2>1 DEF inputVars, runVars
      <3> QED BY <2>1, <3>1, FoundStays DEF Facts
    <2> QED BY <2>6, <2>7
  <1>9. CASE WriteSummaryFails
    <2>1. /\ pc = "write" /\ written = 3 /\ UNCHANGED <<inputVars, runVars>>
          /\ pc' = "exited" /\ exit' = ExitToolchainError /\ DOMAIN files = File
      BY <1>9, ReportOrder DEF WriteSummaryFails, Progress
    <2>2. files' = [files EXCEPT !["summary"] = Content("summary", FALSE)] \/ files' = files
      BY <1>9 DEF WriteSummaryFails
    <2>3. Settled
      BY <2>1 DEF Settled, Facts
    <2>4. \A f \in File : Mine(f)' => Settled' /\ files'[f].says = says(f)'
      BY <2>1, <2>2, <2>3, ToldOfMore DEF File
    <2>5. ~(Mine("summary") /\ files["summary"].whole)'
      <3>1. ~(Mine("summary") /\ files["summary"].whole)
        BY <2>1 DEF Told
      <3>2. ~Content("summary", FALSE).whole /\ "summary" \in File
        BY ContentIsMine DEF File
      <3> QED BY <2>1, <2>2, <3>1, <3>2 DEF Mine
    <2>6. Told'
      BY <2>1, <2>4, <2>5 DEF Told
    <2>7. Facts'
      <3>1. cfg' = cfg /\ leftover' = leftover
        BY <2>1 DEF inputVars, runVars
      <3> QED BY <2>1, <3>1, FoundStays DEF Facts
    <2> QED BY <2>6, <2>7
  <1>10. CASE UNCHANGED vars
    <2>1. /\ UNCHANGED <<inputVars, runVars>> /\ files' = files /\ pc' = pc /\ exit' = exit
          /\ written' = written /\ cfg' = cfg /\ included' = included /\ leftover' = leftover
          /\ outcome' = outcome /\ parseRes' = parseRes /\ covRes' = covRes
      BY <1>10 DEF vars, inputVars, runVars
    <2>2. \A f : Mine(f)' <=> Mine(f)
      BY <2>1 DEF Mine
    <2>3. Told'
      BY <2>1, <2>2, FoundStays DEF Told
    <2>4. filterPackages(cfg.Packages)' = filterPackages(cfg.Packages)
      BY <2>1 DEF filterPackages
    <2>5. Facts'
      BY <2>1, <2>4, FoundStays DEF Facts
    <2> QED BY <2>3, <2>5
  <1> QED BY <1>1, <1>2, <1>3, <1>4, <1>5, <1>6, <1>7, <1>8, <1>9, <1>10 DEF Next

(* In every state what is told is true. *)
LEMMA ToldTrue == Spec => [](Inv /\ Facts /\ Told)
  <1>1. Init => Inv /\ Facts /\ Told
    BY InitProgress, FactsAtStart DEF Inv, Init
  <1>2. Inv /\ Facts /\ Told /\ [Next]_vars => (Inv /\ Facts /\ Told)'
    BY InvKept, FactsKept DEF Inv
  <1> QED BY <1>1, <1>2, PTL DEF Spec

-----------------------------------------------------------------------------
(* What the parser makes of a run. *)

FailedPkgs(oc) == {p \in Pkg : oc[p] = "fail"}

(* One test for each package in which one failed. *)
LEMMA FailedInRun ==
  ASSUME NEW oc \in [Pkg -> Outcome]
  PROVE  LET all == FailedIn(AggregatesOf(oc), Started(oc))
         IN  /\ all = {<<p, TheTest>> : p \in FailedPkgs(oc)}
             /\ IsFiniteSet(FailedPkgs(oc))
             /\ Cardinality(all) = Cardinality(FailedPkgs(oc))
  <1> DEFINE F == FailedPkgs(oc)
             D == Started(oc)
             ps == AggregatesOf(oc)
             P == {<<p, TheTest>> : p \in F}
             f == [p \in F |-> <<p, TheTest>>]
  <1>1. TheTest \in Top
    BY Given DEF TheTest
  <1>2. FailedIn(ps, D) = P
    <2>1. \A p \in D : failedOf(ps[p]) = IF oc[p] = "fail" THEN {TheTest} ELSE {}
      BY AggregatesOfRun DEF Tells
    <2>2. \A p : p \in F <=> p \in D /\ oc[p] = "fail"
      BY DEF FailedPkgs, Started
    <2> HIDE DEF ps, D, F
    <2>3. \A p \in D, t \in Top : <<p, t>> \in FailedIn(ps, D) <=> t \in failedOf(ps[p])
      BY DEF FailedIn
    <2>4. FailedIn(ps, D) \subseteq D \X Top /\ P \subseteq D \X Top
      BY <1>1, <2>2 DEF FailedIn
    <2>5. \A p \in D, t \in Top : <<p, t>> \in P <=> t = TheTest /\ oc[p] = "fail"
      BY <2>2
    <2>6. \A p \in D, t \in Top : <<p, t>> \in FailedIn(ps, D) <=> <<p, t>> \in P
      BY <2>1, <2>3, <2>5
    <2> HIDE DEF P
    <2>7. \A x \in D \X Top : x \in FailedIn(ps, D) <=> x \in P
      BY <2>6
    <2> QED BY <2>4, <2>7
  <1>3. IsFiniteSet(F)
    BY FS_Subset, ParserAssumption DEF FailedPkgs
  <1>4. f \in Bijection(F, P)
    BY DEF Bijection, Injection, Surjection, IsInjective
  <1> HIDE DEF f
  <1>5. Cardinality(P) = Cardinality(F)
    BY <1>3, <1>4, FS_Bijection DEF ExistsBijection
  <1> QED BY <1>2, <1>3, <1>5

(* A run, or none, is reported on. *)
LEMMA RunReported ==
  ASSUME NEW oc \in [Pkg -> Outcome]
  PROVE  LET r == ParseResult(AggregatesOf(oc), FALSE)
         IN  /\ r \in Results
             /\ AccountsFor(r, AggregatesOf(oc), Started(oc))
             /\ r.CompileFailed <=> \E p \in Pkg : oc[p] \in Breaking
             /\ r.Tests.Failed = Cardinality(FailedPkgs(oc))
             /\ Len(r.Failures) = Cardinality(FailedPkgs(oc))
  <1> DEFINE D == Started(oc)
             ps == AggregatesOf(oc)
             r == ParseResult(ps, FALSE)
  <1>1. /\ ps \in [D -> Aggregate] /\ \A p \in D : Bookkept(ps[p])
        /\ \A p \in D : ps[p].pkgCompile <=> oc[p] \in Breaking
    BY AggregatesOfRun DEF Tells
  <1>2. Cardinality(FailedIn(ps, D)) = Cardinality(FailedPkgs(oc))
    BY FailedInRun
  <1>3. D \in SUBSET Pkg /\ \A p \in Pkg : oc[p] \in Breaking => p \in D
    BY DEF Started, Breaking
  <1> HIDE DEF ps, D
  <1>4. r \in Results /\ AccountsFor(r, ps, D)
    BY <1>1, <1>3, ParseResultIs
  <1> HIDE DEF r
  <1>5. /\ r.Tests.Failed = Cardinality(FailedIn(ps, D))
        /\ Len(r.Failures) = Cardinality(FailedIn(ps, D))
        /\ r.CompileFailed <=> \E p \in D : ps[p].pkgCompile
    BY <1>4 DEF AccountsFor, TestsReported, FailuresReported, PackagesReported
  <1> QED BY <1>1, <1>2, <1>3, <1>4, <1>5 DEF r, ps, D

(* What was found, as far as the exit code depends on it. *)
LEMMA FailuresFound ==
  ASSUME Found
  PROVE  /\ parseRes \in Results
         /\ parseRes.Tests.Failed > 0 <=> \E p \in Pkg : outcome[p] = "fail"
         /\ parseRes.CompileFailed <=> \E p \in Pkg : outcome[p] \in Breaking
  <1>1. outcome \in [Pkg -> Outcome] /\ parseRes = ParseResult(AggregatesOf(outcome), FALSE)
    BY DEF Found
  <1>2. /\ parseRes \in Results
        /\ parseRes.CompileFailed <=> \E p \in Pkg : outcome[p] \in Breaking
        /\ parseRes.Tests.Failed = Cardinality(FailedPkgs(outcome))
    BY <1>1, RunReported
  <1>3. Cardinality(FailedPkgs(outcome)) > 0 <=> FailedPkgs(outcome) # {}
    <2>1. IsFiniteSet(FailedPkgs(outcome))
      BY <1>1, FailedInRun
    <2> QED BY <2>1, FS_CardinalityType, FS_EmptySet
  <1>4. FailedPkgs(outcome) # {} <=> \E p \in Pkg : outcome[p] = "fail"
    BY DEF FailedPkgs
  <1> QED BY <1>2, <1>3, <1>4

(* The verdict, as far as the tests decide it. *)
LEMMA VerdictOfTests ==
  ASSUME Found
  PROVE  /\ decideExitCode \in Verdict
         /\ decideExitCode = ExitTestFailure <=>
              \E p \in Pkg : outcome[p] \in {"fail", "early", "broken", "chatty"}
  <1> DEFINE gate == Gate(covRes, cfg.CoverageThreshold, cfg.PackageThreshold,
                          {p \in DOMAIN covRes.Packages : p \notin included})
  <1>1. gate \in Verdict /\ gate # ExitTestFailure
    BY DEF Gate, Verdict, ExitSuccess, ExitTestFailure, ExitTotalCoverage, ExitPackageCoverage
  <1>2. decideExitCode = IF parseRes.CompileFailed \/ parseRes.Tests.Failed > 0
                         THEN ExitTestFailure ELSE gate
    BY DEF decideExitCode
  <1> HIDE DEF gate
  <1>3. parseRes.CompileFailed \/ parseRes.Tests.Failed > 0
          <=> \E p \in Pkg : outcome[p] \in {"fail", "early", "broken", "chatty"}
    BY FailuresFound DEF Breaking
  <1> QED BY <1>1, <1>2, <1>3 DEF Verdict

(* An exit code is a verdict only if it is the one the findings call for. *)
LEMMA VerdictTold ==
  ASSUME Inv, Told, exit \in Verdict
  PROVE  exit = decideExitCode /\ Settled
  <1>1. exit \notin {-1, ExitConfigError, ExitToolchainError}
    BY Errors
  <1> QED BY <1>1 DEF Inv, Progress, Told

-----------------------------------------------------------------------------
(* What the gates make of the coverage that was found. *)

(* No product of a threshold and a number of statements comes out too large. *)
ThresholdsExact ==
  \A c \in Configs, n \in Nat :
    <<c.CoverageThreshold, n>> \notin RoundsUp /\ <<c.PackageThreshold, n>> \notin RoundsUp

(* The result of a profile has one pair of counts for each package and the
   sums of both. *)
LEMMA ResultIs ==
  ASSUME NEW D \in SUBSET Pkg, NEW c \in [D -> [covered : Nat, total : Nat]]
  PROVE  /\ Result(c).Packages = c
         /\ Result(c).CoveredStatements \in Nat
         /\ Result(c).TotalStatements \in Nat
  <1>1. IsFiniteSet(D)
    BY FS_Subset, ParserAssumption
  <1>2. /\ [p \in D |-> c[p].covered] \in [D -> Nat]
        /\ [p \in D |-> c[p].total] \in [D -> Nat]
    OBVIOUS
  <1>3. /\ SumFunction([p \in D |-> c[p].covered]) \in Nat
        /\ SumFunction([p \in D |-> c[p].total]) \in Nat
    BY <1>1, <1>2, SumType
  <1>4. DOMAIN c = D
    OBVIOUS
  <1> QED BY <1>3, <1>4 DEF Result

(* The coverage found: counts of some packages and natural totals. *)
LEMMA CoverageFound ==
  ASSUME Found
  PROVE  /\ DOMAIN covRes.Packages \subseteq Pkg
         /\ \A p \in DOMAIN covRes.Packages : covRes.Packages[p] \in [covered : Nat, total : Nat]
         /\ covRes.CoveredStatements \in Nat /\ covRes.TotalStatements \in Nat
  <1>1. PICK D \in SUBSET Pkg : \E c \in [D -> [covered : Nat, total : Nat]] : covRes = Result(c)
    BY DEF Found
  <1> PICK c \in [D -> [covered : Nat, total : Nat]] : covRes = Result(c)
    BY <1>1
  <1>2. /\ covRes.Packages = c
        /\ covRes.CoveredStatements \in Nat /\ covRes.TotalStatements \in Nat
    BY ResultIs
  <1> QED BY <1>2

(* Without rounding the comparison is the one of the numbers. *)
LEMMA BelowIs ==
  ASSUME NEW n \in [covered : Nat, total : Nat], NEW th \in Int,
         <<th, n.total>> \notin RoundsUp
  PROVE  belowThreshold(n.covered, n.total, th) <=> Below(n, th)
  <1>1. n.covered \in Nat /\ n.total \in Nat /\ th # NaN /\ Hundred \in Nat
    BY GatesAssumption DEF Hundred
  <1>2. Hundred * n.covered \in Int /\ th * n.total \in Int
    BY <1>1
  <1>3. Hundred * n.covered # NaN /\ th * n.total # NaN
    BY <1>2, GatesAssumption
  <1> QED BY <1>1, <1>3 DEF belowThreshold, Below, Less

(* Nothing is below a threshold of zero or less. *)
LEMMA NotBelowZero ==
  ASSUME NEW n \in [covered : Nat, total : Nat], NEW th \in Int, th <= 0
  PROVE  ~Below(n, th)
  <1>1. n.covered \in Nat /\ n.total \in Nat /\ Hundred \in Nat
    BY GatesAssumption DEF Hundred
  <1> DEFINE x == Hundred * n.covered
             y == th * n.total
  <1>2. x \in Nat /\ y \in Int
    BY <1>1
  <1>3. y <= 0
    BY <1>1
  <1> HIDE DEF x, y
  <1>4. ~Less(x, y)
    BY <1>2, <1>3 DEF Less
  <1> QED BY <1>4 DEF Below, x, y

(* The gates compare the coverage of all packages and of the listed packages no
   expression excludes. *)
LEMMA GateIs ==
  ASSUME ThresholdsExact, Settled, cfg \in Configs
  PROVE  LET whole  == [covered |-> covRes.CoveredStatements, total |-> covRes.TotalStatements]
             low    == \/ Below(whole, cfg.CoverageThreshold)
                       \/ whole.total = 0 /\ Less(0, cfg.CoverageThreshold)
             lowPkg == \E p \in (DOMAIN covRes.Packages \cap cfg.Packages) \ Excluded :
                         cfg.PackageThreshold # NaN /\ Below(covRes.Packages[p], cfg.PackageThreshold)
             out    == {p \in DOMAIN covRes.Packages : p \notin included}
         IN  /\ totalGateFails(covRes, cfg.CoverageThreshold) <=> low
             /\ packageGateFails(covRes, cfg.PackageThreshold, out) <=> lowPkg
             /\ cfg.CoverageThreshold # NaN
  <1> DEFINE whole  == [covered |-> covRes.CoveredStatements, total |-> covRes.TotalStatements]
             out    == {p \in DOMAIN covRes.Packages : p \notin included}
             judged == (DOMAIN covRes.Packages \cap cfg.Packages) \ Excluded
             th     == cfg.CoverageThreshold
             pth    == cfg.PackageThreshold
             pcs    == covRes.Packages
  <1>1. /\ DOMAIN pcs \subseteq Pkg
        /\ \A p \in DOMAIN pcs : pcs[p] \in [covered : Nat, total : Nat]
        /\ whole \in [covered : Nat, total : Nat]
    BY CoverageFound DEF Settled
  <1>2. th \in Int /\ pth \in Int \cup {NaN}
    <2>1. th \in Int \cup {NaN} /\ pth \in Int \cup {NaN}
      BY PipelineAssumption
    <2>2. th # NaN
      BY DEF Settled, JSONFails, Rep, Build
    <2> QED BY <2>1, <2>2
  <1>3. \A n \in Nat : <<th, n>> \notin RoundsUp /\ <<pth, n>> \notin RoundsUp
    BY DEF ThresholdsExact
  <1>4. DOMAIN pcs \ out = judged
    <2>1. \A p \in Pkg : p \in included <=> p \in cfg.Packages /\ p \notin Excluded
      BY DEF Settled, filterPackages, matchesAny, compiledExclude, Excluded
    <2> QED BY <1>1, <2>1
  <1>5. /\ covRes.TotalStatements = whole.total /\ covRes.CoveredStatements = whole.covered
        /\ whole.total \in Nat
    BY <1>1
  <1>6. judged \subseteq DOMAIN pcs
    OBVIOUS
  <1> HIDE DEF whole, th, pth, pcs, out, judged
  <1>7. belowThreshold(whole.covered, whole.total, th) <=> Below(whole, th)
    BY <1>1, <1>2, <1>3, <1>5, BelowIs
  <1>8. totalGateFails(covRes, th) <=> Below(whole, th) \/ (whole.total = 0 /\ Less(0, th))
    <2>1. Below(whole, th) => whole.total > 0
      BY DEF Below
    <2> QED BY <1>5, <1>7, <2>1 DEF totalGateFails, HasData
  <1>9. packageGateFails(covRes, pth, out) <=>
          \E p \in judged : pth # NaN /\ Below(pcs[p], pth)
    <2>1. packageGateFails(covRes, pth, out) <=>
            /\ Less(0, pth)
            /\ \E p \in judged :
                 ~NA(pcs[p]) /\ belowThreshold(pcs[p].covered, pcs[p].total, pth)
      BY <1>4 DEF packageGateFails, pcs
    <2>2. CASE pth = NaN
      BY <2>1, <2>2 DEF Less
    <2>3. CASE pth # NaN
      <3>1. pth \in Int /\ (Less(0, pth) <=> pth > 0)
        BY <1>2, <2>3, GatesAssumption DEF Less
      <3>2. \A p \in judged :
              ~NA(pcs[p]) /\ belowThreshold(pcs[p].covered, pcs[p].total, pth)
                <=> Below(pcs[p], pth)
        <4> TAKE p \in judged
        <4>1. pcs[p] \in [covered : Nat, total : Nat] /\ pcs[p].total \in Nat
          BY <1>1, <1>6
        <4>2. belowThreshold(pcs[p].covered, pcs[p].total, pth) <=> Below(pcs[p], pth)
          BY <1>3, <3>1, <4>1, BelowIs
        <4>3. Below(pcs[p], pth) => pcs[p].total > 0
          BY DEF Below
        <4> QED BY <4>1, <4>2, <4>3 DEF NA
      <3>3. ASSUME pth <= 0, NEW p \in judged PROVE ~Below(pcs[p], pth)
        BY <1>1, <1>6, <3>1, <3>3, NotBelowZero
      <3> QED BY <2>1, <2>3, <3>1, <3>2, <3>3
    <2> QED BY <2>2, <2>3
  <1>10. th # NaN
    BY <1>2, GatesAssumption
  <1> QED BY <1>8, <1>9, <1>10 DEF whole, th, pth, pcs, out, judged

(* The badge of a coverage has the colour and the text of it. *)
LEMMA BadgeOfCoverage ==
  ASSUME NEW c \in Nat, NEW n \in Nat, n > 0
  PROVE  BadgeOf(SVG(TRUE, Percentage(c, n)), Percentage(c, n))
  <1> DEFINE h == Percentage(c, n)
             P(d) == d * 100 <= h /\ \A e \in Colors : e * 100 <= h => e <= d
  <1>1. h \in Nat
    <2>1. h = (20000 * c + n) \div (2 * n) /\ 20000 * c + n \in Nat /\ 2 * n \in Nat /\ 2 * n > 0
      BY DEF Percentage
    <2>2. \A a, b \in Nat : b > 0 => a \div b \in Nat
      OBVIOUS
    <2> HIDE DEF h
    <2> QED BY <2>1, <2>2
  <1> HIDE DEF h
  <1>2. \E d \in Colors : P(d)
    <2>1. CASE 9000 <= h
      BY <1>1, <2>1 DEF Colors
    <2>2. CASE 8000 <= h /\ h < 9000
      BY <1>1, <2>2 DEF Colors
    <2>3. CASE 7000 <= h /\ h < 8000
      BY <1>1, <2>3 DEF Colors
    <2>4. CASE 6000 <= h /\ h < 7000
      BY <1>1, <2>4 DEF Colors
    <2>5. CASE 5000 <= h /\ h < 6000
      BY <1>1, <2>5 DEF Colors
    <2>6. CASE h < 5000
      BY <1>1, <2>6 DEF Colors
    <2> QED BY <1>1, <2>1, <2>2, <2>3, <2>4, <2>5, <2>6
  <1> DEFINE d == coverageColor(h)
  <1>3. d \in Colors /\ P(d)
    BY <1>2 DEF coverageColor
  <1> HIDE DEF d
  <1>4. d \in Colors /\ 100 * d <= h /\ \A e \in Colors : 100 * e <= h => e <= d
    BY <1>3 DEF Colors
  <1>5. formatPct(h) # {} /\ \A t \in formatPct(h) : 10 * t - h \in -5..5
    <2>1. CASE h % 10 = 5
      BY <1>1, <2>1 DEF formatPct
    <2>2. CASE h % 10 # 5
      BY <1>1, <2>2 DEF formatPct
    <2> QED BY <2>1, <2>2
  <1> DEFINE badge == SVG(TRUE, h)
  <1>6. badge.color = d /\ badge.value = formatPct(h)
    BY DEF SVG, d
  <1> HIDE DEF badge
  <1>7. BadgeOf(badge, h)
    BY <1>4, <1>5, <1>6 DEF BadgeOf
  <1> QED BY <1>7 DEF badge, h

-----------------------------------------------------------------------------
(* The order of strings is strict and total. *)
LEMMA StringIrreflexive ==
  ASSUME NEW a \in Seq(Nat)
  PROVE  ~StringLess(a, a)
  <1>1. \A i \in 1..Len(a) : a[i] \in Nat
    BY ElementOfSeq
  <1> QED BY <1>1 DEF StringLess

(* The order of strings is transitive and total. *)
LEMMA StringTransitive ==
  ASSUME NEW a \in Seq(Nat), NEW b \in Seq(Nat), NEW c \in Seq(Nat),
         StringLess(a, b), StringLess(b, c)
  PROVE  StringLess(a, c)
  <1>1. /\ Len(a) \in Nat /\ Len(b) \in Nat /\ Len(c) \in Nat
        /\ \A i \in 1..Len(a) : a[i] \in Nat
        /\ \A i \in 1..Len(b) : b[i] \in Nat
        /\ \A i \in 1..Len(c) : c[i] \in Nat
    BY ElementOfSeq, LenProperties
  <1>2. PICK i \in 1..Len(b) : /\ \A j \in 1..(i - 1) : j <= Len(a) /\ a[j] = b[j]
                               /\ i > Len(a) \/ a[i] < b[i]
    BY DEF StringLess
  <1>3. PICK k \in 1..Len(c) : /\ \A j \in 1..(k - 1) : j <= Len(b) /\ b[j] = c[j]
                               /\ k > Len(b) \/ b[k] < c[k]
    BY DEF StringLess
  <1>4. CASE i < k
    <2>1. i \in 1..(k - 1) /\ i \in 1..Len(c)
      BY <1>1, <1>2, <1>3, <1>4
    <2>2. \A j \in 1..(i - 1) : j \in 1..(k - 1)
      BY <1>1, <1>2, <1>3, <1>4
    <2> QED BY <1>2, <1>3, <2>1, <2>2 DEF StringLess
  <1>5. CASE i = k
    <2>1. i \in 1..Len(c) /\ b[i] < c[i]
      BY <1>1, <1>2, <1>3, <1>5
    <2>2. i > Len(a) \/ a[i] < c[i]
      <3>1. CASE i > Len(a)
        BY <3>1
      <3>2. CASE ~(i > Len(a))
        <4>1. a[i] \in Nat /\ b[i] \in Nat /\ c[i] \in Nat /\ a[i] < b[i]
          BY <1>1, <1>2, <2>1, <3>2
        <4> DEFINE x == a[i]
                   y == b[i]
                   z == c[i]
        <4>2. x \in Nat /\ y \in Nat /\ z \in Nat /\ x < y /\ y < z
          BY <2>1, <4>1
        <4> HIDE DEF x, y, z
        <4>3. x < z
          BY <4>2
        <4> QED BY <4>3 DEF x, z
      <3> QED BY <3>1, <3>2
    <2> QED BY <1>2, <1>3, <1>5, <2>1, <2>2 DEF StringLess
  <1>6. CASE k < i
    <2>1. k \in 1..(i - 1) /\ k \in 1..Len(b)
      BY <1>1, <1>2, <1>3, <1>6
    <2>2. \A j \in 1..(k - 1) : j \in 1..(i - 1)
      BY <1>1, <1>2, <1>3, <1>6
    <2>3. b[k] < c[k] /\ a[k] = b[k]
      BY <1>1, <1>2, <1>3, <2>1
    <2>4. a[k] < c[k]
      BY <2>3
    <2> QED BY <1>2, <1>3, <2>2, <2>4 DEF StringLess
  <1> QED BY <1>1, <1>2, <1>3, <1>4, <1>5, <1>6

(* Of two strings that differ one is less. *)
LEMMA StringTotal ==
  ASSUME NEW a \in Seq(Nat), NEW b \in Seq(Nat), a # b
  PROVE  StringLess(a, b) \/ StringLess(b, a)
  <1>1. /\ Len(a) \in Nat /\ Len(b) \in Nat
        /\ \A i \in 1..Len(a) : a[i] \in Nat
        /\ \A i \in 1..Len(b) : b[i] \in Nat
    BY ElementOfSeq, LenProperties
  <1> DEFINE Same(i) == i <= Len(a) /\ i <= Len(b) /\ a[i] = b[i]
             T == {n \in Nat : \A i \in 1..n : Same(i)}
  <1>2. PICK n \in T : n + 1 \notin T
    <2>1. 0 \in T
      OBVIOUS
    <2>2. Len(a) + 1 \notin T
      BY <1>1
    <2>3. Len(a) + 1 \in Nat /\ T \in SUBSET Nat
      BY <1>1
    <2> HIDE DEF T
    <2> QED BY <2>1, <2>2, <2>3, NatSet
  <1> DEFINE m == n + 1
  <1>3. n \in Nat /\ m \in Nat /\ m >= 1 /\ \A j \in 1..(m - 1) : Same(j)
    BY <1>2
  <1>4. ~Same(m)
    <2>1. \A i \in 1..m : i \in 1..n \/ i = m
      BY <1>3
    <2> QED BY <1>2, <1>3, <2>1
  <1> HIDE DEF m, T
  <1>5. CASE m > Len(a) /\ m > Len(b)
    <2>1. Len(a) = Len(b) /\ \A i \in 1..Len(a) : a[i] = b[i]
      <3>1. Len(a) = m - 1 /\ Len(b) = m - 1
        <4>1. m - 1 \in 1..(m - 1) \/ m - 1 = 0
          BY <1>3
        <4> QED BY <1>1, <1>3, <1>5, <4>1
      <3> QED BY <1>3, <3>1
    <2> QED BY <2>1, SeqEqual
  <1>6. CASE m > Len(a) /\ ~(m > Len(b))
    <2>1. m \in 1..Len(b)
      BY <1>1, <1>3, <1>6
    <2> QED BY <1>3, <1>6, <2>1 DEF StringLess
  <1>7. CASE ~(m > Len(a)) /\ m > Len(b)
    <2>1. m \in 1..Len(a)
      BY <1>1, <1>3, <1>7
    <2> QED BY <1>3, <1>7, <2>1 DEF StringLess
  <1>8. CASE ~(m > Len(a)) /\ ~(m > Len(b))
    <2>1. m \in 1..Len(a) /\ m \in 1..Len(b)
      BY <1>1, <1>3, <1>8
    <2>2. a[m] < b[m] \/ b[m] < a[m]
      BY <1>1, <1>3, <1>4, <2>1
    <2> QED BY <1>3, <2>1, <2>2 DEF StringLess
  <1> QED BY <1>5, <1>6, <1>7, <1>8

-----------------------------------------------------------------------------
(* sort.Slice moves the rows, and puts none behind one it is less than. *)
LEMMA RowsSorted ==
  ASSUME NEW S, NEW s \in Seq(S), \A x \in S : x.Name \in Seq(Nat)
  PROVE  LET r == SortSlice(s, NameLess)
         IN  /\ r \in Seq(S) /\ Len(r) = Len(s) /\ ToSet(r) = ToSet(s)
             /\ (\A i, j \in 1..Len(s) : s[i].Name = s[j].Name => i = j) =>
                  \A i, j \in DOMAIN r : i < j => StringLess(r[i].Name, r[j].Name)
  <1> DEFINE n == Len(s)
             P(q) == \A i, j \in DOMAIN s : i < j => q[i] # q[j] /\ ~NameLess(s[q[j]], s[q[i]])
             q0 == CHOOSE q \in [DOMAIN s -> DOMAIN s] : P(q)
             R == {x \in (1..n) \X (1..n) : NameLess(s[x[1]], s[x[2]])}
  <1>1. n \in Nat /\ DOMAIN s = 1..n /\ \A i \in 1..n : s[i] \in S /\ s[i].Name \in Seq(Nat)
    BY LenProperties, ElementOfSeq
  <1> HIDE DEF n
  <1>2. \A i, j \in 1..n : <<i, j>> \in R <=> StringLess(s[i].Name, s[j].Name)
    BY DEF NameLess
  <1> HIDE DEF R
  <1>3. IsStrictOrder(R, 1..n)
    <2>1. \A i \in 1..n : <<i, i>> \notin R
      BY <1>1, <1>2, StringIrreflexive
    <2>2. \A i, j, k \in 1..n : <<i, j>> \in R /\ <<j, k>> \in R => <<i, k>> \in R
      BY <1>1, <1>2, StringTransitive
    <2> QED BY <2>1, <2>2 DEF IsStrictOrder
  <1>4. PICK q \in [1..n -> 1..n] :
          \A i, j \in 1..n : i < j => q[i] # q[j] /\ <<q[j], q[i]>> \notin R
    BY <1>1, <1>3, PositionsArranged
  <1>5. q0 \in [1..n -> 1..n] /\ P(q0)
    <2>1. P(q)
      BY <1>1, <1>2, <1>4 DEF NameLess
    <2> HIDE DEF P
    <2> QED BY <1>1, <2>1
  <1>6. SortSlice(s, NameLess) = [i \in DOMAIN s |-> s[q0[i]]]
    BY DEF SortSlice
  <1> HIDE DEF q0
  <1> DEFINE r == [i \in DOMAIN s |-> s[q0[i]]]
  <1>7. r \in Seq(S) /\ Len(r) = n /\ DOMAIN r = 1..n /\ ToSet(r) = ToSet(s)
    <2>1. q0 \in [DOMAIN s -> DOMAIN s] /\ \A i, j \in DOMAIN s : i < j => q0[i] # q0[j]
      BY <1>1, <1>5
    <2> QED BY <1>1, <2>1, Rearranged DEF n
  <1>8. \A i \in 1..n : r[i] = s[q0[i]] /\ q0[i] \in 1..n
    BY <1>1, <1>5
  <1> HIDE DEF r
  <1>9. ASSUME \A i, j \in 1..n : s[i].Name = s[j].Name => i = j
        PROVE  \A i, j \in 1..n : i < j => StringLess(r[i].Name, r[j].Name)
    <2> SUFFICES ASSUME NEW i \in 1..n, NEW j \in 1..n, i < j
                 PROVE  StringLess(r[i].Name, r[j].Name)
      OBVIOUS
    <2>1. q0[i] # q0[j] /\ ~StringLess(s[q0[j]].Name, s[q0[i]].Name)
      BY <1>1, <1>5 DEF NameLess
    <2>2. q0[i] \in 1..n /\ q0[j] \in 1..n
      BY <1>8
    <2>3. s[q0[i]].Name # s[q0[j]].Name
      BY <1>9, <2>1, <2>2
    <2>4. StringLess(s[q0[i]].Name, s[q0[j]].Name)
      BY <1>1, <2>1, <2>2, <2>3, StringTotal
    <2> QED BY <1>8, <2>4
  <1> QED BY <1>6, <1>7, <1>9 DEF r, n

(* The sorted failures are those of the list, by package and test. *)
LEMMA FailuresSorted ==
  ASSUME NEW S, NEW s \in Seq(S), \A x \in S : x.Package \in Seq(Nat) /\ x.Test \in Int
  PROVE  LET r == SortSlice(s, FailureLess)
         IN  r \in Seq(S) /\ Len(r) = Len(s) /\ ToSet(r) = ToSet(s)
  <1> DEFINE n == Len(s)
             P(q) == \A i, j \in DOMAIN s : i < j => q[i] # q[j] /\ ~FailureLess(s[q[j]], s[q[i]])
             q0 == CHOOSE q \in [DOMAIN s -> DOMAIN s] : P(q)
             R == {x \in (1..n) \X (1..n) : FailureLess(s[x[1]], s[x[2]])}
  <1>1. n \in Nat /\ DOMAIN s = 1..n
        /\ \A i \in 1..n : s[i] \in S /\ s[i].Package \in Seq(Nat) /\ s[i].Test \in Int
    BY LenProperties, ElementOfSeq
  <1> HIDE DEF n
  <1>2. \A i, j \in 1..n : <<i, j>> \in R <=> FailureLess(s[i], s[j])
    OBVIOUS
  <1> HIDE DEF R
  <1>3. IsStrictOrder(R, 1..n)
    <2>1. \A i \in 1..n : ~FailureLess(s[i], s[i])
      BY <1>1 DEF FailureLess
    <2>2. ASSUME NEW i \in 1..n, NEW j \in 1..n, NEW k \in 1..n,
                 FailureLess(s[i], s[j]), FailureLess(s[j], s[k])
          PROVE  FailureLess(s[i], s[k])
      <3> DEFINE a == s[i].Package
                 b == s[j].Package
                 c == s[k].Package
      <3>1. a \in Seq(Nat) /\ b \in Seq(Nat) /\ c \in Seq(Nat)
            /\ s[i].Test \in Int /\ s[j].Test \in Int /\ s[k].Test \in Int
        BY <1>1
      <3>2. /\ IF a # b THEN StringLess(a, b) ELSE s[i].Test < s[j].Test
            /\ IF b # c THEN StringLess(b, c) ELSE s[j].Test < s[k].Test
        BY <2>2 DEF FailureLess
      <3> HIDE DEF a, b, c
      <3>3. IF a # c THEN StringLess(a, c) ELSE s[i].Test < s[k].Test
        <4>1. CASE a # b /\ b # c
          <5>1. StringLess(a, c)
            BY <3>1, <3>2, <4>1, StringTransitive
          <5> QED BY <3>1, <5>1, StringIrreflexive
        <4>2. CASE a = b \/ b = c
          BY <3>1, <3>2, <4>2
        <4> QED BY <4>1, <4>2
      <3> QED BY <3>3 DEF FailureLess, a, c
    <2> QED BY <1>2, <2>1, <2>2 DEF IsStrictOrder
  <1>4. PICK q \in [1..n -> 1..n] :
          \A i, j \in 1..n : i < j => q[i] # q[j] /\ <<q[j], q[i]>> \notin R
    BY <1>1, <1>3, PositionsArranged
  <1>5. q0 \in [1..n -> 1..n] /\ P(q0)
    <2>1. P(q)
      BY <1>1, <1>2, <1>4
    <2> HIDE DEF P
    <2> QED BY <1>1, <2>1
  <1>6. SortSlice(s, FailureLess) = [i \in DOMAIN s |-> s[q0[i]]]
    BY DEF SortSlice
  <1>7. q0 \in [DOMAIN s -> DOMAIN s] /\ \A i, j \in DOMAIN s : i < j => q0[i] # q0[j]
    BY <1>1, <1>5
  <1> HIDE DEF q0
  <1> DEFINE r == [i \in DOMAIN s |-> s[q0[i]]]
  <1>8. r \in Seq(S) /\ Len(r) = Len(s) /\ ToSet(r) = ToSet(s)
    BY <1>7, Rearranged
  <1> HIDE DEF r
  <1> QED BY <1>6, <1>8 DEF r

-----------------------------------------------------------------------------
(* What the reports say of a run. *)

(* No two packages are called the same. *)
NamesDistinct ==
  \A p, q \in Pkg : RelName(Module, Path[p]) = RelName(Module, Path[q]) => p = q

NameOf(p)     == RelName(deriveModulePath, Path[p])
RowFor(p)     == IF outcome[p] = "unstarted" THEN MeasuredRow(covRes, deriveModulePath, p)
                 ELSE TestedRow(covRes, deriveModulePath, RowOf(AggregatesOf(outcome), p))
FailureFor(p) == FailureRow(deriveModulePath, FailureOf(AggregatesOf(outcome), <<p, TheTest>>))

(* A relative name is a string. *)
LEMMA NameIsString ==
  ASSUME NEW p \in Pkg
  PROVE  NameOf(p) \in Seq(Nat)
  <1> DEFINE m == deriveModulePath
             s == Path[p]
             prefix == Append(m, Slash)
  <1>1. m \in Seq(Nat) /\ s \in Seq(Nat)
    <2>1. <<>> \in Seq(Nat)
      OBVIOUS
    <2>2. m \in Seq(Nat)
      BY <2>1, Given DEF deriveModulePath
    <2>3. s \in Seq(Nat)
      BY ReportAssumption
    <2> QED BY <2>2, <2>3
  <1>2. prefix \in Seq(Nat) /\ Len(prefix) \in Nat /\ Len(s) \in Nat
    BY <1>1, AppendProperties, LenProperties DEF Slash
  <1>3. SubSeq(s, Len(prefix) + 1, Len(s)) \in Seq(Nat)
    <2>1. \A i \in (Len(prefix) + 1)..Len(s) : i \in 1..Len(s)
      BY <1>2
    <2>2. \A i \in (Len(prefix) + 1)..Len(s) : s[i] \in Nat
      BY <1>1, <2>1, ElementOfSeq
    <2>3. Len(prefix) + 1 \in Int /\ Len(s) \in Int
      BY <1>2
    <2> HIDE DEF s, prefix
    <2> QED BY <2>2, <2>3, SubSeqProperties
  <1>4. <<Dot>> \in Seq(Nat)
    BY DEF Dot
  <1>5. NameOf(p) \in {s, <<Dot>>, SubSeq(s, Len(prefix) + 1, Len(s))}
    BY DEF NameOf, RelName
  <1> HIDE DEF s, prefix
  <1> QED BY <1>1, <1>3, <1>4, <1>5

(* Two packages have two import paths. *)
LEMMA PathsDiffer ==
  ASSUME NEW p \in Pkg, NEW q \in Pkg, Path[p] = Path[q]
  PROVE  p = q
  <1>1. Path[p] \in Seq(Nat)
    BY ReportAssumption
  <1>2. p < q => StringLess(Path[p], Path[q])
    BY ReportAssumption
  <1>3. q < p => StringLess(Path[q], Path[p])
    BY ReportAssumption
  <1>4. ~StringLess(Path[p], Path[p])
    BY <1>1, StringIrreflexive
  <1>5. p \in Int /\ q \in Int
    BY ParserAssumption
  <1> QED BY <1>2, <1>3, <1>4, <1>5

(* Two packages have two names. *)
LEMMA NamesDiffer ==
  ASSUME NamesDistinct, NEW p \in Pkg, NEW q \in Pkg, NameOf(p) = NameOf(q)
  PROVE  p = q
  <1>1. CASE included # {}
    BY <1>1 DEF NamesDistinct, NameOf, deriveModulePath
  <1>2. CASE included = {}
    <2>1. Path[p] = Path[q]
      BY <1>2 DEF NameOf, RelName, deriveModulePath
    <2> QED BY <2>1, PathsDiffer
  <1> QED BY <1>1, <1>2

(* The import path lies in the module. *)
Inside(p) ==
  \/ Path[p] = Module
  \/ Len(Path[p]) > Len(Module) + 1 /\ IsPrefix(Append(Module, Slash), Path[p])

(* A string that begins with another is that and the rest. *)
LEMMA PrefixAndRest ==
  ASSUME NEW u \in Seq(Nat), NEW s \in Seq(Nat), IsPrefix(u, s)
  PROVE  s = u \o SubSeq(s, Len(u) + 1, Len(s))
  <1>1. Len(u) \in Nat /\ Len(s) \in Nat /\ Len(u) <= Len(s) /\ SubSeq(u, 1, Len(u)) = SubSeq(s, 1, Len(u))
    BY LenProperties DEF IsPrefix
  <1>2. (\A j \in 1..Len(u) : u[j] \in Nat) /\ (\A j \in 1..Len(s) : s[j] \in Nat)
    BY ElementOfSeq
  <1>3. /\ \A j \in 1..Len(u) : SubSeq(u, 1, Len(u))[j] = u[j]
    BY <1>1, <1>2, SubSeqProperties
  <1>4. \A j \in 1..Len(u) : SubSeq(s, 1, Len(u))[j] = s[j]
    <2>1. \A j \in 1..Len(u) : s[j] \in Nat
      BY <1>1, <1>2
    <2> QED BY <1>1, <2>1, SubSeqProperties
  <1>5. \A j \in 1..Len(u) : u[j] = s[j]
    BY <1>1, <1>3, <1>4
  <1> DEFINE m == Len(u) + 1
             v == SubSeq(s, m, Len(s))
  <1>6. /\ v \in Seq(Nat) /\ Len(v) = Len(s) - Len(u)
        /\ \A j \in 1..(Len(s) - Len(u)) : v[j] = s[Len(u) + j]
    <2>1. m \in Int /\ Len(s) \in Int /\ \A j \in m..Len(s) : s[j] \in Nat
      BY <1>1, <1>2
    <2> HIDE DEF m
    <2>2. /\ v \in Seq(Nat) /\ Len(v) = (IF m <= Len(s) THEN Len(s) - m + 1 ELSE 0)
          /\ \A j \in 1..(Len(s) - m + 1) : v[j] = s[m + j - 1]
      BY <2>1, SubSeqProperties
    <2> HIDE DEF v
    <2>3. m = Len(u) + 1
      BY DEF m
    <2>4. Len(s) - m + 1 = Len(s) - Len(u) /\ (m <= Len(s) \/ Len(s) - Len(u) = 0)
      BY <1>1, <2>3
    <2>5. \A j \in 1..(Len(s) - Len(u)) : m + j - 1 = Len(u) + j
      BY <1>1, <2>3
    <2> QED BY <2>2, <2>4, <2>5
  <1> HIDE DEF v
  <1>7. /\ u \o v \in Seq(Nat) /\ Len(u \o v) = Len(u) + Len(v)
        /\ \A j \in 1..(Len(u) + Len(v)) : (u \o v)[j] = IF j <= Len(u) THEN u[j] ELSE v[j - Len(u)]
    BY <1>6, ConcatProperties
  <1>8. Len(u \o v) = Len(s)
    BY <1>1, <1>6, <1>7
  <1>9. ASSUME NEW j \in 1..Len(s) PROVE (u \o v)[j] = s[j]
    <2>1. j \in 1..(Len(u) + Len(v))
      BY <1>1, <1>6
    <2>2. CASE j <= Len(u)
      BY <1>1, <1>5, <1>7, <2>1, <2>2
    <2>3. CASE ~(j <= Len(u))
      <3>1. j - Len(u) \in 1..(Len(s) - Len(u)) /\ Len(u) + (j - Len(u)) = j
        BY <1>1, <2>3
      <3> QED BY <1>6, <1>7, <2>1, <2>3, <3>1
    <2> QED BY <2>2, <2>3
  <1>10. s = u \o v
    BY <1>7, <1>8, <1>9, SeqEqual
  <1> QED BY <1>10 DEF v

(* Two packages of the module have two names, and two that are not of it; only
   a package from elsewhere can be called as one of the module is (RelName). *)
THEOREM OnlyForeignNamesClash ==
  ASSUME \A p \in Pkg : Path[p] # Append(Module, Slash) \o <<Dot>>,
         \A p, q \in Pkg : Inside(p) /\ ~Inside(q) => RelName(Module, Path[p]) # Path[q]
  PROVE  NamesDistinct
  <1> DEFINE prefix == Append(Module, Slash)
             Rest(p) == SubSeq(Path[p], Len(prefix) + 1, Len(Path[p]))
             Name(p) == RelName(Module, Path[p])
  <1>1. Module \in Seq(Nat) /\ Module # <<>> /\ \A p \in Pkg : Path[p] \in Seq(Nat)
    BY PipelineAssumption, ReportAssumption
  <1>2. prefix \in Seq(Nat) /\ Len(prefix) = Len(Module) + 1
    BY <1>1, AppendProperties DEF Slash
  <1>3. ASSUME NEW p \in Pkg
        PROVE  /\ Path[p] = Module => Inside(p) /\ Name(p) = <<Dot>>
               /\ Inside(p) /\ Path[p] # Module => Name(p) = Rest(p) /\ Path[p] = prefix \o Rest(p)
               /\ ~Inside(p) => Name(p) = Path[p]
    <2>1. Inside(p) /\ Path[p] # Module => Path[p] = prefix \o Rest(p)
      <3> SUFFICES ASSUME Inside(p), Path[p] # Module PROVE Path[p] = prefix \o Rest(p)
        OBVIOUS
      <3>1. IsPrefix(prefix, Path[p])
        BY DEF Inside
      <3> HIDE DEF prefix
      <3> QED BY <1>1, <1>2, <3>1, PrefixAndRest
    <2>2. Path[p] = Module => Inside(p) /\ Name(p) = <<Dot>>
      BY <1>1 DEF Inside, RelName
    <2>3. Inside(p) /\ Path[p] # Module => Name(p) = Rest(p)
      BY <1>1, <1>2 DEF Inside, RelName
    <2>4. ~Inside(p) => Name(p) = Path[p]
      BY <1>1, <1>2 DEF Inside, RelName
    <2> QED BY <2>1, <2>2, <2>3, <2>4
  <1>4. ASSUME NEW p \in Pkg, NEW q \in Pkg, Name(p) = Name(q) PROVE Path[p] = Path[q]
    <2> HIDE DEF prefix, Rest, Name
    <2>1. Inside(p) <=> Inside(q)
      <3>1. /\ Inside(p) /\ ~Inside(q) => Name(p) # Path[q]
            /\ Inside(q) /\ ~Inside(p) => Name(q) # Path[p]
        BY DEF Name
      <3> QED BY <1>3, <1>4, <3>1
    <2>2. Path[p] # prefix \o <<Dot>> /\ Path[q] # prefix \o <<Dot>>
      BY DEF prefix
    <2> QED BY <1>3, <1>4, <2>1, <2>2
  <1> QED BY <1>4, PathsDiffer DEF NamesDistinct

(* A set listed: as many places as members, each member at one. *)
LEMMA ListOf ==
  ASSUME NEW S, IsFiniteSet(S)
  PROVE  LET q == SetToSeq(S)
         IN  /\ Len(q) = Cardinality(S) /\ Len(q) \in Nat
             /\ q \in [1..Len(q) -> S] /\ ToSet(q) = S
  <1> DEFINE n == Cardinality(S)
             q == SetToSeq(S)
  <1>1. n \in Nat /\ \E f \in [1..n -> S] : IsInjective(f)
    <2>1. n \in Nat /\ ExistsBijection(1..n, S)
      BY FS_CardinalityType
    <2> QED BY <2>1 DEF ExistsBijection, Bijection, Injection
  <1>2. q \in [1..n -> S] /\ IsInjective(q)
    BY <1>1 DEF SetToSeq
  <1> HIDE DEF q
  <1>3. Len(q) = n /\ DOMAIN q = 1..n
    BY <1>1, <1>2, FunctionIsSeq
  <1>4. q \in Surjection(1..n, S)
    <2>1. q \in Injection(1..n, S)
      BY <1>2 DEF Injection
    <2>2. IsFiniteSet(1..n) /\ Cardinality(1..n) = n
      <3>1. IsFiniteSet(1..n) /\ Cardinality(1..n) = IF 1 > n THEN 0 ELSE n - 1 + 1
        BY <1>1, FS_Interval
      <3> QED BY <1>1, <3>1
    <2> QED BY <2>1, <2>2, FS_Injection
  <1>5. ToSet(q) = S
    BY <1>2, <1>3, <1>4 DEF ToSet, Surjection
  <1> QED BY <1>1, <1>2, <1>3, <1>5 DEF q

(* The report has a row for each package that started and one for each that was
   only measured, once each. *)
LEMMA RowsListed ==
  ASSUME Found
  PROVE  LET s == PackageRows(parseRes, covRes, deriveModulePath)
             n == Cardinality(Reported)
         IN  /\ n \in Nat /\ s \in [1..n -> {RowFor(p) : p \in Reported}]
             /\ \E ip \in Bijection(1..n, Reported) : \A i \in 1..n : s[i] = RowFor(ip[i])
  <1> DEFINE ps   == AggregatesOf(outcome)
             D    == Started(outcome)
             rows == parseRes.Packages
             k    == Len(rows)
             M    == coverageOnly(parseRes, covRes)
             only == SetToSeq(M)
             m    == Len(only)
             tested   == [i \in 1..k |-> TestedRow(covRes, deriveModulePath, rows[i])]
             measured == [i \in 1..m |-> MeasuredRow(covRes, deriveModulePath, only[i])]
             s    == PackageRows(parseRes, covRes, deriveModulePath)
             n    == Cardinality(Reported)
  <1>1. /\ parseRes \in Results /\ k = Cardinality(D)
        /\ ToSet(rows) = {RowOf(ps, p) : p \in D}
    <2>1. outcome \in [Pkg -> Outcome] /\ parseRes = ParseResult(ps, FALSE)
      BY DEF Found
    <2>2. parseRes \in Results /\ AccountsFor(parseRes, ps, D)
      BY <2>1, RunReported
    <2> QED BY <2>2 DEF AccountsFor, PackagesReported
  <1>2. k \in Nat /\ DOMAIN rows = 1..k
    BY <1>1, LenProperties DEF Results
  <1>3. \A p : RowOf(ps, p).ImportPath = p
    BY DEF RowOf
  <1>4. {r.ImportPath : r \in ToSet(rows)} = D
    <2> DEFINE X == ToSet(rows)
    <2>1. X = {RowOf(ps, p) : p \in D}
      BY <1>1
    <2> HIDE DEF ps, X, D
    <2>2. /\ \A r \in X : r.ImportPath \in D
          /\ \A p \in D : RowOf(ps, p) \in X
      BY <1>3, <2>1
    <2>3. {r.ImportPath : r \in X} = D
      BY <1>3, <2>2
    <2> QED BY <2>3 DEF X
  <1>5. M = DOMAIN covRes.Packages \ D /\ M \subseteq Pkg /\ D \subseteq Pkg /\ Reported = D \cup M
    <2>1. DOMAIN covRes.Packages \subseteq Pkg
      BY CoverageFound
    <2> QED BY <1>4, <2>1 DEF coverageOnly, Reported, Started
  <1>6. IsFiniteSet(D) /\ IsFiniteSet(M)
    BY <1>5, FS_Subset, ParserAssumption
  <1>7. m = Cardinality(M) /\ m \in Nat /\ only \in [1..m -> M] /\ ToSet(only) = M
    BY <1>6, ListOf
  <1>8. n = k + m /\ n \in Nat /\ IsFiniteSet(Reported)
    <2>1. D \cap M = {}
      BY <1>5
    <2>2. /\ IsFiniteSet(D \cup M)
          /\ Cardinality(D \cup M) = Cardinality(D) + Cardinality(M) - Cardinality(D \cap M)
      BY <1>6, FS_Union
    <2>3. Cardinality(D \cap M) = 0
      BY <2>1, FS_EmptySet
    <2>4. Cardinality(Reported) = k + m /\ IsFiniteSet(Reported)
      <3>1. Reported = D \cup M /\ k = Cardinality(D) /\ m = Cardinality(M)
        BY <1>1, <1>5, <1>7
      <3>2. k \in Nat /\ m \in Nat
        BY <1>2, <1>7
      <3> HIDE DEF D, M, k, m
      <3> QED BY <2>2, <2>3, <3>1, <3>2
    <2> QED BY <1>2, <1>7, <2>4
  <1> DEFINE ip == [i \in 1..n |-> IF i <= k THEN rows[i].ImportPath ELSE only[i - k]]
  <1>9. ASSUME NEW i \in 1..k PROVE rows[i].ImportPath \in D /\ tested[i] = RowFor(rows[i].ImportPath)
    <2>1. PICK p \in D : rows[i] = RowOf(ps, p)
      BY <1>1, <1>2 DEF ToSet
    <2>2. rows[i].ImportPath = p
      BY <1>3, <2>1
    <2> QED BY <2>1, <2>2 DEF RowFor, Started
  <1>10. ASSUME NEW i \in 1..m PROVE only[i] \in M /\ measured[i] = RowFor(only[i])
    <2>1. only[i] \in M
      BY <1>7
    <2>2. only[i] \in Pkg /\ outcome[only[i]] = "unstarted"
      BY <1>5, <2>1 DEF Started
    <2> QED BY <2>1, <2>2 DEF RowFor
  <1>11. s = tested \o measured
    BY DEF PackageRows
  <1>12. /\ DOMAIN tested = 1..k /\ DOMAIN measured = 1..m
         /\ tested = [i \in 1..k |-> tested[i]] /\ measured = [i \in 1..m |-> measured[i]]
    OBVIOUS
  <1>13. \A i \in (k + 1)..n : i - k \in 1..m
    BY <1>2, <1>7, <1>8
  <1>14. \A i \in 1..k : \E p \in D : rows[i] = RowOf(ps, p)
    BY <1>1, <1>2 DEF ToSet
  <1>15. \A p \in D : \E i \in 1..k : rows[i] = RowOf(ps, p)
    BY <1>1, <1>2 DEF ToSet
  <1>16. \A p \in M : \E i \in 1..m : only[i] = p
    <2>1. DOMAIN only = 1..m
      BY <1>7
    <2> QED BY <1>7, <2>1 DEF ToSet
  <1> HIDE DEF ps, D, rows, k, M, only, m, tested, measured, s, n
  <1>17. ip \in [1..n -> Reported]
    <2>1. ASSUME NEW i \in 1..n PROVE ip[i] \in Reported
      <3>1. CASE i <= k
        <4>1. i \in 1..k
          BY <1>2, <1>8, <3>1
        <4> QED BY <1>5, <1>9, <3>1, <4>1
      <3>2. CASE ~(i <= k)
        <4>1. i - k \in 1..m
          BY <1>2, <1>8, <1>13, <3>2
        <4> QED BY <1>5, <1>10, <3>2, <4>1
      <3> QED BY <3>1, <3>2
    <2> QED BY <2>1
  <1>18. ASSUME NEW p \in Reported PROVE \E i \in 1..n : ip[i] = p
    <2>1. CASE p \in D
      <3>1. PICK i \in 1..k : rows[i] = RowOf(ps, p)
        BY <1>15, <2>1
      <3>2. i \in 1..n /\ i <= k
        BY <1>2, <1>7, <1>8
      <3>3. ip[i] = p
        BY <1>3, <3>1, <3>2
      <3> QED BY <3>2, <3>3
    <2>2. CASE p \in M
      <3>1. PICK i \in 1..m : only[i] = p
        BY <1>16, <2>2
      <3> DEFINE j == k + i
      <3>2. k \in Nat /\ i \in Nat /\ i >= 1 /\ i <= m /\ n = k + m /\ m \in Nat
        BY <1>2, <1>7, <1>8
      <3>3. j \in 1..n /\ ~(j <= k) /\ j - k = i
        BY <3>2
      <3> HIDE DEF j
      <3>4. ip[j] = only[j - k]
        BY <3>3
      <3> HIDE DEF ip
      <3>5. ip[j] = p
        BY <3>1, <3>3, <3>4
      <3> QED BY <3>3, <3>5
    <2> QED BY <1>5, <2>1, <2>2
  <1>19. tested \in Seq({RowFor(p) : p \in Reported}) /\ Len(tested) = k
    <2>1. \A i \in 1..k : tested[i] \in {RowFor(p) : p \in Reported}
      BY <1>5, <1>9
    <2>2. tested \in [1..k -> {RowFor(p) : p \in Reported}]
      BY <1>12, <2>1
    <2> QED BY <1>2, <2>2, FunctionIsSeq
  <1>20. measured \in Seq({RowFor(p) : p \in Reported}) /\ Len(measured) = m
    <2>1. \A i \in 1..m : measured[i] \in {RowFor(p) : p \in Reported}
      BY <1>5, <1>10
    <2>2. measured \in [1..m -> {RowFor(p) : p \in Reported}]
      BY <1>12, <2>1
    <2> QED BY <1>7, <2>2, FunctionIsSeq
  <1>21. /\ Len(s) = n /\ DOMAIN s = 1..n /\ s \in Seq({RowFor(p) : p \in Reported})
         /\ \A i \in 1..n : s[i] = IF i <= k THEN tested[i] ELSE measured[i - k]
    <2>1. /\ s \in Seq({RowFor(p) : p \in Reported}) /\ Len(s) = k + m
          /\ \A i \in 1..(k + m) : s[i] = IF i <= k THEN tested[i] ELSE measured[i - k]
      BY <1>11, <1>19, <1>20, ConcatProperties
    <2>2. DOMAIN s = 1..Len(s)
      BY <2>1, LenProperties
    <2> QED BY <1>8, <2>1, <2>2
  <1>22. \A i \in 1..n : s[i] = RowFor(ip[i])
    <2> TAKE i \in 1..n
    <2>1. CASE i <= k
      <3>1. i \in 1..k
        BY <1>2, <1>8, <2>1
      <3> QED BY <1>9, <1>21, <2>1, <3>1
    <2>2. CASE ~(i <= k)
      <3>1. i - k \in 1..m
        BY <1>2, <1>8, <1>13, <2>2
      <3> QED BY <1>10, <1>21, <2>2, <3>1
    <2> QED BY <2>1, <2>2
  <1> HIDE DEF ip
  <1>23. ip \in Bijection(1..n, Reported)
    <2>1. ip \in Surjection(1..n, Reported)
      BY <1>17, <1>18 DEF Surjection
    <2>2. IsFiniteSet(1..n) /\ Cardinality(1..n) = n
      <3>1. 1 \in Int /\ n \in Int
        BY <1>8
      <3>2. IsFiniteSet(1..n) /\ Cardinality(1..n) = IF 1 > n THEN 0 ELSE n - 1 + 1
        BY <3>1, FS_Interval
      <3> QED BY <1>8, <3>2
    <2>3. Cardinality(Reported) = n
      BY DEF n
    <2>4. ip \in Injection(1..n, Reported)
      BY <2>1, <2>2, <2>3, FS_Surjection
    <2> QED BY <2>1, <2>4 DEF Bijection
  <1>24. s \in [1..n -> {RowFor(p) : p \in Reported}]
    BY <1>8, <1>21, ElementOfSeq
  <1> QED BY <1>8, <1>22, <1>23, <1>24 DEF s, n

(* The report lists every package of the run once, in the order of their names. *)
LEMMA RowsOfReport ==
  ASSUME Found
  PROVE  /\ Rep.Packages \in Seq({RowFor(p) : p \in Reported})
         /\ Len(Rep.Packages) = Cardinality(Reported)
         /\ ToSet(Rep.Packages) = {RowFor(p) : p \in Reported}
         /\ NamesDistinct =>
              \A i, j \in DOMAIN Rep.Packages :
                i < j => StringLess(Rep.Packages[i].Name, Rep.Packages[j].Name)
  <1> DEFINE n == Cardinality(Reported)
             s == PackageRows(parseRes, covRes, deriveModulePath)
             S == {RowFor(p) : p \in Reported}
  <1>1. n \in Nat /\ s \in [1..n -> S]
    BY RowsListed
  <1>2. PICK ip \in Bijection(1..n, Reported) : \A i \in 1..n : s[i] = RowFor(ip[i])
    BY RowsListed
  <1>3. /\ \A i \in 1..n : ip[i] \in Reported
        /\ \A i, j \in 1..n : ip[i] = ip[j] => i = j
        /\ \A p \in Reported : \E i \in 1..n : ip[i] = p
    BY <1>2 DEF Bijection, Injection, Surjection, IsInjective
  <1>4. Reported \subseteq Pkg
    BY CoverageFound DEF Reported
  <1>5. Rep.Packages = SortSlice(s, NameLess)
    BY DEF Rep, Build
  <1> HIDE DEF s, n
  <1>6. s \in Seq(S) /\ Len(s) = n /\ DOMAIN s = 1..n
    BY <1>1, FunctionIsSeq
  <1>7. ToSet(s) = S
    <2>1. ToSet(s) = {s[i] : i \in 1..n}
      BY <1>6 DEF ToSet
    <2>2. \A x \in S : x \in ToSet(s)
      BY <1>2, <1>3, <2>1
    <2> QED BY <1>1, <2>1, <2>2
  <1>8. \A p \in Reported : RowFor(p).Name = NameOf(p) /\ NameOf(p) \in Seq(Nat)
    <2>1. ASSUME NEW p \in Reported PROVE RowFor(p).Name = NameOf(p)
      <3>1. RowOf(AggregatesOf(outcome), p).ImportPath = p
        BY DEF RowOf
      <3>2. CASE outcome[p] = "unstarted"
        BY <3>2 DEF RowFor, MeasuredRow, NameOf
      <3>3. CASE outcome[p] # "unstarted"
        BY <3>1, <3>3 DEF RowFor, TestedRow, NameOf
      <3> QED BY <3>2, <3>3
    <2> QED BY <1>4, <2>1, NameIsString
  <1>9. \A x \in S : x.Name \in Seq(Nat)
    BY <1>8
  <1>10. ASSUME NamesDistinct
         PROVE  \A i, j \in 1..n : s[i].Name = s[j].Name => i = j
    <2> SUFFICES ASSUME NEW i \in 1..n, NEW j \in 1..n, s[i].Name = s[j].Name PROVE i = j
      OBVIOUS
    <2>1. NameOf(ip[i]) = NameOf(ip[j])
      BY <1>2, <1>3, <1>8
    <2>2. ip[i] = ip[j]
      BY <1>3, <1>4, <1>10, <2>1, NamesDiffer
    <2> QED BY <1>3, <2>2
  <1> DEFINE r == SortSlice(s, NameLess)
  <1> HIDE DEF S
  <1>11. /\ r \in Seq(S) /\ Len(r) = Len(s) /\ ToSet(r) = ToSet(s)
         /\ (\A i, j \in 1..Len(s) : s[i].Name = s[j].Name => i = j) =>
              \A i, j \in DOMAIN r : i < j => StringLess(r[i].Name, r[j].Name)
    BY <1>6, <1>9, RowsSorted
  <1> HIDE DEF r
  <1> QED BY <1>5, <1>6, <1>7, <1>10, <1>11 DEF S, r, n

(* And every failed test of the run. *)
LEMMA FailuresOfReport ==
  ASSUME Found
  PROVE  /\ Rep.Failures \in Seq({FailureFor(p) : p \in FailedPkgs(outcome)})
         /\ Len(Rep.Failures) = Cardinality(FailedPkgs(outcome))
         /\ ToSet(Rep.Failures) = {FailureFor(p) : p \in FailedPkgs(outcome)}
         /\ Rep.Tests.Failed = Cardinality(FailedPkgs(outcome))
  <1> DEFINE n == Len(parseRes.Failures)
             ps == AggregatesOf(outcome)
             s == FailureRows(parseRes, deriveModulePath)
             S == {FailureFor(p) : p \in FailedPkgs(outcome)}
  <1>1. /\ parseRes \in Results /\ n = Cardinality(FailedPkgs(outcome))
        /\ parseRes.Tests.Failed = Cardinality(FailedPkgs(outcome))
        /\ ToSet(parseRes.Failures) = {FailureOf(ps, <<p, TheTest>>) : p \in FailedPkgs(outcome)}
    <2>1. outcome \in [Pkg -> Outcome] /\ parseRes = ParseResult(ps, FALSE)
      BY DEF Found
    <2>2. /\ parseRes \in Results /\ n = Cardinality(FailedPkgs(outcome))
          /\ parseRes.Tests.Failed = Cardinality(FailedPkgs(outcome))
          /\ AccountsFor(parseRes, ps, Started(outcome))
      BY <2>1, RunReported
    <2>3. ToSet(parseRes.Failures) = {FailureOf(ps, pt) : pt \in FailedIn(ps, Started(outcome))}
      BY <2>2 DEF AccountsFor, FailuresReported
    <2>4. FailedIn(ps, Started(outcome)) = {<<p, TheTest>> : p \in FailedPkgs(outcome)}
      BY <2>1, FailedInRun
    <2> HIDE DEF ps
    <2>5. {FailureOf(ps, pt) : pt \in {<<p, TheTest>> : p \in FailedPkgs(outcome)}}
            = {FailureOf(ps, <<p, TheTest>>) : p \in FailedPkgs(outcome)}
      OBVIOUS
    <2> QED BY <2>2, <2>3, <2>4, <2>5
  <1>2. n \in Nat /\ DOMAIN parseRes.Failures = 1..n
    BY <1>1, LenProperties DEF Results
  <1>3. s = [i \in 1..n |-> FailureRow(deriveModulePath, parseRes.Failures[i])]
    BY DEF FailureRows
  <1>4. \A i \in 1..n : s[i] = FailureRow(deriveModulePath, parseRes.Failures[i])
    BY <1>3
  <1>5. \A i \in 1..n : \E p \in FailedPkgs(outcome) : parseRes.Failures[i] = FailureOf(ps, <<p, TheTest>>)
    BY <1>1, <1>2 DEF ToSet
  <1>6. \A p \in FailedPkgs(outcome) : \E i \in 1..n : parseRes.Failures[i] = FailureOf(ps, <<p, TheTest>>)
    BY <1>1, <1>2 DEF ToSet
  <1>7. \A i \in 1..n : s[i] \in S
    <2> HIDE DEF s
    <2> QED BY <1>4, <1>5 DEF FailureFor
  <1>8. s \in Seq(S) /\ Len(s) = n /\ DOMAIN s = 1..n
    <2>1. DOMAIN s = 1..n /\ s = [i \in 1..n |-> s[i]]
      BY <1>3
    <2> HIDE DEF s, S
    <2>2. s \in [1..n -> S]
      BY <1>7, <2>1
    <2> QED BY <1>2, <2>2, FunctionIsSeq
  <1> HIDE DEF s
  <1>9. ToSet(s) = S
    <2>1. \A p \in FailedPkgs(outcome) : \E i \in 1..n : s[i] = FailureFor(p)
      BY <1>4, <1>6 DEF FailureFor
    <2>2. ToSet(s) = {s[i] : i \in 1..n}
      BY <1>8 DEF ToSet
    <2>3. \A x \in S : x \in ToSet(s)
      BY <2>1, <2>2
    <2> QED BY <1>7, <2>2, <2>3
  <1>10. \A x \in S : x.Package \in Seq(Nat) /\ x.Test \in Int
    <2>1. \A p \in Pkg : FailureFor(p).Package = NameOf(p) /\ FailureFor(p).Test = TheTest
      BY DEF FailureFor, FailureRow, FailureOf, NameOf
    <2>2. TheTest \in Int
      BY Given, ParserAssumption DEF TheTest
    <2>3. FailedPkgs(outcome) \subseteq Pkg
      BY DEF FailedPkgs
    <2> QED BY <2>1, <2>2, <2>3, NameIsString
  <1> DEFINE r == SortSlice(s, FailureLess)
  <1> HIDE DEF S
  <1>11. Len(r) = Len(s) /\ ToSet(r) = ToSet(s) /\ r \in Seq(S)
    BY <1>8, <1>10, FailuresSorted
  <1>12. Rep.Failures = r /\ Rep.Tests = parseRes.Tests
    BY DEF Rep, Build, s
  <1> HIDE DEF r
  <1> QED BY <1>1, <1>8, <1>9, <1>11, <1>12 DEF S

(* At most n members are shown and the rest is counted. *)
LEMMA CappedIs ==
  ASSUME NEW S, NEW s \in Seq(S), NEW k \in Int, NEW d \in Nat \ {0}
  PROVE  LET part == capped(s, limit(k, d))
         IN  /\ Len(part.shown) + part.omitted = Len(s)
             /\ Len(part.shown) >= k \/ part.omitted = 0
  <1> DEFINE n == limit(k, d)
             m == IF Len(s) > n THEN n ELSE Len(s)
             part == capped(s, n)
  <1>1. n \in Nat /\ n >= k /\ Len(s) \in Nat
    BY LenProperties DEF limit
  <1>2. m \in 0..Len(s)
    BY <1>1
  <1>3. Len(SubSeq(s, 1, m)) = m
    <2>1. \A i \in 1..m : s[i] \in S
      BY <1>1, <1>2, ElementOfSeq
    <2>2. m \in Int
      BY <1>2
    <2> HIDE DEF m
    <2>3. Len(SubSeq(s, 1, m)) = IF 1 <= m THEN m - 1 + 1 ELSE 0
      BY <2>1, <2>2, SubSeqProperties
    <2> QED BY <1>2, <2>3
  <1>4. part.shown = SubSeq(s, 1, m) /\ part.omitted = IF Len(s) > n THEN Len(s) - n ELSE 0
    BY DEF capped
  <1> HIDE DEF n, part
  <1> QED BY <1>1, <1>3, <1>4 DEF part, n

(* A file of this invocation says what was found. *)
LEMMA OfTheRun ==
  ASSUME Told, NEW f \in File, Mine(f)
  PROVE  Found /\ files[f].says = says(f)
  BY DEF Told, Settled

-----------------------------------------------------------------------------
(* Theorems. *)

(* Whenever an invocation ends, the reports it replaced are a prefix of the
   three, only the last can be torn, and a verdict comes with all of them and
   the summary whole and of one content (writeReports and execute). *)
THEOREM FilesCanBeTrusted == Spec => []WrittenIsPrefix
  <1>1. Init => Inv
    BY InitProgress DEF Inv, Init
  <1>2. Inv /\ [Next]_vars => Inv'
    BY InvKept
  <1>3. Inv => WrittenIsPrefix
    BY PrefixBeforeExit DEF Inv
  <1> QED BY <1>1, <1>2, <1>3, PTL DEF Spec

(* A file is whole or torn. *)
FilesTyped == \A f \in File : files[f].whole \in BOOLEAN

(* Every step leaves a file alone or writes it, whole or torn. *)
LEMMA FilesStayTyped ==
  ASSUME FilesTyped, DOMAIN files = File, written \in 0..3, [Next]_vars
  PROVE  FilesTyped'
  <1>1. \/ files' = files
        \/ \E g \in File, w \in BOOLEAN : files' = [files EXCEPT ![g] = Content(g, w)]
    <2> USE DEF reportVars
    <2>1. CASE ConfigFails \/ ConfigOK \/ List \/ ToolchainFails \/ RawDir \/ Run \/ RunRefused
      BY <2>1 DEF ConfigFails, ConfigOK, List, ToolchainFails, RawDir, Run, RunRefused
    <2>2. CASE ParseFileFails \/ ParseFile \/ ParseCoverage \/ RenderFails \/ WriteReportPathFails
      BY <2>2 DEF ParseFileFails, ParseFile, ParseCoverage, RenderFails, WriteReportPathFails
    <2>3. CASE WriteReport \/ WriteReportFails
      <3> DEFINE g == Reports[written + 1]
      <3>1. \/ files' = files
            \/ CanWrite /\ \E w \in BOOLEAN : files' = [files EXCEPT ![g] = Content(g, w)]
        BY <2>3 DEF WriteReport, WriteReportFails
      <3>2. CanWrite => g \in File
        <4>1. CanWrite => written + 1 \in 1..3
          BY ReportOrder DEF CanWrite
        <4> QED BY <4>1, ReportOrder
      <3> HIDE DEF g
      <3> QED BY <3>1, <3>2
    <2>4. CASE WriteSummary \/ WriteSummaryFails
      BY <2>4 DEF WriteSummary, WriteSummaryFails, File
    <2>5. CASE UNCHANGED vars
      BY <2>5 DEF vars
    <2> QED BY <2>1, <2>2, <2>3, <2>4, <2>5 DEF Next
  <1>2. \A g \in File, w \in BOOLEAN : Content(g, w).whole \in BOOLEAN
    BY ContentIsMine
  <1> QED BY <1>1, <1>2 DEF FilesTyped

(* What an invocation given all four paths leaves, on top of the files before. *)
Left(before, d) ==
  [f \in DOMAIN before |->
     IF f \in Stable /\ Mine(f) THEN [data |-> d, whole |-> files[f].whole] ELSE before[f]]

PromiseKept(before, d) ==
  pc = "exited" /\ enabled = File =>
    /\ exit \in Verdicts \cup {ExitConfigError, ExitToolchainError}
    /\ \A f \in Stable : Mine(f) => files[f].says = says(f)
    /\ \E n \in 0..3, torn \in BOOLEAN :
         /\ Promised(exit, n, torn, Mine("summary"))
         /\ Left(before, d) = Written(before, n, torn, d)

(* The promise on which the job relies when it runs gtr (run-report.sh gives it
   all four paths): whatever fails, an invocation exits with a known code after
   the first few reports, of which it has written each as this run would have
   it and only the last can be torn; a summary of it is there only behind three
   whole reports, and is there with every verdict (writeReports, execute). *)
THEOREM PromiseIsKept ==
  ASSUME NEW before, NEW d
  PROVE  Spec => []PromiseKept(before, d)
  <1>1. Init => FilesTyped
    <2>1. NoFile.whole \in BOOLEAN /\ EarlierFile.whole \in BOOLEAN
      BY DEF NoFile, EarlierFile
    <2> QED BY <2>1 DEF Init, FilesTyped
  <1>2. Inv /\ FilesTyped /\ [Next]_vars => FilesTyped'
    BY FilesStayTyped DEF Inv, Progress
  <1>3. ASSUME Inv, Told, FilesTyped
        PROVE  PromiseKept(before, d)
    <2> SUFFICES ASSUME pc = "exited", enabled = File
                 PROVE  /\ exit \in Verdicts \cup {ExitConfigError, ExitToolchainError}
                        /\ \A f \in Stable : Mine(f) => files[f].says = says(f)
                        /\ \E n \in 0..3, torn \in BOOLEAN :
                             /\ Promised(exit, n, torn, Mine("summary"))
                             /\ Left(before, d) = Written(before, n, torn, d)
      BY DEF PromiseKept
    <2>1. WrittenIsPrefix /\ Stable \subseteq File /\ "summary" \in File
      BY <1>3 DEF Inv, Stable, File
    <2>2. Verdicts = Verdict
      BY DEF Verdicts, Verdict, ExitSuccess, ExitTestFailure, ExitTotalCoverage,
             ExitPackageCoverage
    <2>3. exit \in Verdicts \cup {ExitConfigError, ExitToolchainError}
      <3>1. decideExitCode \in Verdict
        BY DEF decideExitCode, Gate, Verdict
      <3> QED BY <1>3, <2>2, <3>1 DEF Told
    <2>4. \A f \in Stable : Mine(f) => files[f].says = says(f)
      BY <1>3, <2>1 DEF Told
    <2> DEFINE whole(f) == files[f].whole
    <2>5. /\ Mine("markdown") => Mine("json") /\ whole("json")
          /\ Mine("svg") => Mine("markdown") /\ whole("markdown")
          /\ Mine("summary") => Mine("svg") /\ whole("svg")
      <3>1. /\ Reports[1] = "json" /\ Reports[2] = "markdown" /\ Reports[3] = "svg"
            /\ DOMAIN Reports = {1, 2, 3}
        BY DEF Reports
      <3> QED BY <2>1, <3>1 DEF WrittenIsPrefix, Stable
    <2>6. whole("json") \in BOOLEAN /\ whole("markdown") \in BOOLEAN /\ whole("svg") \in BOOLEAN
      BY <1>3 DEF FilesTyped, File
    <2>7. exit \in Verdicts => Mine("summary")
      <3>1. (exit \in Verdict => \A f \in enabled : files[f] = Content(f, TRUE))
              /\ "summary" \in enabled
        BY <2>1, Zenon DEF WrittenIsPrefix
      <3>2. exit \in Verdicts => files["summary"] = Content("summary", TRUE)
        BY <2>2, <3>1
      <3>3. Content("summary", TRUE).by = "now"
        BY DEF Content
      <3> QED BY <3>2, <3>3, Zenon DEF Mine
    <2> DEFINE n == IF Mine("svg") THEN 3 ELSE IF Mine("markdown") THEN 2
                    ELSE IF Mine("json") THEN 1 ELSE 0
               torn == n # 0 /\ ~whole(Order[n])
    <2>8. Promised(exit, n, torn, Mine("summary"))
      <3>1. Mine("summary") => n = 3 /\ ~torn
        BY <2>5 DEF Order
      <3> HIDE DEF n, torn
      <3> QED BY <2>7, <3>1 DEF Promised
    <2>9. Left(before, d) = Written(before, n, torn, d)
      <3>1. ASSUME NEW f \in Stable
            PROVE  Mine(f) <=> \E i \in 1..n : Order[i] = f
        <4>1. \A i \in 1..n : i \in {1, 2, 3}
          OBVIOUS
        <4>2. CASE f = "json"
          BY <2>5, <4>1, <4>2 DEF Order
        <4>3. CASE f = "markdown"
          BY <2>5, <4>1, <4>3 DEF Order
        <4>4. CASE f = "svg"
          BY <2>5, <4>1, <4>4 DEF Order
        <4> QED BY <4>2, <4>3, <4>4 DEF Stable
      <3>2. ASSUME NEW f \in Stable, Mine(f)
            PROVE  whole(f) = ~(torn /\ f = Order[n])
        <4>1. CASE f = "json"
          BY <2>5, <2>6, <3>2, <4>1 DEF Order
        <4>2. CASE f = "markdown"
          BY <2>5, <2>6, <3>2, <4>2 DEF Order
        <4>3. CASE f = "svg"
          BY <2>5, <2>6, <3>2, <4>3 DEF Order
        <4> QED BY <3>2, <4>1, <4>2, <4>3 DEF Stable
      <3>3. \A i \in 1..n : Order[i] \in Stable
        BY DEF Order, Stable
      <3> HIDE DEF n, torn
      <3>4. ASSUME NEW f \in DOMAIN before
            PROVE  Left(before, d)[f] = Written(before, n, torn, d)[f]
        <4>1. CASE f \in Stable /\ Mine(f)
          BY <3>1, <3>2, <4>1 DEF Left, Written
        <4>2. CASE ~(f \in Stable /\ Mine(f))
          BY <3>1, <3>3, <4>2 DEF Left, Written
        <4> QED BY <4>1, <4>2
      <3> QED BY <3>4 DEF Left, Written
    <2>10. n \in 0..3 /\ torn \in BOOLEAN
      OBVIOUS
    <2> HIDE DEF n, torn
    <2> QED BY <2>3, <2>4, <2>8, <2>9, <2>10
  <1> QED BY <1>1, <1>2, <1>3, ToldTrue, PTL DEF Spec

(* A failed test, a package that does not build or dies before its first test,
   and a text of a failed build before one end in a test failure, and nothing
   else does; where go test succeeded only that text can be the reason
   (applyPackageEvent, decideExitCode). *)
THEOREM FailureVerdictIsExact == Spec => []FailureVerdictExact
  <1>1. ASSUME Inv, Told PROVE FailureVerdictExact
    <2>1. ASSUME exit \in Verdict
          PROVE  /\ exit = ExitTestFailure <=>
                      \E p \in Pkg : outcome[p] \in {"fail", "early", "broken", "chatty"}
                 /\ exit = ExitTestFailure /\ goTestCode = 0 =>
                      \E p \in Pkg : outcome[p] = "chatty"
      <3>1. exit = decideExitCode /\ Found
        BY <1>1, <2>1, VerdictTold DEF Settled
      <3>2. exit = ExitTestFailure <=>
              \E p \in Pkg : outcome[p] \in {"fail", "early", "broken", "chatty"}
        BY <3>1, VerdictOfTests
      <3>3. goTestCode = 0 => \A p \in Pkg : outcome[p] \notin Losing
        BY <3>1 DEF Found
      <3> QED BY <3>2, <3>3 DEF Losing
    <2>2. ExitTestFailure \in Verdict
      BY DEF Verdict
    <2> QED BY <2>1, <2>2 DEF FailureVerdictExact
  <1> QED BY <1>1, ToldTrue, PTL

(* Thresholds that are whole percents have exact products. *)
LEMMA WholePercents ==
  ASSUME \A c \in Configs : \A th \in {c.CoverageThreshold, c.PackageThreshold} :
           th \in Int => th % (100 * Fine) = 0
  PROVE  ThresholdsExact
  <1> SUFFICES ASSUME NEW c \in Configs, NEW th \in {c.CoverageThreshold, c.PackageThreshold},
                      NEW n \in Nat, <<th, n>> \in RoundsUp
               PROVE  FALSE
    BY DEF ThresholdsExact
  <1>1. th \in Percent /\ th % (100 * Fine) # 0
    BY GatesAssumption
  <1>2. th \in Int
    BY <1>1 DEF Percent
  <1> QED BY <1>1, <1>2

(* Coverage decides what the tests left open, the total before the packages:
   the total by every measured package, the package threshold by the listed
   ones no expression excludes and by no other.  The thresholds are such that
   their products are exact, which those of whole percents are (Gate,
   filterPackages and excludedPackages). *)
THEOREM CoverageVerdictIsExact ==
  ASSUME ThresholdsExact
  PROVE  Spec => []CoverageVerdictExact
  <1>1. ASSUME Inv, Facts, Told PROVE CoverageVerdictExact
    <2> DEFINE whole  == [covered |-> covRes.CoveredStatements, total |-> covRes.TotalStatements]
               low    == \/ Below(whole, cfg.CoverageThreshold)
                         \/ whole.total = 0 /\ Less(0, cfg.CoverageThreshold)
               lowPkg == \E p \in (DOMAIN covRes.Packages \cap cfg.Packages) \ Excluded :
                           cfg.PackageThreshold # NaN /\ Below(covRes.Packages[p], cfg.PackageThreshold)
               out    == {p \in DOMAIN covRes.Packages : p \notin included}
    <2>1. ASSUME exit \in Verdict
          PROVE  /\ exit = ExitTotalCoverage => low
                 /\ exit = ExitPackageCoverage => ~low /\ lowPkg
                 /\ exit = ExitSuccess => ~low /\ ~lowPkg
                 /\ cfg.CoverageThreshold # NaN
      <3>1. exit = decideExitCode /\ Settled /\ cfg \in Configs
        BY <1>1, <2>1, VerdictTold DEF Facts
      <3>2. /\ totalGateFails(covRes, cfg.CoverageThreshold) <=> low
            /\ packageGateFails(covRes, cfg.PackageThreshold, out) <=> lowPkg
            /\ cfg.CoverageThreshold # NaN
        BY <3>1, GateIs
      <3>3. exit # ExitTestFailure => exit = Gate(covRes, cfg.CoverageThreshold, cfg.PackageThreshold, out)
        BY <3>1 DEF decideExitCode
      <3> HIDE DEF low, lowPkg, out
      <3> QED BY <3>2, <3>3
              DEF Gate, ExitSuccess, ExitTestFailure, ExitTotalCoverage, ExitPackageCoverage
    <2>2. {ExitTotalCoverage, ExitPackageCoverage, ExitSuccess} \subseteq Verdict
      BY DEF Verdict
    <2> QED BY <2>1, <2>2 DEF CoverageVerdictExact
  <1> QED BY <1>1, ToldTrue, PTL

(* A whole summary states the exit code the invocation returns, with the counts
   of the JSON report; it says "failed" exactly when a test failed, and
   "passed" next to a test failure only for a package that did not build, died
   before its first test or spoke of a failed build.  The badge has the colour
   and, to half a tenth, the text of the coverage in the JSON report, or none
   without statements (Summary, SVG). *)
THEOREM SummaryIsTheVerdict == Spec => []SummaryTellsVerdict
  <1>1. ASSUME Inv, Facts, Told PROVE SummaryTellsVerdict
    <2>1. "summary" \in File /\ "svg" \in File /\ "json" \in File
      BY DEF File
    <2>2. ASSUME Mine("summary"), files["summary"].whole
          PROVE  LET sum == files["summary"].says
                 IN  /\ sum.ExitCode = exit
                     /\ sum.Status = "failed" <=> \E p \in Pkg : outcome[p] = "fail"
                     /\ sum.Status = "failed" => exit = ExitTestFailure
                     /\ sum.Status = "passed" /\ exit = ExitTestFailure =>
                          \E p \in Pkg : outcome[p] \in {"early", "broken", "chatty"}
                     /\ Mine("json") => sum.Tests = files["json"].says.Tests
      <3>1. /\ files["summary"].says = Summary(Rep, decideExitCode)
            /\ exit = decideExitCode /\ Found
            /\ Mine("json") => files["json"].says = Rep
        BY <1>1, <2>1, <2>2 DEF Told, Settled, says
      <3>2. Rep.Tests = parseRes.Tests
        BY DEF Rep, Build
      <3>3. /\ files["summary"].says.ExitCode = exit
            /\ files["summary"].says.Tests = Rep.Tests
            /\ files["summary"].says.Status = "failed" <=> parseRes.Tests.Failed > 0
        BY <3>1, <3>2 DEF Summary
      <3>4. parseRes.Tests.Failed > 0 <=> \E p \in Pkg : outcome[p] = "fail"
        BY <3>1, FailuresFound
      <3>5. exit = ExitTestFailure <=>
              \E p \in Pkg : outcome[p] \in {"fail", "early", "broken", "chatty"}
        BY <3>1, VerdictOfTests
      <3>6. files["summary"].says.Status \in {"failed", "passed"}
        BY <3>1 DEF Summary
      <3> QED BY <3>1, <3>3, <3>4, <3>5, <3>6
    <2>3. ASSUME Mine("svg"), Mine("json")
          PROVE  LET rep   == files["json"].says
                     badge == files["svg"].says
                 IN  IF rep.Total = 0 THEN badge = unknown ELSE BadgeOf(badge, rep.Coverage)
      <3>1. /\ files["svg"].says = SVG(Rep.Total > 0, Rep.Coverage)
            /\ files["json"].says = Rep /\ Found
        BY <1>1, <2>1, <2>3 DEF Told, Settled, says
      <3> DEFINE c == covRes.CoveredStatements
                 n == covRes.TotalStatements
      <3>2. Rep.Total = n /\ Rep.Coverage = Percentage(c, n)
        BY DEF Rep, Build
      <3>3. c \in Nat /\ n \in Nat
        BY <3>1, CoverageFound
      <3> HIDE DEF c, n
      <3>4. CASE n = 0
        BY <3>1, <3>2, <3>4 DEF SVG
      <3>5. CASE n > 0
        <4>1. BadgeOf(SVG(TRUE, Percentage(c, n)), Percentage(c, n))
          BY <3>3, <3>5, BadgeOfCoverage
        <4>2. files["svg"].says = SVG(TRUE, Percentage(c, n))
          BY <3>1, <3>2, <3>5 DEF SVG
        <4>3. files["json"].says.Total # 0 /\ files["json"].says.Coverage = Percentage(c, n)
          BY <3>1, <3>2, <3>3, <3>5
        <4> QED BY <4>1, <4>2, <4>3
      <3> QED BY <3>3, <3>4, <3>5
    <2> QED BY <2>2, <2>3 DEF SummaryTellsVerdict
  <1> QED BY <1>1, ToldTrue, PTL

(* The row of a package: failed, passed or neither. *)
LEMMA RowTells ==
  ASSUME Found, NEW p \in Reported
  PROVE  /\ RowFor(p).Name = NameOf(p)
         /\ RowFor(p).Status = "fail" <=> Failing(p) \/ outcome[p] = "chatty"
         /\ RowFor(p).Status = "pass" <=> outcome[p] \in {"pass", "cutlate"}
  <1> DEFINE ps == AggregatesOf(outcome)
             what == outcome[p]
  <1>1. outcome \in [Pkg -> Outcome] /\ p \in Pkg /\ RowOf(ps, p).ImportPath = p
    BY CoverageFound DEF Found, Reported, RowOf
  <1>2. CASE what = "unstarted"
    BY <1>2 DEF RowFor, MeasuredRow, NameOf, Failing
  <1>3. CASE what # "unstarted"
    <2>1. RowFor(p).Name = NameOf(p) /\ RowFor(p).Status = RowOf(ps, p).Status
      BY <1>1, <1>3 DEF RowFor, TestedRow, NameOf
    <2>2. Tells(ps[p], what)
      <3>1. p \in Started(outcome)
        BY <1>1, <1>3 DEF Started
      <3> QED BY <1>1, <3>1, AggregatesOfRun
    <2> HIDE DEF ps
    <2>3. ps[p] \in Aggregate
      BY <2>2 DEF Tells
    <2>4. /\ RowOf(ps, p).Status = "fail" <=>
               ps[p].pkgCompile \/ ps[p].pkgFailed \/ failedOf(ps[p]) # {}
          /\ RowOf(ps, p).Status = "no_tests" <=>
               /\ RowOf(ps, p).Status # "fail"
               /\ passedOf(ps[p]) = {} /\ failedOf(ps[p]) = {} /\ skippedOf(ps[p]) = {}
      BY <2>3, RowStatus
    <2>5. RowOf(ps, p).Status \in {"fail", "no_tests", "pass"}
      BY DEF RowOf, packageStatus
    <2>6. what \in Outcome
      BY <1>1
    <2> HIDE DEF what
    <2>7. /\ what \in Breaking \/ what \in Losing \/ what = "fail"
               <=> what \in {"fail", "crash", "early", "broken", "chatty"}
          /\ Seen(what) = "passed" <=> what \in {"pass", "chatty", "cutlate"}
      BY DEF Breaking, Losing, Seen
    <2>8. RowOf(ps, p).Status = "fail" <=> what \in {"fail", "crash", "early", "broken", "chatty"}
      BY <2>2, <2>4, <2>7 DEF Tells
    <2>9. RowOf(ps, p).Status = "no_tests" <=>
            RowOf(ps, p).Status # "fail" /\ what \notin {"pass", "chatty", "cutlate"}
      BY <2>2, <2>4, <2>7, <2>8 DEF Tells
    <2>10. RowOf(ps, p).Status = "pass" <=> what \in {"pass", "cutlate"}
      BY <2>5, <2>8, <2>9
    <2> QED BY <2>1, <2>8, <2>10 DEF Failing, what
  <1> QED BY <1>2, <1>3

(* The JSON report lists every package that started or was measured once, in
   the order of the names; it calls one failed exactly when go test did or a
   text of a failed build came before its first test, and passed when a test
   of it ended and nothing failed; it names every test that failed and no
   other, if no two packages are called the same (Build, packageStatus). *)
THEOREM ReportIsOfTheRun ==
  ASSUME NamesDistinct
  PROVE  Spec => []ReportMatchesRun
  <1>1. ASSUME Told PROVE ReportMatchesRun
    <2> SUFFICES ASSUME Mine("json")
                 PROVE  LET rep  == files["json"].says
                            name == [p \in Pkg |-> NameOf(p)]
                            rows == ToSet(rep.Packages)
                        IN  /\ \A p \in Reported : \E row \in rows :
                                 /\ row.Name = name[p]
                                 /\ row.Status = "fail" <=> Failing(p) \/ outcome[p] = "chatty"
                                 /\ row.Status = "pass" <=> outcome[p] \in {"pass", "cutlate"}
                            /\ \A row \in rows : \E p \in Reported : row.Name = name[p]
                            /\ \A i, j \in DOMAIN rep.Packages :
                                 i < j => StringLess(rep.Packages[i].Name, rep.Packages[j].Name)
                            /\ {f.Package : f \in ToSet(rep.Failures)}
                                 = {name[p] : p \in {q \in Pkg : outcome[q] = "fail"}}
                            /\ Len(rep.Failures) = rep.Tests.Failed
      BY DEF ReportMatchesRun, NameOf
    <2>1. Found /\ files["json"].says = Rep
      BY <1>1, OfTheRun DEF File, says
    <2> DEFINE name == [p \in Pkg |-> NameOf(p)]
               F == FailedPkgs(outcome)
    <2>2. ToSet(Rep.Packages) = {RowFor(p) : p \in Reported}
      BY <2>1, RowsOfReport
    <2>3. \A i, j \in DOMAIN Rep.Packages :
            i < j => StringLess(Rep.Packages[i].Name, Rep.Packages[j].Name)
      BY <2>1, RowsOfReport
    <2>4. ASSUME NEW p \in Reported
          PROVE  /\ RowFor(p).Name = name[p]
                 /\ RowFor(p).Status = "fail" <=> Failing(p) \/ outcome[p] = "chatty"
                 /\ RowFor(p).Status = "pass" <=> outcome[p] \in {"pass", "cutlate"}
      <3>1. p \in Pkg
        BY <2>1, CoverageFound DEF Reported
      <3> QED BY <2>1, <3>1, RowTells
    <2>5. Len(Rep.Failures) = Rep.Tests.Failed /\ ToSet(Rep.Failures) = {FailureFor(p) : p \in F}
      BY <2>1, FailuresOfReport
    <2>6. {f.Package : f \in ToSet(Rep.Failures)} = {name[p] : p \in F}
      <3> DEFINE X == ToSet(Rep.Failures)
      <3>1. X = {FailureFor(p) : p \in F}
        BY <2>5
      <3>2. \A p \in F : FailureFor(p).Package = name[p]
        BY DEF FailureFor, FailureRow, FailureOf, NameOf, FailedPkgs
      <3> HIDE DEF X, F, name
      <3>3. /\ \A f \in X : f.Package \in {name[p] : p \in F}
            /\ \A p \in F : FailureFor(p) \in X
        BY <3>1, <3>2
      <3>4. {f.Package : f \in X} = {name[p] : p \in F}
        BY <3>2, <3>3
      <3> QED BY <3>4 DEF X
    <2>7. F = {q \in Pkg : outcome[q] = "fail"}
      BY DEF FailedPkgs
    <2> HIDE DEF name, F
    <2>8. /\ \A p \in Reported : \E row \in ToSet(Rep.Packages) :
               /\ row.Name = name[p]
               /\ row.Status = "fail" <=> Failing(p) \/ outcome[p] = "chatty"
               /\ row.Status = "pass" <=> outcome[p] \in {"pass", "cutlate"}
          /\ \A row \in ToSet(Rep.Packages) : \E p \in Reported : row.Name = name[p]
      BY <2>2, <2>4
    <2> QED BY <2>1, <2>3, <2>5, <2>6, <2>7, <2>8 DEF name
  <1> QED BY <1>1, ToldTrue, PTL

(* What the Markdown report shows and what its notes say is missing are all
   packages and all failures, and it shows as many as its limits allow
   (Markdown, writeFailures and writePackages). *)
THEOREM MarkdownLeavesNothingOut == Spec => []MarkdownAccountsForAll
  <1>1. ASSUME Told PROVE MarkdownAccountsForAll
    <2> SUFFICES ASSUME Mine("markdown")
                 PROVE  LET md == files["markdown"].says
                            complete(part, all, n) ==
                              /\ Len(part.shown) + part.omitted = all
                              /\ Len(part.shown) >= n \/ part.omitted = 0
                        IN  /\ complete(md.Packages, Cardinality(Reported), MaxPackages)
                            /\ complete(md.Failures, Cardinality(FailedPkgs(outcome)), MaxFailures)
      BY DEF MarkdownAccountsForAll, FailedPkgs
    <2>1. Found /\ files["markdown"].says = Markdown(Rep, MaxFailures, MaxPackages)
      BY <1>1, OfTheRun DEF File, says
    <2> DEFINE md == Markdown(Rep, MaxFailures, MaxPackages)
               ps == Rep.Packages
               fs == Rep.Failures
               P == {RowFor(p) : p \in Reported}
               F == {FailureFor(p) : p \in FailedPkgs(outcome)}
    <2>2. /\ md.Packages = capped(ps, limit(MaxPackages, DefaultMaxPackages))
          /\ md.Failures = capped(fs, limit(MaxFailures, DefaultMaxFailures))
      BY DEF Markdown
    <2>3. /\ ps \in Seq(P) /\ Len(ps) = Cardinality(Reported)
          /\ fs \in Seq(F) /\ Len(fs) = Cardinality(FailedPkgs(outcome))
      BY <2>1, RowsOfReport, FailuresOfReport
    <2> HIDE DEF ps, fs, md, P, F
    <2>4. /\ Len(md.Packages.shown) + md.Packages.omitted = Cardinality(Reported)
          /\ Len(md.Packages.shown) >= MaxPackages \/ md.Packages.omitted = 0
      <3>1. MaxPackages \in Int /\ DefaultMaxPackages \in Nat \ {0}
        BY PipelineAssumption, ReportAssumption
      <3> DEFINE part == capped(ps, limit(MaxPackages, DefaultMaxPackages))
      <3>2. /\ Len(part.shown) + part.omitted = Len(ps)
            /\ Len(part.shown) >= MaxPackages \/ part.omitted = 0
        BY <2>3, <3>1, CappedIs
      <3> HIDE DEF part
      <3>3. md.Packages = part
        BY <2>2 DEF part
      <3> QED BY <2>3, <3>2, <3>3
    <2>5. /\ Len(md.Failures.shown) + md.Failures.omitted = Cardinality(FailedPkgs(outcome))
          /\ Len(md.Failures.shown) >= MaxFailures \/ md.Failures.omitted = 0
      <3>1. MaxFailures \in Int /\ DefaultMaxFailures \in Nat \ {0}
        BY PipelineAssumption, ReportAssumption
      <3> DEFINE part == capped(fs, limit(MaxFailures, DefaultMaxFailures))
      <3>2. /\ Len(part.shown) + part.omitted = Len(fs)
            /\ Len(part.shown) >= MaxFailures \/ part.omitted = 0
        BY <2>3, <3>1, CappedIs
      <3> HIDE DEF part
      <3>3. md.Failures = part
        BY <2>2 DEF part
      <3> QED BY <2>3, <3>2, <3>3
    <2> QED BY <2>1, <2>4, <2>5 DEF md
  <1> QED BY <1>1, ToldTrue, PTL
=============================================================================
