------------------------------- MODULE Runner -------------------------------
(***************************************************************************)
(* internal/gotest/runner.go: Run, the goroutine that forwards stderr, the *)
(* shared log behind syncWriter, and what they run against: the child      *)
(* process, the two pipes of bounded capacity between them, and the        *)
(* context (os/exec and the kernel, not part of the repository).           *)
(*                                                                         *)
(* A line of stdout is a number, its position in the child's output, and a *)
(* kind:                                                                   *)
(*   "output"  a JSON event with text for the log                          *)
(*   "event"   a JSON event without text                                   *)
(*   "noise"   no JSON                     "empty"  an empty line          *)
(*   "cut"     a line the child was killed in the middle of                *)
(*   "long"    longer than the scanner's buffer                            *)
(* A Write to the log is two pieces, between which another goroutine may   *)
(* run.                                                                    *)
(***************************************************************************)
EXTENDS Integers, Sequences, SequencesExt

CONSTANTS
  Kinds,       \* kinds of lines the child may write, a subset of Kind \ {"cut"}
  MaxOut,      \* bound on the lines the child writes to stdout
  MaxErr,      \* bound on the chunks it writes to stderr
  OutCap,      \* capacity of the stdout pipe, in lines
  ErrCap,      \* capacity of the stderr pipe, in chunks
  Codes,       \* exit codes of the child
  MayCancel,   \* whether the context may be cancelled
  JsonlFaults, \* whether writing test.jsonl may fail
  LogFaults    \* whether writing the log may fail

Kind == {"output", "event", "noise", "empty", "cut", "long"}

ASSUME RunnerAssumption ==
  /\ Kinds \subseteq Kind \ {"cut"}
  /\ MaxOut \in Nat /\ MaxErr \in Nat
  /\ OutCap \in Nat \ {0} /\ ErrCap \in Nat \ {0}
  /\ Codes \subseteq Nat
  /\ MayCancel \in BOOLEAN /\ JsonlFaults \in BOOLEAN /\ LogFaults \in BOOLEAN

Line == [n : 1..(MaxOut + 1), kind : Kind]

Nobody == "nobody"
Writer == {"main", "stderr"}

VARIABLES
  child,      \* "running" | "exited" | "killed"
  code,       \* exit code of the child
  intent,     \* what the child is about to do: a kind, "stderr", "exit" or "think"
  wrote,      \* history: the lines the child wrote to stdout
  chunks,     \* history: number of chunks it wrote to stderr
  outPipe, errPipe,
  ctx,        \* "live" | "cancelled" | "handled" (by the watcher of os/exec)
  ctxErr,     \* the watcher signalled a process that had already exited
  mainPc,     \* "scan" | "persist" | "log" | "stderrDone" | "wait" | "returned"
  cur,        \* the line streamEvents works on
  streamErr,  \* streamEvents returned an error
  errPc,      \* the stderr goroutine: "read" | "log" | "done"
  chunk,      \* the chunk it works on
  mu,         \* syncWriter.mu: its holder
  pieces,     \* pieces the holder wrote so far
  log,        \* the log: pieces <<writer, number of line or chunk, piece>>
  dropped,    \* history: the writers whose Write to the log has failed
  jsonl,      \* the lines of test.jsonl
  result      \* [err, ExitCode] of Run

childVars == <<child, code, intent, wrote, chunks>>
pipeVars  == <<outPipe, errPipe>>
ctxVars   == <<ctx, ctxErr>>
mainVars  == <<mainPc, cur, streamErr, jsonl, result>>
errVars   == <<errPc, chunk>>
logVars   == <<mu, pieces, log, dropped>>
vars == <<childVars, pipeVars, ctxVars, mainVars, errVars, logVars>>

NoLine   == [n |-> 0, kind |-> "empty"]
NotReturned == [err |-> "none", ExitCode |-> 0]

(* Run has started the child and the stderr goroutine. *)
Init ==
  /\ child = "running" /\ code = 0 /\ intent = "think"
  /\ wrote = <<>> /\ chunks = 0
  /\ outPipe = <<>> /\ errPipe = <<>>
  /\ ctx = "live" /\ ctxErr = FALSE
  /\ mainPc = "scan" /\ cur = NoLine /\ streamErr = FALSE
  /\ errPc = "read" /\ chunk = 0
  /\ mu = Nobody /\ pieces = 0 /\ log = <<>> /\ dropped = {}
  /\ jsonl = <<>> /\ result = NotReturned

-----------------------------------------------------------------------------
(* The child: decides on a write, blocks until the pipe has room, goes on. *)

Decide ==
  /\ child = "running" /\ intent = "think"
  /\ \/ \E k \in Kinds : Len(wrote) < MaxOut /\ intent' = k
     \/ chunks < MaxErr /\ intent' = "stderr"
     \/ intent' = "exit"
  /\ UNCHANGED <<child, code, wrote, chunks, pipeVars, ctxVars, mainVars, errVars, logVars>>

WriteOut ==
  /\ child = "running" /\ intent \in Kinds
  /\ Len(outPipe) < OutCap
  /\ LET line == [n |-> Len(wrote) + 1, kind |-> intent]
     IN  /\ wrote' = Append(wrote, line)
         /\ outPipe' = Append(outPipe, line)
  /\ intent' = "think"
  /\ UNCHANGED <<child, code, chunks, errPipe, ctxVars, mainVars, errVars, logVars>>

WriteErr ==
  /\ child = "running" /\ intent = "stderr"
  /\ Len(errPipe) < ErrCap
  /\ chunks' = chunks + 1
  /\ errPipe' = Append(errPipe, chunks + 1)
  /\ intent' = "think"
  /\ UNCHANGED <<child, code, wrote, outPipe, ctxVars, mainVars, errVars, logVars>>

Exit ==
  /\ child = "running" /\ intent = "exit"
  /\ child' = "exited"
  /\ code' \in Codes
  /\ UNCHANGED <<intent, wrote, chunks, pipeVars, ctxVars, mainVars, errVars, logVars>>

(* The context is cancelled (an interrupt); its watcher in os/exec kills the
   child, possibly in the middle of a line, or finds it gone. *)
Cancel ==
  /\ MayCancel /\ ctx = "live" /\ mainPc # "returned"
  /\ ctx' = "cancelled"
  /\ UNCHANGED <<childVars, pipeVars, ctxErr, mainVars, errVars, logVars>>

(* Mutant: a command without the context is not killed. *)
KillNothing ==
  /\ ctx = "cancelled" /\ child = "running" /\ mainPc # "returned"
  /\ ctx' = "handled"
  /\ UNCHANGED <<childVars, pipeVars, ctxErr, mainVars, errVars, logVars>>

Kill ==
  /\ ctx = "cancelled" /\ child = "running" /\ mainPc # "returned"
  /\ ctx' = "handled"
  /\ child' = "killed"
  /\ \/ UNCHANGED <<wrote, outPipe>>
     \/ /\ intent \in Kinds /\ Len(outPipe) < OutCap
        /\ LET line == [n |-> Len(wrote) + 1, kind |-> "cut"]
           IN  /\ wrote' = Append(wrote, line)
               /\ outPipe' = Append(outPipe, line)
  /\ UNCHANGED <<code, intent, chunks, errPipe, ctxErr, mainVars, errVars, logVars>>

KillTooLate ==
  /\ ctx = "cancelled" /\ child = "exited" /\ mainPc # "returned"
  /\ ctx' = "handled"
  /\ ctxErr' = TRUE
  /\ UNCHANGED <<childVars, pipeVars, mainVars, errVars, logVars>>

EOF(pipe) == pipe = <<>> /\ child # "running"

-----------------------------------------------------------------------------
(* syncWriter.Write, by either goroutine: lock, two pieces, unlock. *)

(* Mutant: no mutex. *)
LockAlways(w) ==
  /\ mu' = w
  /\ UNCHANGED <<pieces, log, dropped>>

Lock(w) ==
  /\ mu = Nobody
  /\ mu' = w
  /\ UNCHANGED <<pieces, log, dropped>>

Piece(w, id) ==
  /\ mu = w /\ pieces < 2
  /\ pieces' = pieces + 1
  /\ log' = Append(log, <<w, id, pieces + 1>>)
  /\ UNCHANGED <<mu, dropped>>

Unlock(w) ==
  /\ mu = w /\ pieces = 2
  /\ mu' = Nobody /\ pieces' = 0
  /\ UNCHANGED <<log, dropped>>

(* The underlying writer returns an error before writing anything. *)
LogFails(w) ==
  /\ LogFaults /\ mu = w /\ pieces = 0
  /\ mu' = Nobody
  /\ dropped' = dropped \cup {w}
  /\ UNCHANGED <<pieces, log>>

-----------------------------------------------------------------------------
(* streamEvents, then the rest of Run. *)

mainElse == <<childVars, errPipe, ctxVars, errVars>>

(* Mutant: the line is the one before the one scanned. *)
ScanLineStale ==
  /\ mainPc = "scan" /\ outPipe # <<>>
  /\ outPipe' = Tail(outPipe)
  /\ mainPc' = "persist"
  /\ UNCHANGED <<cur, streamErr, jsonl, result, logVars, mainElse>>

(* scanner.Scan and the tests on the line it returns. *)
ScanLine ==
  /\ mainPc = "scan" /\ outPipe # <<>>
  /\ LET line == Head(outPipe)
     IN  /\ cur' = line
         /\ outPipe' = Tail(outPipe)
         /\ mainPc' = CASE line.kind = "empty" -> "scan"
                        [] line.kind = "long"  -> "stderrDone"
                        [] OTHER               -> "persist"
         /\ streamErr' = (line.kind = "long")
  /\ UNCHANGED <<jsonl, result, logVars, mainElse>>

(* Mutant: the end of the child is taken for the end of its output. *)
ScanEOFEarly ==
  /\ mainPc = "scan" /\ child # "running"
  /\ mainPc' = "stderrDone"
  /\ UNCHANGED <<cur, streamErr, jsonl, result, outPipe, logVars, mainElse>>

ScanEOF ==
  /\ mainPc = "scan" /\ EOF(outPipe)
  /\ mainPc' = "stderrDone"
  /\ UNCHANGED <<cur, streamErr, jsonl, result, outPipe, logVars, mainElse>>

(* Mutant: lines that are no events are not kept. *)
PersistEvents ==
  /\ mainPc = "persist"
  /\ jsonl' = IF cur.kind = "noise" THEN jsonl ELSE Append(jsonl, cur)
  /\ mainPc' = IF cur.kind = "event" THEN "scan" ELSE "log"
  /\ UNCHANGED <<cur, streamErr, result, outPipe, logVars, mainElse>>

Persist ==
  /\ mainPc = "persist"
  /\ jsonl' = Append(jsonl, cur)
  /\ mainPc' = IF cur.kind = "event" THEN "scan" ELSE "log"
  /\ UNCHANGED <<cur, streamErr, result, outPipe, logVars, mainElse>>

(* The write of the line or of its newline fails. *)
PersistFails ==
  /\ mainPc = "persist" /\ JsonlFaults
  /\ jsonl' \in {jsonl, Append(jsonl, [cur EXCEPT !.kind = "cut"])}
  /\ streamErr' = TRUE
  /\ mainPc' = "stderrDone"
  /\ UNCHANGED <<cur, result, outPipe, logVars, mainElse>>

MainLock ==
  /\ mainPc = "log"
  /\ Lock("main")
  /\ UNCHANGED <<mainVars, outPipe, mainElse>>

MainPiece ==
  /\ mainPc = "log"
  /\ Piece("main", cur.n)
  /\ UNCHANGED <<mainVars, outPipe, mainElse>>

MainUnlock ==
  /\ mainPc = "log"
  /\ Unlock("main")
  /\ mainPc' = "scan"
  /\ UNCHANGED <<cur, streamErr, jsonl, result, outPipe, mainElse>>

(* A failed write of event text ends the stream; that of a noise line, whose
   Fprintln result is dropped, does not. *)
MainLogFails ==
  /\ mainPc = "log"
  /\ LogFails("main")
  /\ IF cur.kind = "output"
     THEN mainPc' = "stderrDone" /\ streamErr' = TRUE
     ELSE mainPc' = "scan" /\ UNCHANGED streamErr
  /\ UNCHANGED <<cur, jsonl, result, outPipe, mainElse>>

(* Mutant: Run does not wait for the stderr goroutine. *)
AwaitNobody ==
  /\ mainPc = "stderrDone"
  /\ mainPc' = "wait"
  /\ UNCHANGED <<cur, streamErr, jsonl, result, outPipe, logVars, mainElse>>

(* <-stderrDone *)
AwaitStderr ==
  /\ mainPc = "stderrDone" /\ errPc = "done"
  /\ mainPc' = "wait"
  /\ UNCHANGED <<cur, streamErr, jsonl, result, outPipe, logVars, mainElse>>

(* Mutant: the error of the context first. *)
waitErrContextFirst ==
  IF ctx = "handled" THEN "context" ELSE IF code # 0 THEN "exit" ELSE "none"

(* cmd.Wait prefers the state of the process over the error of its context:
   a killed child is an ExitError of code -1, the context's error is seen
   only if the child had exited with code 0. *)
waitErr ==
  IF child = "killed" THEN "exit"
  ELSE IF code # 0 THEN "exit"
  ELSE IF ctxErr THEN "context" ELSE "none"

Wait ==
  /\ mainPc = "wait" /\ child # "running"
  /\ mainPc' = "returned"
  /\ result' =
       [err |-> IF waitErr = "context" THEN "execution"
                ELSE IF streamErr THEN "stream" ELSE "none",
        ExitCode |-> IF child = "killed" THEN -1
                     ELSE IF waitErr = "exit" THEN code ELSE 0]
  /\ UNCHANGED <<cur, streamErr, jsonl, outPipe, logVars, mainElse>>

-----------------------------------------------------------------------------
(* The stderr goroutine: io.Copy(safeLog, stderr). *)

errElse == <<childVars, outPipe, ctxVars, mainVars>>

(* Mutant: stderr is forwarded after stdout instead of along with it. *)
ErrReadAfter ==
  /\ mainPc = "stderrDone"
  /\ errPc = "read" /\ errPipe # <<>>
  /\ chunk' = Head(errPipe)
  /\ errPipe' = Tail(errPipe)
  /\ errPc' = "log"
  /\ UNCHANGED <<logVars, errElse>>

ErrRead ==
  /\ errPc = "read" /\ errPipe # <<>>
  /\ chunk' = Head(errPipe)
  /\ errPipe' = Tail(errPipe)
  /\ errPc' = "log"
  /\ UNCHANGED <<logVars, errElse>>

ErrEOF ==
  /\ errPc = "read" /\ EOF(errPipe)
  /\ errPc' = "done"
  /\ UNCHANGED <<chunk, errPipe, logVars, errElse>>

ErrLock ==
  /\ errPc = "log"
  /\ Lock("stderr")
  /\ UNCHANGED <<errVars, errPipe, errElse>>

ErrPiece ==
  /\ errPc = "log"
  /\ Piece("stderr", chunk)
  /\ UNCHANGED <<errVars, errPipe, errElse>>

ErrUnlock ==
  /\ errPc = "log"
  /\ Unlock("stderr")
  /\ errPc' = "read"
  /\ UNCHANGED <<chunk, errPipe, errElse>>

(* io.Copy gives up on a write error; it is dropped and the channel closed. *)
ErrLogFails ==
  /\ errPc = "log"
  /\ LogFails("stderr")
  /\ errPc' = "done"
  /\ UNCHANGED <<chunk, errPipe, errElse>>

-----------------------------------------------------------------------------
ChildStep   == Decide \/ WriteOut \/ WriteErr \/ Exit
WatcherStep == Kill \/ KillTooLate
MainStep    == \/ ScanLine \/ ScanEOF \/ Persist \/ PersistFails
               \/ MainLock \/ MainPiece \/ MainUnlock \/ MainLogFails
               \/ AwaitStderr \/ Wait
StderrStep  == ErrRead \/ ErrEOF \/ ErrLock \/ ErrPiece \/ ErrUnlock \/ ErrLogFails

Next == ChildStep \/ Cancel \/ WatcherStep \/ MainStep \/ StderrStep

(* go test goes on whenever its writes find room, and its -timeout ends it;
   the goroutines and the watcher of the context keep running. *)
Fairness ==
  /\ WF_vars(ChildStep) /\ WF_vars(WatcherStep)
  /\ WF_vars(MainStep) /\ WF_vars(StderrStep)

Spec     == Init /\ [][Next]_vars
FairSpec == Spec /\ Fairness

-----------------------------------------------------------------------------
(* Properties. *)

Piece3 == {<<w, id, k>> : w \in Writer, id \in 0..(MaxOut + MaxErr + 1), k \in 1..2}

TypeOK ==
  /\ child \in {"running", "exited", "killed"} /\ code \in Codes \cup {0}
  /\ intent \in Kinds \cup {"think", "stderr", "exit"}
  /\ wrote \in Seq(Line) /\ chunks \in 0..MaxErr
  /\ outPipe \in Seq(Line) /\ errPipe \in Seq(1..MaxErr)
  /\ ctx \in {"live", "cancelled", "handled"} /\ ctxErr \in BOOLEAN
  /\ mainPc \in {"scan", "persist", "log", "stderrDone", "wait", "returned"}
  /\ cur \in Line \cup {NoLine} /\ streamErr \in BOOLEAN
  /\ errPc \in {"read", "log", "done"} /\ chunk \in 0..MaxErr
  /\ mu \in Writer \cup {Nobody} /\ pieces \in 0..2
  /\ log \in Seq(Piece3) /\ dropped \subseteq Writer /\ jsonl \in Seq(Line)
  /\ result \in [err : {"none", "stream", "execution"}, ExitCode : Int]

(* The mutex of syncWriter is held by a goroutine exactly while it is inside
   a Write to the log, and a half-written Write has a holder. *)
MutexHeld ==
  /\ mu = "main" => mainPc = "log"
  /\ mu = "stderr" => errPc = "log"
  /\ pieces # 0 => mu # Nobody

(* The log is a sequence of whole Writes: no event's text is torn by a chunk
   of stderr, except that the last Write may be in progress. *)
LogNotTorn ==
  /\ Len(log) % 2 = pieces % 2
  /\ \A i \in 1..Len(log) :
       IF i % 2 = 1 THEN log[i][3] = 1
       ELSE log[i] = <<log[i - 1][1], log[i - 1][2], 2>>

Kept == {l \in ToSet(wrote) : l.kind # "empty"}

(* The lines have the order in which the child wrote them, each once. *)
InOrder(lines) == \A i, j \in DOMAIN lines : i < j => lines[i].n < lines[j].n

(* The last line of test.jsonl was left torn by writeLine. *)
PersistTorn ==
  /\ jsonl # <<>> /\ Last(jsonl).kind = "cut"
  /\ wrote[Last(jsonl).n].kind # "cut"

(* test.jsonl is always a prefix of the non-empty lines the child wrote: in
   order, none skipped, none twice.  A line that writeLine could not finish is
   the next of them and the last of the file, and Run returns an error then,
   so that nobody reads it. *)
JsonlPrefix ==
  LET whole == IF PersistTorn THEN Front(jsonl) ELSE jsonl
  IN  /\ InOrder(jsonl)
      /\ ToSet(whole) \subseteq Kept
      /\ \A l \in Kept, m \in ToSet(jsonl) : l.n < m.n => l \in ToSet(whole)
      /\ PersistTorn =>
           /\ wrote[Last(jsonl).n] \in Kept
           /\ mainPc = "returned" => result.err # "none"

(* The whole Writes of w in the log, and the lines or chunks they are. *)
Whole(w)  == {i \in DOMAIN log : log[i][1] = w /\ log[i][3] = 2}
Logged(w) == {log[i][2] : i \in Whole(w)}
LoggedInOrder(w) == \A i, j \in Whole(w) : i < j => log[i][2] < log[j][2]

(* When Run returns no error nothing was lost: test.jsonl has every non-empty
   line, the log the text of every event in the order of stdout, and of a
   goroutine whose Writes all went through the log has every noise line and
   every chunk of stderr as well. *)
ReturnsEverything ==
  (mainPc = "returned" /\ result.err = "none") =>
    /\ InOrder(jsonl) /\ ToSet(jsonl) = Kept
    /\ LoggedInOrder("main") /\ LoggedInOrder("stderr")
    /\ {n \in DOMAIN wrote : wrote[n].kind = "output"} \subseteq Logged("main")
    /\ "main" \notin dropped =>
         Logged("main") = {n \in DOMAIN wrote : wrote[n].kind \notin {"empty", "event"}}
    /\ "stderr" \notin dropped => Logged("stderr") = 1..chunks

(* Run reports how the child really ended: an ExitCode only when it exited
   with it or -1 when it was killed, an execution error only when the context
   was cancelled after the child had exited well. *)
ExitCodeExact ==
  mainPc = "returned" =>
    /\ child # "running"
    /\ result.ExitCode = IF child = "killed" THEN -1 ELSE code
    /\ result.err = "execution" <=> child = "exited" /\ code = 0 /\ ctxErr

(* Once Run has returned no goroutine of it touches the log or the file. *)
SilentAfterReturn ==
  [][mainPc = "returned" => UNCHANGED <<log, jsonl, mu, errPc>>]_vars

(* A pipe is no longer read although the child may write to it. *)
Undrained == streamErr \/ (errPc = "done" /\ child = "running")

(* Run returns, whatever the child writes to which pipe in which order,
   unless a goroutine has given up on its pipe. *)
Terminates == <>(mainPc = "returned" \/ Undrained)

(* A cancelled Run returns, even one whose stream broke off. *)
CancelUnblocks == (ctx = "cancelled") ~> (mainPc = "returned")

(* Run hands back the observed exit code however the stream went. *)
ResultIsReturned == (child = "running" /\ streamErr) ~> (mainPc = "returned")
=============================================================================
