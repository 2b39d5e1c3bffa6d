------------------------------ MODULE TestWrap -------------------------------
(***************************************************************************)
(* The test wrapper of bzltestutil: Wrap runs the test as a child process, *)
(* two goroutines of the streamMerger pass its stdout and stderr on to the *)
(* test2json converter line by line, and Wrap ends with a forced FAIL if   *)
(* the child failed, the XML report and an exit code.                      *)
(* A goroutine may lag behind the child by any amount, so the whole output *)
(* of a stream is available from the start and read at any later time;     *)
(* only the end of a stream is tied to the child's exit.                   *)
(***************************************************************************)
EXTENDS Naturals, Sequences

CONSTANTS
    Token,      \* pieces of output; the converter tells no smaller ones apart
    NL,         \* the newline
    Forced,     \* the writes that force the converter to flush: ^V, FAIL and a newline
    Programs    \* the test processes considered

Stream == {"out", "err"}
Exit == {"ok", "code", "signal", "notStarted"}

ASSUME ProgramAssumption ==
    /\ NL \in Token /\ Forced \in Seq(Seq(Token))
    /\ Programs \subseteq [out : Seq(Token), err : Seq(Token), exit : Exit, xml : BOOLEAN]

VARIABLES
    program,   \* what the child prints, how it ends, and whether XML_OUTPUT_FILE is set
    rest,      \* rest[s]: what the goroutine of s has not read yet
    line,      \* line[s]: what ReadString has returned
    eof,       \* eof[s]: ReadString has returned io.EOF
    pc,        \* pc[s]: "read", "lock", "write" or "done"
    mutex,     \* the goroutine that holds the mutex, or "free"
    closed,    \* closed[s]: the write end of the pipe is closed
    main,      \* "run", "closeErr", "closeOut", "wait", "force", "close", "report", "exit" or "end"
    written,   \* the writes the converter has got
    copied,    \* copied[s]: those of them that came from s, joined (history)
    result,    \* what Wrap returns: "nil", "exitError" or "error"
    exitCode   \* the exit code of the wrapper; the child's own is 1

vars == <<program, rest, line, eof, pc, mutex, closed, main, written, copied, result, exitCode>>

TestWrapperAbnormalExit == 6

Init ==
    /\ program \in Programs
    /\ rest = [s \in Stream |-> program[s]]
    /\ line = [s \in Stream |-> <<>>]
    /\ eof = [s \in Stream |-> FALSE]
    /\ pc = [s \in Stream |-> "read"]
    /\ mutex = "free"
    /\ closed = [s \in Stream |-> FALSE]
    /\ main = "run"
    /\ written = <<>>
    /\ copied = [s \in Stream |-> <<>>]
    /\ result = "nil" /\ exitCode = 0

-----------------------------------------------------------------------------
(* streamMerger.process *)

\* The lengths of the complete lines at the front of r.
LineEnds(r) == {n \in 1..Len(r) : r[n] = NL /\ \A m \in 1..(n - 1) : r[m] # NL}

\* ReadString returns a line.
ReadLine(s) ==
    /\ pc[s] = "read"
    /\ \E n \in LineEnds(rest[s]) :
          /\ line' = [line EXCEPT ![s] = SubSeq(rest[s], 1, n)]
          /\ rest' = [rest EXCEPT ![s] = SubSeq(rest[s], n + 1, Len(rest[s]))]
    /\ pc' = [pc EXCEPT ![s] = "lock"]
    /\ UNCHANGED <<program, eof, mutex, closed, main, written, copied, result, exitCode>>

\* Mutant: the loop ends at io.EOF before the last, unterminated line is written.
ReadEOF_DropsLine(s) ==
    /\ pc[s] = "read" /\ closed[s] /\ LineEnds(rest[s]) = {}
    /\ rest' = [rest EXCEPT ![s] = <<>>]
    /\ eof' = [eof EXCEPT ![s] = TRUE]
    /\ pc' = [pc EXCEPT ![s] = "done"]
    /\ UNCHANGED <<program, line, mutex, closed, main, written, copied, result, exitCode>>

\* Mutant: the loop is not left when ReadString returns nothing but io.EOF.
ReadEOF_Forever(s) ==
    /\ pc[s] = "read" /\ closed[s] /\ LineEnds(rest[s]) = {}
    /\ line' = [line EXCEPT ![s] = rest[s]]
    /\ rest' = [rest EXCEPT ![s] = <<>>]
    /\ eof' = [eof EXCEPT ![s] = TRUE]
    /\ pc' = [pc EXCEPT ![s] = IF rest[s] = <<>> THEN "read" ELSE "lock"]
    /\ UNCHANGED <<program, mutex, closed, main, written, copied, result, exitCode>>

\* ReadString returns what is left, if anything, and io.EOF.
ReadEOF(s) ==
    /\ pc[s] = "read" /\ closed[s] /\ LineEnds(rest[s]) = {}
    /\ line' = [line EXCEPT ![s] = rest[s]]
    /\ rest' = [rest EXCEPT ![s] = <<>>]
    /\ eof' = [eof EXCEPT ![s] = TRUE]
    /\ pc' = [pc EXCEPT ![s] = IF rest[s] = <<>> THEN "done" ELSE "lock"]
    /\ UNCHANGED <<program, mutex, closed, main, written, copied, result, exitCode>>

\* Mutant: the write is not guarded by the mutex.
Lock_Free(s) ==
    /\ pc[s] = "lock"
    /\ mutex' = s
    /\ pc' = [pc EXCEPT ![s] = "write"]
    /\ UNCHANGED <<program, rest, line, eof, closed, main, written, copied, result, exitCode>>

Lock(s) ==
    /\ pc[s] = "lock" /\ mutex = "free"
    /\ mutex' = s
    /\ pc' = [pc EXCEPT ![s] = "write"]
    /\ UNCHANGED <<program, rest, line, eof, closed, main, written, copied, result, exitCode>>

\* The converter gets the line, and the mutex is released.
WriteLine(s) ==
    /\ pc[s] = "write"
    /\ written' = Append(written, line[s])
    /\ copied' = [copied EXCEPT ![s] = @ \o line[s]]
    /\ line' = [line EXCEPT ![s] = <<>>]
    /\ mutex' = "free"
    /\ pc' = [pc EXCEPT ![s] = IF eof[s] THEN "done" ELSE "read"]
    /\ UNCHANGED <<program, rest, eof, closed, main, result, exitCode>>

-----------------------------------------------------------------------------
(* Wrap *)

\* cmd.Run returns: the child has ended and all its output is in the pipes.
RunReturns ==
    /\ main = "run"
    /\ main' = "closeErr"
    /\ UNCHANGED <<program, rest, line, eof, pc, mutex, closed, written, copied, result, exitCode>>

CloseErrW ==
    /\ main = "closeErr"
    /\ closed' = [closed EXCEPT !["err"] = TRUE]
    /\ main' = "closeOut"
    /\ UNCHANGED <<program, rest, line, eof, pc, mutex, written, copied, result, exitCode>>

CloseOutW ==
    /\ main = "closeOut"
    /\ closed' = [closed EXCEPT !["out"] = TRUE]
    /\ main' = "wait"
    /\ UNCHANGED <<program, rest, line, eof, pc, mutex, written, copied, result, exitCode>>

Wait ==
    /\ main = "wait"
    /\ \A s \in Stream : pc[s] = "done"
    /\ main' = IF program.exit = "ok" THEN "close" ELSE "force"
    /\ UNCHANGED <<program, rest, line, eof, pc, mutex, closed, written, copied, result, exitCode>>

\* The child failed: a FAIL line is forced upon the converter.
ForceFail ==
    /\ main = "force"
    /\ written' = written \o Forced
    /\ main' = "close"
    /\ UNCHANGED <<program, rest, line, eof, pc, mutex, closed, copied, result, exitCode>>

CloseConverter ==
    /\ main = "close"
    /\ main' = "report"
    /\ UNCHANGED <<program, rest, line, eof, pc, mutex, closed, written, copied, result, exitCode>>

ChildError == CASE program.exit = "ok" -> "nil"
                [] program.exit \in {"code", "signal"} -> "exitError"
                [] program.exit = "notStarted" -> "error"

\* Mutant: once the report is written its error is all that is returned.
WriteReport_HidesChild ==
    /\ main = "report"
    /\ IF program.xml THEN \E r \in {"nil", "error"} : result' = r
       ELSE result' = ChildError
    /\ main' = "exit"
    /\ UNCHANGED <<program, rest, line, eof, pc, mutex, closed, written, copied, exitCode>>

\* Wrap returns the child's error, or one that tells that the report was not written.
WriteReport ==
    /\ main = "report"
    /\ \/ result' = ChildError
       \/ program.xml /\ result' = "error"
    /\ main' = "exit"
    /\ UNCHANGED <<program, rest, line, eof, pc, mutex, closed, written, copied, exitCode>>

\* The generated main function makes an exit code of the error; ExitCode() of a process
\* killed by a signal is -1, of which 8 bits are left.
TestMainExit ==
    /\ main = "exit"
    /\ exitCode' = CASE result = "nil" -> 0
                     [] result = "exitError" -> IF program.exit = "signal" THEN 255 ELSE 1
                     [] result = "error" -> TestWrapperAbnormalExit
    /\ main' = "end"
    /\ UNCHANGED <<program, rest, line, eof, pc, mutex, closed, written, copied, result>>

Ended == main = "end" /\ UNCHANGED vars

Process(s) == ReadLine(s) \/ ReadEOF(s) \/ Lock(s) \/ WriteLine(s)
Wrap == RunReturns \/ CloseErrW \/ CloseOutW \/ Wait \/ ForceFail \/ CloseConverter
        \/ WriteReport \/ TestMainExit

Next == (\E s \in Stream : Process(s)) \/ Wrap \/ Ended

Spec == Init /\ [][Next]_vars

\* The child ends (Bazel kills it at the latest); goroutines are scheduled fairly, and the
\* mutex is free again after every write.
FairSpec == Spec /\ WF_vars(Wrap) /\ \A s \in Stream : WF_vars(Process(s))

-----------------------------------------------------------------------------
(* Properties *)

\* The variables have the types of the wrapper's variables; only a goroutine about to
\* write holds the mutex.
TypeOK ==
    /\ program \in [out : Seq(Token), err : Seq(Token), exit : Exit, xml : BOOLEAN]
    /\ rest \in [Stream -> Seq(Token)] /\ line \in [Stream -> Seq(Token)]
    /\ eof \in [Stream -> BOOLEAN] /\ closed \in [Stream -> BOOLEAN]
    /\ pc \in [Stream -> {"read", "lock", "write", "done"}]
    /\ mutex \in Stream \cup {"free"} /\ (mutex \in Stream => pc[mutex] = "write")
    /\ main \in {"run", "closeErr", "closeOut", "wait", "force", "close", "report", "exit", "end"}
    /\ written \in Seq(Seq(Token))
    /\ copied \in [Stream -> Seq(Token)]
    /\ result \in {"nil", "exitError", "error"}
    /\ exitCode \in {0, 1, TestWrapperAbnormalExit, 255}

\* The converter has no lock of its own: never two of the goroutines and Wrap are in it.
OneWriter ==
    /\ \A s, t \in Stream : pc[s] = "write" /\ pc[t] = "write" => s = t
    /\ main \in {"force", "close", "report", "exit", "end"} => \A s \in Stream : pc[s] = "done"

\* Nothing the child printed is lost, repeated or moved within its stream, and all of it
\* reaches the converter before the forced FAIL and before the converter is closed.
StreamsIntact ==
    /\ \A s \in Stream : copied[s] \o line[s] \o rest[s] = program[s]
    /\ main \in {"force", "close", "report", "exit", "end"} =>
          \A s \in Stream : copied[s] = program[s]

\* A failure is never hidden: the wrapper succeeds only if the child did.
FailureKept == main = "end" /\ exitCode = 0 => program.exit = "ok"

\* The wrapper ends, whatever the child printed and however it ended.
Terminates == <>(main = "end")
=============================================================================
