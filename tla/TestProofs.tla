------------------------------- MODULE TestProofs -------------------------------
(***************************************************************************)
(* Proofs about the tests: how they are built and how they are run.        *)
(*                                                                         *)
(* Part one is about the test wrapper, for every set of test programs: the *)
(* output of a child reaches the converter whole, in order and under the   *)
(* mutex, and a failure of the child is never hidden.                      *)
(*                                                                         *)
(* Part two is about recompilation.                                        *)
(* The search of _recompile_external_deps, for any graph of archives: its  *)
(* list is a post-order, it ends with its last step and with all archives, *)
(* and exactly the importers of the library under test are compiled again. *)
(* Of the archives it makes: those linked fit together, and the internal   *)
(* archive fails to compile exactly if its sources import their importer.  *)
(*                                                                         *)
(* A count of zero in deps_pushed has two meanings: finished, or waiting   *)
(* on the stack to be finished. The code takes it for the first while it   *)
(* pushes the dependencies of an archive. This is right because the        *)
(* archives of count zero that are on the stack are on top of it (Ready),  *)
(* so that none is left when an archive is expanded.                       *)
(***************************************************************************)
EXTENDS TestWrap, TestRecompile, SequenceTheorems, FiniteSetTheorems, TLAPS

-----------------------------------------------------------------------------
(* Part one: the test wrapper *)

\* The goroutine about to write holds the mutex.
WriterHolds == \A s \in Stream : pc[s] = "write" => mutex = s

\* What is written, what is in hand and what is left make up the stream.
Accounted == \A s \in Stream : copied[s] \o line[s] \o rest[s] = program[s]

\* A goroutine that reads has nothing in hand, and one that is done has nothing left.
Drained ==
    \A s \in Stream :
        /\ pc[s] \in {"read", "done"} => line[s] = <<>>
        /\ eof[s] => rest[s] = <<>>
        /\ pc[s] = "done" => eof[s]

\* Wrap passes Wait only when both goroutines are done.
Joined == main \in {"force", "close", "report", "exit", "end"} => \A s \in Stream : pc[s] = "done"

\* Wrap returns no error, and the wrapper succeeds, only if the child did.
VerdictKept ==
    /\ main \in {"exit", "end"} /\ result = "nil" => program.exit = "ok"
    /\ main = "end" /\ exitCode = 0 => program.exit = "ok"

IndInv == TypeOK /\ WriterHolds /\ Accounted /\ Drained /\ Joined /\ VerdictKept

-----------------------------------------------------------------------------
(* Sequences *)

\* Concatenation of token streams is associative.
LEMMA TokensAssociate ==
    \A x, y, z \in Seq(Token) : x \o y \o z = x \o (y \o z)
BY ConcatAssociative

\* Moving the seam between the middle and the last of three sequences changes nothing:
\* how ReadString and the write to the converter keep a stream whole.
LEMMA MoveSeam ==
    ASSUME NEW c \in Seq(Token), NEW r \in Seq(Token), NEW n \in 1..Len(r)
    PROVE  /\ SubSeq(r, 1, n) \in Seq(Token)
           /\ SubSeq(r, n + 1, Len(r)) \in Seq(Token)
           /\ c \o SubSeq(r, 1, n) \o SubSeq(r, n + 1, Len(r)) = c \o <<>> \o r
<1>1. /\ SubSeq(r, 1, n) \in Seq(Token)
      /\ SubSeq(r, n + 1, Len(r)) \in Seq(Token)
  BY SubSeqProperties
<1>2. SubSeq(r, 1, n) \o SubSeq(r, n + 1, Len(r)) = SubSeq(r, 1, Len(r))
  BY ConcatAdjacentSubSeq
<1>3. SubSeq(r, 1, Len(r)) = r
  BY SubSeqFull
<1>4. c \o SubSeq(r, 1, n) \o SubSeq(r, n + 1, Len(r))
        = c \o (SubSeq(r, 1, n) \o SubSeq(r, n + 1, Len(r)))
  BY <1>1, TokensAssociate
<1>5. c \o <<>> = c
  BY ConcatEmptySeq
<1> QED BY <1>1, <1>2, <1>3, <1>4, <1>5

\* Empty ends of a concatenation vanish.
LEMMA EmptyEnds ==
    ASSUME NEW c \in Seq(Token), NEW d \in Seq(Token)
    PROVE  /\ c \o <<>> = c
           /\ <<>> \o d = d
           /\ c \o d \in Seq(Token)
           /\ c \o d \o <<>> = c \o d
           /\ c \o <<>> \o d = c \o d
<1>1. c \o <<>> = c /\ <<>> \o d = d
  BY ConcatEmptySeq
<1>2. c \o d \in Seq(Token)
  BY ConcatProperties
<1>3. c \o d \o <<>> = c \o d
  BY <1>2, ConcatEmptySeq
<1> QED BY <1>1, <1>2, <1>3

-----------------------------------------------------------------------------
(* The invariant *)

LEMMA InitEstablishes == Init => IndInv
<1> SUFFICES ASSUME Init PROVE IndInv
  OBVIOUS
<1>0. /\ program \in [out : Seq(Token), err : Seq(Token), exit : Exit, xml : BOOLEAN]
      /\ \A s \in Stream : program[s] \in Seq(Token)
      /\ <<>> \in Seq(Token) /\ <<>> \in Seq(Seq(Token))
  BY ProgramAssumption DEF Init, Stream
<1>1. TypeOK
  BY <1>0 DEF Init, TypeOK, Stream
<1>2. Accounted
  <2> SUFFICES ASSUME NEW s \in Stream PROVE copied[s] \o line[s] \o rest[s] = program[s]
    BY DEF Accounted
  <2>1. copied[s] = <<>> /\ line[s] = <<>> /\ rest[s] = program[s]
    BY DEF Init
  <2>2. <<>> \o <<>> \o program[s] = program[s]
    BY <1>0, EmptyEnds
  <2> QED BY <2>1, <2>2
<1>3. WriterHolds /\ Drained /\ Joined /\ VerdictKept
  BY DEF Init, WriterHolds, Drained, Joined, VerdictKept, Stream
<1> QED BY <1>1, <1>2, <1>3 DEF IndInv

LEMMA ReadLinePreserves ==
    ASSUME IndInv, NEW s \in Stream, ReadLine(s)
    PROVE  IndInv'
<1>0. TypeOK /\ WriterHolds /\ Accounted /\ Drained /\ Joined /\ VerdictKept
  BY DEF IndInv
<1>1. PICK n \in 1..Len(rest[s]) :
         /\ line' = [line EXCEPT ![s] = SubSeq(rest[s], 1, n)]
         /\ rest' = [rest EXCEPT ![s] = SubSeq(rest[s], n + 1, Len(rest[s]))]
  BY DEF ReadLine, LineEnds
<1>2. /\ pc[s] = "read" /\ pc' = [pc EXCEPT ![s] = "lock"]
      /\ UNCHANGED <<program, eof, mutex, closed, main, written, copied, result, exitCode>>
  BY DEF ReadLine
<1>3. /\ copied[s] \in Seq(Token) /\ rest[s] \in Seq(Token) /\ rest[s] # <<>>
      /\ line[s] = <<>> /\ ~eof[s]
  <2>1. copied[s] \in Seq(Token) /\ rest[s] \in Seq(Token)
    BY <1>0 DEF TypeOK
  <2>2. rest[s] # <<>>
    BY <1>1, <2>1
  <2> QED BY <1>0, <1>2, <2>1, <2>2 DEF Drained
<1>4. /\ SubSeq(rest[s], 1, n) \in Seq(Token)
      /\ SubSeq(rest[s], n + 1, Len(rest[s])) \in Seq(Token)
      /\ copied[s] \o SubSeq(rest[s], 1, n) \o SubSeq(rest[s], n + 1, Len(rest[s]))
           = copied[s] \o <<>> \o rest[s]
  BY <1>1, <1>3, MoveSeam
<1>5. TypeOK'
  <2>1. line' \in [Stream -> Seq(Token)] /\ rest' \in [Stream -> Seq(Token)]
    <3> DEFINE front == SubSeq(rest[s], 1, n)
               back == SubSeq(rest[s], n + 1, Len(rest[s]))
    <3>1. front \in Seq(Token) /\ back \in Seq(Token)
      BY <1>4
    <3>2. line' = [line EXCEPT ![s] = front] /\ rest' = [rest EXCEPT ![s] = back]
      BY <1>1
    <3> HIDE DEF front, back
    <3> QED BY <1>0, <3>1, <3>2 DEF TypeOK
  <2>2. pc' \in [Stream -> {"read", "lock", "write", "done"}]
    BY <1>0, <1>2 DEF TypeOK
  <2>3. mutex' \in Stream => pc'[mutex'] = "write"
    BY <1>0, <1>2 DEF TypeOK
  <2> QED BY <1>0, <1>2, <2>1, <2>2, <2>3 DEF TypeOK
<1>6. Accounted'
  <2> SUFFICES ASSUME NEW t \in Stream
               PROVE  copied'[t] \o line'[t] \o rest'[t] = program'[t]
    BY DEF Accounted
  <2>1. copied[t] \o line[t] \o rest[t] = program[t]
    BY <1>0 DEF Accounted
  <2>2. CASE t = s
    <3>1. line'[s] = SubSeq(rest[s], 1, n) /\ rest'[s] = SubSeq(rest[s], n + 1, Len(rest[s]))
      BY <1>0, <1>1 DEF TypeOK
    <3> QED BY <1>2, <1>3, <1>4, <2>1, <2>2, <3>1
  <2>3. CASE t # s
    <3>1. line'[t] = line[t] /\ rest'[t] = rest[t]
      BY <1>0, <1>1, <2>3 DEF TypeOK
    <3> QED BY <1>2, <2>1, <3>1
  <2> QED BY <2>2, <2>3
<1>7. WriterHolds'
  BY <1>0, <1>2 DEF WriterHolds, TypeOK
<1>8. Drained'
  <2> SUFFICES ASSUME NEW t \in Stream
               PROVE  /\ pc'[t] \in {"read", "done"} => line'[t] = <<>>
                      /\ eof'[t] => rest'[t] = <<>>
                      /\ pc'[t] = "done" => eof'[t]
    BY DEF Drained
  <2>1. CASE t = s
    BY <1>0, <1>2, <1>3, <2>1 DEF TypeOK
  <2>2. CASE t # s
    <3>1. line'[t] = line[t] /\ rest'[t] = rest[t] /\ pc'[t] = pc[t]
      BY <1>0, <1>1, <1>2, <2>2 DEF TypeOK
    <3> QED BY <1>0, <1>2, <3>1 DEF Drained
  <2> QED BY <2>1, <2>2
<1>9. Joined' /\ VerdictKept'
  BY <1>0, <1>2 DEF Joined, VerdictKept, TypeOK
<1> QED BY <1>5, <1>6, <1>7, <1>8, <1>9 DEF IndInv

LEMMA ReadEOFPreserves ==
    ASSUME IndInv, NEW s \in Stream, ReadEOF(s)
    PROVE  IndInv'
<1>0. TypeOK /\ WriterHolds /\ Accounted /\ Drained /\ Joined /\ VerdictKept
  BY DEF IndInv
<1>1. /\ pc[s] = "read" /\ pc' = [pc EXCEPT ![s] = IF rest[s] = <<>> THEN "done" ELSE "lock"]
      /\ line' = [line EXCEPT ![s] = rest[s]] /\ rest' = [rest EXCEPT ![s] = <<>>]
      /\ eof' = [eof EXCEPT ![s] = TRUE]
      /\ UNCHANGED <<program, mutex, closed, main, written, copied, result, exitCode>>
  BY DEF ReadEOF
<1>2. /\ copied[s] \in Seq(Token) /\ rest[s] \in Seq(Token) /\ line[s] = <<>>
      /\ <<>> \in Seq(Token)
  BY <1>0, <1>1 DEF TypeOK, Drained
<1>3. TypeOK'
  BY <1>0, <1>1, <1>2 DEF TypeOK
<1>4. Accounted'
  <2> SUFFICES ASSUME NEW t \in Stream
               PROVE  copied'[t] \o line'[t] \o rest'[t] = program'[t]
    BY DEF Accounted
  <2>1. copied[t] \o line[t] \o rest[t] = program[t]
    BY <1>0 DEF Accounted
  <2>2. CASE t = s
    <3>1. line'[s] = rest[s] /\ rest'[s] = <<>>
      BY <1>0, <1>1 DEF TypeOK
    <3>2. copied[s] \o rest[s] \o <<>> = copied[s] \o <<>> \o rest[s]
      BY <1>2, EmptyEnds
    <3> QED BY <1>1, <1>2, <2>1, <2>2, <3>1, <3>2
  <2>3. CASE t # s
    <3>1. line'[t] = line[t] /\ rest'[t] = rest[t]
      BY <1>0, <1>1, <2>3 DEF TypeOK
    <3> QED BY <1>1, <2>1, <3>1
  <2> QED BY <2>2, <2>3
<1>5. WriterHolds'
  BY <1>0, <1>1 DEF WriterHolds, TypeOK
<1>6. Drained'
  <2> SUFFICES ASSUME NEW t \in Stream
               PROVE  /\ pc'[t] \in {"read", "done"} => line'[t] = <<>>
                      /\ eof'[t] => rest'[t] = <<>>
                      /\ pc'[t] = "done" => eof'[t]
    BY DEF Drained
  <2>1. CASE t = s
    BY <1>0, <1>1, <2>1 DEF TypeOK
  <2>2. CASE t # s
    <3>1. /\ line'[t] = line[t] /\ rest'[t] = rest[t] /\ pc'[t] = pc[t] /\ eof'[t] = eof[t]
      BY <1>0, <1>1, <2>2 DEF TypeOK
    <3> QED BY <1>0, <3>1 DEF Drained
  <2> QED BY <2>1, <2>2
<1>7. Joined' /\ VerdictKept'
  BY <1>0, <1>1 DEF Joined, VerdictKept, TypeOK
<1> QED BY <1>3, <1>4, <1>5, <1>6, <1>7 DEF IndInv

LEMMA LockPreserves ==
    ASSUME IndInv, NEW s \in Stream, Lock(s)
    PROVE  IndInv'
<1>0. TypeOK /\ WriterHolds /\ Accounted /\ Drained /\ Joined /\ VerdictKept
  BY DEF IndInv
<1>1. /\ pc[s] = "lock" /\ mutex = "free" /\ mutex' = s /\ pc' = [pc EXCEPT ![s] = "write"]
      /\ UNCHANGED <<program, rest, line, eof, closed, main, written, copied, result, exitCode>>
  BY DEF Lock
<1>2. TypeOK'
  BY <1>0, <1>1 DEF TypeOK
<1>3. WriterHolds'
  BY <1>0, <1>1 DEF WriterHolds, TypeOK, Stream
<1>4. Accounted' /\ Joined' /\ VerdictKept'
  BY <1>0, <1>1 DEF Accounted, Joined, VerdictKept, TypeOK
<1>5. Drained'
  BY <1>0, <1>1 DEF Drained, TypeOK
<1> QED BY <1>2, <1>3, <1>4, <1>5 DEF IndInv

LEMMA WriteLinePreserves ==
    ASSUME IndInv, NEW s \in Stream, WriteLine(s)
    PROVE  IndInv'
<1>0. TypeOK /\ WriterHolds /\ Accounted /\ Drained /\ Joined /\ VerdictKept
  BY DEF IndInv
<1>1. /\ pc[s] = "write" /\ mutex' = "free"
      /\ pc' = [pc EXCEPT ![s] = IF eof[s] THEN "done" ELSE "read"]
      /\ written' = Append(written, line[s])
      /\ copied' = [copied EXCEPT ![s] = copied[s] \o line[s]]
      /\ line' = [line EXCEPT ![s] = <<>>]
      /\ UNCHANGED <<program, rest, eof, closed, main, result, exitCode>>
  BY DEF WriteLine
<1>2. /\ copied[s] \in Seq(Token) /\ rest[s] \in Seq(Token) /\ line[s] \in Seq(Token)
      /\ <<>> \in Seq(Token) /\ written \in Seq(Seq(Token))
  BY <1>0 DEF TypeOK
<1>3. /\ Append(written, line[s]) \in Seq(Seq(Token))
      /\ copied[s] \o line[s] \in Seq(Token)
  BY <1>2, AppendProperties, EmptyEnds
<1>4. mutex = s
  BY <1>0, <1>1 DEF WriterHolds
<1>5. TypeOK'
  BY <1>0, <1>1, <1>2, <1>3 DEF TypeOK, Stream
<1>6. Accounted'
  <2> SUFFICES ASSUME NEW t \in Stream
               PROVE  copied'[t] \o line'[t] \o rest'[t] = program'[t]
    BY DEF Accounted
  <2>1. copied[t] \o line[t] \o rest[t] = program[t]
    BY <1>0 DEF Accounted
  <2>2. CASE t = s
    <3>1. copied'[s] = copied[s] \o line[s] /\ line'[s] = <<>>
      BY <1>0, <1>1 DEF TypeOK
    <3>2. copied[s] \o line[s] \o <<>> = copied[s] \o line[s]
      BY <1>2, EmptyEnds
    <3> QED BY <1>1, <2>1, <2>2, <3>1, <3>2
  <2>3. CASE t # s
    <3>1. copied'[t] = copied[t] /\ line'[t] = line[t]
      BY <1>0, <1>1, <2>3 DEF TypeOK
    <3> QED BY <1>1, <2>1, <3>1
  <2> QED BY <2>2, <2>3
<1>7. WriterHolds'
  BY <1>0, <1>1, <1>4 DEF WriterHolds, TypeOK
<1>8. Drained'
  <2> SUFFICES ASSUME NEW t \in Stream
               PROVE  /\ pc'[t] \in {"read", "done"} => line'[t] = <<>>
                      /\ eof'[t] => rest'[t] = <<>>
                      /\ pc'[t] = "done" => eof'[t]
    BY DEF Drained
  <2>1. CASE t = s
    <3>1. line'[t] = <<>> /\ pc'[t] = IF eof[t] THEN "done" ELSE "read"
      BY <1>0, <1>1, <2>1 DEF TypeOK
    <3> QED BY <1>0, <1>1, <3>1 DEF Drained
  <2>2. CASE t # s
    <3>1. line'[t] = line[t] /\ pc'[t] = pc[t]
      BY <1>0, <1>1, <2>2 DEF TypeOK
    <3> QED BY <1>0, <1>1, <3>1 DEF Drained
  <2> QED BY <2>1, <2>2
<1>9. Joined' /\ VerdictKept'
  BY <1>0, <1>1 DEF Joined, VerdictKept, TypeOK
<1> QED BY <1>5, <1>6, <1>7, <1>8, <1>9 DEF IndInv

\* A step of Wrap touches neither goroutine.
LEMMA WrapPreserves ==
    ASSUME IndInv, Wrap
    PROVE  IndInv'
<1>0. TypeOK /\ WriterHolds /\ Accounted /\ Drained /\ Joined /\ VerdictKept
  BY DEF IndInv
<1>1. UNCHANGED <<program, rest, line, eof, pc, mutex, copied>>
  BY DEF Wrap, RunReturns, CloseErrW, CloseOutW, Wait, ForceFail, CloseConverter, WriteReport,
         TestMainExit
<1>2. WriterHolds' /\ Accounted' /\ Drained'
  BY <1>0, <1>1 DEF WriterHolds, Accounted, Drained
<1>3. TypeOK' /\ Joined' /\ VerdictKept'
  <2>1. CASE RunReturns
    BY <1>0, <2>1 DEF RunReturns, TypeOK, Joined, VerdictKept
  <2>2. CASE CloseErrW
    <3>1. /\ UNCHANGED <<program, rest, line, eof, pc, mutex, written, copied, result, exitCode>>
          /\ main' \in {"closeOut", "wait"}
      BY <2>2 DEF CloseErrW
    <3>2. closed' \in [Stream -> BOOLEAN] BY <1>0, <2>2 DEF CloseErrW, TypeOK
    <3>3. TypeOK' BY <1>0, <3>1, <3>2 DEF TypeOK
    <3> QED BY <3>1, <3>3 DEF Joined, VerdictKept
  <2>3. CASE CloseOutW
    <3>1. /\ UNCHANGED <<program, rest, line, eof, pc, mutex, written, copied, result, exitCode>>
          /\ main' \in {"closeOut", "wait"}
      BY <2>3 DEF CloseOutW
    <3>2. closed' \in [Stream -> BOOLEAN] BY <1>0, <2>3 DEF CloseOutW, TypeOK
    <3>3. TypeOK' BY <1>0, <3>1, <3>2 DEF TypeOK
    <3> QED BY <3>1, <3>3 DEF Joined, VerdictKept
  <2>4. CASE Wait
    BY <1>0, <2>4 DEF Wait, TypeOK, Joined, VerdictKept
  <2>5. CASE ForceFail
    <3>1. written \o Forced \in Seq(Seq(Token))
      BY <1>0, ProgramAssumption, ConcatProperties DEF TypeOK
    <3> QED BY <1>0, <2>5, <3>1 DEF ForceFail, TypeOK, Joined, VerdictKept
  <2>6. CASE CloseConverter
    BY <1>0, <2>6 DEF CloseConverter, TypeOK, Joined, VerdictKept
  <2>7. CASE WriteReport
    <3>1. program.exit \in Exit
      BY <1>0 DEF TypeOK
    <3>2. ChildError \in {"nil", "exitError", "error"} /\ (ChildError = "nil" => program.exit = "ok")
      BY <3>1 DEF ChildError, Exit
    <3>3. result' \in {"nil", "exitError", "error"} /\ (result' = "nil" => program.exit = "ok")
      BY <2>7, <3>2 DEF WriteReport
    <3> QED BY <1>0, <2>7, <3>3 DEF WriteReport, TypeOK, Joined, VerdictKept
  <2>8. CASE TestMainExit
    <3>1. result \in {"nil", "exitError", "error"}
      BY <1>0 DEF TypeOK
    <3>2. /\ exitCode' \in {0, 1, TestWrapperAbnormalExit, 255}
          /\ exitCode' = 0 => result = "nil"
      BY <2>8, <3>1 DEF TestMainExit, TestWrapperAbnormalExit
    <3> QED BY <1>0, <2>8, <3>2 DEF TestMainExit, TypeOK, Joined, VerdictKept
  <2> QED BY <2>1, <2>2, <2>3, <2>4, <2>5, <2>6, <2>7, <2>8 DEF Wrap
<1> QED BY <1>2, <1>3 DEF IndInv

LEMMA StutterPreserves ==
    ASSUME IndInv, UNCHANGED vars
    PROVE  IndInv'
  BY DEF IndInv, vars, TypeOK, WriterHolds, Accounted, Drained, Joined, VerdictKept

\* The invariant holds in every state of the wrapper.
THEOREM Inductive == Spec => []IndInv
<1>1. Init => IndInv
  BY InitEstablishes
<1>2. IndInv /\ [Next]_vars => IndInv'
  <2> SUFFICES ASSUME IndInv, [Next]_vars PROVE IndInv'
    OBVIOUS
  <2>1. CASE \E s \in Stream : Process(s)
    BY <2>1, ReadLinePreserves, ReadEOFPreserves, LockPreserves, WriteLinePreserves DEF Process
  <2>2. CASE Wrap
    BY <2>2, WrapPreserves
  <2>3. CASE Ended \/ UNCHANGED vars
    BY <2>3, StutterPreserves DEF Ended
  <2> QED BY <2>1, <2>2, <2>3 DEF Next
<1> QED BY <1>1, <1>2, PTL DEF Spec

-----------------------------------------------------------------------------
(* The theorems *)

\* The wrapper's variables keep their types, and the mutex is held only by a goroutine
\* that is about to write.
THEOREM TypeCorrect == Spec => []TypeOK
<1>1. IndInv => TypeOK
  BY DEF IndInv
<1> QED BY <1>1, Inductive, PTL

\* The goroutines of streamMerger and Wrap itself never write to the converter together.
THEOREM SingleWriter == Spec => []OneWriter
<1>1. IndInv => OneWriter
  BY DEF IndInv, OneWriter, WriterHolds, Joined
<1> QED BY <1>1, Inductive, PTL

\* Whatever the child prints, streamMerger passes all of it on, in the order of its
\* stream, before the forced FAIL and before the converter is closed.
THEOREM Intact == Spec => []StreamsIntact
<1>1. IndInv => StreamsIntact
  <2> SUFFICES ASSUME IndInv PROVE StreamsIntact
    OBVIOUS
  <2>1. ASSUME NEW s \in Stream, pc[s] = "done" PROVE copied[s] = program[s]
    <3>1. /\ copied[s] \in Seq(Token) /\ line[s] = <<>> /\ rest[s] = <<>>
          /\ copied[s] \o line[s] \o rest[s] = program[s]
      BY <2>1 DEF IndInv, TypeOK, Drained, Accounted
    <3>2. copied[s] \o <<>> \o <<>> = copied[s]
      BY <3>1, ConcatEmptySeq
    <3> QED BY <3>1, <3>2
  <2> QED BY <2>1 DEF IndInv, StreamsIntact, Accounted, Joined
<1> QED BY <1>1, Inductive, PTL

\* The wrapper exits with 0 only if the child did, whatever becomes of the report.
THEOREM FailureIsKept == Spec => []FailureKept
<1>1. IndInv => FailureKept
  BY DEF IndInv, FailureKept, VerdictKept
<1> QED BY <1>1, Inductive, PTL

-----------------------------------------------------------------------------
(* Part two: test recompilation *)

Distinct(s) == \A m, n \in DOMAIN s : s[m] = s[n] => m = n

Seen == DOMAIN deps_pushed
Done == Range(dep_list)

\* The dependents of c that have not been told of its end.
Pending(c) ==
    IF c \in Done THEN IF phase = "notify" /\ c = label THEN todo ELSE <<>>
    ELSE IF c \in Seen THEN dependents[c] ELSE <<>>

\* The archives that l waits for.
Waiting(l) == {c \in Label : l \in Range(Pending(c))}

RecompileTypeOK ==
    /\ input \in Inputs /\ label \in Label
    /\ todo \in Seq(Label) /\ external \in Seq(Label) /\ stack \in Seq(Label) /\ dep_list \in Seq(Label)
    /\ Seen \subseteq Label /\ DOMAIN dependents = Seen
    /\ \A l \in Seen : deps_pushed[l] \in {-1} \cup Nat /\ dependents[l] \in Seq(Label)

\* What is on the stack, and what a count of zero means.
Ready ==
    /\ Distinct(stack)
    /\ \A l \in Range(stack) : l \in Seen /\ l \notin Done /\ deps_pushed[l] \in {-1, 0}
    /\ \A l \in Done : l \in Seen /\ deps_pushed[l] = 0
    /\ \A l \in Seen : deps_pushed[l] = 0 => l \in Done \/ l \in Range(stack) \/ (phase = "push" /\ l = label)
    /\ \A m, n \in DOMAIN stack : m < n /\ deps_pushed[stack[m]] = 0 => deps_pushed[stack[n]] = 0

\* The counts: how many archives will tell l of their end; and none is forgotten.
Counts ==
    /\ \A c \in Label : Distinct(Pending(c)) /\ \A l \in Range(Pending(c)) : l \in Seen /\ deps_pushed[l] # -1
    /\ \A l \in Seen : deps_pushed[l] # -1 =>
          /\ deps_pushed[l] = Cardinality(Waiting(l))
          /\ \A c \in Range(Deps(l)) : c \in Done \/ c \in Waiting(l) \/ (phase = "push" /\ l = label /\ c \in Range(todo))

\* The archive that is being expanded.
Pushing ==
    /\ label \in Seen /\ label \notin Range(stack) /\ label \notin Done /\ deps_pushed[label] # -1
    /\ \A l \in Range(stack) : deps_pushed[l] = -1
    /\ Distinct(todo) /\ Range(todo) \subseteq Range(Deps(label))
    /\ \A c \in Range(todo) : label \notin Range(Pending(c))

Searching == phase \in {"step", "notify", "push"}

Inv ==
    /\ RecompileTypeOK /\ AfterDeps
    /\ Distinct(external) /\ (phase = "external" => dep_list = <<>>)
    /\ phase = "external" => \A m, n \in DOMAIN external : input.path[external[m]] = input.path[external[n]] => m = n
    /\ Searching => Ready /\ Counts
    /\ phase = "push" => Pushing
    /\ phase = "notify" => label \in Done

-----------------------------------------------------------------------------
(* The end of the search and the loops over its list *)

\* The dependencies of the internal archive come first, so that all of them are kept.
Collected ==
    /\ i = 0
    /\ todo # <<>> => todo[Len(todo)] = Test /\ \A n \in 1..(Len(todo) - 1) : todo[n] \in Range(Direct)
    /\ Test \in Range(external) => todo = <<>>
    /\ Range(external) \subseteq Range(Direct) \cup {Test}
    /\ Range(Direct) \subseteq Range(external) \cup Range(todo)

\* The archives whose dependencies were looked at.
Expanded == {l \in Seen : deps_pushed[l] # -1}

\* What the search has reached. It has made a step for every archive that was expanded and for
\* every one that was finished.
Reached ==
    /\ arc_data_list = Transitive(Range(external))
    /\ Range(external) \subseteq Seen /\ Seen \subseteq arc_data_list
    /\ \A l \in Seen : deps_pushed[l] = -1 => l \in Range(stack)
    /\ \A c \in Label : \A l \in Range(Pending(c)) : c \in Range(Deps(l))
    /\ i = Cardinality(Expanded) + Cardinality(Done)

\* A loop over dep_list, of which todo is left, has put the archives that it looked at in a dictionary.
Loop(keys) ==
    \E k \in 0..Len(dep_list) :
        /\ Len(todo) = Len(dep_list) - k
        /\ \A n \in 1..Len(todo) : todo[n] = dep_list[k + n]
        /\ \A n \in 1..k : dep_list[n] \in keys

EndInv ==
    /\ phase # "failed"
    /\ phase = "external" => Collected
    /\ phase # "external" => Range(Direct) \subseteq Range(external)
    /\ Searching => Reached
    /\ phase \in {"need", "archives"} => Done = arc_data_list /\ Range(external) \subseteq arc_data_list
    /\ phase = "need" => Loop(DOMAIN need_recompile)
    /\ phase = "archives" => Loop(DOMAIN label_to_archive)

-----------------------------------------------------------------------------
(* Sequences *)

\* A sequence with one element more.
LEMMA Appended ==
  ASSUME NEW s \in Seq(Label), NEW x \in Label
  PROVE  /\ Append(s, x) \in Seq(Label)
         /\ Range(Append(s, x)) = Range(s) \cup {x}
         /\ Distinct(s) /\ x \notin Range(s) => Distinct(Append(s, x))
         /\ Len(Append(s, x)) = Len(s) + 1 /\ Append(s, x)[Len(s) + 1] = x
         /\ \A n \in 1..Len(s) : Append(s, x)[n] = s[n]
         /\ DOMAIN Append(s, x) = 1..(Len(s) + 1) /\ DOMAIN s = 1..Len(s)
  BY DEF Range, Distinct

\* A sequence without its first element.
LEMMA Behead ==
  ASSUME NEW s \in Seq(Label), s # <<>>
  PROVE  /\ Head(s) \in Label /\ Tail(s) \in Seq(Label)
         /\ Range(s) = Range(Tail(s)) \cup {Head(s)}
         /\ Distinct(s) => Distinct(Tail(s)) /\ Head(s) \notin Range(Tail(s))
  <1>1. Len(s) \in Nat \ {0} /\ DOMAIN s = 1..Len(s) /\ Head(s) = s[1] /\ Tail(s) \in Seq(Label)
        /\ Len(Tail(s)) = Len(s) - 1 /\ DOMAIN Tail(s) = 1..(Len(s) - 1)
        /\ \A n \in 1..(Len(s) - 1) : Tail(s)[n] = s[n + 1]
    OBVIOUS
  <1>2. \A n \in 2..Len(s) : n - 1 \in 1..(Len(s) - 1) /\ Tail(s)[n - 1] = s[n]
    BY <1>1
  <1>3. Range(s) = Range(Tail(s)) \cup {Head(s)}
    <2>1. ASSUME NEW n \in 1..Len(s) PROVE s[n] \in Range(Tail(s)) \cup {Head(s)}
      <3>1. CASE n = 1 BY <3>1, <1>1
      <3>2. CASE n # 1
        <4>1. n - 1 \in DOMAIN Tail(s) /\ Tail(s)[n - 1] = s[n] BY <3>2, <1>1, <1>2
        <4> QED BY <4>1 DEF Range
      <3> QED BY <3>1, <3>2
    <2>2. ASSUME NEW n \in 1..(Len(s) - 1) PROVE Tail(s)[n] \in Range(s)
      <3>1. n + 1 \in DOMAIN s /\ Tail(s)[n] = s[n + 1] BY <1>1
      <3> QED BY <3>1 DEF Range
    <2>3. Head(s) \in Range(s)
      <3>1. 1 \in DOMAIN s /\ Head(s) = s[1] BY <1>1
      <3> QED BY <3>1 DEF Range
    <2> QED BY <2>1, <2>2, <2>3, <1>1 DEF Range
  <1>4. Distinct(s) => Distinct(Tail(s)) /\ Head(s) \notin Range(Tail(s))
    BY <1>1 DEF Range, Distinct
  <1> QED BY <1>1, <1>3, <1>4

\* The stack without its top.
LEMMA Popped ==
  ASSUME stack \in Seq(Label), stack # <<>>
  PROVE  /\ Top \in Label /\ Pop \in Seq(Label)
         /\ Range(stack) = Range(Pop) \cup {Top}
         /\ Distinct(stack) => Distinct(Pop) /\ Top \notin Range(Pop)
         /\ Len(stack) \in DOMAIN stack /\ DOMAIN Pop = 1..(Len(stack) - 1)
         /\ \A n \in DOMAIN Pop : n \in DOMAIN stack /\ n < Len(stack) /\ Pop[n] = stack[n]
  <1>1. Len(stack) \in Nat \ {0} /\ DOMAIN stack = 1..Len(stack)
        /\ Pop \in Seq(Label) /\ DOMAIN Pop = 1..(Len(stack) - 1)
        /\ \A n \in 1..(Len(stack) - 1) : Pop[n] = stack[n]
    BY DEF Pop
  <1> QED BY <1>1 DEF Range, Distinct, Top

\* What the assumption says of a list of dependencies.
LEMMA Dependencies ==
  ASSUME input \in Inputs, NEW l \in Label
  PROVE  /\ Deps(l) \in Seq(Label) /\ Distinct(Deps(l)) /\ l \notin Range(Deps(l))
         /\ Range(Deps(l)) \subseteq Label
  <1>1. IsInput(input) BY InputAssumption
  <1>2. Deps(l) \in Seq(Label) BY <1>1 DEF IsInput, Deps
  <1>3. Distinct(Deps(l)) BY <1>1 DEF IsInput, Deps, Distinct
  <1>4. l \notin Range(Deps(l))
    <2>1. \A S \in SUBSET Label : S # {} => \E k \in S : Range(input.deps[k]) \cap S = {} BY <1>1 DEF IsInput
    <2>2. \E k \in {l} : Range(input.deps[k]) \cap {l} = {} BY <2>1
    <2> QED BY <2>2 DEF Deps
  <1>5. Range(Deps(l)) \subseteq Label BY <1>2 DEF Range
  <1> QED BY <1>2, <1>3, <1>4, <1>5

\* A label waits for finitely many.
LEMMA FiniteWaiting ==
  ASSUME NEW l
  PROVE  IsFiniteSet(Waiting(l)) /\ Cardinality(Waiting(l)) \in Nat
  <1>1. IsFiniteSet(Label) BY InputAssumption
  <1>2. Waiting(l) \in SUBSET Label BY DEF Waiting
  <1> QED BY <1>1, <1>2, FS_Subset, FS_CardinalityType

-----------------------------------------------------------------------------
(* Before the search *)

\* Nothing is seen and nothing finished before the first step.
LEMMA Initially ==
  ASSUME RecompileInit
  PROVE  Inv
  <1> USE DEF RecompileInit
  <1>1. Test \in Label BY InputAssumption
  <1>2. Direct \in Seq(Label) BY <1>1, Dependencies DEF Direct
  <1>3. todo \in Seq(Label) BY <1>1, <1>2, Appended
  <1>4. RecompileTypeOK BY <1>1, <1>3 DEF RecompileTypeOK, Seen, EmptyDict
  <1>5. AfterDeps BY DEF AfterDeps
  <1> QED BY <1>4, <1>5 DEF Inv, Distinct, Searching

\* The external archive has one dependency of a path.
LEMMA Collecting ==
  ASSUME Inv, DedupArchives
  PROVE  Inv'
  <1> USE DEF Inv, DedupArchives
  <1>1. Head(todo) \in Label /\ Tail(todo) \in Seq(Label) BY Behead DEF RecompileTypeOK
  <1>2. UNCHANGED <<stack, deps_pushed, dependents, dep_list, i, label>> BY DEF search
  <1>3. external \in Seq(Label) BY DEF RecompileTypeOK
  <1>4. external' \in Seq(Label) BY <1>1, <1>3, Appended
  <1>5. RecompileTypeOK' BY <1>1, <1>2, <1>4 DEF RecompileTypeOK, Seen
  <1>6. AfterDeps' BY <1>2 DEF AfterDeps, Deps
  <1>7. (\A m, n \in DOMAIN external : input.path[external[m]] = input.path[external[n]] => m = n)'
    <2>1. CASE \E l \in Range(external) : input.path[l] = input.path[Head(todo)] BY <2>1
    <2>2. CASE ~\E l \in Range(external) : input.path[l] = input.path[Head(todo)]
      <3>1. external' = Append(external, Head(todo)) BY <2>2
      <3>2. DOMAIN external' = 1..(Len(external) + 1) /\ DOMAIN external = 1..Len(external)
            /\ Len(external) \in Nat
            /\ external'[Len(external) + 1] = Head(todo)
            /\ \A n \in 1..Len(external) : external'[n] = external[n]
        BY <1>1, <1>3, <3>1, Appended
      <3>3. \A n \in 1..Len(external) : input.path[external[n]] # input.path[Head(todo)]
        BY <2>2, <3>2 DEF Range
      <3> QED BY <3>2, <3>3
    <2> QED BY <2>1, <2>2
  <1>8. Distinct(external)' BY <1>7 DEF Distinct
  <1> QED BY <1>2, <1>5, <1>6, <1>7, <1>8 DEF Searching

\* The search starts with the dependencies of the external archive on the stack.
LEMMA Starting ==
  ASSUME Inv, StartSearch
  PROVE  Inv'
  <1> USE DEF Inv, StartSearch
  <1>1. external \in Seq(Label) /\ Range(external) \subseteq Label BY DEF RecompileTypeOK, Range
  <1>2. dep_list = <<>> /\ Done' = {} BY DEF Done, Range
  <1>3. Seen' = Range(external) BY DEF Seen
  <1>4. \A l \in Seen' : deps_pushed'[l] = -1 /\ dependents'[l] = <<>> BY <1>3
  <1>5. RecompileTypeOK' BY <1>1, <1>3, <1>4 DEF RecompileTypeOK, Seen
  <1>6. AfterDeps' BY <1>2 DEF AfterDeps
  <1>7. Ready' BY <1>2, <1>3, <1>4 DEF Ready, Distinct, Range
  <1>8. \A c \in Label : Pending(c)' = <<>> BY <1>2, <1>4 DEF Pending
  <1>9. Counts'
    <2>1. \A c \in Label : Distinct(Pending(c)') /\ Range(Pending(c)') = {} BY <1>8 DEF Distinct, Range
    <2>2. \A l \in Seen' : deps_pushed'[l] = -1 BY <1>4
    <2> QED BY <2>1, <2>2 DEF Counts, Distinct, Range
  <1> QED BY <1>5, <1>6, <1>7, <1>9 DEF Searching

-----------------------------------------------------------------------------
(* The search *)

\* A list keeps its order when nothing is appended to it.
LEMMA SameList ==
  ASSUME AfterDeps, UNCHANGED <<input, dep_list>>
  PROVE  AfterDeps'
  BY DEF AfterDeps, Deps

\* Nothing waits for what does not pass on its end.
LEMMA SameWaiting ==
  ASSUME \A c \in Label : Pending(c)' = Pending(c)
  PROVE  \A l : Waiting(l)' = Waiting(l)
  BY DEF Waiting, Range

\* An archive that has no end to wait for has all of its dependencies in the list, so that it
\* may follow them.
LEMMA Finishing ==
  ASSUME Inv, Finish
  PROVE  Inv'
  <1> USE DEF Finish, Step
  <1>0. RecompileTypeOK /\ AfterDeps /\ Ready /\ Counts /\ phase = "step" BY DEF Inv, Searching
  <1>1. /\ Top \in Label /\ Pop \in Seq(Label) /\ Range(stack) = Range(Pop) \cup {Top}
        /\ Distinct(Pop) /\ Top \notin Range(Pop)
        /\ \A n \in DOMAIN Pop : n \in DOMAIN stack /\ Pop[n] = stack[n]
    BY <1>0, Popped DEF RecompileTypeOK, Ready
  <1>2. Top \in Seen /\ Top \notin Done /\ deps_pushed[Top] = 0 BY <1>0, <1>1 DEF Ready
  <1>3. Waiting(Top) = {}
    <2>1. Cardinality(Waiting(Top)) = 0 BY <1>0, <1>2 DEF Counts
    <2> QED BY <2>1, FiniteWaiting, FS_EmptySet
  <1>4. \A d \in Range(Deps(Top)) : d \in Done BY <1>0, <1>2, <1>3 DEF Counts
  <1>5. /\ dep_list \in Seq(Label) /\ dep_list' = Append(dep_list, Top) /\ dep_list' \in Seq(Label)
        /\ Done' = Done \cup {Top}
        /\ Len(dep_list) \in Nat /\ dep_list'[Len(dep_list) + 1] = Top
        /\ \A n \in 1..Len(dep_list) : dep_list'[n] = dep_list[n]
        /\ DOMAIN dep_list' = 1..(Len(dep_list) + 1) /\ DOMAIN dep_list = 1..Len(dep_list)
    BY <1>0, <1>1, Appended DEF RecompileTypeOK, Done
  <1>6. AfterDeps'
    <2> SUFFICES ASSUME NEW n \in 1..(Len(dep_list) + 1)
                 PROVE  /\ \A m \in 1..(n - 1) : dep_list'[m] # dep_list'[n]
                        /\ \A d \in Range(Deps(dep_list'[n])) : \E m \in 1..(n - 1) : dep_list'[m] = d
      BY <1>5 DEF AfterDeps, Deps
    <2>1. CASE n = Len(dep_list) + 1
      <3>1. \A m \in 1..Len(dep_list) : dep_list[m] # Top BY <1>2, <1>5 DEF Done, Range
      <3>2. \A d \in Range(Deps(Top)) : \E m \in 1..Len(dep_list) : dep_list[m] = d
        BY <1>4, <1>5 DEF Done, Range
      <3>3. 1..(n - 1) = 1..Len(dep_list) /\ dep_list'[n] = Top BY <2>1, <1>5
      <3>4. \A m \in 1..(n - 1) : dep_list'[m] = dep_list[m] BY <3>3, <1>5
      <3> QED BY <3>1, <3>2, <3>3, <3>4
    <2>2. CASE n \in 1..Len(dep_list)
      <3>1. /\ \A m \in 1..(n - 1) : dep_list[m] # dep_list[n]
            /\ \A d \in Range(Deps(dep_list[n])) : \E m \in 1..(n - 1) : dep_list[m] = d
        BY <1>0, <2>2, <1>5 DEF AfterDeps
      <3>2. dep_list'[n] = dep_list[n] /\ \A m \in 1..(n - 1) : dep_list'[m] = dep_list[m] BY <2>2, <1>5
      <3> QED BY <3>1, <3>2
    <2>3. n = Len(dep_list) + 1 \/ n \in 1..Len(dep_list) BY <1>5
    <2> QED BY <2>1, <2>2, <2>3
  <1>7. UNCHANGED <<deps_pushed, dependents, external, input>> /\ Seen' = Seen /\ phase' = "notify"
        /\ label' = Top /\ stack' = Pop /\ todo' = dependents[Top]
    BY DEF Seen
  <1>8. RecompileTypeOK' BY <1>0, <1>1, <1>2, <1>5, <1>7 DEF RecompileTypeOK
  <1>9. \A c \in Label : Pending(c)' = Pending(c)
    BY <1>0, <1>2, <1>5, <1>7 DEF Pending
  <1>10. \A l : Waiting(l)' = Waiting(l) BY <1>9, SameWaiting
  <1>11. Ready'
    <2>1. Distinct(stack)' BY <1>1, <1>7 DEF Distinct
    <2>2. \A l \in Range(Pop) : l \in Seen /\ l \notin Done' /\ deps_pushed[l] \in {-1, 0}
      BY <1>0, <1>1, <1>5 DEF Ready
    <2>3. \A l \in Done' : l \in Seen /\ deps_pushed[l] = 0 BY <1>0, <1>2, <1>5 DEF Ready
    <2>4. \A l \in Seen : deps_pushed[l] = 0 => l \in Done' \/ l \in Range(Pop)
      BY <1>0, <1>1, <1>5 DEF Ready
    <2>5. \A m, n \in DOMAIN Pop : m < n /\ deps_pushed[Pop[m]] = 0 => deps_pushed[Pop[n]] = 0
      BY <1>0, <1>1 DEF Ready
    <2> QED BY <2>1, <2>2, <2>3, <2>4, <2>5, <1>7 DEF Ready, Range
  <1>12. Counts'
    <2>1. \A c \in Label : Distinct(Pending(c))' /\ \A l \in Range(Pending(c)') : l \in Seen /\ deps_pushed[l] # -1
      BY <1>0, <1>9 DEF Counts, Distinct
    <2>2. \A l \in Seen : deps_pushed[l] # -1 =>
             /\ deps_pushed[l] = Cardinality(Waiting(l)')
             /\ \A c \in Range(Deps(l)) : c \in Done' \/ c \in Waiting(l)'
      BY <1>0, <1>5, <1>10 DEF Counts
    <2> QED BY <2>1, <2>2, <1>7 DEF Counts, Deps, Range
  <1> QED BY <1>5, <1>6, <1>7, <1>8, <1>11, <1>12 DEF Inv, Searching, Distinct

\* A dependent that is told of the end of label has waited for it, and been told by no one twice.
LEMMA DependentWaits ==
  ASSUME Inv, NotifyDependent, NEW p, p = Head(todo)
  PROVE  /\ p \in Label /\ Tail(todo) \in Seq(Label) /\ Range(todo) = Range(Tail(todo)) \cup {p}
         /\ Distinct(Tail(todo)) /\ p \notin Range(Tail(todo))
         /\ label \in Label /\ label \in Done /\ Pending(label) = todo /\ label \in Waiting(p)
         /\ p \in Seen /\ deps_pushed[p] = Cardinality(Waiting(p)) /\ deps_pushed[p] \in Nat \ {0}
  <1>0. RecompileTypeOK /\ Counts /\ phase = "notify" /\ label \in Done /\ todo # <<>>
    BY DEF Inv, Searching, NotifyDependent
  <1>1. /\ p \in Label /\ Tail(todo) \in Seq(Label) /\ Range(todo) = Range(Tail(todo)) \cup {p}
        /\ Distinct(todo) => Distinct(Tail(todo)) /\ p \notin Range(Tail(todo))
    BY <1>0, Behead DEF RecompileTypeOK
  <1>2. label \in Label /\ Pending(label) = todo BY <1>0 DEF Pending, RecompileTypeOK
  <1>3. Distinct(todo) /\ p \in Seen /\ deps_pushed[p] # -1 BY <1>0, <1>1, <1>2 DEF Counts
  <1>4. label \in Waiting(p) BY <1>1, <1>2 DEF Waiting
  <1>5. deps_pushed[p] = Cardinality(Waiting(p)) BY <1>0, <1>3 DEF Counts
  <1>6. Cardinality(Waiting(p)) # 0 BY <1>4, FiniteWaiting, FS_EmptySet
  <1> QED BY <1>0, <1>1, <1>2, <1>3, <1>4, <1>5, <1>6, FiniteWaiting

\* A dependent is told of the end of label once, and goes on the stack after the last of its
\* dependencies.
LEMMA Notifying ==
  ASSUME Inv, NotifyDependent
  PROVE  Inv'
  <1>p. PICK p : p = Head(todo) OBVIOUS
  <1>1. /\ p \in Label /\ Tail(todo) \in Seq(Label) /\ Range(todo) = Range(Tail(todo)) \cup {p}
        /\ Distinct(Tail(todo)) /\ p \notin Range(Tail(todo))
    BY <1>p, DependentWaits
  <1>2. Pending(label) = todo BY <1>p, DependentWaits
  <1>3. label \in Label BY <1>p, DependentWaits
  <1>4. p \in Seen BY <1>p, DependentWaits
  <1>5. label \in Waiting(p) BY <1>p, DependentWaits
  <1>6. deps_pushed[p] = Cardinality(Waiting(p)) /\ deps_pushed[p] \in Nat \ {0} BY <1>p, DependentWaits
  <1> USE DEF NotifyDependent
  <1>0. RecompileTypeOK /\ AfterDeps /\ Ready /\ Counts /\ phase = "notify" /\ label \in Done BY DEF Inv, Searching
  <1>7. p \notin Done /\ p \notin Range(stack) BY <1>0, <1>6 DEF Ready
  <1>8. /\ UNCHANGED <<input, phase, external, dependents, dep_list, label>>
        /\ Seen' = Seen /\ Done' = Done /\ todo' = Tail(todo)
        /\ deps_pushed'[p] = deps_pushed[p] - 1
        /\ \A l \in Seen : l # p => deps_pushed'[l] = deps_pushed[l]
    <2>1. deps_pushed' = [deps_pushed EXCEPT ![p] = @ - 1] BY <1>p
    <2>2. UNCHANGED <<input, phase, external, dependents, dep_list, label>> OBVIOUS
    <2> QED BY <2>1, <2>2, <1>4 DEF Seen, Done, Range
  <1>9. \/ deps_pushed'[p] = 0 /\ stack' = Append(stack, p)
        \/ deps_pushed'[p] \in Nat \ {0} /\ stack' = stack
    BY <1>p, <1>6, <1>8
  <1>10. stack \in Seq(Label) BY <1>0 DEF RecompileTypeOK
  <1>11. stack' \in Seq(Label) BY <1>9, <1>10, <1>1, Appended
  <1>12. RecompileTypeOK' BY <1>0, <1>1, <1>6, <1>8, <1>11 DEF RecompileTypeOK
  <1>13. Ready'
    <2>1. \A l \in Seen : l # p => deps_pushed'[l] = deps_pushed[l] BY <1>8
    <2>2. CASE deps_pushed'[p] # 0
      <3>1. stack' = stack BY <2>2, <1>9
      <3>2. Distinct(stack)' BY <3>1, <1>0 DEF Ready, Distinct
      <3>3. \A m \in DOMAIN stack : stack[m] \in Range(stack) /\ stack[m] \in Seen /\ stack[m] # p
        BY <1>0, <1>7 DEF Ready, Range
      <3>4. (\A m, n \in DOMAIN stack : m < n /\ deps_pushed[stack[m]] = 0 => deps_pushed[stack[n]] = 0)'
        BY <3>1, <3>3, <1>0, <1>8 DEF Ready
      <3>5. /\ \A l \in Range(stack) : l \in Seen /\ l \notin Done /\ deps_pushed'[l] \in {-1, 0}
            /\ \A l \in Done : l \in Seen /\ deps_pushed'[l] = 0
            /\ \A l \in Seen : deps_pushed'[l] = 0 => l \in Done \/ l \in Range(stack)
        BY <2>2, <1>0, <1>7, <1>8 DEF Ready
      <3> QED BY <3>1, <3>2, <3>4, <3>5, <1>8 DEF Ready, Range
    <2>3. CASE deps_pushed'[p] = 0
      <3>1. stack' = Append(stack, p) BY <2>3, <1>9
      <3>2. /\ Distinct(Append(stack, p)) /\ Range(Append(stack, p)) = Range(stack) \cup {p}
            /\ DOMAIN Append(stack, p) = 1..(Len(stack) + 1) /\ DOMAIN stack = 1..Len(stack)
            /\ Append(stack, p)[Len(stack) + 1] = p
            /\ \A n \in 1..Len(stack) : Append(stack, p)[n] = stack[n]
            /\ Len(stack) \in Nat
        BY <1>0, <1>1, <1>7, <1>10, Appended DEF Ready
      <3>3. Distinct(stack)' BY <3>1, <3>2 DEF Distinct
      <3>4. \A m \in 1..Len(stack) : stack[m] \in Range(stack) /\ stack[m] \in Seen /\ stack[m] # p
        BY <1>0, <1>7, <3>2 DEF Ready, Range
      <3>5. \A m, n \in 1..(Len(stack) + 1) :
              m < n /\ deps_pushed'[Append(stack, p)[m]] = 0 => deps_pushed'[Append(stack, p)[n]] = 0
        <4> SUFFICES ASSUME NEW m \in 1..(Len(stack) + 1), NEW n \in 1..(Len(stack) + 1),
                            m < n, deps_pushed'[Append(stack, p)[m]] = 0
                     PROVE  deps_pushed'[Append(stack, p)[n]] = 0
          OBVIOUS
        <4> HIDE DEF NotifyDependent
        <4>1. CASE n = Len(stack) + 1 BY <4>1, <3>2, <2>3
        <4>2. CASE n # Len(stack) + 1
          <5>0. Len(stack) \in Nat BY <3>2
          <5>1. m \in 1..Len(stack) /\ n \in 1..Len(stack)
            <6>1. n \in 1..Len(stack) BY <4>2, <5>0
            <6> QED BY <6>1, <5>0
          <5>2. deps_pushed[stack[m]] = 0 BY <5>1, <3>2, <3>4, <1>8
          <5>3. deps_pushed[stack[n]] = 0 BY <5>1, <5>2, <3>2, <1>0 DEF Ready
          <5> QED BY <5>1, <5>3, <3>2, <3>4, <1>8
        <4> QED BY <4>1, <4>2
      <3>6. /\ \A l \in Range(stack) \cup {p} : l \in Seen /\ l \notin Done /\ deps_pushed'[l] \in {-1, 0}
            /\ \A l \in Done : l \in Seen /\ deps_pushed'[l] = 0
            /\ \A l \in Seen : deps_pushed'[l] = 0 => l \in Done \/ l \in Range(stack) \cup {p}
        BY <2>3, <1>0, <1>4, <1>7, <1>8 DEF Ready
      <3> HIDE DEF NotifyDependent
      <3> QED BY <3>1, <3>2, <3>3, <3>5, <3>6, <1>8 DEF Ready, Range
    <2> QED BY <2>2, <2>3
  <1>14. Counts'
    <2>1. Pending(label)' = Tail(todo) /\ \A c \in Label : c # label => Pending(c)' = Pending(c)
      BY <1>0, <1>3, <1>8 DEF Pending
    <2>2. \A c \in Label : Distinct(Pending(c)') /\ Range(Pending(c)') \subseteq Range(Pending(c))
      BY <2>1, <1>0, <1>1, <1>2, <1>3, <1>4 DEF Counts
    <2>3. \A l \in Seen : deps_pushed[l] # -1 => deps_pushed'[l] # -1 BY <1>6, <1>8
    <2>4. Waiting(p)' = Waiting(p) \ {label}
      <3>1. Waiting(p)' = {c \in Label : p \in Range(Pending(c)')} BY DEF Waiting, Range
      <3> QED BY <3>1, <2>1, <1>1, <1>2, <1>4 DEF Waiting
    <2>5. ASSUME NEW l, l # p PROVE Waiting(l)' = Waiting(l)
      <3>1. Waiting(l)' = {c \in Label : l \in Range(Pending(c)')} BY DEF Waiting, Range
      <3> QED BY <3>1, <2>1, <2>5, <1>1, <1>2 DEF Waiting
    <2>6. deps_pushed'[p] = Cardinality(Waiting(p) \ {label})
      BY <1>5, <1>6, <1>8, FiniteWaiting, FS_RemoveElement
    <2>7. ASSUME NEW l \in Seen, deps_pushed'[l] # -1
          PROVE  /\ deps_pushed'[l] = Cardinality(Waiting(l)')
                 /\ \A c \in Range(Deps(l)) : c \in Done \/ c \in Waiting(l)'
      <3>1. /\ deps_pushed[l] # -1 => deps_pushed[l] = Cardinality(Waiting(l))
            /\ deps_pushed[l] # -1 => \A c \in Range(Deps(l)) : c \in Done \/ c \in Waiting(l)
        BY <1>0 DEF Counts
      <3>2. CASE l = p BY <3>1, <3>2, <2>4, <2>6, <1>0, <1>6
      <3>3. CASE l # p BY <3>1, <3>3, <2>5, <2>7, <1>8
      <3> QED BY <3>2, <3>3
    <2>8. \A c \in Label : Distinct(Pending(c)') /\ \A l \in Range(Pending(c)') : l \in Seen /\ deps_pushed'[l] # -1
      BY <2>2, <2>3, <1>0 DEF Counts
    <2> HIDE DEF NotifyDependent
    <2> QED BY <2>7, <2>8, <1>8 DEF Counts, Deps, Range, Distinct
  <1>15. AfterDeps' BY <1>0, <1>8, SameList
  <1> QED BY <1>0, <1>8, <1>12, <1>13, <1>14, <1>15 DEF Inv, Searching, Distinct

\* When all of its dependents have been told, a finished archive has none pending.
LEMMA AllNotified ==
  ASSUME Inv, Notified
  PROVE  Inv'
  <1> USE DEF Notified, search
  <1>0. RecompileTypeOK /\ AfterDeps /\ Ready /\ Counts /\ phase = "notify" /\ todo = <<>> /\ phase' = "step"
    BY DEF Inv, Searching
  <1>1. /\ UNCHANGED <<input, todo, external, stack, deps_pushed, dependents, dep_list, label>>
        /\ Seen' = Seen /\ Done' = Done
    BY DEF Seen, Done, Range
  <1>2. \A c \in Label : Pending(c)' = Pending(c) BY <1>0, <1>1 DEF Pending
  <1>3. \A l : Waiting(l)' = Waiting(l) BY <1>2, SameWaiting
  <1>4. RecompileTypeOK' BY <1>0, <1>1 DEF RecompileTypeOK
  <1>5. Ready' BY <1>0, <1>1 DEF Ready, Distinct, Range
  <1>6. Counts'
    <2>1. \A c \in Label : Distinct(Pending(c)') /\ \A l \in Range(Pending(c)') : l \in Seen /\ deps_pushed[l] # -1
      BY <1>0, <1>2 DEF Counts
    <2>2. \A l \in Seen : deps_pushed[l] # -1 =>
            /\ deps_pushed[l] = Cardinality(Waiting(l)')
            /\ \A c \in Range(Deps(l)) : c \in Done \/ c \in Waiting(l)'
      BY <1>0, <1>3 DEF Counts
    <2> QED BY <2>1, <2>2, <1>1 DEF Counts, Deps, Range, Distinct
  <1>7. AfterDeps' BY <1>0, <1>1, SameList
  <1> QED BY <1>0, <1>1, <1>4, <1>5, <1>6, <1>7 DEF Inv, Searching, Distinct

\* An archive is expanded when no archive on the stack is ready to be finished, so that none of
\* its dependencies with the count zero is unfinished.
LEMMA Expanding ==
  ASSUME Inv, Expand
  PROVE  Inv'
  <1> USE DEF Expand, Step
  <1>0. RecompileTypeOK /\ AfterDeps /\ Ready /\ Counts /\ phase = "step" BY DEF Inv, Searching
  <1>1. /\ Top \in Label /\ Pop \in Seq(Label) /\ Range(stack) = Range(Pop) \cup {Top}
        /\ Distinct(Pop) /\ Top \notin Range(Pop)
        /\ \A n \in DOMAIN Pop : n \in DOMAIN stack /\ n < Len(stack) /\ Pop[n] = stack[n]
        /\ Len(stack) \in DOMAIN stack
    BY <1>0, Popped DEF RecompileTypeOK, Ready
  <1>t. PICK t : t = Top OBVIOUS
  <1>2. t \in Label /\ t \in Seen /\ t \notin Done /\ deps_pushed[t] = -1 /\ t \notin Range(Pop)
    BY <1>t, <1>0, <1>1 DEF Ready
  <1>3. \A l \in Range(Pop) : l \in Seen /\ l \notin Done /\ l # t /\ deps_pushed[l] = -1
    <2>1. \A n \in DOMAIN Pop : deps_pushed[stack[n]] # 0
      BY <1>0, <1>1, <1>2, <1>t DEF Ready, Top
    <2>2. \A l \in Range(Pop) : deps_pushed[l] # 0 BY <2>1, <1>1 DEF Range
    <2> QED BY <2>2, <1>0, <1>1, <1>2 DEF Ready
  <1>4. Waiting(t) = {} BY <1>0, <1>2 DEF Counts, Waiting
  <1>5. Deps(t) \in Seq(Label) /\ Distinct(Deps(t)) BY <1>0, <1>2, Dependencies DEF RecompileTypeOK
  <1>6. /\ UNCHANGED <<input, external, dependents, dep_list>>
        /\ Seen' = Seen /\ Done' = Done /\ phase' = "push" /\ label' = t /\ todo' = Deps(t) /\ stack' = Pop
        /\ deps_pushed'[t] = 0 /\ \A l \in Seen : l # t => deps_pushed'[l] = deps_pushed[l]
    <2>1. deps_pushed' = [deps_pushed EXCEPT ![t] = 0] BY <1>t
    <2> QED BY <2>1, <1>2, <1>t DEF Seen, Done, Range
  <1>7. \A c \in Label : Pending(c)' = Pending(c) BY <1>0, <1>6 DEF Pending
  <1>8. \A l : Waiting(l)' = Waiting(l) BY <1>7, SameWaiting
  <1> HIDE DEF Expand, Step
  <1>9. RecompileTypeOK'
    <2>1. \A l \in Seen : deps_pushed'[l] \in {-1} \cup Nat /\ dependents[l] \in Seq(Label)
      BY <1>0, <1>6 DEF RecompileTypeOK
    <2> QED BY <2>1, <1>0, <1>1, <1>2, <1>5, <1>6 DEF RecompileTypeOK
  <1>10. \A l \in Range(Pop) : deps_pushed'[l] = -1 BY <1>3, <1>6
  <1>11. Ready'
    <2>1. Distinct(stack)' BY <1>1, <1>6 DEF Distinct
    <2>2. \A l \in Done : l \in Seen /\ deps_pushed'[l] = 0 BY <1>0, <1>2, <1>6 DEF Ready
    <2>3. \A l \in Seen : deps_pushed'[l] = 0 => l \in Done \/ l = t
      <3> SUFFICES ASSUME NEW l \in Seen, deps_pushed'[l] = 0, l # t PROVE l \in Done OBVIOUS
      <3>1. deps_pushed[l] = 0 BY <1>6
      <3>2. l \in Done \/ l \in Range(stack) BY <3>1, <1>0 DEF Ready
      <3> QED BY <3>1, <3>2, <1>1, <1>3, <1>t
    <2>4. \A m \in DOMAIN Pop : deps_pushed'[Pop[m]] # 0 BY <1>10 DEF Range
    <2> QED BY <2>1, <2>2, <2>3, <2>4, <1>3, <1>6, <1>10 DEF Ready, Range
  <1>12. Counts'
    <2>1. \A c \in Label : Distinct(Pending(c)') /\ \A l \in Range(Pending(c)') : l \in Seen /\ deps_pushed'[l] # -1
      BY <1>0, <1>6, <1>7, <1>2 DEF Counts
    <2>2. ASSUME NEW l \in Seen, deps_pushed'[l] # -1
          PROVE  /\ deps_pushed'[l] = Cardinality(Waiting(l)')
                 /\ \A c \in Range(Deps(l)) : c \in Done \/ c \in Waiting(l)' \/ (l = t /\ c \in Range(Deps(t)))
      <3>1. CASE l = t BY <3>1, <1>4, <1>6, <1>8, FS_EmptySet
      <3>2. CASE l # t BY <3>2, <2>2, <1>0, <1>6, <1>8 DEF Counts
      <3> QED BY <3>1, <3>2
    <2> QED BY <2>1, <2>2, <1>6 DEF Counts, Deps, Range, Distinct
  <1>13. Pushing'
    <2>1. \A c \in Range(Deps(t)) : t \notin Range(Pending(c))
      BY <1>4, <1>5 DEF Waiting, Range
    <2> QED BY <2>1, <1>2, <1>5, <1>6, <1>7, <1>10 DEF Pushing, Distinct, Deps, Range
  <1>14. AfterDeps' BY <1>0, <1>6, SameList
  <1> QED BY <1>0, <1>6, <1>9, <1>11, <1>12, <1>13, <1>14 DEF Inv, Searching, Distinct

\* The archive that is being expanded does not wait for its next dependency yet.
LEMMA PushSetting ==
  ASSUME Inv, PushDep, NEW c, c = Head(todo)
  PROVE  /\ c \in Label /\ Tail(todo) \in Seq(Label) /\ Range(todo) = Range(Tail(todo)) \cup {c}
         /\ Distinct(Tail(todo)) /\ c \notin Range(Tail(todo))
         /\ UNCHANGED <<input, phase, external, dep_list, label>> /\ todo' = Tail(todo) /\ Done' = Done
         /\ label \in Label /\ label \in Seen /\ label \notin Range(stack) /\ label \notin Done
         /\ c \in Range(Deps(label)) /\ deps_pushed[label] \in Nat /\ c # label /\ label \notin Range(Pending(c))
         /\ \A l \in Range(stack) : deps_pushed[l] = -1
         /\ \A d \in Range(Tail(todo)) : d # c /\ label \notin Range(Pending(d))
         /\ Range(Tail(todo)) \subseteq Range(Deps(label)) /\ Range(Tail(todo)) \subseteq Label
         /\ stack \in Seq(Label) /\ Distinct(stack) /\ Range(stack) \subseteq Seen
  <1>0. RecompileTypeOK /\ AfterDeps /\ Ready /\ Counts /\ Pushing /\ phase = "push" BY DEF Inv, Searching, PushDep
  <1>1. /\ c \in Label /\ Tail(todo) \in Seq(Label) /\ Range(todo) = Range(Tail(todo)) \cup {c}
        /\ Distinct(Tail(todo)) /\ c \notin Range(Tail(todo))
    BY <1>0, Behead DEF RecompileTypeOK, Pushing, PushDep
  <1>2. /\ UNCHANGED <<input, phase, external, dep_list, label>> /\ todo' = Tail(todo) /\ Done' = Done
    BY DEF PushDep, Done, Range
  <1>3. /\ label \in Label /\ label \in Seen /\ label \notin Range(stack) /\ label \notin Done
        /\ c \in Range(Deps(label)) /\ deps_pushed[label] \in Nat /\ c # label /\ label \notin Range(Pending(c))
        /\ \A l \in Range(stack) : deps_pushed[l] = -1
    <2>1. label \in Label /\ label \in Seen /\ deps_pushed[label] \in Nat BY <1>0 DEF RecompileTypeOK, Pushing
    <2>2. c \in Range(Deps(label)) BY <1>0, <1>1 DEF Pushing
    <2>3. c # label BY <2>1, <2>2, <1>0, Dependencies DEF RecompileTypeOK
    <2> QED BY <2>1, <2>2, <2>3, <1>0, <1>1 DEF Pushing
  <1>4. /\ \A d \in Range(Tail(todo)) : d # c /\ label \notin Range(Pending(d))
        /\ Range(Tail(todo)) \subseteq Range(Deps(label))
        /\ Range(Tail(todo)) \subseteq Label
    <2>1. Range(todo) \subseteq Range(Deps(label)) /\ \A d \in Range(todo) : label \notin Range(Pending(d))
      BY <1>0 DEF Pushing
    <2>2. Range(Tail(todo)) \subseteq Label BY <1>1 DEF Range
    <2> QED BY <2>1, <2>2, <1>1
  <1>5. stack \in Seq(Label) /\ Distinct(stack) /\ Range(stack) \subseteq Seen BY <1>0 DEF RecompileTypeOK, Ready
  <1> QED BY <1>1, <1>2, <1>3, <1>4, <1>5

\* A dependency is pushed, waited for, or in the list: label is one of its pending dependents
\* in the first two cases.
LEMMA PushEffect ==
  ASSUME Inv, PushDep, NEW c, c = Head(todo)
  PROVE  /\ Seen \subseteq Seen' /\ DOMAIN dependents' = Seen' /\ Seen' \subseteq Seen \cup {c}
         /\ stack' \in Seq(Label) /\ Distinct(stack')
         /\ Range(stack) \subseteq Range(stack') /\ Range(stack') \subseteq Range(stack) \cup {c}
         /\ \A l \in Seen' : dependents'[l] \in Seq(Label)
         /\ \A l \in Seen : l # label => deps_pushed'[l] = deps_pushed[l]
         /\ deps_pushed'[label] \in Nat
         /\ c \in Range(stack') /\ c \notin Range(stack) => c \notin Done /\ c \in Seen'
         /\ c \in Seen' /\ deps_pushed'[c] \in {-1} \cup Nat
         /\ c \notin Seen => deps_pushed'[c] = -1 /\ c \in Range(stack')
         /\ c \in Range(stack') => deps_pushed'[c] = -1
         /\ \A d \in Label : d # c => Pending(d)' = Pending(d)
         /\ Distinct(Pending(c)')
         /\ \/ /\ Range(Pending(c)') = Range(Pending(c)) \cup {label}
               /\ deps_pushed'[label] = deps_pushed[label] + 1
            \/ /\ Range(Pending(c)') = Range(Pending(c))
               /\ deps_pushed'[label] = deps_pushed[label]
               /\ c \in Done
  <1>0. RecompileTypeOK /\ Ready /\ Counts /\ phase = "push" BY DEF Inv, Searching, PushDep
  <1>1. /\ c \in Label /\ Tail(todo) \in Seq(Label) /\ Range(todo) = Range(Tail(todo)) \cup {c}
        /\ Distinct(Tail(todo)) /\ c \notin Range(Tail(todo))
        /\ UNCHANGED <<input, phase, external, dep_list, label>> /\ todo' = Tail(todo) /\ Done' = Done
        /\ label \in Label /\ label \in Seen /\ label \notin Range(stack) /\ label \notin Done
        /\ c \in Range(Deps(label)) /\ deps_pushed[label] \in Nat /\ c # label /\ label \notin Range(Pending(c))
        /\ \A l \in Range(stack) : deps_pushed[l] = -1
        /\ \A d \in Range(Tail(todo)) : d # c /\ label \notin Range(Pending(d))
        /\ Range(Tail(todo)) \subseteq Range(Deps(label)) /\ Range(Tail(todo)) \subseteq Label
        /\ stack \in Seq(Label) /\ Distinct(stack) /\ Range(stack) \subseteq Seen
    BY PushSetting
  <1>2. CASE c \notin Seen
    <2>1. /\ stack' = Append(stack, c) /\ dependents' = Put(dependents, c, <<label>>)
          /\ deps_pushed' = [Put(deps_pushed, c, -1) EXCEPT ![label] = @ + 1]
      BY <1>2 DEF PushDep, Seen
    <2>2. /\ Seen' = Seen \cup {c} /\ DOMAIN dependents' = Seen'
          /\ deps_pushed'[c] = -1 /\ deps_pushed'[label] = deps_pushed[label] + 1
          /\ \A l \in Seen : l # label => deps_pushed'[l] = deps_pushed[l]
          /\ dependents'[c] = <<label>> /\ \A l \in Seen : dependents'[l] = dependents[l]
      BY <2>1, <1>0, <1>1, <1>2 DEF Put, Seen, RecompileTypeOK
    <2>3. c \notin Done /\ c \notin Range(stack) BY <1>0, <1>2 DEF Ready
    <2>4. stack' \in Seq(Label) /\ Distinct(stack') /\ Range(stack') = Range(stack) \cup {c}
      BY <2>1, <2>3, <1>1, Appended
    <2>5. \A d \in Label : d # c => Pending(d)' = Pending(d)
      BY <2>2, <1>0, <1>1 DEF Pending
    <2>6. Pending(c)' = <<label>> /\ Pending(c) = <<>>
      BY <2>2, <2>3, <1>1, <1>2 DEF Pending
    <2>7. Distinct(Pending(c)') /\ Range(Pending(c)') = Range(Pending(c)) \cup {label}
      BY <2>6 DEF Distinct, Range
    <2>8. \A l \in Seen' : dependents'[l] \in Seq(Label)
      <3>1. <<label>> \in Seq(Label) BY <1>1
      <3>2. \A l \in Seen : dependents[l] \in Seq(Label) BY <1>0 DEF RecompileTypeOK
      <3> QED BY <3>1, <3>2, <2>2
    <2> QED BY <1>1, <1>2, <2>2, <2>3, <2>4, <2>5, <2>7, <2>8
  <1>3. CASE c \in Seen /\ deps_pushed[c] # 0
    <2>1. /\ stack' = stack /\ dependents' = [dependents EXCEPT ![c] = Append(@, label)]
          /\ deps_pushed' = [deps_pushed EXCEPT ![label] = @ + 1]
      BY <1>3 DEF PushDep, Seen
    <2>2. /\ Seen' = Seen /\ DOMAIN dependents' = Seen'
          /\ deps_pushed'[label] = deps_pushed[label] + 1
          /\ \A l \in Seen : l # label => deps_pushed'[l] = deps_pushed[l]
          /\ dependents'[c] = Append(dependents[c], label)
          /\ \A l \in Seen : l # c => dependents'[l] = dependents[l]
      BY <2>1, <1>0, <1>1, <1>3 DEF Seen, RecompileTypeOK
    <2>3. c \notin Done BY <1>0, <1>3 DEF Ready
    <2>4. Pending(c) = dependents[c] /\ dependents[c] \in Seq(Label) /\ Distinct(dependents[c])
      BY <2>3, <1>0, <1>1, <1>3 DEF Pending, RecompileTypeOK, Counts
    <2>5. \A d \in Label : d # c => Pending(d)' = Pending(d)
      BY <2>2, <1>0, <1>1 DEF Pending
    <2>6. Pending(c)' = Append(dependents[c], label)
      BY <2>2, <2>3, <1>1, <1>3 DEF Pending
    <2>7. Distinct(Pending(c)') /\ Range(Pending(c)') = Range(Pending(c)) \cup {label}
      <3>1. label \in Label /\ label \notin Range(dependents[c]) BY <1>1, <2>4
      <3> DEFINE d == dependents[c]
      <3>2. d \in Seq(Label) /\ Distinct(d) /\ label \notin Range(d) BY <2>4, <3>1
      <3> HIDE DEF d
      <3>3. Distinct(Append(d, label)) /\ Range(Append(d, label)) = Range(d) \cup {label}
        BY <3>1, <3>2, Appended
      <3> QED BY <3>3, <2>4, <2>6 DEF d
    <2>8. \A l \in Seen' : dependents'[l] \in Seq(Label)
      <3>1. Append(dependents[c], label) \in Seq(Label) BY <2>4, <1>1, Appended
      <3>2. \A l \in Seen : dependents[l] \in Seq(Label) BY <1>0 DEF RecompileTypeOK
      <3> QED BY <3>1, <3>2, <2>2
    <2> QED BY <1>0, <1>1, <1>3, <2>1, <2>2, <2>3, <2>5, <2>7, <2>8 DEF RecompileTypeOK
  <1>4. CASE c \in Seen /\ deps_pushed[c] = 0
    <2>1. UNCHANGED <<stack, deps_pushed, dependents>> BY <1>4 DEF PushDep, Seen
    <2>2. Seen' = Seen BY <2>1 DEF Seen
    <2>3. c \in Done BY <1>0, <1>1, <1>4 DEF Ready
    <2>4. \A d \in Label : Pending(d)' = Pending(d) BY <2>1, <2>2, <1>0, <1>1 DEF Pending
    <2>5. Distinct(Pending(c)') /\ Range(Pending(c)') = Range(Pending(c)) BY <2>4, <1>0, <1>1 DEF Counts
    <2> QED BY <1>0, <1>1, <1>4, <2>1, <2>2, <2>3, <2>4, <2>5 DEF RecompileTypeOK
  <1> QED BY <1>2, <1>3, <1>4


\* Which archives wait for which is settled by the pending dependents, so that the count of label is right.
LEMMA PushingOne ==
  ASSUME Inv, PushDep
  PROVE  Inv'
  <1>c. PICK c : c = Head(todo) OBVIOUS
  <1>q. PICK q : q = label OBVIOUS
  <1>0. RecompileTypeOK /\ AfterDeps /\ Ready /\ Counts /\ phase = "push" BY DEF Inv, Searching, PushDep
  <1>1. /\ c \in Label /\ Tail(todo) \in Seq(Label) /\ Range(todo) = Range(Tail(todo)) \cup {c}
        /\ Distinct(Tail(todo)) /\ c \notin Range(Tail(todo))
        /\ UNCHANGED <<input, phase, external, dep_list, label>> /\ todo' = Tail(todo) /\ Done' = Done
        /\ label \in Label /\ label \in Seen /\ label \notin Range(stack) /\ label \notin Done
        /\ c \in Range(Deps(label)) /\ deps_pushed[label] \in Nat /\ c # label /\ label \notin Range(Pending(c))
        /\ \A l \in Range(stack) : deps_pushed[l] = -1
        /\ \A d \in Range(Tail(todo)) : d # c /\ label \notin Range(Pending(d))
        /\ Range(Tail(todo)) \subseteq Range(Deps(label)) /\ Range(Tail(todo)) \subseteq Label
        /\ stack \in Seq(Label) /\ Distinct(stack) /\ Range(stack) \subseteq Seen
    BY <1>c, PushSetting
  <1>6. AfterDeps' BY <1>0, <1>1, SameList
  <1>7. /\ Seen \subseteq Seen' /\ DOMAIN dependents' = Seen' /\ Seen' \subseteq Seen \cup {c}
        /\ stack' \in Seq(Label) /\ Distinct(stack')
        /\ Range(stack) \subseteq Range(stack') /\ Range(stack') \subseteq Range(stack) \cup {c}
        /\ \A l \in Seen' : dependents'[l] \in Seq(Label)
        /\ \A l \in Seen : l # label => deps_pushed'[l] = deps_pushed[l]
        /\ deps_pushed'[label] \in Nat
        /\ c \in Range(stack') /\ c \notin Range(stack) => c \notin Done /\ c \in Seen'
        /\ c \in Seen' /\ deps_pushed'[c] \in {-1} \cup Nat
        /\ c \notin Seen => deps_pushed'[c] = -1 /\ c \in Range(stack')
        /\ c \in Range(stack') => deps_pushed'[c] = -1
        /\ \A d \in Label : d # c => Pending(d)' = Pending(d)
        /\ Distinct(Pending(c)')
        /\ \/ /\ Range(Pending(c)') = Range(Pending(c)) \cup {label}
              /\ deps_pushed'[label] = deps_pushed[label] + 1
           \/ /\ Range(Pending(c)') = Range(Pending(c))
              /\ deps_pushed'[label] = deps_pushed[label]
              /\ c \in Done
    BY <1>c, PushEffect
  <1>11. RecompileTypeOK'
    <2>1. \A l \in Seen' : deps_pushed'[l] \in {-1} \cup Nat BY <1>7, <1>0 DEF RecompileTypeOK
    <2> QED BY <2>1, <1>7, <1>0, <1>1 DEF RecompileTypeOK
  <1>12. \A l \in Range(stack') : l \in Seen' /\ l \notin Done /\ deps_pushed'[l] = -1 /\ l # label
    BY <1>0, <1>1, <1>7 DEF Ready
  <1>13. Ready'
    <2>1. \A l \in Done : l \in Seen' /\ deps_pushed'[l] = 0 BY <1>0, <1>1, <1>7 DEF Ready
    <2>2. \A l \in Seen' : deps_pushed'[l] = 0 => l \in Done \/ l \in Range(stack') \/ l = label
      BY <1>0, <1>1, <1>7 DEF Ready
    <2>3. \A m \in DOMAIN stack' : deps_pushed'[stack'[m]] # 0 BY <1>12 DEF Range
    <2>4. Distinct(stack)' BY <1>7 DEF Distinct
    <2> QED BY <2>1, <2>2, <2>3, <2>4, <1>12, <1>0, <1>1 DEF Ready, Range
  <1>14. \A l : l # label => Waiting(l)' = Waiting(l)
    <2> SUFFICES ASSUME NEW l, l # label PROVE Waiting(l)' = Waiting(l) OBVIOUS
    <2>1. Waiting(l)' = {d \in Label : l \in Range(Pending(d)')} BY DEF Waiting, Range
    <2>2. \A d \in Label : l \in Range(Pending(d)') <=> l \in Range(Pending(d)) BY <1>7
    <2> QED BY <2>1, <2>2 DEF Waiting
  <1>15. Waiting(q)' = {d \in Label : q \in Range(Pending(d)')}
    BY <1>q DEF Waiting, Range
  <1>16. /\ deps_pushed'[label] = Cardinality(Waiting(q)')
        /\ Waiting(q) \subseteq Waiting(q)' /\ (c \in Done \/ c \in Waiting(q)')
    <2>1. deps_pushed[label] = Cardinality(Waiting(q)) BY <1>q, <1>0, <1>1 DEF Counts
    <2>2. c \notin Waiting(q) BY <1>q, <1>1 DEF Waiting
    <2>3. CASE /\ Range(Pending(c)') = Range(Pending(c)) \cup {label}
               /\ deps_pushed'[label] = deps_pushed[label] + 1
      <3>1. Waiting(q)' = Waiting(q) \cup {c} BY <1>q, <1>15, <2>3, <1>1, <1>7 DEF Waiting
      <3> QED BY <3>1, <2>1, <2>2, <2>3, FiniteWaiting, FS_AddElement
    <2>4. CASE /\ Range(Pending(c)') = Range(Pending(c))
               /\ deps_pushed'[label] = deps_pushed[label]
               /\ c \in Done
      <3>1. Waiting(q)' = Waiting(q) BY <1>q, <1>15, <2>4, <1>7 DEF Waiting
      <3> QED BY <3>1, <2>1, <2>4
    <2> QED BY <2>3, <2>4, <1>7
  <1>17. Counts'
    <2>1. \A d \in Label : Distinct(Pending(d)') /\ \A l \in Range(Pending(d)') : l \in Seen' /\ deps_pushed'[l] # -1
      <3>1. \A l \in Seen : deps_pushed[l] # -1 => l \in Seen' /\ deps_pushed'[l] # -1 BY <1>7
      <3>2. \A d \in Label : Distinct(Pending(d)) /\ \A l \in Range(Pending(d)) : l \in Seen /\ deps_pushed[l] # -1
        BY <1>0 DEF Counts
      <3>3. label \in Seen' /\ deps_pushed'[label] # -1 BY <1>1, <1>7
      <3>4. Distinct(Pending(c)') /\ Range(Pending(c)') \subseteq Range(Pending(c)) \cup {label} BY <1>7
      <3>5. \A d \in Label : d # c => Pending(d)' = Pending(d) BY <1>7
      <3> QED BY <3>1, <3>2, <3>3, <3>4, <3>5
    <2>2. ASSUME NEW l \in Seen', deps_pushed'[l] # -1
          PROVE  /\ deps_pushed'[l] = Cardinality(Waiting(l)')
                 /\ \A d \in Range(Deps(l)) : d \in Done \/ d \in Waiting(l)' \/ (l = label /\ d \in Range(Tail(todo)))
      <3>1. CASE l = label
        <4>1. \A d \in Range(Deps(label)) : d \in Done \/ d \in Waiting(q) \/ d \in Range(todo)
          BY <1>q, <1>0, <1>1 DEF Counts
        <4>2. l = q BY <3>1, <1>q
        <4> QED BY <3>1, <4>1, <4>2, <1>16, <1>1
      <3>2. CASE l # label
        <4>1. l \in Seen /\ deps_pushed[l] # -1 BY <2>2, <3>2, <1>7
        <4> QED BY <4>1, <3>2, <1>14, <1>0, <1>7 DEF Counts
      <3> QED BY <3>1, <3>2
    <2> QED BY <2>1, <2>2, <1>0, <1>1 DEF Counts, Deps, Range, Distinct
  <1>18. Pushing'
    <2>1. \A d \in Range(Tail(todo)) : label \notin Range(Pending(d)') BY <1>1, <1>7
    <2>2. label \in Seen' /\ label \notin Range(stack') /\ deps_pushed'[label] # -1
          /\ \A l \in Range(stack') : deps_pushed'[l] = -1
      BY <1>12, <1>1, <1>7
    <2>3. Distinct(Tail(todo)) /\ Range(Tail(todo)) \subseteq Range(Deps(label)) BY <1>1
    <2>4. Distinct(todo)' BY <2>3, <1>1 DEF Distinct
    <2>5. (\A d \in Range(todo) : label \notin Range(Pending(d)))' BY <2>1, <1>1 DEF Range
    <2>6. (Range(todo) \subseteq Range(Deps(label)))'
      <3>1. todo' = Tail(todo) /\ label' = label /\ input' = input BY <1>1
      <3>2. Range(Deps(label))' = Range(Deps(label)) BY <3>1 DEF Range, Deps
      <3>3. Range(todo)' = Range(Tail(todo)) BY <3>1 DEF Range
      <3> QED BY <2>3, <3>2, <3>3
    <2> QED BY <2>2, <2>4, <2>5, <2>6, <1>1 DEF Pushing, Range
  <1> QED BY <1>11, <1>13, <1>17, <1>18, <1>0, <1>1, <1>6 DEF Inv, Searching, Distinct


\* An archive all of whose dependencies are in the list goes back on top of the stack.
LEMMA AllPushed ==
  ASSUME Inv, DepsPushed
  PROVE  Inv'
  <1> USE DEF DepsPushed
  <1>0. RecompileTypeOK /\ AfterDeps /\ Ready /\ Counts /\ Pushing /\ phase = "push" /\ todo = <<>> /\ phase' = "step"
    BY DEF Inv, Searching
  <1>1. /\ UNCHANGED <<input, todo, external, deps_pushed, dependents, dep_list, label>>
        /\ Seen' = Seen /\ Done' = Done
    BY DEF Seen, Done, Range
  <1>2. \A c \in Label : Pending(c)' = Pending(c) BY <1>0, <1>1 DEF Pending
  <1>3. \A l : Waiting(l)' = Waiting(l) BY <1>2, SameWaiting
  <1>4. /\ Distinct(stack) /\ label \in Label /\ label \in Seen /\ label \notin Done
        /\ label \notin Range(stack) /\ \A l \in Range(stack) : deps_pushed[l] = -1
    BY <1>0 DEF Ready, Pushing, RecompileTypeOK
  <1>5. stack' = IF deps_pushed[label] = 0 THEN Append(stack, label) ELSE stack OBVIOUS
  <1> HIDE DEF DepsPushed
  <1>6. stack \in Seq(Label) BY <1>0 DEF RecompileTypeOK
  <1>7. stack' \in Seq(Label) BY <1>4, <1>5, <1>6, Appended
  <1>8. RecompileTypeOK' BY <1>0, <1>1, <1>7 DEF RecompileTypeOK
  <1>9. Ready'
    <2>1. CASE deps_pushed[label] # 0
      <3>1. stack' = stack BY <2>1, <1>5
      <3> QED BY <3>1, <2>1, <1>0, <1>1 DEF Ready, Distinct, Range
    <2>2. CASE deps_pushed[label] = 0
      <3>1. stack' = Append(stack, label) BY <2>2, <1>5
      <3>2. /\ Distinct(stack') /\ Range(stack') = Range(stack) \cup {label}
            /\ DOMAIN stack' = 1..(Len(stack) + 1) /\ DOMAIN stack = 1..Len(stack) /\ Len(stack) \in Nat
            /\ stack'[Len(stack) + 1] = label
            /\ \A n \in 1..Len(stack) : stack'[n] = stack[n]
        BY <3>1, <1>4, <1>6, Appended
      <3>3. \A m \in 1..Len(stack) : deps_pushed[stack'[m]] = -1 BY <3>2, <1>4 DEF Range
      <3>4. \A m, n \in DOMAIN stack' : m < n /\ deps_pushed[stack'[m]] = 0 => deps_pushed[stack'[n]] = 0
        BY <3>2, <3>3, <2>2
      <3>5. /\ \A l \in Range(stack') : l \in Seen /\ l \notin Done /\ deps_pushed[l] \in {-1, 0}
            /\ \A l \in Seen : deps_pushed[l] = 0 => l \in Done \/ l \in Range(stack')
        BY <3>2, <2>2, <1>0, <1>4 DEF Ready
      <3>6. \A l \in Done : l \in Seen /\ deps_pushed[l] = 0 BY <1>0 DEF Ready
      <3>7. Distinct(stack)' BY <3>2 DEF Distinct
      <3> QED BY <3>4, <3>5, <3>6, <3>7, <1>1 DEF Ready, Range
    <2> QED BY <2>1, <2>2
  <1>10. Counts'
    <2>1. \A c \in Label : Distinct(Pending(c)') /\ \A l \in Range(Pending(c)') : l \in Seen /\ deps_pushed[l] # -1
      BY <1>0, <1>2 DEF Counts
    <2>2. Range(todo) = {} BY <1>0 DEF Range
    <2>3. \A l \in Seen : deps_pushed[l] # -1 =>
            /\ deps_pushed[l] = Cardinality(Waiting(l)')
            /\ \A c \in Range(Deps(l)) : c \in Done \/ c \in Waiting(l)'
      BY <2>2, <1>0, <1>3 DEF Counts
    <2> QED BY <2>1, <2>3, <1>1 DEF Counts, Deps, Range, Distinct
  <1>11. AfterDeps' BY <1>0, <1>1, SameList
  <1> QED BY <1>0, <1>1, <1>8, <1>9, <1>10, <1>11 DEF Inv, Searching, Distinct

-----------------------------------------------------------------------------
(* After the search *)

\* The loops over the list and the build leave the list alone.
LEMMA Using ==
  ASSUME Inv,
         SearchEnds \/ NothingToRecompile \/ NeedRecompile \/ RecompileInternal \/ MakeArchive
            \/ Return \/ CompileInternal \/ RecompileEnded
  PROVE  Inv'
  <1>1. UNCHANGED <<input, external, stack, deps_pushed, dependents, dep_list, label>>
    BY DEF SearchEnds, NothingToRecompile, NeedRecompile, RecompileInternal, MakeArchive, Return,
           CompileInternal, RecompileEnded, search, recompileVars
  <1>2. phase' \notin {"external", "step", "notify", "push"}
    BY DEF SearchEnds, NothingToRecompile, NeedRecompile, RecompileInternal, MakeArchive, Return,
           CompileInternal, RecompileEnded, recompileVars
  <1>3. todo' \in Seq(Label)
    <2>1. todo' \in {todo, dep_list} \/ (todo # <<>> /\ todo' = Tail(todo))
      BY DEF SearchEnds, NothingToRecompile, NeedRecompile, RecompileInternal, MakeArchive, Return,
             CompileInternal, RecompileEnded, recompileVars
    <2>2. todo \in Seq(Label) /\ dep_list \in Seq(Label) BY DEF Inv, RecompileTypeOK
    <2> QED BY <2>1, <2>2, Behead
  <1>4. RecompileTypeOK' BY <1>1, <1>3 DEF Inv, RecompileTypeOK, Seen
  <1>5. AfterDeps' BY <1>1, SameList DEF Inv
  <1> QED BY <1>1, <1>2, <1>4, <1>5 DEF Inv, Searching, Distinct

\* The invariant holds of any test, whatever its graph of archives.
THEOREM SearchInductive == RecompileSpec => []Inv
  <1>1. ASSUME Inv, [RecompileNext]_recompileVars PROVE Inv'
    <2>1. CASE UNCHANGED recompileVars
      <3>1. UNCHANGED <<input, phase, todo, external, stack, deps_pushed, dependents, dep_list, label>>
        BY <2>1 DEF recompileVars, search
      <3>2. Seen' = Seen /\ Done' = Done BY <3>1 DEF Seen, Done, Range
      <3>3. \A c : Pending(c)' = Pending(c) BY <3>1, <3>2 DEF Pending
      <3>4. \A l : Waiting(l)' = Waiting(l) BY <3>3, SameWaiting
      <3>5. AfterDeps' BY <1>1, <3>1, SameList DEF Inv
      <3>6. RecompileTypeOK' BY <1>1, <3>1, <3>2 DEF Inv, RecompileTypeOK
      <3>7. Searching => Ready' BY <1>1, <3>1, <3>2 DEF Inv, Ready, Distinct, Range
      <3>8. Searching => Counts'
        <4> SUFFICES ASSUME Searching PROVE Counts' OBVIOUS
        <4>1. Counts BY <1>1 DEF Inv
        <4>2. \A c \in Label : Distinct(Pending(c)') /\ \A l \in Range(Pending(c)') : l \in Seen /\ deps_pushed[l] # -1
          BY <4>1, <3>3 DEF Counts
        <4>3. \A l \in Seen : deps_pushed[l] # -1 =>
                /\ deps_pushed[l] = Cardinality(Waiting(l)')
                /\ \A c \in Range(Deps(l)) : c \in Done \/ c \in Waiting(l)' \/ (phase = "push" /\ l = label /\ c \in Range(todo))
          BY <4>1, <3>4 DEF Counts
        <4> QED BY <4>2, <4>3, <3>1, <3>2 DEF Counts, Deps, Range, Distinct
      <3>9. phase = "push" => Pushing'
        <4> SUFFICES ASSUME phase = "push" PROVE Pushing' OBVIOUS
        <4>1. Pushing BY <1>1 DEF Inv
        <4>2. (\A c \in Range(todo) : label \notin Range(Pending(c)))' BY <4>1, <3>1, <3>3 DEF Pushing, Range
        <4> QED BY <4>1, <4>2, <3>1, <3>2 DEF Pushing, Deps, Range, Distinct
      <3> QED BY <1>1, <3>1, <3>2, <3>5, <3>6, <3>7, <3>8, <3>9 DEF Inv, Searching, Distinct
    <2>2. CASE RecompileNext
      BY <1>1, <2>2, Collecting, Starting, Finishing, Notifying, AllNotified, Expanding, PushingOne,
         AllPushed, Using DEF RecompileNext
    <2> QED BY <1>1, <2>1, <2>2
  <1> QED BY <1>1, Initially, PTL DEF RecompileSpec

-----------------------------------------------------------------------------
(* What is compiled again *)

\* The transitive closure of a depset is closed, and no larger than it has to be.
LEMMA Closed ==
  ASSUME input \in Inputs, NEW ls, ls \subseteq Label
  PROVE  /\ ls \subseteq Transitive(ls) /\ Transitive(ls) \subseteq Label
         /\ \A k \in Transitive(ls) : Range(Deps(k)) \subseteq Transitive(ls)
         /\ \A S \in SUBSET Label : ls \subseteq S /\ (\A k \in S : Range(Deps(k)) \subseteq S)
                => Transitive(ls) \subseteq S
  <1>1. \A k \in Label : Range(Deps(k)) \subseteq Label BY Dependencies
  <1>2. ls \subseteq Transitive(ls) /\ Transitive(ls) \subseteq Label BY DEF Transitive
  <1>3. ASSUME NEW k \in Transitive(ls), NEW d \in Range(Deps(k)) PROVE d \in Transitive(ls)
    <2>1. d \in Label BY <1>1, <1>2
    <2>2. ASSUME NEW S \in SUBSET Label, ls \subseteq S, \A j \in S : Range(Deps(j)) \subseteq S PROVE d \in S
      <3>1. k \in S BY <2>2 DEF Transitive
      <3> QED BY <3>1, <2>2
    <2> QED BY <2>1, <2>2 DEF Transitive
  <1>4. \A S \in SUBSET Label : ls \subseteq S /\ (\A k \in S : Range(Deps(k)) \subseteq S)
                => Transitive(ls) \subseteq S
    BY DEF Transitive
  <1> QED BY <1>2, <1>3, <1>4

\* What can be reached are the direct dependencies and what can be reached from one of them.
LEMMA OneStep ==
  ASSUME input \in Inputs, NEW ls, ls \subseteq Label
  PROVE  Transitive(ls) = ls \cup UNION {Transitive(Range(Deps(d))) : d \in ls}
  <1> DEFINE U == ls \cup UNION {Transitive(Range(Deps(d))) : d \in ls}
  <1>1. \A k \in Label : Range(Deps(k)) \subseteq Label BY Dependencies
  <1>2. \A k \in ls : Range(Deps(k)) \subseteq Transitive(Range(Deps(k))) /\ Transitive(Range(Deps(k))) \subseteq Label
    BY <1>1, Closed
  <1>3. \A d \in ls : \A k \in Transitive(Range(Deps(d))) : Range(Deps(k)) \subseteq Transitive(Range(Deps(d)))
    BY <1>1, Closed
  <1>4. U \subseteq Label BY <1>2
  <1>5. \A k \in U : Range(Deps(k)) \subseteq U BY <1>2, <1>3
  <1>6. Transitive(ls) \subseteq U
    <2> HIDE DEF U
    <2>1. ls \subseteq U BY DEF U
    <2> QED BY <2>1, <1>4, <1>5, Closed
  <1>7. U \subseteq Transitive(ls)
    <2>1. ls \subseteq Transitive(ls) /\ Transitive(ls) \subseteq Label
          /\ \A k \in Transitive(ls) : Range(Deps(k)) \subseteq Transitive(ls)
      BY Closed
    <2>2. ASSUME NEW d \in ls PROVE Transitive(Range(Deps(d))) \subseteq Transitive(ls)
      <3>1. Range(Deps(d)) \subseteq Label BY <1>1
      <3>2. Range(Deps(d)) \subseteq Transitive(ls) BY <2>1
      <3> QED BY <2>1, <3>1, <3>2, Closed
    <2> QED BY <2>1, <2>2
  <1> QED BY <1>6, <1>7

\* An archive imports the library if one of its dependencies is or imports it.
LEMMA ImportsThrough ==
  ASSUME input \in Inputs, NEW l \in Label
  PROVE  l \in Importers <=> \E d \in Range(Deps(l)) : d \in input.embeds \/ d \in Importers
  <1>1. \A k \in Label : Range(Deps(k)) \subseteq Label BY Dependencies
  <1>2. Transitive(Range(Deps(l))) = Range(Deps(l)) \cup UNION {Transitive(Range(Deps(d))) : d \in Range(Deps(l))}
    BY <1>1, OneStep
  <1> QED BY <1>1, <1>2 DEF Importers

\* need_recompile is asked of the dependencies before it is set for their dependents.
LEMMA Needing ==
  ASSUME Inv, RecompiledExactly, NeedRecompile
  PROVE  RecompiledExactly'
  <1> DEFINE l == Head(todo)
  <1>1. input \in Inputs /\ input' = input /\ l \in Label BY Behead DEF Inv, RecompileTypeOK, NeedRecompile
  <1>2. Importers' = Importers BY <1>1 DEF Importers, Transitive, Deps, Range
  <1>3. CASE ~(Range(Deps(l)) \subseteq input.embeds \cup DOMAIN need_recompile)
    <2>1. need_recompile' = need_recompile BY <1>3 DEF NeedRecompile
    <2> QED BY <2>1, <1>2 DEF RecompiledExactly
  <1>4. CASE Range(Deps(l)) \subseteq input.embeds \cup DOMAIN need_recompile
    <2> HIDE DEF l
    <2>1. need_recompile' = Put(need_recompile, l, \E d \in Range(Deps(l)) : d \in input.embeds \/ need_recompile[d])
      BY <1>4 DEF NeedRecompile, l
    <2>2. (\E d \in Range(Deps(l)) : d \in input.embeds \/ need_recompile[d]) <=> l \in Importers
      <3>1. l \in Importers <=> \E d \in Range(Deps(l)) : d \in input.embeds \/ d \in Importers
        BY <1>1, ImportsThrough
      <3>2. \A d \in Range(Deps(l)) : d \in input.embeds \/ (need_recompile[d] <=> d \in Importers)
        BY <1>4 DEF RecompiledExactly
      <3> QED BY <3>1, <3>2
    <2>3. /\ DOMAIN need_recompile' = DOMAIN need_recompile \cup {l}
          /\ need_recompile'[l] <=> l \in Importers
          /\ \A k \in DOMAIN need_recompile \ {l} : need_recompile'[k] = need_recompile[k]
      BY <2>1, <2>2 DEF Put
    <2> QED BY <2>3, <1>2 DEF RecompiledExactly
  <1> QED BY <1>3, <1>4

\* Exactly the archives that import the library under test, directly or not, are compiled again.
THEOREM RecompiledExactlyHolds == RecompileSpec => []RecompiledExactly
  <1>1. RecompileInit => RecompiledExactly BY DEF RecompileInit, RecompiledExactly, EmptyDict
  <1>2. ASSUME Inv, RecompiledExactly, [RecompileNext]_recompileVars PROVE RecompiledExactly'
    <2>1. CASE NeedRecompile BY <1>2, <2>1, Needing
    <2>2. CASE ~NeedRecompile
      <3>1. UNCHANGED <<input, need_recompile>>
        BY <1>2, <2>2 DEF RecompileNext, recompileVars, outcome, DedupArchives, NothingToRecompile, StartSearch, Finish,
           NotifyDependent, Notified, Expand, PushDep, DepsPushed, SearchEnds, RecompileInternal,
           MakeArchive, Return, CompileInternal, RecompileEnded
      <3>2. Importers' = Importers BY <3>1 DEF Importers, Transitive, Deps, Range
      <3> QED BY <3>1, <3>2, <1>2 DEF RecompiledExactly
    <2> QED BY <2>1, <2>2
  <1> QED BY <1>1, <1>2, SearchInductive, PTL DEF RecompileSpec

-----------------------------------------------------------------------------
(* The search is complete *)

\* Sets of labels and their cardinalities.
LEMMA Counting ==
  ASSUME NEW S \in SUBSET Label
  PROVE  /\ IsFiniteSet(S) /\ Cardinality(S) \in Nat
         /\ \A x \in Label \ S : Cardinality(S \cup {x}) = Cardinality(S) + 1
         /\ \A T \in SUBSET S : Cardinality(T) <= Cardinality(S) /\ (T # S => Cardinality(T) < Cardinality(S))
  <1>1. IsFiniteSet(Label) BY InputAssumption
  <1>2. IsFiniteSet(S) BY <1>1, FS_Subset
  <1>3. \A x \in Label \ S : Cardinality(S \cup {x}) = Cardinality(S) + 1 BY <1>2, FS_AddElement
  <1>4. ASSUME NEW T \in SUBSET S
        PROVE  Cardinality(T) <= Cardinality(S) /\ (T # S => Cardinality(T) < Cardinality(S))
    <2>1. IsFiniteSet(T) /\ Cardinality(T) <= Cardinality(S) /\ (Cardinality(S) = Cardinality(T) => S = T)
      BY <1>2, FS_Subset
    <2>2. Cardinality(T) \in Nat /\ Cardinality(S) \in Nat BY <2>1, <1>2, FS_CardinalityType
    <2> QED BY <2>1, <2>2
  <1> QED BY <1>2, <1>3, <1>4, FS_CardinalityType

\* The search knows of labels only.
LEMMA Labels ==
  ASSUME Inv
  PROVE  Done \in SUBSET Label /\ Seen \in SUBSET Label /\ Expanded \in SUBSET Label /\ Range(external) \in SUBSET Label
  BY DEF Inv, RecompileTypeOK, Done, Expanded, Range

\* When the stack is empty, all archives are in the list and every step was used; before, there is
\* a step left.
LEMMA StepsSuffice ==
  ASSUME Inv, Reached, phase = "step"
  PROVE  IF stack = <<>> THEN Done = arc_data_list /\ i = 2 * N ELSE i < 2 * N
  <1>0. RecompileTypeOK /\ Ready /\ Counts /\ IsInput(input) BY InputAssumption DEF Inv, Searching, RecompileTypeOK
  <1>1. Done \subseteq Seen /\ Done \subseteq Expanded /\ Expanded \subseteq Seen /\ Seen \subseteq arc_data_list
    BY <1>0 DEF Ready, Expanded, Reached
  <1>2. arc_data_list \in SUBSET Label BY DEF Reached, Transitive
  <1>3. Cardinality(Done) \in Nat /\ Cardinality(Expanded) \in Nat /\ N \in Nat
        /\ Cardinality(Expanded) <= N /\ Cardinality(Done) <= N
        /\ (Done # arc_data_list => Cardinality(Done) < N)
    BY <1>1, <1>2, Counting, Labels DEF N
  <1>4. i = Cardinality(Expanded) + Cardinality(Done) BY DEF Reached
  <1>5. CASE stack # <<>>
    <2>1. Top \in Range(stack) BY <1>0, <1>5, Popped DEF RecompileTypeOK
    <2>2. Top \in Seen \ Done BY <1>0, <2>1 DEF Ready
    <2> QED BY <1>1, <1>3, <1>4, <1>5, <2>2
  <1>6. CASE stack = <<>>
    <2>1. Range(stack) = {} BY <1>6 DEF Range
    <2>2. \A c \in Label : c \in Done \/ c \notin Seen => Range(Pending(c)) = {}
      BY <1>0 DEF Pending, Range
    <2>3. Seen \ Done = {}
      <3> SUFFICES ASSUME Seen \ Done # {} PROVE FALSE OBVIOUS
      <3>1. Seen \ Done \in SUBSET Label BY <1>0 DEF RecompileTypeOK
      <3>2. PICK l \in Seen \ Done : Range(Deps(l)) \cap (Seen \ Done) = {} BY <3>1, <1>0 DEF IsInput, Deps
      <3>3. deps_pushed[l] # -1 /\ deps_pushed[l] # 0 BY <1>0, <2>1, <3>2 DEF Ready, Reached
      <3>4. Cardinality(Waiting(l)) # 0 BY <1>0, <3>3 DEF Counts
      <3>5. Waiting(l) # {} BY <3>4, FS_EmptySet
      <3>6. PICK c \in Label : l \in Range(Pending(c)) BY <3>5 DEF Waiting
      <3>7. c \in Range(Deps(l)) /\ c \in Seen \ Done BY <2>2, <3>6 DEF Reached
      <3> QED BY <3>2, <3>7
    <2>4. Seen = Done /\ Expanded = Done BY <2>3, <1>1
    <2>5. \A l \in Seen : Range(Deps(l)) \subseteq Seen
      <3> SUFFICES ASSUME NEW l \in Seen, NEW c \in Range(Deps(l)) PROVE c \in Seen OBVIOUS
      <3>1. deps_pushed[l] # -1 BY <2>4 DEF Expanded
      <3>2. c \in Done \/ c \in Waiting(l) BY <3>1, <1>0 DEF Counts
      <3> QED BY <3>2, <2>2, <2>4 DEF Waiting
    <2>6. arc_data_list \subseteq Seen
      <3>1. Seen \in SUBSET Label /\ input \in Inputs /\ Range(external) \subseteq Label
        BY <1>0, Labels DEF RecompileTypeOK
      <3> QED BY <3>1, <2>5, Closed DEF Reached
    <2>7. Done = arc_data_list /\ Expanded = arc_data_list BY <2>4, <2>6, <1>1
    <2> QED BY <2>7, <1>3, <1>4, <1>6 DEF N
  <1> QED BY <1>5, <1>6

\* The search stays within the closure of what it started from.
LEMMA StillReached ==
  ASSUME Reached, UNCHANGED <<input, external, arc_data_list>>, Seen \subseteq Seen', Seen' \subseteq arc_data_list,
         \A l \in Seen' : deps_pushed'[l] = -1 => l \in Range(stack'),
         \A c \in Label : \A l \in Range(Pending(c)') : c \in Range(Deps(l)),
         i' = Cardinality(Expanded') + Cardinality(Done')
  PROVE  Reached'
  <1>1. Transitive(Range(external))' = Transitive(Range(external)) BY DEF Transitive, Deps, Range
  <1>2. (\A l \in Seen : deps_pushed[l] = -1 => l \in Range(stack))' BY DEF Range
  <1>3. (\A c \in Label : \A l \in Range(Pending(c)) : c \in Range(Deps(l)))' BY DEF Deps, Range
  <1>4. (Range(external) \subseteq Seen /\ Seen \subseteq arc_data_list)' BY DEF Reached, Range
  <1>5. arc_data_list' = Transitive(Range(external))' BY <1>1 DEF Reached
  <1> QED BY <1>2, <1>3, <1>4, <1>5 DEF Reached

\* Finishing an archive is a step that is counted.
LEMMA FinishReached ==
  ASSUME Inv, Reached, Finish
  PROVE  Reached'
  <1> USE DEF Finish, Step
  <1>0. RecompileTypeOK /\ Ready /\ phase = "step" BY DEF Inv, Searching
  <1>1. Top \in Label /\ Top \in Seen \ Done /\ deps_pushed[Top] = 0 /\ Range(stack) = Range(Pop) \cup {Top}
    BY <1>0, Popped DEF RecompileTypeOK, Ready
  <1>2. UNCHANGED <<input, external, arc_data_list, deps_pushed, dependents>> /\ Seen' = Seen
        /\ phase' = "notify" /\ label' = Top /\ stack' = Pop /\ todo' = dependents[Top] /\ i' = i + 1
    BY DEF Seen
  <1>3. Done' = Done \cup {Top} BY <1>0, <1>1, Appended DEF RecompileTypeOK, Done
  <1>4. Expanded' = Expanded BY <1>2 DEF Expanded
  <1>5. \A c \in Label : Pending(c)' = Pending(c) BY <1>0, <1>1, <1>2, <1>3 DEF Pending
  <1>6. Cardinality(Done') = Cardinality(Done) + 1 BY <1>1, <1>3, Counting, Labels
  <1>7. Cardinality(Done) \in Nat /\ Cardinality(Expanded) \in Nat BY Counting, Labels
  <1>8. i' = Cardinality(Expanded') + Cardinality(Done') BY <1>2, <1>4, <1>6, <1>7 DEF Reached
  <1>9. \A l \in Seen : deps_pushed[l] = -1 => l \in Range(Pop) BY <1>1 DEF Reached
  <1> HIDE DEF Finish, Step
  <1>10. \A c \in Label : \A l \in Range(Pending(c)') : c \in Range(Deps(l)) BY <1>5 DEF Reached
  <1>11. Seen \subseteq arc_data_list BY DEF Reached
  <1> QED BY <1>2, <1>8, <1>9, <1>10, <1>11, StillReached

\* So is expanding one.
LEMMA ExpandReached ==
  ASSUME Inv, Reached, Expand
  PROVE  Reached'
  <1> USE DEF Expand, Step
  <1>0. RecompileTypeOK /\ Ready /\ phase = "step" BY DEF Inv, Searching
  <1>t. PICK t : t = Top OBVIOUS
  <1>1. t \in Label /\ t \in Seen /\ deps_pushed[t] = -1 /\ Range(stack) = Range(Pop) \cup {t}
    BY <1>0, <1>t, Popped DEF RecompileTypeOK, Ready
  <1>2. UNCHANGED <<input, external, arc_data_list, dependents, dep_list>> /\ Seen' = Seen /\ Done' = Done
        /\ phase' = "push" /\ stack' = Pop /\ i' = i + 1
        /\ deps_pushed'[t] = 0 /\ \A l \in Seen : l # t => deps_pushed'[l] = deps_pushed[l]
    <2>1. deps_pushed' = [deps_pushed EXCEPT ![t] = 0] BY <1>t
    <2> QED BY <2>1, <1>1 DEF Seen, Done, Range
  <1> HIDE DEF Expand, Step
  <1>3. Expanded' = Expanded \cup {t} /\ t \notin Expanded BY <1>1, <1>2 DEF Expanded
  <1>4. \A c \in Label : Pending(c)' = Pending(c) BY <1>0, <1>2 DEF Pending
  <1>5. Cardinality(Expanded') = Cardinality(Expanded) + 1 BY <1>1, <1>3, Counting, Labels
  <1>6. Cardinality(Done) \in Nat /\ Cardinality(Expanded) \in Nat BY Counting, Labels
  <1>7. i' = Cardinality(Expanded') + Cardinality(Done') BY <1>2, <1>5, <1>6 DEF Reached
  <1>8. \A l \in Seen : deps_pushed'[l] = -1 => l \in Range(Pop) BY <1>1, <1>2 DEF Reached
  <1>9. \A c \in Label : \A l \in Range(Pending(c)') : c \in Range(Deps(l)) BY <1>4 DEF Reached
  <1>10. Seen \subseteq arc_data_list BY DEF Reached
  <1> QED BY <1>2, <1>7, <1>8, <1>9, <1>10, StillReached

\* Telling a dependent is none: it has been expanded before.
LEMMA NotifyReached ==
  ASSUME Inv, Reached, NotifyDependent
  PROVE  Reached'
  <1>p. PICK p : p = Head(todo) OBVIOUS
  <1>0. RecompileTypeOK /\ Ready /\ phase = "notify" BY DEF Inv, Searching, NotifyDependent
  <1>1. /\ p \in Label /\ p \in Seen /\ deps_pushed[p] \in Nat \ {0} /\ label \in Label /\ label \in Done
        /\ Pending(label) = todo /\ Range(Tail(todo)) \subseteq Range(todo)
    BY <1>p, DependentWaits
  <1>2. /\ UNCHANGED <<input, external, arc_data_list, phase, dependents, dep_list, label, i>>
        /\ Seen' = Seen /\ Done' = Done /\ todo' = Tail(todo)
        /\ deps_pushed'[p] = deps_pushed[p] - 1 /\ \A l \in Seen : l # p => deps_pushed'[l] = deps_pushed[l]
    <2>1. deps_pushed' = [deps_pushed EXCEPT ![p] = @ - 1] BY <1>p DEF NotifyDependent
    <2>2. UNCHANGED <<input, external, arc_data_list, phase, dependents, dep_list, label, i>> /\ todo' = Tail(todo)
      BY DEF NotifyDependent
    <2> QED BY <2>1, <2>2, <1>1 DEF Seen, Done, Range
  <1>3. Range(stack) \subseteq Range(stack')
    <2>1. stack' \in {stack, Append(stack, p)} BY <1>p DEF NotifyDependent
    <2>2. Range(Append(stack, p)) = Range(stack) \cup {p} BY <1>0, <1>1, Appended DEF RecompileTypeOK
    <2> QED BY <2>1, <2>2
  <1>4. Expanded' = Expanded
    <2>1. \A l \in Seen : deps_pushed'[l] # -1 <=> deps_pushed[l] # -1 BY <1>1, <1>2
    <2> QED BY <2>1, <1>2 DEF Expanded
  <1>5. \A c \in Label : Range(Pending(c)') \subseteq Range(Pending(c))
    <2>1. \A c \in Label : Pending(c)' = IF c = label THEN Tail(todo) ELSE Pending(c)
      BY <1>0, <1>1, <1>2 DEF Pending
    <2>2. \A c : c = label => Pending(c) = todo BY <1>1
    <2> QED BY <2>1, <2>2, <1>1
  <1>6. \A c \in Label : \A l \in Range(Pending(c)') : c \in Range(Deps(l)) BY <1>5 DEF Reached
  <1>7. \A l \in Seen : deps_pushed'[l] = -1 => l \in Range(stack') BY <1>1, <1>2, <1>3 DEF Reached
  <1>8. i' = Cardinality(Expanded') + Cardinality(Done') BY <1>2, <1>4 DEF Reached
  <1>9. Seen \subseteq arc_data_list BY DEF Reached
  <1> QED BY <1>2, <1>6, <1>7, <1>8, <1>9, StillReached

\* A dependency that is pushed is in the closure and is not expanded yet.
LEMMA PushReached ==
  ASSUME Inv, Reached, PushDep
  PROVE  Reached'
  <1>c. PICK c : c = Head(todo) OBVIOUS
  <1>0. RecompileTypeOK BY DEF Inv
  <1>1. /\ UNCHANGED <<input, external>> /\ Done' = Done /\ label \in Seen /\ c \in Label /\ c # label
        /\ c \in Range(Deps(label)) /\ deps_pushed[label] \in Nat
    BY <1>c, PushSetting
  <1>2. UNCHANGED <<arc_data_list, i>> BY DEF PushDep
  <1>3. /\ Seen \subseteq Seen' /\ Seen' \subseteq Seen \cup {c} /\ Range(stack) \subseteq Range(stack')
        /\ \A l \in Seen : l # label => deps_pushed'[l] = deps_pushed[l]
        /\ deps_pushed'[label] \in Nat
        /\ c \notin Seen => deps_pushed'[c] = -1 /\ c \in Range(stack')
        /\ \A d \in Label : d # c => Pending(d)' = Pending(d)
        /\ Range(Pending(c)') \subseteq Range(Pending(c)) \cup {label}
    BY <1>c, PushEffect
  <1>4. Expanded' = Expanded
    <2>1. \A l \in Seen : deps_pushed'[l] # -1 <=> deps_pushed[l] # -1 BY <1>1, <1>3
    <2> QED BY <2>1, <1>3 DEF Expanded
  <1>5. c \in arc_data_list
    <2>1. Range(external) \subseteq Label /\ input \in Inputs BY <1>0, Labels DEF RecompileTypeOK
    <2>2. label \in arc_data_list BY <1>1 DEF Reached
    <2> QED BY <2>1, <2>2, <1>1, Closed DEF Reached
  <1>6. \A d \in Label : \A l \in Range(Pending(d)') : d \in Range(Deps(l)) BY <1>1, <1>3 DEF Reached
  <1>7. \A l \in Seen' : deps_pushed'[l] = -1 => l \in Range(stack') BY <1>1, <1>3 DEF Reached
  <1>8. i' = Cardinality(Expanded') + Cardinality(Done') BY <1>1, <1>2, <1>4 DEF Reached
  <1>9. Seen' \subseteq arc_data_list BY <1>3, <1>5 DEF Reached
  <1> QED BY <1>1, <1>2, <1>3, <1>6, <1>7, <1>8, <1>9, StillReached

\* The ends of the inner loops change neither what is reached nor what is pending.
LEMMA LoopReached ==
  ASSUME Inv, Reached, Notified \/ DepsPushed
  PROVE  Reached'
  <1>0. RecompileTypeOK /\ phase' = "step" /\ todo = <<>> /\ phase \in {"notify", "push"} /\ label \in Label
    BY DEF Inv, RecompileTypeOK, Notified, DepsPushed
  <1>1. /\ UNCHANGED <<input, external, arc_data_list, deps_pushed, dependents, dep_list, label, i, todo>>
        /\ Seen' = Seen /\ Done' = Done
    BY DEF Notified, DepsPushed, Seen, Done, Range, search
  <1>2. Range(stack) \subseteq Range(stack')
    <2>1. stack' \in {stack, Append(stack, label)} BY DEF Notified, DepsPushed, search
    <2>2. Range(Append(stack, label)) = Range(stack) \cup {label} BY <1>0, Appended DEF RecompileTypeOK
    <2> QED BY <2>1, <2>2
  <1>3. \A c \in Label : Pending(c)' = Pending(c) BY <1>0, <1>1 DEF Pending
  <1>4. Expanded' = Expanded BY <1>1 DEF Expanded
  <1>5. \A c \in Label : \A l \in Range(Pending(c)') : c \in Range(Deps(l)) BY <1>3 DEF Reached
  <1>6. \A l \in Seen : deps_pushed[l] = -1 => l \in Range(stack') BY <1>2 DEF Reached
  <1>7. i' = Cardinality(Expanded') + Cardinality(Done') BY <1>1, <1>4 DEF Reached
  <1>8. Seen \subseteq arc_data_list BY DEF Reached
  <1> QED BY <1>1, <1>5, <1>6, <1>7, <1>8, StillReached

-----------------------------------------------------------------------------
(* Nothing is missing *)

\* Before the first dependency of the external archive is looked at.
LEMMA EndInitially ==
  ASSUME RecompileInit
  PROVE  EndInv
  <1> USE DEF RecompileInit
  <1>1. Test \in Label /\ Direct \in Seq(Label) /\ input \in Inputs
    BY InputAssumption, Dependencies DEF Direct
  <1>2. todo = Append(Direct, Test) BY DEF Direct, Deps
  <1>3. /\ Len(todo) = Len(Direct) + 1 /\ todo[Len(todo)] = Test /\ Len(Direct) \in Nat
        /\ \A n \in 1..Len(Direct) : todo[n] = Direct[n] /\ Direct[n] \in Range(Direct)
        /\ Range(todo) = Range(Direct) \cup {Test}
    BY <1>1, <1>2, Appended DEF Range
  <1>4. \A n \in 1..(Len(todo) - 1) : todo[n] \in Range(Direct) BY <1>3
  <1>5. Range(external) = {} BY DEF Range
  <1>6. Collected BY <1>3, <1>4, <1>5 DEF Collected
  <1> QED BY <1>6 DEF EndInv, Searching

\* No dependency of the internal archive is dropped: they have different paths, and the internal
\* archive itself, which may have the path of one, is the last.
LEMMA CollectingAll ==
  ASSUME Inv, EndInv, DedupArchives
  PROVE  EndInv'
  <1>0. RecompileTypeOK /\ IsInput(input) /\ Collected /\ phase = "external" /\ phase' = "external" /\ todo # <<>>
        /\ todo' = Tail(todo) /\ UNCHANGED <<input, i>>
    BY InputAssumption DEF Inv, RecompileTypeOK, EndInv, DedupArchives, search
  <1>h. PICK h : h = Head(todo) OBVIOUS
  <1>1. /\ h \in Label /\ Tail(todo) \in Seq(Label) /\ Range(todo) = Range(Tail(todo)) \cup {h}
        /\ Len(todo) \in Nat \ {0} /\ h = todo[1] /\ Len(Tail(todo)) = Len(todo) - 1
        /\ \A n \in 1..(Len(todo) - 1) : Tail(todo)[n] = todo[n + 1]
    BY <1>0, <1>h, Behead DEF RecompileTypeOK
  <1>2. Test \in Label /\ Direct \in Seq(Label) /\ Test \notin Range(Direct)
    BY <1>0, InputAssumption, Dependencies DEF Direct, RecompileTypeOK
  <1>3. Test \notin Range(external) BY <1>0 DEF Collected
  <1>4. Direct' = Direct BY <1>0 DEF Direct, Deps
  <1>5. external \in Seq(Label) BY <1>0 DEF RecompileTypeOK
  <1>6. Range(Append(external, h)) = Range(external) \cup {h} BY <1>1, <1>5, Appended
  <1>7. \/ external' = Append(external, h)
        \/ external' = external /\ \E l \in Range(external) : input.path[l] = input.path[h]
    BY <1>h DEF DedupArchives
  <1>8. h = Test => Tail(todo) = <<>>
    <2>1. ASSUME h = Test, Len(todo) # 1 PROVE FALSE
      <3>1. 1 \in 1..(Len(todo) - 1) BY <2>1, <1>1
      <3>2. h \in Range(Direct) BY <3>1, <1>0, <1>1 DEF Collected
      <3> QED BY <2>1, <3>2, <1>2
    <2>2. Len(todo) = 1 => Tail(todo) = <<>>
      <3>1. \A s \in Seq(Label) : Len(s) = 0 => s = <<>> OBVIOUS
      <3>2. Tail(todo) \in Seq(Label) /\ Len(Tail(todo)) = Len(todo) - 1 BY <1>1
      <3>3. Len(todo) = 1 => Len(Tail(todo)) = 0 BY <3>2
      <3> QED BY <3>1, <3>2, <3>3
    <2> QED BY <2>1, <2>2
  <1>9. h # Test => h \in Range(Direct)
    <2>1. CASE Len(todo) = 1 BY <2>1, <1>0, <1>1 DEF Collected
    <2>2. CASE Len(todo) # 1
      <3>1. 1 \in 1..(Len(todo) - 1) BY <2>2, <1>1
      <3> QED BY <3>1, <1>0, <1>1 DEF Collected
    <2> QED BY <2>1, <2>2
  <1>10. Range(external') \subseteq Range(external) \cup {h} BY <1>6, <1>7
  <1>11. Range(external') \subseteq Range(Direct) \cup {Test} BY <1>0, <1>9, <1>10 DEF Collected
  <1>12. Test \in Range(external') => Tail(todo) = <<>> BY <1>3, <1>8, <1>10
  <1>13. h \in Range(Direct) => h \in Range(external')
    <2> SUFFICES ASSUME h \in Range(Direct), external' = external PROVE h \in Range(external)
      BY <1>6, <1>7
    <2>1. PICK l \in Range(external) : input.path[l] = input.path[h] BY <1>5, <1>6, <1>7
    <2>2. l \in Range(Direct) BY <2>1, <1>0, <1>3 DEF Collected
    <2>3. l = h
      <3>1. PICK m \in DOMAIN Direct : Direct[m] = l BY <2>2 DEF Range
      <3>2. PICK n \in DOMAIN Direct : Direct[n] = h BY DEF Range
      <3>3. m = n BY <3>1, <3>2, <2>1, <1>0, InputAssumption DEF IsInput, Direct, Deps
      <3> QED BY <3>1, <3>2, <3>3
    <2> QED BY <2>1, <2>3
  <1>14. Range(Direct) \subseteq Range(external') \cup Range(Tail(todo))
    <2>1. Range(external) \subseteq Range(external') BY <1>6, <1>7
    <2> QED BY <2>1, <1>0, <1>1, <1>13 DEF Collected
  <1>15. Tail(todo) # <<>> => /\ Tail(todo)[Len(Tail(todo))] = Test
                              /\ \A n \in 1..(Len(Tail(todo)) - 1) : Tail(todo)[n] \in Range(Direct)
    <2> SUFFICES ASSUME Tail(todo) # <<>>
                 PROVE  /\ Tail(todo)[Len(todo) - 1] = Test
                        /\ \A n \in 1..(Len(todo) - 2) : Tail(todo)[n] \in Range(Direct)
      BY <1>1
    <2>1. Len(todo) - 1 \in 1..(Len(todo) - 1) BY <1>1
    <2>2. Tail(todo)[Len(todo) - 1] = todo[Len(todo)] BY <2>1, <1>1
    <2>3. \A n \in 1..(Len(todo) - 2) : n + 1 \in 1..(Len(todo) - 1) /\ Tail(todo)[n] = todo[n + 1] BY <1>1
    <2> QED BY <2>2, <2>3, <1>0 DEF Collected
  <1>16. Collected'
    <2>1. i' = 0 BY <1>0 DEF Collected
    <2>2. (Range(external) \subseteq Range(Direct) \cup {Test})' BY <1>4, <1>11 DEF Range
    <2>3. (Test \in Range(external) => todo = <<>>)' BY <1>0, <1>12 DEF Range
    <2>4. (Range(Direct) \subseteq Range(external) \cup Range(todo))' BY <1>0, <1>4, <1>14 DEF Range
    <2>5. (todo # <<>> => todo[Len(todo)] = Test /\ \A n \in 1..(Len(todo) - 1) : todo[n] \in Range(Direct))'
      BY <1>0, <1>4, <1>15 DEF Range
    <2> QED BY <2>1, <2>2, <2>3, <2>4, <2>5 DEF Collected
  <1> QED BY <1>0, <1>16 DEF EndInv, Searching

\* The search starts with nothing expanded.
LEMMA StartingAll ==
  ASSUME Inv, EndInv, StartSearch
  PROVE  EndInv'
  <1> USE DEF StartSearch
  <1>0. Collected /\ RecompileTypeOK /\ Range(Direct) \subseteq Range(external) /\ dep_list = <<>>
    <2>1. Collected /\ RecompileTypeOK /\ dep_list = <<>> BY DEF Inv, EndInv
    <2>2. Range(todo) = {} BY DEF Range
    <2> QED BY <2>1, <2>2 DEF Collected
  <1>1. Seen' = Range(external) /\ Done' = {} /\ i' = 0 BY <1>0 DEF Seen, Done, Range, Collected
  <1>2. \A l \in Seen' : deps_pushed'[l] = -1 /\ dependents'[l] = <<>> BY <1>1
  <1>3. Expanded' = {} BY <1>2 DEF Expanded
  <1>4. \A c \in Label : Pending(c)' = <<>> BY <1>1, <1>2 DEF Pending
  <1>5. Range(external) \subseteq Transitive(Range(external)) BY <1>0, Labels, Closed DEF RecompileTypeOK
  <1>6. Cardinality({}) = 0 BY FS_EmptySet
  <1>7. i' = Cardinality(Expanded') + Cardinality(Done') BY <1>1, <1>3, <1>6
  <1>8. Reached'
    <2>1. Transitive(Range(external))' = Transitive(Range(external)) BY DEF Transitive, Deps, Range
    <2>2. (\A c \in Label : \A l \in Range(Pending(c)) : c \in Range(Deps(l)))' BY <1>4 DEF Range
    <2>3. (\A l \in Seen : deps_pushed[l] = -1 => l \in Range(stack))' BY <1>1 DEF Range
    <2>4. (Range(external) \subseteq Seen /\ Seen \subseteq arc_data_list)' BY <1>1, <1>5 DEF Range
    <2> QED BY <2>1, <2>2, <2>3, <2>4, <1>7 DEF Reached
  <1>9. (Range(Direct) \subseteq Range(external))' BY <1>0 DEF Range, Direct, Deps
  <1> QED BY <1>8, <1>9 DEF EndInv, Searching

\* A loop over the list starts with no archive looked at.
LEMMA LoopStart ==
  ASSUME Inv, NEW keys
  PROVE  \E k \in 0..Len(dep_list) :
            /\ Len(dep_list) = Len(dep_list) - k
            /\ \A n \in 1..Len(dep_list) : dep_list[n] = dep_list[k + n]
            /\ \A n \in 1..k : dep_list[n] \in keys
  <1>1. Len(dep_list) \in Nat BY DEF Inv, RecompileTypeOK
  <1>2. 0 \in 0..Len(dep_list) /\ Len(dep_list) = Len(dep_list) - 0
        /\ \A n \in 1..Len(dep_list) : dep_list[n] = dep_list[0 + n]
        /\ \A m \in 1..0 : dep_list[m] \in keys
    BY <1>1
  <1> WITNESS 0 \in 0..Len(dep_list)
  <1> QED BY <1>2

\* The search is never cut off, so that the assertion after it does not fail.
LEMMA EndingAll ==
  ASSUME Inv, EndInv, SearchEnds
  PROVE  EndInv'
  <1>1. Reached /\ phase = "step" /\ Range(Direct) \subseteq Range(external) /\ RecompileTypeOK
    BY DEF Inv, EndInv, SearchEnds, Searching
  <1>2. stack = <<>> /\ Done = arc_data_list /\ i = 2 * N
    <2>1. stack = <<>> \/ i = 2 * N BY DEF SearchEnds
    <2>2. IF stack = <<>> THEN Done = arc_data_list /\ i = 2 * N ELSE i < 2 * N BY <1>1, StepsSuffice
    <2>3. N \in Nat
      <3>1. arc_data_list \in SUBSET Label BY <1>1 DEF Reached, Transitive
      <3> QED BY <3>1, Counting DEF N
    <2>4. ~(i < 2 * N /\ i = 2 * N)
      <3> SUFFICES ASSUME 2 * N < 2 * N PROVE FALSE OBVIOUS
      <3> QED BY <2>3
    <2> QED BY <2>1, <2>2, <2>4
  <1>3. /\ phase' = "need" /\ todo' = dep_list
        /\ UNCHANGED <<input, external, arc_data_list, dep_list, need_recompile>>
    BY <1>2 DEF SearchEnds, search, outcome
  <1>4. Range(external) \subseteq arc_data_list BY <1>1 DEF Reached
  <1>5. Loop(DOMAIN need_recompile)'
    <2>1. todo' = dep_list /\ dep_list' = dep_list BY <1>3
    <2> QED BY <2>1, LoopStart DEF Loop
  <1>6. (Done = arc_data_list /\ Range(external) \subseteq arc_data_list)' BY <1>2, <1>3, <1>4 DEF Done, Range
  <1>7. (Range(Direct) \subseteq Range(external))' BY <1>1, <1>3 DEF Range, Direct, Deps
  <1> QED BY <1>3, <1>5, <1>6, <1>7 DEF EndInv, Searching

\* What a loop over the list comes to has its dependencies in the dictionary already.
LEMMA LoopHead ==
  ASSUME Inv, NEW keys, Loop(keys), todo # <<>>
  PROVE  Range(Deps(Head(todo))) \subseteq keys
  <1>1. todo \in Seq(Label) /\ dep_list \in Seq(Label) /\ AfterDeps BY DEF Inv, RecompileTypeOK
  <1>2. Len(todo) \in Nat \ {0} /\ Head(todo) = todo[1] /\ Len(dep_list) \in Nat /\ DOMAIN dep_list = 1..Len(dep_list)
    BY <1>1
  <1>3. PICK k \in 0..Len(dep_list) : /\ Len(todo) = Len(dep_list) - k
                                     /\ \A n \in 1..Len(todo) : todo[n] = dep_list[k + n]
                                     /\ \A m \in 1..k : dep_list[m] \in keys
    BY DEF Loop
  <1>4. 1 \in 1..Len(todo) /\ k + 1 \in DOMAIN dep_list /\ 1..(k + 1 - 1) = 1..k
    <2>1. Len(todo) \in Nat \ {0} /\ Len(todo) = Len(dep_list) - k /\ Len(dep_list) \in Nat BY <1>2, <1>3
    <2>2. k + 1 \in 1..Len(dep_list) /\ k + 1 - 1 = k BY <2>1
    <2> QED BY <2>1, <2>2, <1>2
  <1>5. Head(todo) = dep_list[k + 1] BY <1>2, <1>3, <1>4
  <1>6. \A d \in Range(Deps(dep_list[k + 1])) : \E m \in 1..(k + 1 - 1) : dep_list[m] = d BY <1>1, <1>4 DEF AfterDeps
  <1> QED BY <1>3, <1>4, <1>5, <1>6

\* It is put there itself.
LEMMA LoopNext ==
  ASSUME Inv, NEW keys, NEW more, Loop(keys), todo # <<>>, keys \cup {Head(todo)} \subseteq more
  PROVE  \E k \in 0..Len(dep_list) :
            /\ Len(Tail(todo)) = Len(dep_list) - k
            /\ \A n \in 1..Len(Tail(todo)) : Tail(todo)[n] = dep_list[k + n]
            /\ \A n \in 1..k : dep_list[n] \in more
  <1>1. todo \in Seq(Label) /\ dep_list \in Seq(Label) BY DEF Inv, RecompileTypeOK
  <1>2. /\ Len(todo) \in Nat \ {0} /\ Head(todo) = todo[1] /\ Len(dep_list) \in Nat
        /\ Len(Tail(todo)) = Len(todo) - 1 /\ \A n \in 1..(Len(todo) - 1) : Tail(todo)[n] = todo[n + 1]
    BY <1>1
  <1>3. PICK k \in 0..Len(dep_list) : /\ Len(todo) = Len(dep_list) - k
                                     /\ \A n \in 1..Len(todo) : todo[n] = dep_list[k + n]
                                     /\ \A m \in 1..k : dep_list[m] \in keys
    BY DEF Loop
  <1>4. k + 1 \in 0..Len(dep_list) /\ Len(Tail(todo)) = Len(dep_list) - (k + 1) BY <1>2, <1>3
  <1>5. ASSUME NEW n \in 1..Len(Tail(todo)) PROVE Tail(todo)[n] = dep_list[(k + 1) + n]
    <2>1. n + 1 \in 1..Len(todo) /\ n \in 1..(Len(todo) - 1) /\ k + (n + 1) = (k + 1) + n BY <1>2, <1>3
    <2> QED BY <2>1, <1>2, <1>3
  <1>6. ASSUME NEW n \in 1..(k + 1) PROVE dep_list[n] \in more
    <2>1. CASE n = k + 1
      <3>1. 1 \in 1..Len(todo) BY <1>2
      <3> QED BY <2>1, <3>1, <1>2, <1>3
    <2>2. CASE n # k + 1
      <3>1. n \in 1..k BY <2>2, <1>3
      <3> QED BY <3>1, <1>3
    <2> QED BY <2>1, <2>2
  <1> QED BY <1>4, <1>5, <1>6

\* In the end the dictionary has an entry for all archives.
LEMMA LoopEnd ==
  ASSUME Inv, EndInv, NEW keys, Loop(keys), todo = <<>>, phase \in {"need", "archives"}
  PROVE  Done \subseteq keys /\ Range(external) \subseteq keys /\ Range(Direct) \subseteq keys
  <1>1. dep_list \in Seq(Label) BY DEF Inv, RecompileTypeOK
  <1>2. Len(todo) = 0 /\ Len(dep_list) \in Nat /\ DOMAIN dep_list = 1..Len(dep_list) BY <1>1
  <1>3. PICK k \in 0..Len(dep_list) : Len(todo) = Len(dep_list) - k /\ \A n \in 1..k : dep_list[n] \in keys
    BY DEF Loop
  <1>4. k = Len(dep_list)
    <2>1. Len(todo) = 0 /\ Len(todo) = Len(dep_list) - k /\ Len(dep_list) \in Nat BY <1>2, <1>3
    <2> QED BY <2>1
  <1>5. Done \subseteq keys BY <1>2, <1>3, <1>4 DEF Done, Range
  <1> QED BY <1>5 DEF EndInv

\* No lookup of the loops over the list fails.
LEMMA LoopingAll ==
  ASSUME Inv, EndInv, NeedRecompile \/ RecompileInternal \/ MakeArchive \/ Return
  PROVE  EndInv'
  <1>1. /\ UNCHANGED <<input, external, arc_data_list, dep_list>> /\ phase \in {"need", "archives"}
        /\ Done = arc_data_list /\ Range(external) \subseteq arc_data_list /\ Range(Direct) \subseteq Range(external)
    BY DEF EndInv, NeedRecompile, RecompileInternal, MakeArchive, Return, search
  <1>2. (Range(Direct) \subseteq Range(external))' BY <1>1 DEF Range, Direct, Deps
  <1>3. (Done = arc_data_list /\ Range(external) \subseteq arc_data_list)' BY <1>1 DEF Done, Range
  <1>4. CASE NeedRecompile
    <2>1. phase = "need" /\ todo # <<>> /\ todo' = Tail(todo) /\ Loop(DOMAIN need_recompile)
      BY <1>4 DEF NeedRecompile, EndInv
    <2>2. Range(Deps(Head(todo))) \subseteq DOMAIN need_recompile BY <2>1, LoopHead
    <2>3. phase' = "need" BY <1>4, <2>1, <2>2 DEF NeedRecompile
    <2>4. DOMAIN need_recompile \cup {Head(todo)} \subseteq DOMAIN need_recompile'
      BY <1>4, <2>3 DEF NeedRecompile, Put
    <2>5. Loop(DOMAIN need_recompile)' BY <2>1, <2>4, <1>1, LoopNext DEF Loop
    <2> QED BY <2>3, <2>5, <1>2, <1>3 DEF EndInv, Searching
  <1>5. CASE RecompileInternal
    <2>1. phase = "need" /\ todo = <<>> /\ Loop(DOMAIN need_recompile) BY <1>5 DEF RecompileInternal, EndInv
    <2>2. Range(Direct) \subseteq DOMAIN need_recompile BY <2>1, LoopEnd
    <2>3. phase' = "archives" /\ todo' = dep_list BY <1>5, <2>2 DEF RecompileInternal
    <2>4. Loop(DOMAIN label_to_archive)'
      <3>1. todo' = dep_list /\ dep_list' = dep_list BY <2>3, <1>1
      <3> QED BY <3>1, LoopStart DEF Loop
    <2> QED BY <2>3, <2>4, <1>2, <1>3 DEF EndInv, Searching
  <1>6. CASE MakeArchive
    <2>1. phase = "archives" /\ todo # <<>> /\ todo' = Tail(todo) /\ Loop(DOMAIN label_to_archive)
      BY <1>6 DEF MakeArchive, EndInv
    <2>2. Range(Deps(Head(todo))) \subseteq DOMAIN label_to_archive BY <2>1, LoopHead
    <2>3. phase' = "archives" /\ DOMAIN label_to_archive \cup {Head(todo)} \subseteq DOMAIN label_to_archive'
      BY <1>6, <2>1, <2>2 DEF MakeArchive, Put
    <2>4. Loop(DOMAIN label_to_archive)' BY <2>1, <2>3, <1>1, LoopNext DEF Loop
    <2> QED BY <2>3, <2>4, <1>2, <1>3 DEF EndInv, Searching
  <1>7. CASE Return
    <2>1. phase = "archives" /\ todo = <<>> /\ Loop(DOMAIN label_to_archive) BY <1>7 DEF Return, EndInv
    <2>2. Range(external) \subseteq DOMAIN label_to_archive BY <2>1, LoopEnd
    <2>3. phase' = "compile" BY <1>7, <2>2 DEF Return
    <2> QED BY <2>3, <1>2 DEF EndInv, Searching
  <1> QED BY <1>4, <1>5, <1>6, <1>7

\* What the build does later, and doing nothing.
LEMMA ElseAll ==
  ASSUME Inv, EndInv, NothingToRecompile \/ CompileInternal \/ RecompileEnded
  PROVE  EndInv'
  <1>1. /\ UNCHANGED <<input, external>> /\ phase' # "failed"
        /\ phase' \notin {"external", "step", "notify", "push", "need", "archives"}
    BY DEF EndInv, NothingToRecompile, CompileInternal, RecompileEnded, recompileVars
  <1>2. Range(Direct) \subseteq Range(external)
    <2>1. CASE phase # "external" BY <2>1 DEF EndInv
    <2>2. CASE phase = "external"
      <3>1. todo = <<>> /\ Collected BY <2>2 DEF EndInv, NothingToRecompile, CompileInternal, RecompileEnded
      <3>2. Range(todo) = {} BY <3>1 DEF Range
      <3> QED BY <3>1, <3>2 DEF Collected
    <2> QED BY <2>1, <2>2
  <1>3. (Range(Direct) \subseteq Range(external))' BY <1>1, <1>2 DEF Range, Direct, Deps
  <1> QED BY <1>1, <1>3 DEF EndInv, Searching

\* While it searches, the rule loses sight of nothing.
LEMMA SearchingAll ==
  ASSUME Inv, EndInv, Finish \/ NotifyDependent \/ Notified \/ Expand \/ PushDep \/ DepsPushed
  PROVE  EndInv'
  <1>1. /\ UNCHANGED <<input, external>> /\ phase \in {"step", "notify", "push"} /\ phase' \in {"step", "notify", "push"}
    BY DEF Finish, NotifyDependent, Notified, Expand, PushDep, DepsPushed, Step
  <1>2. Reached /\ Range(Direct) \subseteq Range(external) BY <1>1 DEF EndInv, Searching
  <1>3. Reached'
    BY <1>2, FinishReached, NotifyReached, ExpandReached, PushReached, LoopReached
  <1>4. (Range(Direct) \subseteq Range(external))' BY <1>1, <1>2 DEF Range, Direct, Deps
  <1> QED BY <1>1, <1>3, <1>4 DEF EndInv

\* The search of any graph ends with its last step, and with all archives; nothing that is looked up
\* afterwards is missing.
THEOREM NothingMissing == RecompileSpec => []EndInv
  <1>1. ASSUME Inv, EndInv, [RecompileNext]_recompileVars PROVE EndInv'
    <2>1. CASE RecompileNext
      BY <1>1, <2>1, CollectingAll, StartingAll, SearchingAll, EndingAll, LoopingAll, ElseAll DEF RecompileNext
    <2>2. CASE UNCHANGED recompileVars
      <3>1. UNCHANGED <<input, phase, todo, external, arc_data_list, stack, deps_pushed, dependents, dep_list, i, label,
                        need_recompile, label_to_archive>>
        BY <2>2 DEF recompileVars, search, outcome
      <3>2. Seen' = Seen /\ Done' = Done BY <3>1 DEF Seen, Done, Range
      <3>3. \A c \in Label : Pending(c)' = Pending(c) BY <3>1, <3>2 DEF Pending
      <3>4. Expanded' = Expanded BY <3>1, <3>2 DEF Expanded
      <3>5. Searching => Reached'
        <4> SUFFICES ASSUME Searching PROVE Reached' OBVIOUS
        <4>1. Reached BY <1>1 DEF EndInv
        <4>2. \A c \in Label : \A l \in Range(Pending(c)') : c \in Range(Deps(l)) BY <4>1, <3>3 DEF Reached
        <4>3. Seen \subseteq arc_data_list /\ \A l \in Seen : deps_pushed[l] = -1 => l \in Range(stack) BY <4>1 DEF Reached
        <4>4. i = Cardinality(Expanded) + Cardinality(Done) BY <4>1 DEF Reached
        <4> QED BY <4>1, <4>2, <4>3, <4>4, <3>1, <3>2, <3>4, StillReached
      <3>6. Collected' <=> Collected BY <3>1 DEF Collected, Direct, Deps, Range
      <3>7. (Range(Direct) \subseteq Range(external))' <=> Range(Direct) \subseteq Range(external)
        BY <3>1 DEF Direct, Deps, Range
      <3>8. (Loop(DOMAIN need_recompile)' <=> Loop(DOMAIN need_recompile))
            /\ (Loop(DOMAIN label_to_archive)' <=> Loop(DOMAIN label_to_archive))
        BY <3>1 DEF Loop
      <3>9. (Range(external) \subseteq arc_data_list)' <=> Range(external) \subseteq arc_data_list BY <3>1 DEF Range
      <3> QED BY <1>1, <3>1, <3>2, <3>5, <3>6, <3>7, <3>8, <3>9 DEF EndInv, Searching
    <2> QED BY <1>1, <2>1, <2>2
  <1> QED BY <1>1, EndInitially, SearchInductive, PTL DEF RecompileSpec

\* The list of the search is a post-order of all archives, without recursion and whatever is shared
\* in the graph.
THEOREM PostOrderHolds == RecompileSpec => []PostOrder
  <1>1. Inv /\ EndInv => PostOrder BY DEF Inv, EndInv, PostOrder, Complete, Done
  <1> QED BY <1>1, SearchInductive, NothingMissing, PTL

-----------------------------------------------------------------------------
(* What is linked *)

\* The archives whose place the internal archive takes, and the file that stands for an archive.
Replaced == input.embeds \cup {Test}
FileOf(l) == IF l \in Replaced THEN <<Test, TRUE>> ELSE <<l, l \in Importers>>

\* Files that may be linked together: each stands for an archive, which is one of keys if it was
\* compiled again; and with a file come the files that stand for the dependencies.
Linkable(libs, keys) ==
    /\ \A g \in libs : \E k \in Label : g = FileOf(k) /\ (k \in Importers \ Replaced => k \in keys)
    /\ \A k \in Label \ Replaced : FileOf(k) \in libs => \A d \in Range(Deps(k)) : FileOf(d) \in libs
    /\ FileOf(Test) \in libs => \A d \in Range(Direct) \ Importers : FileOf(d) \in libs

\* What the last loop puts in the dictionary for l.
Made(a, l, keys) ==
    /\ FileOf(l) \in a.libs /\ a.file = FileOf(l)
    /\ l \notin Replaced => a.direct = {FileOf(d) : d \in Range(Deps(l))}
    /\ ~DependsOnEmbedded => Linkable(a.libs, keys)

\* Nothing was compiled again, or nothing yet.
NoneRecompiled ==
    /\ label_to_archive = EmptyDict /\ need_recompile_deps = {}
    /\ internal = Original(Test)

\* The internal archive was, without those of its dependencies that import the library under test.
InternalRecompiled ==
    /\ internal = Archive(Test, TRUE, {Original(d) : d \in Range(Direct) \ Importers})
    /\ need_recompile_deps = {d \in Range(Direct) : d \in Importers /\ ~input.cgo}

LinkInv ==
    /\ \A l \in DOMAIN need_recompile : need_recompile[l] \in BOOLEAN
    /\ phase \in {"external", "step", "notify", "push", "need"} => NoneRecompiled
    /\ phase \in {"step", "notify", "push", "need", "archives"} => arc_data_list # {}
    /\ phase = "archives" => InternalRecompiled /\ Done \subseteq DOMAIN need_recompile
    /\ phase \in {"compile", "cycle", "missing", "built"} =>
          \/ NoneRecompiled /\ UnderTest = {}
          \/ InternalRecompiled /\ Range(external) \subseteq DOMAIN label_to_archive
                                /\ DOMAIN label_to_archive # {}
    /\ \A l \in DOMAIN label_to_archive :
          l \in Label /\ Made(label_to_archive[l], l, DOMAIN label_to_archive)

-----------------------------------------------------------------------------
(* The libraries of an archive *)

\* The test is nobody's dependency.
LEMMA NotTest ==
  ASSUME input \in Inputs, NEW l \in Label, NEW d \in Range(Deps(l))
  PROVE  d # Test /\ d \in Label
  <1>1. \A k \in Label : Test \notin Range(input.deps[k]) BY InputAssumption DEF IsInput
  <1> QED BY <1>1, Dependencies DEF Deps

\* What does not import the library has no dependencies that are or do, so that the files they
\* have from their own targets stand for them.
LEMMA CleanDeps ==
  ASSUME input \in Inputs, NEW l \in Label, l \notin Importers, NEW d \in Range(Deps(l))
  PROVE  d \in Label /\ d \notin Importers /\ d \notin Replaced /\ FileOf(d) = <<d, FALSE>>
  <1>1. d \notin input.embeds /\ d \notin Importers BY ImportsThrough
  <1>2. d # Test /\ d \in Label BY NotTest
  <1>3. d \notin Replaced BY <1>1, <1>2 DEF Replaced
  <1>4. (d \in Importers) = FALSE BY <1>1
  <1> QED BY <1>1, <1>2, <1>3, <1>4 DEF FileOf

\* Neither has what a dependency that the internal archive keeps is linked with.
LEMMA CleanClosure ==
  ASSUME input \in Inputs, ~DependsOnEmbedded, NEW d \in Range(Direct) \ Importers
  PROVE  /\ d \in Transitive({d}) /\ Transitive({d}) \subseteq Label
         /\ \A k \in Transitive({d}) : /\ Range(Deps(k)) \subseteq Transitive({d})
                                       /\ k \notin Importers /\ k \notin Replaced
                                       /\ FileOf(k) = <<k, FALSE>>
  <1> DEFINE S == {k \in Label : k \notin Importers /\ k \notin Replaced}
  <1>1. Test \in Label BY InputAssumption
  <1>2. d \in Label /\ d # Test BY <1>1, NotTest DEF Direct
  <1>3. d \notin input.embeds BY DEF DependsOnEmbedded
  <1>4. d \in S BY <1>2, <1>3 DEF Replaced
  <1>5. \A k \in S : Range(Deps(k)) \subseteq S BY CleanDeps
  <1>6. /\ {d} \subseteq Transitive({d}) /\ Transitive({d}) \subseteq Label
        /\ \A k \in Transitive({d}) : Range(Deps(k)) \subseteq Transitive({d})
    BY <1>2, Closed
  <1>7. Transitive({d}) \subseteq S
    <2>1. S \in SUBSET Label /\ {d} \subseteq S BY <1>4
    <2> HIDE DEF S
    <2> QED BY <1>2, <1>5, <2>1, Closed
  <1>8. ASSUME NEW k \in S PROVE FileOf(k) = <<k, FALSE>>
    <2>1. (k \in Importers) = FALSE /\ k \notin Replaced BY <1>8
    <2> QED BY <2>1 DEF FileOf
  <1> QED BY <1>6, <1>7, <1>8

\* A file that is not the internal archive's stands for one archive.
LEMMA OneArchive ==
  /\ FileOf(Test) = <<Test, TRUE>>
  /\ \A k : k \in Replaced => FileOf(k) = <<Test, TRUE>>
  /\ \A k : k \notin Replaced => FileOf(k) # <<Test, TRUE>> /\ FileOf(k) = <<k, k \in Importers>>
  /\ \A k, l : k \notin Replaced /\ FileOf(k) = FileOf(l) => k = l
  <1>1. Test \in Replaced BY DEF Replaced
  <1> QED BY <1>1 DEF FileOf

\* The internal archive is linked with nothing that imports the library.
LEMMA InternalLinkable ==
  ASSUME input \in Inputs, ~DependsOnEmbedded, InternalRecompiled, NEW keys
  PROVE  Linkable(internal.libs, keys)
  <1> DEFINE K == Range(Direct) \ Importers
  <1>1. internal.libs = {<<Test, TRUE>>} \cup UNION {a.libs : a \in {Original(d) : d \in K}}
    BY DEF InternalRecompiled, Archive
  <1>2. \A d : Original(d).libs = {<<k, FALSE>> : k \in Transitive({d})} BY DEF Original
  <1>3. \A g : g \in internal.libs <=> g = <<Test, TRUE>> \/ \E d \in K : \E k \in Transitive({d}) : g = <<k, FALSE>>
    <2> HIDE DEF K
    <2>1. UNION {a.libs : a \in {Original(d) : d \in K}} = UNION {Original(d).libs : d \in K} OBVIOUS
    <2>2. \A g : g \in UNION {Original(d).libs : d \in K} <=> \E d \in K : g \in Original(d).libs OBVIOUS
    <2>3. \A g, d : g \in Original(d).libs <=> \E k \in Transitive({d}) : g = <<k, FALSE>>
      <3> TAKE g, d
      <3>1. Original(d).libs = {<<k, FALSE>> : k \in Transitive({d})} BY <1>2
      <3> QED BY Zenon, <3>1
    <2> QED BY ZenonT(30), <1>1, <2>1, <2>2, <2>3
  <1>4. \A g \in internal.libs : \E k \in Label : g = FileOf(k) /\ (k \in Importers \ Replaced => k \in keys)
    <2> SUFFICES ASSUME NEW g \in internal.libs
                 PROVE  \E k \in Label : g = FileOf(k) /\ (k \in Importers \ Replaced => k \in keys)
      OBVIOUS
    <2>1. CASE g = <<Test, TRUE>>
      <3>1. Test \in Label /\ Test \in Replaced BY InputAssumption DEF Replaced
      <3> QED BY <2>1, <3>1, OneArchive
    <2>2. ASSUME NEW d \in K, NEW k \in Transitive({d}), g = <<k, FALSE>>
          PROVE  \E j \in Label : g = FileOf(j) /\ (j \in Importers \ Replaced => j \in keys)
      BY <2>2, CleanClosure
    <2> QED BY <1>3, <2>1, <2>2
  <1>5. ASSUME NEW k \in Label \ Replaced, FileOf(k) \in internal.libs, NEW e \in Range(Deps(k))
        PROVE  FileOf(e) \in internal.libs
    <2>1. FileOf(k) # <<Test, TRUE>> /\ FileOf(k) = <<k, k \in Importers>> BY OneArchive
    <2>2. PICK d \in K : \E j \in Transitive({d}) : FileOf(k) = <<j, FALSE>> BY <1>3, <1>5, <2>1
    <2>3. k \in Transitive({d}) BY <2>1, <2>2
    <2>4. e \in Transitive({d}) /\ FileOf(e) = <<e, FALSE>> BY <2>3, CleanClosure
    <2> QED BY <1>3, <2>4
  <1>6. ASSUME NEW d \in K PROVE FileOf(d) \in internal.libs
    <2>1. d \in Transitive({d}) /\ FileOf(d) = <<d, FALSE>> BY CleanClosure
    <2> QED BY <1>3, <2>1
  <1> QED BY <1>4, <1>5, <1>6 DEF Linkable

\* Archives whose libraries may be linked may be linked together.
LEMMA LinkableUnion ==
  ASSUME NEW sets, NEW keys, \A s \in sets : Linkable(s, keys)
  PROVE  Linkable(UNION sets, keys)
  BY DEF Linkable

\* An archive may be added to what it depends on.
LEMMA LinkableMore ==
  ASSUME input \in Inputs, NEW libs, NEW keys, NEW more, Linkable(libs, keys),
         NEW l \in Label \ Replaced, keys \cup {l} \subseteq more,
         \A d \in Range(Deps(l)) : FileOf(d) \in libs
  PROVE  Linkable({FileOf(l)} \cup libs, more)
  <1>1. FileOf(Test) # FileOf(l) BY OneArchive
  <1>2. \A k \in Label \ Replaced : FileOf(k) = FileOf(l) => k = l BY OneArchive
  <1>3. \A g \in {FileOf(l)} \cup libs :
           \E k \in Label : g = FileOf(k) /\ (k \in Importers \ Replaced => k \in more)
    BY DEF Linkable
  <1>4. \A k \in Label \ Replaced : FileOf(k) \in {FileOf(l)} \cup libs =>
           \A d \in Range(Deps(k)) : FileOf(d) \in {FileOf(l)} \cup libs
    BY <1>2 DEF Linkable
  <1>5. FileOf(Test) \in {FileOf(l)} \cup libs =>
           \A d \in Range(Direct) \ Importers : FileOf(d) \in {FileOf(l)} \cup libs
    BY <1>1 DEF Linkable
  <1> QED BY <1>3, <1>4, <1>5 DEF Linkable

\* More entries in the dictionary do no harm.
LEMMA LinkableStill ==
  ASSUME NEW libs, NEW keys, NEW more, Linkable(libs, keys), keys \subseteq more
  PROVE  Linkable(libs, more)
  BY DEF Linkable

-----------------------------------------------------------------------------
(* The invariant is kept *)

\* All of this depends on the graph alone.
LEMMA SameGraph ==
  ASSUME input' = input
  PROVE  /\ Importers' = Importers /\ Replaced' = Replaced /\ Direct' = Direct
         /\ \A l : Deps(l)' = Deps(l) /\ FileOf(l)' = FileOf(l) /\ Original(l)' = Original(l)
         /\ \A ls : Transitive(ls)' = Transitive(ls)
         /\ DependsOnEmbedded' <=> DependsOnEmbedded
  <1>1. \A l : Deps(l)' = Deps(l) BY DEF Deps
  <1>2. \A ls : Transitive(ls)' = Transitive(ls) BY DEF Transitive, Deps, Range
  <1>3. Importers' = Importers BY DEF Importers, Transitive, Deps, Range
  <1>4. Replaced' = Replaced BY DEF Replaced
  <1>5. Direct' = Direct BY DEF Direct, Deps
  <1>6. \A l : FileOf(l)' = FileOf(l) BY <1>3, <1>4 DEF FileOf
  <1>7. \A l : Original(l)' = Original(l) BY DEF Original, Transitive, Deps, Range
  <1>8. DependsOnEmbedded' <=> DependsOnEmbedded BY DEF DependsOnEmbedded, Direct, Deps, Range
  <1> QED BY <1>1, <1>2, <1>3, <1>4, <1>5, <1>6, <1>7, <1>8

LEMMA SameMade ==
  ASSUME input' = input, NEW a, NEW l, NEW keys
  PROVE  Made(a, l, keys)' <=> Made(a, l, keys)
  <1>1. \A libs, ks : Linkable(libs, ks)' <=> Linkable(libs, ks)
    BY SameGraph DEF Linkable, Deps, Direct, Range
  <1> QED BY <1>1, SameGraph DEF Made, Deps, Range

\* A step that leaves the archives alone.
LEMMA SameArchives ==
  ASSUME UNCHANGED <<input, outcome>>
  PROVE  /\ NoneRecompiled' <=> NoneRecompiled
         /\ InternalRecompiled' <=> InternalRecompiled
         /\ (\A l \in DOMAIN need_recompile : need_recompile[l] \in BOOLEAN)'
               <=> \A l \in DOMAIN need_recompile : need_recompile[l] \in BOOLEAN
         /\ (\A l \in DOMAIN label_to_archive :
                l \in Label /\ Made(label_to_archive[l], l, DOMAIN label_to_archive))'
               <=> \A l \in DOMAIN label_to_archive :
                      l \in Label /\ Made(label_to_archive[l], l, DOMAIN label_to_archive)
  <1>1. UNCHANGED <<input, need_recompile, need_recompile_deps, internal, label_to_archive>> BY DEF outcome
  <1>2. NoneRecompiled' <=> NoneRecompiled BY <1>1, SameGraph DEF NoneRecompiled
  <1>3. InternalRecompiled' <=> InternalRecompiled
    <2>1. {Original(d) : d \in Range(Direct) \ Importers}' = {Original(d) : d \in Range(Direct) \ Importers}
      BY <1>1, SameGraph DEF Original, Transitive, Deps, Direct, Range
    <2>2. {d \in Range(Direct) : d \in Importers /\ ~input.cgo}' = {d \in Range(Direct) : d \in Importers /\ ~input.cgo}
      BY <1>1, SameGraph DEF Direct, Deps, Range
    <2> QED BY <1>1, <2>1, <2>2 DEF InternalRecompiled, Archive
  <1>4. \A a, l, keys : Made(a, l, keys)' <=> Made(a, l, keys) BY <1>1, SameMade
  <1> QED BY <1>1, <1>2, <1>3, <1>4

LEMMA InitLinked == ASSUME RecompileInit PROVE LinkInv
  BY DEF RecompileInit, LinkInv, NoneRecompiled, EmptyDict

\* Nothing is compiled before the loops over the list.
LEMMA SearchLinked ==
  ASSUME LinkInv, EndInv',
         DedupArchives \/ StartSearch \/ Finish \/ NotifyDependent \/ Notified \/ Expand \/ PushDep
           \/ DepsPushed \/ SearchEnds
  PROVE  LinkInv'
  <1>1. /\ UNCHANGED <<input, outcome>>
        /\ phase \in {"external", "step", "notify", "push"}
        /\ phase' \in {"external", "step", "notify", "push", "need", "failed"}
    <2>1. CASE DedupArchives BY <2>1 DEF DedupArchives
    <2>2. CASE StartSearch BY <2>2 DEF StartSearch
    <2>3. CASE Finish BY <2>3 DEF Finish, Step
    <2>4. CASE NotifyDependent BY <2>4 DEF NotifyDependent
    <2>5. CASE Notified BY <2>5 DEF Notified
    <2>6. CASE Expand BY <2>6 DEF Expand, Step
    <2>7. CASE PushDep BY <2>7 DEF PushDep
    <2>8. CASE DepsPushed BY <2>8 DEF DepsPushed
    <2>9. CASE SearchEnds BY <2>9 DEF SearchEnds
    <2> QED BY <2>1, <2>2, <2>3, <2>4, <2>5, <2>6, <2>7, <2>8, <2>9
  <1>2. phase' \in {"step", "notify", "push", "need"} => arc_data_list' # {}
    <2>1. CASE StartSearch
      <3>1. arc_data_list' = Transitive(Range(external)) /\ UnderTest # {} BY <2>1 DEF StartSearch
      <3> QED BY <3>1 DEF UnderTest
    <2>2. CASE DedupArchives BY <2>2 DEF DedupArchives
    <2>3. CASE Finish \/ NotifyDependent \/ Notified \/ Expand \/ PushDep \/ DepsPushed \/ SearchEnds
      <3>1. arc_data_list' = arc_data_list /\ phase \in {"step", "notify", "push"}
        BY <2>3 DEF Finish, Step, NotifyDependent, Notified, Expand, PushDep, DepsPushed, SearchEnds
      <3> QED BY <3>1 DEF LinkInv
    <2> QED BY <2>1, <2>2, <2>3
  <1>3. phase' # "failed" BY DEF EndInv
  <1> QED BY <1>1, <1>2, <1>3, SameArchives DEF LinkInv

LEMMA NeedLinked ==
  ASSUME LinkInv, EndInv', NeedRecompile
  PROVE  LinkInv'
  <1>1. /\ phase = "need" /\ phase' \in {"need", "failed"}
        /\ UNCHANGED <<input, need_recompile_deps, internal, label_to_archive>>
    BY DEF NeedRecompile
  <1>2. phase' = "need" BY <1>1 DEF EndInv
  <1>3. NoneRecompiled /\ \A l \in DOMAIN need_recompile : need_recompile[l] \in BOOLEAN BY <1>1 DEF LinkInv
  <1>4. NoneRecompiled' BY <1>1, <1>3, SameGraph DEF NoneRecompiled
  <1>5. \A l \in DOMAIN need_recompile' : need_recompile'[l] \in BOOLEAN
    <2>1. need_recompile' = Put(need_recompile, Head(todo),
             \E d \in Range(Deps(Head(todo))) : d \in input.embeds \/ need_recompile[d])
      BY <1>2 DEF NeedRecompile
    <2>2. PICK v : v = (\E d \in Range(Deps(Head(todo))) : d \in input.embeds \/ need_recompile[d]) OBVIOUS
    <2>3. v \in BOOLEAN BY <2>2
    <2>4. \A l \in DOMAIN need_recompile' : need_recompile'[l] = v \/ (l \in DOMAIN need_recompile /\ need_recompile'[l] = need_recompile[l])
      BY <2>1, <2>2 DEF Put
    <2> QED BY <2>3, <2>4, <1>3
  <1>6. DOMAIN label_to_archive' = {} BY <1>4 DEF NoneRecompiled, EmptyDict
  <1>7. arc_data_list' # {} BY <1>1 DEF LinkInv, NeedRecompile
  <1> QED BY <1>2, <1>4, <1>5, <1>6, <1>7 DEF LinkInv

\* need_recompile has an answer for every dependency when it is asked.
LEMMA InternalLinked ==
  ASSUME Inv, EndInv, RecompiledExactly, LinkInv, EndInv', RecompileInternal
  PROVE  LinkInv'
  <1>1. /\ phase = "need" /\ todo = <<>> /\ phase' \in {"archives", "failed"}
        /\ UNCHANGED <<input, dep_list, need_recompile, label_to_archive>>
    BY DEF RecompileInternal, search
  <1>2. phase' = "archives" BY <1>1 DEF EndInv
  <1>3. NoneRecompiled /\ Loop(DOMAIN need_recompile) /\ \A l \in DOMAIN need_recompile : need_recompile[l] \in BOOLEAN
    BY <1>1 DEF LinkInv, EndInv
  <1>4. Done \subseteq DOMAIN need_recompile /\ Range(Direct) \subseteq DOMAIN need_recompile
    BY <1>1, <1>3, LoopEnd
  <1>5. \A d \in Range(Direct) : need_recompile[d] <=> d \in Importers BY <1>4 DEF RecompiledExactly
  <1>6. {d \in Range(Direct) : need_recompile[d] /\ ~input.cgo} = {d \in Range(Direct) : d \in Importers /\ ~input.cgo}
        /\ {e \in Range(Direct) : ~need_recompile[e]} = Range(Direct) \ Importers
    BY <1>5
  <1>7. internal' = Archive(Test, TRUE, {Original(d) : d \in Range(Direct) \ Importers})
        /\ need_recompile_deps' = {d \in Range(Direct) : d \in Importers /\ ~input.cgo}
    BY <1>2, <1>6 DEF RecompileInternal
  <1>8. InternalRecompiled'
    <2>1. {Original(d) : d \in Range(Direct) \ Importers}' = {Original(d) : d \in Range(Direct) \ Importers}
      BY <1>1, SameGraph DEF Original, Transitive, Deps, Direct, Range
    <2>2. {d \in Range(Direct) : d \in Importers /\ ~input.cgo}' = {d \in Range(Direct) : d \in Importers /\ ~input.cgo}
      BY <1>1, SameGraph DEF Direct, Deps, Range
    <2> QED BY <1>7, <2>1, <2>2 DEF InternalRecompiled, Archive
  <1>9. DOMAIN label_to_archive' = {} BY <1>1, <1>3 DEF NoneRecompiled, EmptyDict
  <1>10. (Done \subseteq DOMAIN need_recompile)' BY <1>1, <1>4 DEF Done, Range
  <1>11. arc_data_list' # {} BY <1>1 DEF LinkInv, RecompileInternal
  <1>12. \A l \in DOMAIN need_recompile' : need_recompile'[l] \in BOOLEAN BY <1>1, <1>3
  <1> QED BY <1>2, <1>8, <1>9, <1>10, <1>11, <1>12 DEF LinkInv

\* What the loop comes to is in the list.
LEMMA LoopInList ==
  ASSUME Inv, NEW keys, Loop(keys), todo # <<>>
  PROVE  Head(todo) \in Done
  <1>1. todo \in Seq(Label) /\ dep_list \in Seq(Label) BY DEF Inv, RecompileTypeOK
  <1>2. PICK k \in 0..Len(dep_list) : /\ Len(todo) = Len(dep_list) - k
                                     /\ \A n \in 1..Len(todo) : todo[n] = dep_list[k + n]
    BY DEF Loop
  <1>3. Len(todo) \in Nat \ {0} /\ Head(todo) = todo[1] /\ Len(dep_list) \in Nat /\ DOMAIN dep_list = 1..Len(dep_list)
    BY <1>1
  <1>4. 1 \in 1..Len(todo) /\ k + 1 \in 1..Len(dep_list) BY <1>2, <1>3
  <1>5. Head(todo) = dep_list[k + 1] /\ k + 1 \in DOMAIN dep_list BY <1>2, <1>3, <1>4
  <1> QED BY <1>5 DEF Done, Range

\* An archive takes the files that stand for its dependencies and all they are linked with.
LEMMA MakeLinked ==
  ASSUME Inv, EndInv, RecompiledExactly, LinkInv, EndInv', MakeArchive
  PROVE  LinkInv'
  <1>1. PICK l : l = Head(todo) OBVIOUS
  <1>2. /\ phase = "archives" /\ todo # <<>> /\ phase' \in {"archives", "failed"}
        /\ UNCHANGED <<input, dep_list, need_recompile, need_recompile_deps, internal>>
    BY DEF MakeArchive, search
  <1>3. phase' = "archives" BY <1>2 DEF EndInv
  <1>4. InternalRecompiled /\ Done \subseteq DOMAIN need_recompile /\ Loop(DOMAIN label_to_archive) /\ input \in Inputs
    BY <1>2 DEF LinkInv, EndInv, Inv, RecompileTypeOK
  <1>5. PICK a : /\ label_to_archive' = Put(label_to_archive, l, a)
                 /\ l \in Replaced => a = internal
                 /\ l \notin Replaced => a = Archive(l, need_recompile[l], {label_to_archive[d] : d \in Range(Deps(l))})
    <2>1. l \in Replaced <=> l = Test \/ l \in input.embeds BY DEF Replaced
    <2> QED BY <1>1, <1>2, <1>3, <2>1 DEF MakeArchive
  <1>6. l \in Done /\ l \in Label
    <2>1. todo \in Seq(Label) BY DEF Inv, RecompileTypeOK
    <2> QED BY <1>1, <1>2, <1>4, <2>1, LoopInList, Behead
  <1>7. Range(Deps(l)) \subseteq DOMAIN label_to_archive BY <1>1, <1>2, <1>4, LoopHead
  <1>8. \A k \in DOMAIN label_to_archive :
          k \in Label /\ Made(label_to_archive[k], k, DOMAIN label_to_archive)
    BY DEF LinkInv
  <1>9. PICK keys : keys = DOMAIN label_to_archive \cup {l} OBVIOUS
  <1>10. /\ DOMAIN label_to_archive' = keys /\ label_to_archive'[l] = a
         /\ \A k \in keys \ {l} : k \in DOMAIN label_to_archive /\ label_to_archive'[k] = label_to_archive[k]
    BY <1>5, <1>9 DEF Put
  <1>11. Made(a, l, keys)
    <2>1. CASE l \in Replaced
      <3>1. a = internal /\ internal.file = <<Test, TRUE>> /\ <<Test, TRUE>> \in internal.libs
        BY <2>1, <1>4, <1>5 DEF InternalRecompiled, Archive
      <3>2. FileOf(l) = <<Test, TRUE>> BY <2>1, OneArchive
      <3>3. ~DependsOnEmbedded => Linkable(internal.libs, keys) BY <1>4, InternalLinkable
      <3> QED BY <2>1, <3>1, <3>2, <3>3 DEF Made
    <2>2. CASE l \notin Replaced
      <3>1. need_recompile[l] = (l \in Importers)
        <4>1. l \in DOMAIN need_recompile BY <1>4, <1>6
        <4>2. need_recompile[l] \in BOOLEAN /\ (need_recompile[l] <=> l \in Importers)
          BY <4>1 DEF LinkInv, RecompiledExactly
        <4> QED BY <4>2
      <3>2. FileOf(l) = <<l, need_recompile[l]>> BY <2>2, <3>1, OneArchive
      <3>3. PICK sets : sets = {label_to_archive[d].libs : d \in Range(Deps(l))} OBVIOUS
      <3>4. /\ a.file = FileOf(l)
            /\ a.direct = {label_to_archive[d].file : d \in Range(Deps(l))}
            /\ a.libs = {FileOf(l)} \cup UNION sets
        <4>1. a = Archive(l, need_recompile[l], {label_to_archive[d] : d \in Range(Deps(l))}) BY <2>2, <1>5
        <4>2. /\ a.file = <<l, need_recompile[l]>>
              /\ a.direct = {b.file : b \in {label_to_archive[d] : d \in Range(Deps(l))}}
              /\ a.libs = {<<l, need_recompile[l]>>} \cup UNION {b.libs : b \in {label_to_archive[d] : d \in Range(Deps(l))}}
          BY <4>1 DEF Archive
        <4>3. {b.file : b \in {label_to_archive[d] : d \in Range(Deps(l))}} = {label_to_archive[d].file : d \in Range(Deps(l))}
          OBVIOUS
        <4>4. {b.libs : b \in {label_to_archive[d] : d \in Range(Deps(l))}} = sets BY <3>3
        <4> QED BY <3>2, <4>2, <4>3, <4>4
      <3>5. \A d \in Range(Deps(l)) : Made(label_to_archive[d], d, DOMAIN label_to_archive) BY <1>7, <1>8
      <3>6. a.direct = {FileOf(d) : d \in Range(Deps(l))}
        <4>1. \A d \in Range(Deps(l)) : label_to_archive[d].file = FileOf(d) BY <3>5 DEF Made
        <4> QED BY <3>4, <4>1
      <3>7. ~DependsOnEmbedded => Linkable(a.libs, keys)
        <4> SUFFICES ASSUME ~DependsOnEmbedded PROVE Linkable(a.libs, keys) OBVIOUS
        <4>1. \A s \in sets : Linkable(s, DOMAIN label_to_archive) BY <3>3, <3>5 DEF Made
        <4>2. Linkable(UNION sets, DOMAIN label_to_archive) BY <4>1, LinkableUnion
        <4>3. \A d \in Range(Deps(l)) : FileOf(d) \in UNION sets
          <5>1. \A d \in Range(Deps(l)) : FileOf(d) \in label_to_archive[d].libs BY <3>5 DEF Made
          <5> QED BY <3>3, <5>1
        <4>4. l \in Label \ Replaced /\ DOMAIN label_to_archive \cup {l} \subseteq keys BY <2>2, <1>6, <1>9
        <4>5. Linkable({FileOf(l)} \cup UNION sets, keys) BY <4>2, <4>3, <4>4, <1>4, LinkableMore
        <4> QED BY <3>4, <4>5
      <3> QED BY <2>2, <3>4, <3>6, <3>7 DEF Made
    <2> QED BY <2>1, <2>2
  <1>12. ASSUME NEW k \in DOMAIN label_to_archive PROVE Made(label_to_archive[k], k, keys)
    <2>1. DOMAIN label_to_archive \subseteq keys BY <1>9
    <2> QED BY <2>1, <1>8, LinkableStill DEF Made
  <1>13. \A k \in DOMAIN label_to_archive' : k \in Label /\ Made(label_to_archive'[k], k, DOMAIN label_to_archive')
    <2> SUFFICES ASSUME NEW k \in keys PROVE k \in Label /\ Made(label_to_archive'[k], k, keys)
      BY <1>10
    <2>1. CASE k = l BY <2>1, <1>6, <1>10, <1>11
    <2>2. CASE k # l BY <2>2, <1>8, <1>10, <1>12
    <2> QED BY <2>1, <2>2
  <1>14. (\A k \in DOMAIN label_to_archive : k \in Label /\ Made(label_to_archive[k], k, DOMAIN label_to_archive))'
    <2>1. \A b, k, ks : Made(b, k, ks)' <=> Made(b, k, ks) BY <1>2, SameMade
    <2> QED BY <1>13, <2>1
  <1>15. InternalRecompiled'
    <2>1. {Original(d) : d \in Range(Direct) \ Importers}' = {Original(d) : d \in Range(Direct) \ Importers}
      BY <1>2, SameGraph DEF Original, Transitive, Deps, Direct, Range
    <2>2. {d \in Range(Direct) : d \in Importers /\ ~input.cgo}' = {d \in Range(Direct) : d \in Importers /\ ~input.cgo}
      BY <1>2, SameGraph DEF Direct, Deps, Range
    <2> QED BY <1>2, <1>4, <2>1, <2>2 DEF InternalRecompiled, Archive
  <1>16. (Done \subseteq DOMAIN need_recompile)' BY <1>2, <1>4 DEF Done, Range
  <1>17. \A k \in DOMAIN need_recompile' : need_recompile'[k] \in BOOLEAN BY <1>2 DEF LinkInv
  <1>18. arc_data_list' # {} BY <1>2 DEF LinkInv, MakeArchive
  <1> QED BY <1>3, <1>14, <1>15, <1>16, <1>17, <1>18 DEF LinkInv

\* The build has an archive for every dependency, or keeps those of the targets.
LEMMA BuildLinked ==
  ASSUME Inv, EndInv, LinkInv, EndInv', NothingToRecompile \/ Return \/ CompileInternal \/ RecompileEnded \/ UNCHANGED recompileVars
  PROVE  LinkInv'
  <1>1. UNCHANGED <<input, outcome, external>>
    BY DEF NothingToRecompile, Return, CompileInternal, RecompileEnded, recompileVars
  <1>2. phase' # "failed" BY DEF EndInv
  <1>3. /\ NoneRecompiled' <=> NoneRecompiled
        /\ InternalRecompiled' <=> InternalRecompiled
        /\ (\A l \in DOMAIN need_recompile : need_recompile[l] \in BOOLEAN)'
        /\ (\A l \in DOMAIN label_to_archive :
               l \in Label /\ Made(label_to_archive[l], l, DOMAIN label_to_archive))'
    BY <1>1, SameArchives DEF LinkInv
  <1>4. (UnderTest = {})' <=> UnderTest = {} BY <1>1, SameGraph DEF UnderTest, Transitive, Deps, Range
  <1>5. (Range(external) \subseteq DOMAIN label_to_archive /\ DOMAIN label_to_archive # {})'
           <=> Range(external) \subseteq DOMAIN label_to_archive /\ DOMAIN label_to_archive # {}
    BY <1>1 DEF outcome, Range
  <1>6. CASE NothingToRecompile
    <2>1. phase = "external" /\ phase' = "compile" /\ UnderTest = {} /\ NoneRecompiled
      BY <1>6 DEF NothingToRecompile, LinkInv
    <2> QED BY <2>1, <1>3, <1>4 DEF LinkInv
  <1>7. CASE Return
    <2>1. phase = "archives" /\ phase' = "compile" /\ todo = <<>> /\ InternalRecompiled /\ Loop(DOMAIN label_to_archive)
      BY <1>2, <1>7 DEF Return, LinkInv, EndInv
    <2>2. Range(external) \subseteq DOMAIN label_to_archive BY <2>1, LoopEnd
    <2>3. DOMAIN label_to_archive # {}
      <3>1. arc_data_list # {} BY <2>1 DEF LinkInv
      <3>2. Done \subseteq DOMAIN label_to_archive /\ Done = arc_data_list BY <2>1, LoopEnd DEF EndInv
      <3> QED BY <3>1, <3>2
    <2> QED BY <2>1, <2>2, <2>3, <1>3, <1>5 DEF LinkInv
  <1>8. CASE CompileInternal
    <2>1. phase = "compile" /\ phase' \in {"cycle", "missing", "built"} BY <1>8 DEF CompileInternal
    <2> QED BY <2>1, <1>3, <1>4, <1>5 DEF LinkInv
  <1>9. CASE RecompileEnded \/ UNCHANGED recompileVars
    <2>1. UNCHANGED <<phase, dep_list, need_recompile>> BY <1>9 DEF RecompileEnded, recompileVars, search, outcome
    <2>2. (Done \subseteq DOMAIN need_recompile)' <=> Done \subseteq DOMAIN need_recompile BY <2>1 DEF Done, Range
    <2>3. (arc_data_list # {})' <=> arc_data_list # {} BY <1>9 DEF RecompileEnded, recompileVars
    <2> QED BY <2>1, <2>2, <2>3, <1>3, <1>4, <1>5 DEF LinkInv
  <1> QED BY <1>6, <1>7, <1>8, <1>9

-----------------------------------------------------------------------------
(* What is linked and what fails *)

\* The internal archive fails to compile for the right reason.
LEMMA Compiling ==
  ASSUME Inv, EndInv, LinkInv, CompileInternal
  PROVE  CycleReported'
  <1>1. phase = "compile" /\ input \in Inputs /\ external \in Seq(Label) /\ UNCHANGED <<input, outcome>>
    BY DEF CompileInternal, Inv, RecompileTypeOK
  <1>2. Test \in Label /\ IsInput(input) BY <1>1, InputAssumption
  <1>3. input.imports \subseteq Range(Direct) /\ Range(Direct) \subseteq Label
    BY <1>1, <1>2, Dependencies DEF IsInput, Direct, Deps
  <1>4. \A m, d \in Range(Direct) : input.path[m] = input.path[d] => m = d
    <2> DEFINE s == input.deps[Test]
    <2>1. \A m, n \in DOMAIN s : input.path[s[m]] = input.path[s[n]] => m = n BY <1>2 DEF IsInput
    <2>2. Range(Direct) = {s[n] : n \in DOMAIN s} BY DEF Direct, Deps, Range
    <2> HIDE DEF s
    <2> QED BY <2>1, <2>2
  <1>5. /\ \A m \in input.imports : <<m, FALSE>> \in internal.direct <=> m \notin Importers
        /\ need_recompile_deps = {d \in Range(Direct) : d \in Importers /\ ~input.cgo}
    <2>1. CASE NoneRecompiled /\ UnderTest = {}
      <3>1. internal.direct = {<<d, FALSE>> : d \in Range(Direct)}
        BY <2>1 DEF NoneRecompiled, Original, Direct
      <3>2. ASSUME NEW d \in Range(Direct) PROVE d \notin Importers
        <4>1. Range(external) \subseteq Label /\ d \in Range(external)
          <5>1. Range(Direct) \subseteq Range(external) BY <1>1 DEF EndInv
          <5> QED BY <1>1, <5>1 DEF Range
        <4>2. /\ d \in Transitive(Range(external))
              /\ \A k \in Transitive(Range(external)) : Range(Deps(k)) \subseteq Transitive(Range(external))
              /\ Transitive(Range(external)) \subseteq Label
          BY <1>1, <4>1, Closed
        <4>3. Range(Deps(d)) \subseteq Label /\ Range(Deps(d)) \subseteq Transitive(Range(external))
          BY <4>2
        <4>4. Transitive(Range(Deps(d))) \subseteq Transitive(Range(external)) BY <1>1, <4>2, <4>3, Closed
        <4> QED BY <4>4, <2>1 DEF UnderTest, Importers
      <3> QED BY <3>1, <3>2, <1>3, <2>1 DEF NoneRecompiled
    <2>2. CASE InternalRecompiled
      <3>1. internal.direct = {a.file : a \in {Original(d) : d \in Range(Direct) \ Importers}}
        BY <2>2 DEF InternalRecompiled, Archive
      <3>2. \A d : Original(d).file = <<d, FALSE>> BY DEF Original
      <3>3. {a.file : a \in {Original(d) : d \in Range(Direct) \ Importers}}
               = {Original(d).file : d \in Range(Direct) \ Importers}
        OBVIOUS
      <3>4. {Original(d).file : d \in Range(Direct) \ Importers} = {<<d, FALSE>> : d \in Range(Direct) \ Importers}
        BY <3>2
      <3>5. internal.direct = {<<d, FALSE>> : d \in Range(Direct) \ Importers} BY <3>1, <3>3, <3>4
      <3> QED BY <3>5, <1>3, <2>2 DEF InternalRecompiled
    <2> QED BY <1>1, <2>1, <2>2 DEF LinkInv
  <1>6. /\ phase' \in {"cycle", "missing"} => input.imports \cap Importers # {}
        /\ phase' = "built" => input.imports \cap Importers = {}
        /\ phase' = "missing" => input.cgo
    <2>1. CASE \E m \in input.imports, d \in need_recompile_deps : input.path[m] = input.path[d]
      <3>1. phase' = "cycle" BY <2>1 DEF CompileInternal
      <3> QED BY <2>1, <3>1, <1>3, <1>4, <1>5
    <2>2. CASE ~\E m \in input.imports, d \in need_recompile_deps : input.path[m] = input.path[d]
      <3>1. phase' = IF \A m \in input.imports : <<m, FALSE>> \in internal.direct THEN "built" ELSE "missing"
        BY <2>2 DEF CompileInternal
      <3>2. \A m \in input.imports : m \notin need_recompile_deps BY <2>2
      <3> QED BY <3>1, <3>2, <1>3, <1>5
    <2> QED BY <2>1, <2>2
  <1> QED BY <1>1, <1>6, SameGraph DEF CycleReported

\* The files linked stand for archives, each with what it was compiled against.
LEMMA LinkedTogether ==
  ASSUME Inv, EndInv, LinkInv, phase \in {"compile", "built"}, ~DependsOnEmbedded
  PROVE  OneCopyLinked /\ ExportDataMatches
  <1>1. input \in Inputs /\ external \in Seq(Label) /\ Range(external) \subseteq Label
        /\ Range(Direct) \subseteq Range(external)
    <2>1. input \in Inputs /\ external \in Seq(Label) BY DEF Inv, RecompileTypeOK
    <2>2. Range(Direct) \subseteq Range(external) BY DEF EndInv
    <2>3. Range(external) \subseteq Label BY <2>1 DEF Range
    <2> QED BY <2>1, <2>2, <2>3
  <1>2. Test \in Label /\ IsInput(input) BY <1>1, InputAssumption
  <1>3. \A k, l \in Label \ input.embeds : input.path[k] = input.path[l] => k = l BY <1>2 DEF IsInput
  <1>4. Test \notin input.embeds BY <1>2 DEF IsInput
  <1>5. CASE NoneRecompiled /\ UnderTest = {}
    <2> DEFINE T == Transitive(Range(external))
    <2>1. Linked = {<<Test, FALSE>>} \cup {<<l, FALSE>> : l \in T}
      BY <1>5 DEF Linked, NoneRecompiled, Original
    <2>2. T \subseteq Label /\ Range(external) \subseteq T /\ \A k \in T : Range(Deps(k)) \subseteq T
      BY <1>1, Closed
    <2>3. \A k \in T : k \notin input.embeds BY <1>5 DEF UnderTest
    <2> HIDE DEF T
    <2>4. \A g \in Linked : \E k \in T \cup {Test} : g = <<k, FALSE>> BY <2>1
    <2>5. OneCopyLinked
      <3> SUFFICES ASSUME NEW g \in Linked, NEW h \in Linked, input.path[g[1]] = input.path[h[1]] PROVE g = h
        BY DEF OneCopyLinked
      <3>1. PICK k \in T \cup {Test} : g = <<k, FALSE>> BY <2>4
      <3>2. PICK l \in T \cup {Test} : h = <<l, FALSE>> BY <2>4
      <3>3. k \in Label \ input.embeds /\ l \in Label \ input.embeds BY <2>2, <2>3, <1>2, <1>4
      <3> QED BY <3>1, <3>2, <3>3, <1>3
    <2>6. ExportDataMatches
      <3> SUFFICES ASSUME NEW g \in Linked PROVE CompiledAgainst(g) \subseteq Linked
        BY DEF ExportDataMatches
      <3>1. PICK k \in T \cup {Test} : g = <<k, FALSE>> BY <2>4
      <3>2. CompiledAgainst(g) = {<<d, FALSE>> : d \in Range(Deps(k))}
        <4>1. internal.file = <<Test, FALSE>> /\ internal.direct = {<<d, FALSE>> : d \in Range(Deps(Test))}
          BY <1>5 DEF NoneRecompiled, Original
        <4>2. g[1] = k /\ ~g[2] BY <3>1
        <4>3. CASE g = internal.file
          <5>1. k = Test BY <4>1, <4>3, <3>1
          <5> QED BY <4>1, <4>3, <5>1 DEF CompiledAgainst
        <4>4. CASE g # internal.file
          <5>1. CompiledAgainst(g) = Original(k).direct BY <4>2, <4>4 DEF CompiledAgainst
          <5> QED BY <5>1 DEF Original
        <4> QED BY <4>3, <4>4
      <3>3. Range(Deps(k)) \subseteq T BY <2>2, <1>1 DEF Direct
      <3> QED BY <3>2, <3>3, <2>1
    <2> QED BY <2>5, <2>6
  <1>6. CASE InternalRecompiled /\ Range(external) \subseteq DOMAIN label_to_archive
                                /\ DOMAIN label_to_archive # {}
    <2>1. internal.file = <<Test, TRUE>> /\ internal.direct = {<<d, FALSE>> : d \in Range(Direct) \ Importers}
      <3>1. internal.direct = {a.file : a \in {Original(d) : d \in Range(Direct) \ Importers}}
            /\ internal.file = <<Test, TRUE>>
        BY <1>6 DEF InternalRecompiled, Archive
      <3>2. \A d : Original(d).file = <<d, FALSE>> BY DEF Original
      <3>3. {a.file : a \in {Original(d) : d \in Range(Direct) \ Importers}}
               = {Original(d).file : d \in Range(Direct) \ Importers}
        OBVIOUS
      <3>4. {Original(d).file : d \in Range(Direct) \ Importers} = {<<d, FALSE>> : d \in Range(Direct) \ Importers}
        BY <3>2
      <3> QED BY <3>1, <3>3, <3>4
    <2>2. PICK keys : keys = DOMAIN label_to_archive OBVIOUS
    <2>3. \A l \in keys : l \in Label /\ Made(label_to_archive[l], l, keys) BY <2>2 DEF LinkInv
    <2>4. label_to_archive # EmptyDict BY <1>6 DEF EmptyDict
    <2>5. PICK sets : sets = {label_to_archive[l].libs : l \in Range(external)} OBVIOUS
    <2>6. Linked = {<<Test, TRUE>>} \cup UNION sets BY <2>1, <2>4, <2>5 DEF Linked
    <2>7. Linkable(UNION sets, keys)
      <3>1. \A s \in sets : Linkable(s, keys) BY <1>6, <2>2, <2>3, <2>5 DEF Made
      <3> QED BY <3>1, LinkableUnion
    <2>8. \A d \in Range(Direct) : FileOf(d) \in UNION sets
      <3>1. \A e \in Range(Direct) : FileOf(e) \in label_to_archive[e].libs BY <1>1, <1>6, <2>2, <2>3 DEF Made
      <3> SUFFICES ASSUME NEW d \in Range(Direct) PROVE FileOf(d) \in UNION sets OBVIOUS
      <3>2. label_to_archive[d].libs \in sets BY <1>1, <2>5
      <3>3. FileOf(d) \in label_to_archive[d].libs BY <3>1
      <3> QED BY Zenon, <3>2, <3>3
    <2>9. \A g \in Linked : \E k \in Label : g = FileOf(k) /\ (k \in Importers \ Replaced => k \in keys)
      <3>1. Test \in Replaced /\ <<Test, TRUE>> = FileOf(Test) BY OneArchive DEF Replaced
      <3> QED BY <3>1, <1>2, <2>6, <2>7 DEF Linkable
    <2>10. OneCopyLinked
      <3> SUFFICES ASSUME NEW g \in Linked, NEW h \in Linked, input.path[g[1]] = input.path[h[1]] PROVE g = h
        BY DEF OneCopyLinked
      <3>1. PICK k \in Label : g = FileOf(k) BY <2>9
      <3>2. PICK l \in Label : h = FileOf(l) BY <2>9
      <3>3. g[1] \in Label \ input.embeds /\ h[1] \in Label \ input.embeds
        <4>1. \A j \in Label : FileOf(j)[1] \in Label \ input.embeds
          <5> SUFFICES ASSUME NEW j \in Label PROVE FileOf(j)[1] \in Label \ input.embeds OBVIOUS
          <5>1. CASE j \in Replaced
            <6>1. FileOf(j) = <<Test, TRUE>> BY <5>1, OneArchive
            <6> QED BY <6>1, <1>2, <1>4
          <5>2. CASE j \notin Replaced
            <6>1. FileOf(j) = <<j, j \in Importers>> BY <5>2, OneArchive
            <6> QED BY <6>1, <5>2 DEF Replaced
          <5> QED BY <5>1, <5>2
        <4> QED BY <3>1, <3>2, <4>1
      <3>4. g[1] = h[1] BY <3>3, <1>3
      <3>5. \A j \in Label : IF FileOf(j)[1] = Test THEN FileOf(j) = <<Test, TRUE>>
                             ELSE FileOf(j) = <<FileOf(j)[1], FileOf(j)[1] \in Importers>>
        <4> SUFFICES ASSUME NEW j \in Label
                     PROVE  IF FileOf(j)[1] = Test THEN FileOf(j) = <<Test, TRUE>>
                            ELSE FileOf(j) = <<FileOf(j)[1], FileOf(j)[1] \in Importers>>
          OBVIOUS
        <4>1. CASE j \in Replaced
          <5>1. FileOf(j) = <<Test, TRUE>> BY <4>1, OneArchive
          <5> QED BY <5>1
        <4>2. CASE j \notin Replaced
          <5>1. FileOf(j) = <<j, j \in Importers>> /\ j # Test BY <4>2, OneArchive DEF Replaced
          <5>2. FileOf(j)[1] = j BY <5>1
          <5> QED BY <5>1, <5>2
        <4> QED BY <4>1, <4>2
      <3> QED BY <3>1, <3>2, <3>4, <3>5
    <2>11. ExportDataMatches
      <3> SUFFICES ASSUME NEW g \in Linked PROVE CompiledAgainst(g) \subseteq Linked
        BY DEF ExportDataMatches
      <3>1. PICK k \in Label : g = FileOf(k) /\ (k \in Importers \ Replaced => k \in keys) BY <2>9
      <3>2. CASE k \in Replaced
        <4>1. g = internal.file BY <3>1, <3>2, <2>1, OneArchive
        <4>2. \A d \in Range(Direct) \ Importers : FileOf(d) = <<d, FALSE>> BY <1>1, CleanClosure
        <4> QED BY <4>1, <4>2, <2>1, <2>6, <2>8 DEF CompiledAgainst
      <3>3. CASE k \notin Replaced
        <4>1. g = <<k, k \in Importers>> /\ g # internal.file BY <3>1, <3>3, <2>1, OneArchive
        <4>2. \A d \in Range(Deps(k)) : FileOf(d) \in Linked
          <5>1. g \in UNION sets BY <2>1, <2>6, <4>1
          <5> QED BY <3>1, <3>3, <5>1, <2>6, <2>7 DEF Linkable
        <4>3. g[1] = k /\ g[2] = (k \in Importers) BY <4>1
        <4>4. CASE k \in Importers
          <5>1. g[2] BY <4>3, <4>4
          <5>2. CompiledAgainst(g) = label_to_archive[k].direct BY <5>1, <4>1, <4>3 DEF CompiledAgainst
          <5>3. Made(label_to_archive[k], k, keys) BY <3>1, <3>3, <4>4, <2>3
          <5>4. CompiledAgainst(g) = {FileOf(d) : d \in Range(Deps(k))} BY <5>2, <5>3, <3>3 DEF Made
          <5> QED BY <5>4, <4>2
        <4>5. CASE k \notin Importers
          <5>1. ~g[2] BY <4>3, <4>5
          <5>2. CompiledAgainst(g) = Original(k).direct BY <5>1, <4>1, <4>3 DEF CompiledAgainst
          <5>3. CompiledAgainst(g) = {<<d, FALSE>> : d \in Range(Deps(k))} BY <5>2 DEF Original
          <5>4. \A d \in Range(Deps(k)) : FileOf(d) = <<d, FALSE>> BY <4>5, <1>1, CleanDeps
          <5> QED BY <5>3, <5>4, <4>2
        <4> QED BY <4>4, <4>5
      <3> QED BY <3>2, <3>3
    <2> QED BY <2>10, <2>11
  <1> QED BY <1>5, <1>6 DEF LinkInv

\* The archives of every state of the rule, for any graph.
THEOREM LinkedInductive == RecompileSpec => []LinkInv
  <1>1. ASSUME Inv, EndInv, RecompiledExactly, LinkInv, EndInv', [RecompileNext]_recompileVars PROVE LinkInv'
    BY <1>1, SearchLinked, NeedLinked, InternalLinked, MakeLinked, BuildLinked DEF RecompileNext
  <1> QED BY <1>1, InitLinked, SearchInductive, NothingMissing, RecompiledExactlyHolds, PTL DEF RecompileSpec

\* Whatever imports what, unless the test depends on a library it embeds: the library under test is not
\* linked beside the archive that embeds it, and every archive is linked with the files it was compiled
\* against, without a second look at the graph, only because of the order of the list.
THEOREM LinksTogetherHolds == RecompileSpec => []LinksTogether
  <1>1. Inv /\ EndInv /\ LinkInv => LinksTogether BY LinkedTogether DEF LinksTogether
  <1> QED BY <1>1, SearchInductive, NothingMissing, LinkedInductive, PTL

\* The build of the internal archive fails exactly if its sources import an archive that imports it,
\* and says so unless cgo is used.
THEOREM CycleReportedHolds == RecompileSpec => []CycleReported
  <1>1. RecompileInit => CycleReported BY DEF RecompileInit, CycleReported
  <1>2. ASSUME Inv, EndInv, LinkInv, CycleReported, EndInv', [RecompileNext]_recompileVars PROVE CycleReported'
    <2>1. CASE CompileInternal BY <1>2, <2>1, Compiling
    <2>2. CASE RecompileEnded \/ UNCHANGED recompileVars
      <3>1. UNCHANGED <<input, phase>> BY <2>2 DEF RecompileEnded, recompileVars
      <3> QED BY <1>2, <3>1, SameGraph DEF CycleReported
    <2>3. CASE ~(CompileInternal \/ RecompileEnded \/ UNCHANGED recompileVars)
      <3>1. phase' \notin {"cycle", "missing", "built"}
        BY <1>2, <2>3 DEF RecompileNext, DedupArchives, NothingToRecompile, StartSearch, Finish, Step, NotifyDependent,
           Notified, Expand, PushDep, DepsPushed, SearchEnds, NeedRecompile, RecompileInternal, MakeArchive, Return
      <3> QED BY <3>1 DEF CycleReported
    <2> QED BY <2>1, <2>2, <2>3
  <1> QED BY <1>1, <1>2, SearchInductive, NothingMissing, LinkedInductive, PTL DEF RecompileSpec
=============================================================================
