----------------------------- MODULE TestReport ------------------------------
(***************************************************************************)
(* What the wrapper makes of the test's output: the test2json Converter    *)
(* turns the lines it is given into events, json2xml the events into the   *)
(* verdicts of the XML report. Both are sequential functions of the writes *)
(* TestWrap passes on.                                                     *)
(* A token stands for a piece of a line: a whole framing directive, a run  *)
(* of text, the ^V marker or the newline.                                  *)
(***************************************************************************)
EXTENDS TestWrap, SequencesExt

CONSTANTS
    Test,       \* test names
    NoTest,     \* the empty name
    inBuffer,   \* capacities of the two line buffers, in tokens
    outBuffer

\* k: kind, a: action, t: test, n: indentation in units of four spaces
Tok(k, a, t, n) == [k |-> k, a |-> a, t |-> t, n |-> n]
Plain(k) == Tok(k, "", NoTest, 0)

Marker == Plain("mark")
Newline == Plain("nl")
Update(a, t) == Tok("update", a, t, 0)         \* "=== RUN   t"
Report(a, t, n) == Tok("report", a, t, n)      \* "--- FAIL: t"
Final(a) == Tok("final", a, NoTest, 0)         \* "PASS" or "FAIL"
Text == Plain("text")
Indented(n) == Tok("text", "", NoTest, n)
Bench == Plain("bench")                        \* "BenchmarkX" and a tab
SkipLine == Plain("skipline")                  \* "?   pkg [no test files]"
TimedOut == Plain("timeout")                   \* "panic: test timed out after "
RunningTests == Plain("running")               \* "running tests:"
Entry(t) == Tok("entry", "", t, 0)             \* "t (2s)"

-----------------------------------------------------------------------------
(* lineBuffer: a write results in calls of line and part, which do not touch the buffer *)

\* indexEOL: the length of the first line in b, 0 if none is complete. A marker that does
\* not begin the line ends it and stays for the next.
indexEOL(b) ==
    LET Ends == {j \in 1..Len(b) : b[j] = Newline \/ (b[j] = Marker /\ j > 1)}
    IN  IF Ends = {} THEN 0
        ELSE LET j == CHOOSE x \in Ends : \A y \in Ends : x <= y
             IN  IF b[j] = Newline THEN j ELSE j - 1

Call(mid, data) == [part |-> mid, data |-> data]

\* More calls, before those of a later result.
Before(calls, r) == [r EXCEPT !.calls = calls \o @]

\* ScanLines: the calls for the lines that are complete, and what stays in the buffer.
RECURSIVE ScanLines(_, _, _)
ScanLines(b, mid, e) ==
    IF e > 0 THEN
        LET tail == SubSeq(b, e + 1, Len(b))
        IN  Before(<<Call(mid, SubSeq(b, 1, e))>>, ScanLines(tail, FALSE, indexEOL(tail)))
    ELSE IF b # <<>> /\ ~mid /\ b[1] = Bench
         THEN [b |-> Tail(b), mid |-> TRUE, calls |-> <<Call(TRUE, <<b[1]>>)>>]
         ELSE [b |-> b, mid |-> mid, calls |-> <<>>]

\* A buffer that is full of one incomplete line is passed on in parts.
Spill(s, full, cap) ==
    IF s.b = full /\ Len(full) = cap
    THEN [b |-> <<>>, mid |-> TRUE, calls |-> Append(s.calls, Call(TRUE, full))] ELSE s

RECURSIVE BufferWrite(_, _, _)
BufferWrite(s, data, cap) ==
    IF data = <<>> THEN s
    ELSE LET m == Min({cap - Len(s.b), Len(data)})
             full == s.b \o SubSeq(data, 1, m)
         IN  Before(s.calls,
                    BufferWrite(Spill(ScanLines(full, s.mid, indexEOL(full)), full, cap),
                                SubSeq(data, m + 1, Len(data)), cap))

-----------------------------------------------------------------------------
(* Converter *)

Event(a, t, out) == [action |-> a, t |-> t, out |-> out]

EmptyBuffer == [b |-> <<>>, mid |-> FALSE, calls |-> <<>>]

NewConverter ==
    [testName |-> NoTest, report |-> <<>>, result |-> "",
     input |-> EmptyBuffer, output |-> EmptyBuffer,
     needMarker |-> FALSE, events |-> <<Event("start", NoTest, <<>>)>>]

writeEvent(c, e) ==
    [c EXCEPT !.events = Append(@, IF e.t = NoTest THEN [e EXCEPT !.t = c.testName] ELSE e)]

writeOutputEvent(c, out) == writeEvent(c, Event("output", NoTest, out))

outputWrite(c, data) ==
    LET step(d, call) == writeOutputEvent(d, call.data)
        run(w) == FoldLeft(step, [c EXCEPT !.output = [w EXCEPT !.calls = <<>>]], w.calls)
    IN  run(BufferWrite(c.output, data, outBuffer))

outputFlush(c) ==
    IF c.output.b = <<>> THEN c
    ELSE [writeOutputEvent(c, c.output.b) EXCEPT !.output.b = <<>>]

\* flushReport: the pending reports at this depth and deeper, the deepest first.
flushReport(c, depth) ==
    LET flushed == SubSeq(c.report, depth + 1, Len(c.report))
    IN  FoldLeft(writeEvent, [c EXCEPT !.testName = NoTest, !.report = SubSeq(@, 1, depth)],
                 Reverse(flushed))

\* Final PASS or FAIL.
handleFinal(c, body, sawMarker) ==
    LET d == [flushReport(c, 0) EXCEPT !.needMarker = sawMarker]
    IN  [outputWrite(d, body) EXCEPT !.result = body[1].a]

\* Mutant: the reports below are left pending when one of the same depth arrives.
handleReport_KeepsPending(c, body, sawMarker) ==
    LET h == body[1] IN
    IF Len(c.report) < h.n THEN outputWrite(c, body)
    ELSE LET d == [c EXCEPT !.needMarker = sawMarker]
         IN  outputWrite([d EXCEPT !.testName = h.t,
                                   !.report = Append(SubSeq(@, 1, h.n), Event(h.a, h.t, <<>>))], body)

\* "--- PASS: " and its like: pending until the next directive at this depth or above.
handleReport(c, body, sawMarker) ==
    LET h == body[1] IN
    IF Len(c.report) < h.n THEN outputWrite(c, body)
    ELSE LET d == flushReport([c EXCEPT !.needMarker = sawMarker], h.n)
         IN  outputWrite([d EXCEPT !.testName = h.t,
                                   !.report = Append(@, Event(h.a, h.t, <<>>))], body)

\* "=== RUN   " and its like.
handleUpdate(c, body, sawMarker) ==
    LET h == body[1]
        d == [flushReport([c EXCEPT !.needMarker = sawMarker], 0) EXCEPT !.testName = h.t]
        e == Event(h.a, NoTest, <<>>)
    IN  CASE h.a = "name" -> d
          [] h.a = "pause" -> writeEvent(outputWrite(d, body), e)
          [] OTHER -> outputWrite(writeEvent(d, e), body)

\* Not a special line: indentation tells which of the reported tests it belongs to.
handlePlain(c, body) ==
    LET n == IF body = <<>> THEN 0 ELSE body[1].n
        d == IF body # <<>> /\ body[1] = SkipLine /\ c.report = <<>>
             THEN [c EXCEPT !.result = "skip"] ELSE c
    IN  outputWrite(IF n > 0 /\ n <= Len(d.report) THEN [d EXCEPT !.testName = d.report[n].t]
                    ELSE d, body)

\* What begins the line decides.
handleDirective(c, body, sawMarker) ==
    LET kind == IF body = <<>> THEN "nl" ELSE body[1].k
    IN  CASE kind = "final" /\ body \in {<<body[1]>>, <<body[1], Newline>>} ->
                 handleFinal(c, body, sawMarker)
          [] kind = "report" -> handleReport(c, body, sawMarker)
          [] kind = "update" -> handleUpdate(c, body, sawMarker)
          [] OTHER -> handlePlain(c, body)

handleInputLine(c, ln) ==
    IF ln[1] = Marker THEN handleDirective(outputFlush(c), Tail(ln), TRUE)
    ELSE IF c.needMarker THEN outputWrite(c, ln)
    ELSE handleDirective(c, ln, FALSE)

\* Converter.Write
Write(c, data) ==
    LET step(d, call) == IF call.part THEN outputWrite(d, call.data) ELSE handleInputLine(d, call.data)
        run(w) == FoldLeft(step, [c EXCEPT !.input = [w EXCEPT !.calls = <<>>]], w.calls)
    IN  run(BufferWrite(c.input, data, inBuffer))

\* The overall result is the last event.
WriteResult(c) == IF c.result = "" THEN c ELSE writeEvent(c, Event(c.result, NoTest, <<>>))

\* Close flushes the input, then the output, and adds the overall result.
Close(c) == WriteResult(outputFlush([outputWrite(c, c.input.b) EXCEPT !.input.b = <<>>]))

Converted == Close(FoldLeft(Write, NewConverter, written))

-----------------------------------------------------------------------------
(* json2xml *)

NoCases == [state |-> [t \in Test |-> "absent"], inTimeout |-> FALSE, inRunning |-> FALSE]

SetState(x, t, s) == IF t = NoTest THEN x ELSE [x EXCEPT !.state[t] = s]

\* testCaseByName creates the case it looks for.
Touch(x, t) == IF t # NoTest /\ x.state[t] = "absent" THEN SetState(x, t, "") ELSE x

\* The list of running tests that follows a timeout panic marks its tests as interrupted;
\* the first output that is no entry of the list ends it.
outputEvent(x, e) ==
    LET first == IF e.out = <<>> THEN Newline ELSE e.out[1]
        isEntry == first.k = "entry" /\ e.out \in {<<first>>, <<first, Newline>>}
    IN  IF first = TimedOut THEN [x EXCEPT !.inTimeout = TRUE]
        ELSE IF x.inTimeout /\ first = RunningTests THEN [x EXCEPT !.inRunning = TRUE]
        ELSE IF x.inRunning /\ isEntry THEN SetState(x, first.t, "interrupt")
        ELSE IF x.inRunning THEN [x EXCEPT !.inTimeout = FALSE, !.inRunning = FALSE]
        ELSE Touch(x, e.t)

jsonEvent(x, e) ==
    CASE e.action \in {"run", "skip", "fail", "pass"} -> SetState(x, e.t, e.action)
      [] e.action = "output" -> outputEvent(x, e)
      [] e.action = "attr" -> Touch(x, e.t)
      [] OTHER -> x

json2xml(events) == FoldLeft(jsonEvent, NoCases, events)

\* toXML: the element a case gets; any other state is an error.
Verdict(s) == CASE s = "absent" -> "absent"
                [] s = "pass" -> "pass"
                [] s = "skip" -> "skipped"
                [] s = "fail" -> "failure"
                [] OTHER -> "error"

VerdictsOf(state) == [t \in Test |-> Verdict(state[t])]
Verdicts == VerdictsOf(json2xml(Converted.events).state)

-----------------------------------------------------------------------------
(* Properties *)

\* What the two streams have become: one text, the forced FAIL included.
Merged == FlattenSeq(written)

\* Only what begins a line, or follows a ^V, can be more than text: an unterminated line of
\* one stream takes the next line of the other one with it.
Begins(j) == j = 1 \/ Merged[j - 1] \in {Newline, Marker}
Printed(tok, j) == Merged[j] = tok /\ Begins(j)

\* A verdict counts where it begins a line and, if it is nested, comes below one that does.
Reported(t, a) ==
    \E n \in 0..1 : \E j \in DOMAIN Merged :
        /\ Printed(Report(a, t, n), j)
        /\ n = 0 \/ \E i \in 1..(j - 1) : Merged[i].k = "report" /\ Merged[i].n = 0 /\ Begins(i)

Started(t) == \E j \in DOMAIN Merged : Printed(Update("run", t), j)

\* The list of running tests ends with the first line that is no entry of it, be it a line of
\* the other stream: an entry counts if there are only entries between "running tests:" and it.
Listed(t) ==
    \E h, i, j \in DOMAIN Merged :
        /\ h < i /\ i < j
        /\ Printed(TimedOut, h) /\ Printed(RunningTests, i) /\ Printed(Entry(t), j)
        /\ \A m \in (i + 1)..j :
              Merged[m] = Newline \/ (Merged[m].k = "entry" /\ Begins(m))

\* The report says of every test what the merged output says of it, however the goroutines
\* merged the streams, the buffers cut the lines and the process ended: the verdict printed for
\* it, an error if it was started, or listed as running by the timeout, and has none, and
\* nothing otherwise. What the merging itself loses is lost: a verdict that an unterminated
\* line of stderr precedes on its line (wrap.go:98 merges lines, framed or not), and the entries
\* of the list that come after a line of stdout (xml.go:149-157).
VerdictsExact ==
    main = "end" => Verdicts = [t \in Test |->
                        CASE Reported(t, "fail") -> "failure"
                        [] Reported(t, "pass") -> "pass"
                        [] Reported(t, "skip") -> "skipped"
                        [] Started(t) \/ Listed(t) -> "error"
                        [] OTHER -> "absent"]

=============================================================================
