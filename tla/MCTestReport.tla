---------------------------- MODULE MCTestReport -----------------------------
(* Test processes for TestWrap and TestReport. With -test.v=test2json every    *)
(* framing line begins with a marker; otherwise only failures are reported.    *)
EXTENDS TestReport

CONSTANTS T1, T2, T3

Framed(tok) == <<Marker, tok, Newline>>
Line(tok) == <<tok, Newline>>
Run(t) == Framed(Update("run", t))
MCForced == <<<<Marker>>, <<Final("fail")>>, <<Newline>>>>

MCToken ==
    {Marker, Newline, Text, Bench, SkipLine, TimedOut, RunningTests, Final("pass"), Final("fail")}
    \cup {Indented(n) : n \in 1..2} \cup {Entry(t) : t \in Test}
    \cup {Update(a, t) : a \in {"run", "pause", "cont", "name", "attr"}, t \in Test \cup {NoTest}}
    \cup {Report(a, t, n) : a \in {"pass", "fail", "skip"}, t \in Test, n \in 0..1}

\* What the testing package prints to stdout with -test.v=test2json.
\* T1 passes, T2 fails after a line that it did not end; T3 is a subtest of T1.
Verbose ==
    {Run(T1) \o Line(Text) \o Framed(Report("pass", T1, 0)) \o Run(T2) \o <<Text>>
        \o Framed(Report("fail", T2, 0)) \o Framed(Final("fail")),
     Run(T1) \o Framed(Update("pause", T1)) \o Run(T2) \o Framed(Report("skip", T2, 0))
        \o Framed(Update("cont", T1)) \o Framed(Update("name", T1)) \o Framed(Report("pass", T1, 0)) \o Framed(Final("pass")),
     Run(T1) \o Framed(Update("attr", T1)) \o Run(T3) \o <<Text, Text, Text, Text, Text>> \o Line(Text)
        \o Framed(Report("fail", T3, 0)) \o Framed(Report("fail", T1, 0)) \o Framed(Final("fail")),
     \* T1 panics; or the process ends without a word
     Run(T1) \o Line(Text) \o Framed(Report("fail", T1, 0)),
     Run(T1) \o Run(T3) \o Line(Text)}

\* T1 or its subtest hangs until the test binary's own timeout panics on stderr. Without markers
\* stdout has nothing but what the tests print, which may come between the lines of the list or,
\* unterminated, in front of one of them.
Hanging == {Run(T2) \o Framed(Report("pass", T2, 0)) \o Run(T1) \o Run(T3) \o Line(Text),
            Run(T1) \o Line(Text), Line(Report("fail", T2, 0)) \o <<Text>>, Line(Text), <<Text>>, <<>>}
Timeout == Line(TimedOut) \o Line(RunningTests) \o Line(Entry(T1)) \o Line(Entry(T3)) \o Line(Text)

\* Failures only, without markers: a failed subtest is nested below its parent.
Quiet ==
    {Line(Report("fail", T1, 0)) \o Line(Report("fail", T3, 1)) \o Line(Indented(2))
        \o Line(Report("fail", T2, 0)) \o Line(Final("fail")),
     Line(SkipLine), Line(Final("pass"))}

Stderr == {<<>>, Line(Text), Line(Text) \o <<Text, Text>>}

P(out, err, exit, xml) == [out |-> out, err |-> err, exit |-> exit, xml |-> xml]

\* A process that ends well has printed its final PASS (or had no tests).
Exits(out) == IF Final("pass") \in Range(out) \/ SkipLine \in Range(out) THEN {"ok", "code"}
              ELSE {"code", "signal"}

MCPrograms ==
    UNION {{P(out, err, exit, TRUE) : exit \in Exits(out)} : out \in Verbose, err \in Stderr}
    \cup UNION {{P(out, err, exit, FALSE) : exit \in Exits(out)} : out \in Quiet, err \in Stderr}
    \cup {P(out, Timeout, "code", TRUE) : out \in Hanging}
    \cup {P(<<>>, <<>>, "notStarted", TRUE)}

=============================================================================
