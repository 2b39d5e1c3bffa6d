------------------------------ MODULE NogoFix -------------------------------
(***************************************************************************)
(* getFixes and validate of nogo_fix.go: the suggested fixes of all        *)
(* diagnostics are merged into one list of edits per file. A diagnostic    *)
(* offers alternative fixes; the first whose edits, together with all the  *)
(* edits chosen before, pass validate in every file is taken as a whole.   *)
(* The loops of getFixes and validate are the steps; candidateChanges is a *)
(* Go map, so its files are validated in any order.                        *)
(***************************************************************************)
EXTENDS Naturals, Sequences

CONSTANTS
    File,      \* the files of the package
    NoFile,    \* an edit at a position without file information
    Byte,      \* what files and replacement texts consist of
    Source,    \* the contents of the files
    Text,      \* replacement texts
    Offset,    \* byte offsets
    Inputs     \* the diagnosticEntry lists getFixes may be called with

nogoEdit == [file : File \cup {NoFile}, start : Offset, end : Offset, new : Text]

\* A diagnostic is the sequence of its SuggestedFixes, a fix the sequence of its TextEdits.
ASSUME InputAssumption ==
    /\ NoFile \notin File
    /\ Source \in [File -> Seq(Byte)] /\ Text \subseteq Seq(Byte)
    /\ Offset \subseteq Nat
    /\ Inputs \subseteq Seq(Seq(Seq(nogoEdit)))

\* The positions of an edit lie in its file: they are those of the token.File that was made of it.
ASSUME PositionAssumption ==
    \A input \in Inputs : \A k \in 1..Len(input) : \A l \in 1..Len(input[k]) : \A m \in 1..Len(input[k][l]) :
        LET e == input[k][l][m] IN
        e.file # NoFile => e.start <= Len(Source[e.file]) /\ e.end <= Len(Source[e.file])

VARIABLES
    entries,           \* the argument of getFixes
    pc,                \* "entry", "fix", "edits", "files", "validate", "decide" or "done"
    d,                 \* index of the current diagnostic
    f,                 \* index of its current suggested fix
    n,                 \* index of the current text edit of the fix
    finalChanges,      \* finalChanges[file]: the edits chosen so far
    candidateChanges,  \* candidateChanges[file], <<>> if the key is absent
    applicable,        \* the fix has no issue so far
    todo,              \* files of candidateChanges not yet validated
    file,              \* the file validate works on
    sorted,            \* validate's stably sorted copy of its argument
    i,                 \* validate's loop index
    kept,              \* validatedEdits[:tail]
    chosen,            \* chosen[k]: the fix taken for diagnostic k, 0 for none (history)
    errors             \* the diagnostics allErrors has an entry for

validateState == <<file, sorted, i, kept>>
vars == <<entries, pc, d, f, n, finalChanges, candidateChanges, applicable, todo,
          validateState, chosen, errors>>

NoChanges == [x \in File |-> <<>>]

Init ==
    /\ entries \in Inputs
    /\ pc = "entry" /\ d = 1 /\ f = 0 /\ n = 0
    /\ finalChanges = NoChanges /\ candidateChanges = NoChanges
    /\ applicable = TRUE /\ todo = {}
    /\ file = NoFile /\ sorted = <<>> /\ i = 0 /\ kept = <<>>
    /\ chosen = [k \in 1..Len(entries) |-> 0]
    /\ errors = {}

-----------------------------------------------------------------------------
(* byStartEnd, sort.Stable and nogoEdit.Equals *)

Less(a, b) == a.start < b.start \/ (a.start = b.start /\ a.end < b.end)

\* The order sort.Stable gives the indices of s.
Precedes(s, j, k) == Less(s[j], s[k]) \/ (~Less(s[k], s[j]) /\ j < k)

\* The results of a stable sort of s (there is one).
StableSorts(s) ==
    {[m \in 1..Len(s) |-> s[p[m]]] :
        p \in {q \in [1..Len(s) -> 1..Len(s)] :
                  \A j, k \in 1..Len(s) : j < k => Precedes(s, q[j], q[k])}}

Equals(a, b) == a.start = b.start /\ a.end = b.end /\ a.new = b.new

-----------------------------------------------------------------------------
(* getFixes *)

\* The next diagnostic; one without suggested fixes is passed over.
NextEntry ==
    /\ pc = "entry"
    /\ IF d > Len(entries) THEN pc' = "done" /\ UNCHANGED <<d, f>>
       ELSE IF entries[d] = <<>> THEN d' = d + 1 /\ UNCHANGED <<pc, f>>
       ELSE pc' = "fix" /\ f' = 1 /\ UNCHANGED d
    /\ UNCHANGED <<entries, n, finalChanges, candidateChanges, applicable, todo,
                   validateState, chosen, errors>>

BeginFix ==
    /\ pc = "fix"
    /\ candidateChanges' = NoChanges /\ applicable' = TRUE /\ n' = 1
    /\ pc' = "edits"
    /\ UNCHANGED <<entries, d, f, finalChanges, todo, validateState, chosen, errors>>

\* One more text edit of the fix is added to the candidate's edits of its file.
CollectEdit ==
    /\ pc = "edits" /\ n <= Len(entries[d][f])
    /\ LET edit == entries[d][f][n] IN
          /\ edit.file # NoFile
          /\ candidateChanges' = [candidateChanges EXCEPT ![edit.file] = Append(@, edit)]
    /\ n' = n + 1
    /\ UNCHANGED <<entries, pc, d, f, finalChanges, applicable, todo, validateState, chosen, errors>>

\* The loop over the edits ends, at the latest with the first edit without file information.
EditsCollected ==
    /\ pc = "edits"
    /\ n <= Len(entries[d][f]) => entries[d][f][n].file = NoFile
    /\ applicable' = (applicable /\ n > Len(entries[d][f]))
    /\ todo' = {x \in File : candidateChanges[x] # <<>>}
    /\ pc' = "files"
    /\ UNCHANGED <<entries, d, f, n, finalChanges, candidateChanges, validateState, chosen, errors>>

\* Call validate on the candidate's and the final edits of one more file.
CallValidate(x) ==
    /\ pc = "files"
    /\ x \in todo
    /\ todo' = todo \ {x}
    /\ file' = x
    /\ sorted' \in StableSorts(candidateChanges[x] \o finalChanges[x])
    /\ i' = 1 /\ kept' = <<>>
    /\ pc' = "validate"
    /\ UNCHANGED <<entries, n, d, f, finalChanges, candidateChanges, applicable, chosen, errors>>

\* validate found an invalid or overlapping edit: candidateChanges[file] becomes nil
\* and the loop over the files is left.
ValidateFails ==
    /\ pc = "validate" /\ i <= Len(sorted)
    /\ \/ sorted[i].start > sorted[i].end
       \/ /\ i > 1 /\ ~Equals(sorted[i - 1], sorted[i])
          /\ sorted[i - 1].end > sorted[i].start
    /\ candidateChanges' = [candidateChanges EXCEPT ![file] = <<>>]
    /\ applicable' = FALSE /\ todo' = {}
    /\ pc' = "decide"
    /\ UNCHANGED <<entries, n, d, f, finalChanges, validateState, chosen, errors>>

\* Mutant: the edits are taken as they come, without the overlap check.
ValidateEdit_NoOverlapCheck ==
    /\ pc = "validate" /\ i <= Len(sorted)
    /\ sorted[i].start <= sorted[i].end
    /\ IF i > 1 /\ Equals(sorted[i - 1], sorted[i]) THEN UNCHANGED kept
       ELSE kept' = Append(kept, sorted[i])
    /\ i' = i + 1
    /\ UNCHANGED <<entries, n, pc, d, f, finalChanges, candidateChanges, applicable, todo,
                   file, sorted, chosen, errors>>

\* The next edit is dropped if it repeats the one before it, and kept otherwise.
ValidateEdit ==
    /\ pc = "validate" /\ i <= Len(sorted)
    /\ sorted[i].start <= sorted[i].end
    /\ IF i > 1 /\ Equals(sorted[i - 1], sorted[i]) THEN UNCHANGED kept
       ELSE /\ i > 1 => sorted[i - 1].end <= sorted[i].start
            /\ kept' = Append(kept, sorted[i])
    /\ i' = i + 1
    /\ UNCHANGED <<entries, n, pc, d, f, finalChanges, candidateChanges, applicable, todo,
                   file, sorted, chosen, errors>>

ValidateReturns ==
    /\ pc = "validate" /\ i > Len(sorted)
    /\ candidateChanges' = [candidateChanges EXCEPT ![file] = kept]
    /\ pc' = "files"
    /\ UNCHANGED <<entries, n, d, f, finalChanges, applicable, todo, validateState, chosen, errors>>

AllValidated ==
    /\ pc = "files" /\ todo = {}
    /\ pc' = "decide"
    /\ UNCHANGED <<entries, n, d, f, finalChanges, candidateChanges, applicable, todo,
                   validateState, chosen, errors>>

\* Mutant: the files that passed are taken even if the fix as a whole is not applicable.
Accept_PerFile ==
    /\ pc = "decide" /\ (applicable \/ \E x \in File : candidateChanges[x] # <<>>)
    /\ finalChanges' = [x \in File |-> IF candidateChanges[x] = <<>> THEN finalChanges[x]
                                       ELSE candidateChanges[x]]
    /\ chosen' = [chosen EXCEPT ![d] = f]
    /\ d' = d + 1 /\ pc' = "entry"
    /\ UNCHANGED <<entries, n, f, candidateChanges, applicable, todo, validateState, errors>>

\* The fix has no issue: its files' edits replace the ones chosen so far.
Accept ==
    /\ pc = "decide" /\ applicable
    /\ finalChanges' = [x \in File |-> IF candidateChanges[x] = <<>> THEN finalChanges[x]
                                       ELSE candidateChanges[x]]
    /\ chosen' = [chosen EXCEPT ![d] = f]
    /\ d' = d + 1 /\ pc' = "entry"
    /\ UNCHANGED <<entries, n, f, candidateChanges, applicable, todo, validateState, errors>>

\* Move on to the diagnostic's next suggested fix, or report that none is applicable.
Reject ==
    /\ pc = "decide" /\ ~applicable
    /\ IF f < Len(entries[d])
       THEN f' = f + 1 /\ pc' = "fix" /\ UNCHANGED <<d, errors>>
       ELSE errors' = errors \cup {d} /\ d' = d + 1 /\ pc' = "entry" /\ UNCHANGED f
    /\ UNCHANGED <<entries, n, finalChanges, candidateChanges, applicable, todo,
                   validateState, chosen>>

Terminated == pc = "done" /\ UNCHANGED vars

Next ==
    \/ NextEntry \/ BeginFix \/ CollectEdit \/ EditsCollected
    \/ (\E x \in File : CallValidate(x))
    \/ ValidateFails \/ ValidateEdit \/ ValidateReturns \/ AllValidated
    \/ Accept \/ Reject \/ Terminated

Spec == Init /\ [][Next]_vars

-----------------------------------------------------------------------------
(* applyEdits *)

\* Mutant: copying resumes behind the start of the edit instead of its end.
applyEdits_FromStart(src, edits) ==
    LET len == Len(edits)
        Upto[k \in 0..len] ==
            IF k = 0 THEN <<>>
            ELSE Upto[k - 1] \o SubSeq(src, (IF k = 1 THEN 0 ELSE edits[k - 1].start) + 1, edits[k].start)
                            \o edits[k].new
    IN  Upto[len] \o SubSeq(src, (IF len = 0 THEN 0 ELSE edits[len].start) + 1, Len(src))

\* The bytes of src with the edits applied from left to right.
applyEdits(src, edits) ==
    LET len == Len(edits)
        Upto[k \in 0..len] ==
            IF k = 0 THEN <<>>
            ELSE Upto[k - 1] \o SubSeq(src, (IF k = 1 THEN 0 ELSE edits[k - 1].end) + 1, edits[k].start)
                            \o edits[k].new
    IN  Upto[len] \o SubSeq(src, (IF len = 0 THEN 0 ELSE edits[len].end) + 1, Len(src))

-----------------------------------------------------------------------------
(* Properties *)

TextEdit == [file : File, start : Offset, end : Offset, new : Text]

\* The variables keep the types of getFixes' and validate's variables.
TypeOK ==
    /\ entries \in Seq(Seq(Seq(nogoEdit)))
    /\ pc \in {"entry", "fix", "edits", "files", "validate", "decide", "done"}
    /\ d \in Nat \ {0} /\ f \in Nat /\ n \in Nat /\ (pc = "edits" => n >= 1)
    /\ pc \in {"fix", "edits", "files", "validate", "decide"} =>
          d \in 1..Len(entries) /\ f \in 1..Len(entries[d])
    /\ finalChanges \in [File -> Seq(TextEdit)]
    /\ candidateChanges \in [File -> Seq(TextEdit)]
    /\ applicable \in BOOLEAN
    /\ todo \in SUBSET File
    /\ file \in File \cup {NoFile} /\ (pc = "validate" => file \in File)
    /\ sorted \in Seq(TextEdit) /\ kept \in Seq(TextEdit)
    /\ i \in Nat /\ (pc = "validate" => i >= 1)
    /\ chosen \in [1..Len(entries) -> Nat]
    /\ errors \in SUBSET Nat

Ordered(s) ==
    /\ \A j \in 1..Len(s) : s[j].start <= s[j].end
    /\ \A j, k \in 1..Len(s) : j < k => s[j].end <= s[k].start

\* The edits of a file are sorted and do not overlap, as applyEdits assumes, although
\* validate compares each edit with its predecessor only and lists are merged repeatedly.
EditsOrdered == \A x \in File : Ordered(finalChanges[x])

\* A fix is taken with all its edits, in all files, for good; and every edit that will
\* be applied belongs to a fix that was taken.
FixesAtomic ==
    /\ \A k \in 1..Len(entries) : chosen[k] > 0 =>
          \A m \in 1..Len(entries[k][chosen[k]]) :
              LET e == entries[k][chosen[k]][m] IN
                  e.file \in File /\ \E j \in 1..Len(finalChanges[e.file]) :
                                       Equals(finalChanges[e.file][j], e)
    /\ \A x \in File : \A j \in 1..Len(finalChanges[x]) :
          \E k \in 1..Len(entries) : chosen[k] > 0 /\
              \E m \in 1..Len(entries[k][chosen[k]]) :
                  /\ entries[k][chosen[k]][m].file = x
                  /\ Equals(finalChanges[x][j], entries[k][chosen[k]][m])

\* What applying edits means, byte by byte: in front of every byte, and at the end, come the texts of the
\* edits that start there; the byte follows unless an edit covers it.
Texts(edits, p) ==
    LET upto[k \in 0..Len(edits)] ==
            IF k = 0 THEN <<>> ELSE upto[k - 1] \o (IF edits[k].start = p THEN edits[k].new ELSE <<>>)
    IN  upto[Len(edits)]
Covered(edits, p) == \E k \in 1..Len(edits) : edits[k].start <= p /\ p < edits[k].end
Expected(src, edits) ==
    LET upto[p \in 0..Len(src)] ==
            IF p = 0 THEN Texts(edits, 0)
            ELSE upto[p - 1] \o (IF Covered(edits, p - 1) THEN <<>> ELSE <<src[p]>>) \o Texts(edits, p)
    IN  upto[Len(src)]

\* applyEdits, applied to what getFixes returns, changes exactly the ranges the edits name and inserts
\* every text once per edit.
PatchExact == pc = "done" => \A x \in File : applyEdits(Source[x], finalChanges[x]) = Expected(Source[x], finalChanges[x])

=============================================================================
