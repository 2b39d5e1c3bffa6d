---------------------------- MODULE NogoOutputProofs ----------------------------
(***************************************************************************)
(* What nogo puts out. The first part is about the fixes that one run      *)
(* suggests, the second about the findings and facts of all runs of a      *)
(* build: the two components share no state.                               *)
(*                                                                         *)
(* For every list of suggested fixes, the edits that getFixes returns for  *)
(* a file are in order and disjoint. validate only compares neighbours;    *)
(* the invariant of its loop carries the comparison over to all pairs.     *)
(* A fix is taken as a whole or not at all, and what applyEdits makes of   *)
(* the edits is what they say, byte by byte.                               *)
(*                                                                         *)
(* Which findings fail a build, and which facts reach an analysis: for any *)
(* graph of packages, however they are configured, and whatever fails, in  *)
(* every order of the actions.                                             *)
(* Between the findings of the nogo binary and the verdict of ValidateNogo *)
(* lie an exit code, which also tells of errors, and a log, which the      *)
(* builder leaves only for one of the codes. The invariant follows the     *)
(* findings through these, for each package by itself. Facts go through    *)
(* files, one per package: a second invariant says that the files of all   *)
(* packages below one that has started are final, and what they hold.      *)
(***************************************************************************)
EXTENDS NogoFix, NogoBuild, SequenceTheorems, FiniteSetTheorems, WellFoundedInduction, TLAPS

-----------------------------------------------------------------------------
(* Suggested fixes *)

\* What validate has kept is in order, and its last element is the last edit it looked at.
LoopInv ==
    pc = "validate" =>
        /\ i <= Len(sorted) + 1
        /\ Ordered(kept)
        /\ i = 1 => kept = <<>>
        /\ i > 1 => /\ Len(kept) > 0
                    /\ kept[Len(kept)].start = sorted[i - 1].start
                    /\ kept[Len(kept)].end = sorted[i - 1].end

\* The files of an applicable candidate that validate has seen are in order.
CandidateInv ==
    pc \in {"files", "validate", "decide"} /\ applicable =>
        \A x \in File \ todo :
            (pc = "validate" /\ x = file) \/ Ordered(candidateChanges[x])

DecideInv == pc = "decide" /\ applicable => todo = {}

IndInv == TypeOK /\ LoopInv /\ CandidateInv /\ DecideInv /\ EditsOrdered

-----------------------------------------------------------------------------
(* Lemmas on the sequences that validate handles *)

\* A stable sort of a sequence of edits is a sequence of edits.
LEMMA SortType ==
  ASSUME NEW s \in Seq(TextEdit), NEW t \in StableSorts(s)
  PROVE  t \in Seq(TextEdit)
  <1>1. PICK p \in [1..Len(s) -> 1..Len(s)] : t = [m \in 1..Len(s) |-> s[p[m]]]
    BY DEF StableSorts
  <1>2. \A m \in 1..Len(s) : s[p[m]] \in TextEdit
    BY <1>1, ElementOfSeq
  <1>3. Len(s) \in Nat
    OBVIOUS
  <1> QED
    BY <1>1, <1>2, <1>3, IsASeq

\* Appending an edit that starts behind the last one keeps the list in order.
LEMMA AppendOrdered ==
  ASSUME NEW s \in Seq(TextEdit), Ordered(s), NEW e \in TextEdit, e.start <= e.end,
         Len(s) > 0 => s[Len(s)].end <= e.start
  PROVE  Ordered(Append(s, e))
  <1> DEFINE t == Append(s, e)
  <1>1. /\ Len(t) = Len(s) + 1 /\ Len(s) \in Nat
        /\ \A j \in 1..Len(s) : t[j] = s[j]
        /\ t[Len(s) + 1] = e
    BY AppendProperties
  <1>2. ASSUME NEW j \in 1..Len(s) PROVE s[j].start \in Nat /\ s[j].end \in Nat
    <2>1. s[j] \in TextEdit
      BY ElementOfSeq
    <2> QED
      BY <2>1, InputAssumption DEF TextEdit
  <1>3. e.start \in Nat /\ e.end \in Nat
    BY InputAssumption DEF TextEdit
  <1>4. ASSUME NEW j \in 1..Len(t) PROVE t[j].start <= t[j].end
    <2>1. CASE j \in 1..Len(s)
      BY <2>1, <1>1 DEF Ordered
    <2>2. CASE j = Len(s) + 1
      BY <2>2, <1>1
    <2> QED
      BY <2>1, <2>2, <1>1
  <1>5. ASSUME NEW j \in 1..Len(t), NEW k \in 1..Len(t), j < k
        PROVE  t[j].end <= t[k].start
    <2>1. CASE k \in 1..Len(s)
      <3>1. j \in 1..Len(s)
        BY <2>1, <1>5, <1>1
      <3> QED
        BY <2>1, <3>1, <1>5, <1>1 DEF Ordered
    <2>2. CASE k = Len(s) + 1
      <3>1. j \in 1..Len(s) /\ Len(s) > 0 /\ Len(s) \in 1..Len(s)
        BY <2>2, <1>5, <1>1
      <3>2. s[j].end <= s[Len(s)].end
        <4>1. CASE j = Len(s)
          BY <4>1, <3>1, <1>2
        <4>2. CASE j < Len(s)
          <5>1. s[j].end <= s[Len(s)].start /\ s[Len(s)].start <= s[Len(s)].end
            BY <3>1, <4>2 DEF Ordered
          <5> QED
            BY <5>1, <3>1, <1>2
        <4> QED
          BY <3>1, <4>1, <4>2
      <3>3. s[j].end <= e.start
        BY <3>1, <3>2, <1>2, <1>3
      <3> QED
        BY <3>1, <3>3, <2>2, <1>1
    <2> QED
      BY <2>1, <2>2, <1>1
  <1> QED
    BY <1>4, <1>5 DEF Ordered

LEMMA EmptyOrdered == Ordered(<<>>)
  BY DEF Ordered

\* What the steps read from the input is a fix or an edit.
LEMMA InputTypes ==
  ASSUME TypeOK, pc \in {"fix", "edits", "files", "validate", "decide"}
  PROVE  /\ entries[d] \in Seq(Seq(nogoEdit))
         /\ entries[d][f] \in Seq(nogoEdit)
         /\ \A m \in 1..Len(entries[d][f]) : entries[d][f][m] \in nogoEdit
  <1>1. entries[d] \in Seq(Seq(nogoEdit))
    BY ElementOfSeq DEF TypeOK
  <1>2. entries[d][f] \in Seq(nogoEdit)
    BY <1>1, ElementOfSeq DEF TypeOK
  <1> QED
    BY <1>1, <1>2, ElementOfSeq

-----------------------------------------------------------------------------
(* The invariant *)

LEMMA InitIndInv == Init => IndInv
  <1> SUFFICES ASSUME Init PROVE IndInv
    OBVIOUS
  <1>1. TypeOK
    BY InputAssumption DEF Init, TypeOK, NoChanges
  <1>2. LoopInv /\ CandidateInv /\ DecideInv
    BY DEF Init, LoopInv, CandidateInv, DecideInv
  <1>3. EditsOrdered
    BY EmptyOrdered DEF Init, NoChanges, EditsOrdered
  <1> QED
    BY <1>1, <1>2, <1>3 DEF IndInv

LEMMA NextTypeOK == IndInv /\ [Next]_vars => TypeOK'
  <1> SUFFICES ASSUME IndInv, [Next]_vars PROVE TypeOK'
    OBVIOUS
  <1>t. TypeOK
    BY DEF IndInv
  <1>e. Len(entries) \in Nat /\ \A k \in 1..Len(entries) : Len(entries[k]) \in Nat
    BY <1>t, ElementOfSeq DEF TypeOK
  <1> USE <1>t
  <1>1. CASE NextEntry
    BY SMTT(60), <1>1, <1>e DEF NextEntry, TypeOK, validateState
  <1>2. CASE BeginFix
    BY SMTT(60), <1>2 DEF BeginFix, TypeOK, validateState, NoChanges
  <1>3. CASE CollectEdit
    <2> DEFINE edit == entries[d][f][n]
    <2>1. edit \in TextEdit /\ edit.file \in File
      <3>1. n \in 1..Len(entries[d][f]) /\ edit.file # NoFile /\ pc = "edits"
        <4>1. Len(entries[d][f]) \in Nat
          BY <1>3, InputTypes DEF CollectEdit
        <4> QED
          BY SMTT(60), <1>3, <4>1 DEF CollectEdit, TypeOK
      <3>2. edit \in nogoEdit
        BY <3>1, InputTypes
      <3> QED
        BY <3>1, <3>2 DEF nogoEdit, TextEdit
    <2>2. Append(candidateChanges[edit.file], edit) \in Seq(TextEdit)
      BY <2>1, AppendProperties DEF TypeOK
    <2>3. candidateChanges' \in [File -> Seq(TextEdit)]
      BY SMTT(60), <1>3, <2>1, <2>2 DEF CollectEdit, TypeOK
    <2>4. UNCHANGED <<entries, d, f, finalChanges, todo, file, sorted, i, kept, chosen, errors>>
      BY <1>3 DEF CollectEdit, validateState
    <2>5. n' = n + 1 /\ pc = "edits" /\ pc' = "edits" /\ UNCHANGED applicable
      BY <1>3 DEF CollectEdit
    <2> QED
      BY SMTT(60), <2>3, <2>4, <2>5 DEF TypeOK
  <1>4. CASE EditsCollected
    BY SMTT(60), <1>4 DEF EditsCollected, TypeOK, validateState
  <1>5. ASSUME NEW x \in File, CallValidate(x)
        PROVE  TypeOK'
    <2>1. candidateChanges[x] \o finalChanges[x] \in Seq(TextEdit)
      BY ConcatProperties DEF TypeOK
    <2>2. sorted' \in Seq(TextEdit)
      BY <1>5, <2>1, SortType DEF CallValidate
    <2>3. UNCHANGED <<entries, d, f, n, finalChanges, candidateChanges, applicable, chosen, errors>>
      BY <1>5 DEF CallValidate
    <2>4. pc = "files" /\ pc' = "validate" /\ file' \in File /\ i' \in Nat /\ i' >= 1
      BY <1>5 DEF CallValidate
    <2>5. todo' \in SUBSET File
      BY <1>5 DEF CallValidate, TypeOK
    <2>6. kept' \in Seq(TextEdit)
      BY <1>5 DEF CallValidate
    <2> QED
      BY ZenonT(60), <2>2, <2>3, <2>4, <2>5, <2>6 DEF TypeOK
  <1>6. CASE ValidateFails
    <2>1. candidateChanges' \in [File -> Seq(TextEdit)]
      BY SMTT(60), <1>6 DEF ValidateFails, TypeOK
    <2>2. UNCHANGED <<entries, n, d, f, finalChanges, file, sorted, i, kept, chosen, errors>>
      BY <1>6 DEF ValidateFails, validateState
    <2>3. pc = "validate" /\ pc' = "decide" /\ applicable' = FALSE /\ todo' = {}
      BY <1>6 DEF ValidateFails
    <2> QED
      BY ZenonT(60), <2>1, <2>2, <2>3 DEF TypeOK
  <1>7. CASE ValidateEdit
    <2>1. kept' \in Seq(TextEdit)
      <3>1. sorted[i] \in TextEdit
        <4>1. i \in 1..Len(sorted) /\ sorted \in Seq(TextEdit)
          BY SMTT(60), <1>7 DEF ValidateEdit, TypeOK
        <4> QED
          BY <4>1, ElementOfSeq
      <3> QED
        <4>1. kept' = kept \/ kept' = Append(kept, sorted[i])
          BY <1>7 DEF ValidateEdit
        <4>2. Append(kept, sorted[i]) \in Seq(TextEdit)
          BY <3>1, AppendProperties DEF TypeOK
        <4> QED
          BY ZenonT(60), <4>1, <4>2 DEF TypeOK
    <2>2. UNCHANGED <<entries, n, pc, d, f, finalChanges, candidateChanges, applicable, todo,
                      file, sorted, chosen, errors>>
      BY <1>7 DEF ValidateEdit
    <2>3. i' \in Nat /\ i' >= 1
      BY SMTT(60), <1>7 DEF ValidateEdit, TypeOK
    <2> QED
      BY SMTT(60), <2>1, <2>2, <2>3 DEF TypeOK
  <1>8. CASE ValidateReturns
    BY SMTT(60), <1>8 DEF ValidateReturns, TypeOK, validateState
  <1>9. CASE AllValidated
    BY SMTT(60), <1>9 DEF AllValidated, TypeOK, validateState
  <1>10. CASE Accept
    <2>1. finalChanges' \in [File -> Seq(TextEdit)]
      BY SMTT(60), <1>10 DEF Accept, TypeOK
    <2> QED
      BY SMTT(60), <1>10, <2>1 DEF Accept, TypeOK, validateState
  <1>11. CASE Reject
    <2>1. pc = "decide" /\ d \in 1..Len(entries) /\ f \in 1..Len(entries[d])
      BY SMTT(60), <1>11 DEF Reject, TypeOK
    <2>2. UNCHANGED <<entries, n, finalChanges, candidateChanges, applicable, todo,
                      file, sorted, i, kept, chosen>>
      BY <1>11 DEF Reject, validateState
    <2>3. CASE f < Len(entries[d])
      <3>1. f' = f + 1 /\ pc' = "fix" /\ d' = d /\ errors' = errors
        BY <1>11, <2>3 DEF Reject
      <3>2. f' \in 1..Len(entries'[d'])
        BY <2>1, <2>2, <2>3, <3>1, <1>e
      <3> QED
        BY SMTT(60), <2>1, <2>2, <3>1, <3>2 DEF TypeOK
    <2>4. CASE ~(f < Len(entries[d]))
      <3>1. f' = f /\ pc' = "entry" /\ d' = d + 1 /\ errors' = errors \cup {d}
        BY <1>11, <2>4 DEF Reject
      <3> QED
        BY SMTT(60), <2>1, <2>2, <3>1 DEF TypeOK
    <2> QED
      BY <2>3, <2>4
  <1>12. CASE UNCHANGED vars
    BY SMTT(60), <1>12 DEF vars, validateState, TypeOK
  <1> QED
    BY <1>1, <1>2, <1>3, <1>4, <1>5, <1>6, <1>7, <1>8, <1>9, <1>10, <1>11, <1>12
    DEF Next, Terminated

\* validate's loop: an edit is only kept when it starts behind its predecessor, which
\* is the last edit kept.
LEMMA NextLoopInv == IndInv /\ [Next]_vars => LoopInv'
  <1> SUFFICES ASSUME IndInv, [Next]_vars, pc' = "validate" PROVE LoopInv'
    BY DEF LoopInv
  <1>t. TypeOK /\ LoopInv
    BY DEF IndInv
  <1>1. CASE \E x \in File : CallValidate(x)
    <2>1. i' = 1 /\ kept' = <<>> /\ Len(sorted') \in Nat
      BY <1>1, NextTypeOK DEF CallValidate, TypeOK
    <2> QED
      BY <2>1, EmptyOrdered DEF LoopInv
  <1>2. CASE ValidateEdit
    <2>1. /\ pc = "validate" /\ i \in 1..Len(sorted) /\ i' = i + 1 /\ sorted' = sorted
          /\ Len(sorted) \in Nat /\ kept \in Seq(TextEdit) /\ sorted \in Seq(TextEdit)
          /\ sorted[i].start <= sorted[i].end
      BY <1>2, <1>t DEF ValidateEdit, TypeOK
    <2>2. sorted[i] \in TextEdit
      BY <2>1, ElementOfSeq
    <2>3. CASE i > 1 /\ Equals(sorted[i - 1], sorted[i])
      <3>1. kept' = kept
        BY <1>2, <2>3 DEF ValidateEdit
      <3> QED
        BY <2>1, <2>3, <3>1, <1>t DEF LoopInv, Equals
    <2>4. CASE ~(i > 1 /\ Equals(sorted[i - 1], sorted[i]))
      <3>1. kept' = Append(kept, sorted[i]) /\ (i > 1 => sorted[i - 1].end <= sorted[i].start)
        BY <1>2, <2>4 DEF ValidateEdit
      <3>2. Len(kept) > 0 => kept[Len(kept)].end <= sorted[i].start
        BY <2>1, <3>1, <1>t DEF LoopInv
      <3>3. Ordered(kept')
        BY <2>1, <2>2, <3>1, <3>2, <1>t, AppendOrdered DEF LoopInv
      <3>4. Len(kept') = Len(kept) + 1 /\ kept'[Len(kept')] = sorted[i] /\ Len(kept) \in Nat
        BY <2>1, <2>2, <3>1, AppendProperties
      <3> QED
        BY <2>1, <3>3, <3>4 DEF LoopInv
    <2> QED
      BY <2>3, <2>4
  <1>3. CASE UNCHANGED vars
    BY <1>3, <1>t DEF vars, validateState, LoopInv
  <1>4. CASE NextEntry \/ BeginFix \/ CollectEdit \/ EditsCollected \/ ValidateFails
             \/ ValidateReturns \/ AllValidated \/ Accept \/ Reject
    BY <1>4, <1>t DEF NextEntry, BeginFix, CollectEdit, EditsCollected, ValidateFails,
                      ValidateReturns, AllValidated, Accept, Reject
  <1> QED
    BY <1>1, <1>2, <1>3, <1>4 DEF Next, Terminated

\* A file leaves todo when validate is called on it; what validate returns is in order.
LEMMA NextCandidateInv == IndInv /\ [Next]_vars => CandidateInv'
  <1> SUFFICES ASSUME IndInv, [Next]_vars,
                      pc' \in {"files", "validate", "decide"}, applicable',
                      NEW x \in File \ todo'
               PROVE  (pc' = "validate" /\ x = file') \/ Ordered(candidateChanges'[x])
    BY DEF CandidateInv
  <1>t. TypeOK /\ LoopInv /\ CandidateInv
    BY DEF IndInv
  <1>1. CASE EditsCollected
    <2>1. candidateChanges'[x] = <<>>
      BY <1>1 DEF EditsCollected
    <2> QED
      BY <2>1, EmptyOrdered
  <1>2. ASSUME NEW y \in File, CallValidate(y)
        PROVE  (pc' = "validate" /\ x = file') \/ Ordered(candidateChanges'[x])
    <2>1. /\ pc = "files" /\ pc' = "validate" /\ file' = y /\ todo' = todo \ {y}
          /\ applicable' = applicable /\ candidateChanges' = candidateChanges
      BY <1>2 DEF CallValidate
    <2> QED
      BY <2>1, <1>t DEF CandidateInv
  <1>3. CASE ValidateFails
    BY <1>3 DEF ValidateFails
  <1>4. CASE ValidateEdit
    <2>1. pc = "validate" /\ UNCHANGED <<pc, applicable, todo, file, candidateChanges>>
      BY <1>4 DEF ValidateEdit
    <2> QED
      BY <2>1, <1>t DEF CandidateInv
  <1>5. CASE ValidateReturns
    <2>1. /\ pc = "validate" /\ UNCHANGED <<applicable, todo>>
          /\ candidateChanges' = [candidateChanges EXCEPT ![file] = kept]
      BY <1>5 DEF ValidateReturns
    <2>2. Ordered(kept)
      BY <2>1, <1>t DEF LoopInv
    <2>3. candidateChanges'[x] = IF x = file THEN kept ELSE candidateChanges[x]
      BY <2>1, <1>t DEF TypeOK
    <2> QED
      BY <2>1, <2>2, <2>3, <1>t DEF CandidateInv
  <1>6. CASE AllValidated
    <2>1. pc = "files" /\ UNCHANGED <<applicable, todo, candidateChanges>>
      BY <1>6 DEF AllValidated
    <2> QED
      BY <2>1, <1>t DEF CandidateInv
  <1>7. CASE UNCHANGED vars
    BY <1>7, <1>t DEF vars, validateState, CandidateInv
  <1>8. CASE NextEntry \/ BeginFix \/ CollectEdit \/ Accept \/ Reject
    <2>1. pc' \in {"entry", "fix", "edits", "done"}
      BY <1>8 DEF NextEntry, BeginFix, CollectEdit, Accept, Reject
    <2> QED
      BY <2>1
  <1> QED
    BY <1>1, <1>2, <1>3, <1>4, <1>5, <1>6, <1>7, <1>8 DEF Next, Terminated

LEMMA NextDecideInv == IndInv /\ [Next]_vars => DecideInv'
  <1> SUFFICES ASSUME IndInv, [Next]_vars, pc' = "decide", applicable' PROVE todo' = {}
    BY DEF DecideInv
  <1>1. CASE ValidateFails
    BY <1>1 DEF ValidateFails
  <1>2. CASE AllValidated
    BY <1>2 DEF AllValidated
  <1>3. CASE UNCHANGED vars
    BY <1>3 DEF vars, IndInv, DecideInv
  <1>4. CASE NextEntry \/ BeginFix \/ CollectEdit \/ EditsCollected \/ ValidateReturns
             \/ Accept \/ Reject \/ (\E x \in File : CallValidate(x))
    BY <1>4 DEF NextEntry, BeginFix, CollectEdit, EditsCollected, ValidateReturns,
                Accept, Reject, CallValidate
  <1>5. CASE ValidateEdit
    BY <1>5 DEF ValidateEdit
  <1> QED
    BY <1>1, <1>2, <1>3, <1>4, <1>5 DEF Next, Terminated

\* Only Accept changes finalChanges, and it takes what validate returned for every file.
LEMMA NextEditsOrdered == IndInv /\ [Next]_vars => EditsOrdered'
  <1> SUFFICES ASSUME IndInv, [Next]_vars PROVE EditsOrdered'
    OBVIOUS
  <1>t. TypeOK /\ CandidateInv /\ DecideInv /\ EditsOrdered
    BY DEF IndInv
  <1>1. CASE Accept
    <2> SUFFICES ASSUME NEW x \in File PROVE Ordered(finalChanges'[x])
      BY DEF EditsOrdered
    <2>1. Ordered(candidateChanges[x]) /\ Ordered(finalChanges[x])
      BY <1>1, <1>t DEF Accept, CandidateInv, DecideInv, EditsOrdered
    <2>2. finalChanges'[x] = candidateChanges[x] \/ finalChanges'[x] = finalChanges[x]
      BY <1>1 DEF Accept
    <2> QED
      BY <2>1, <2>2
  <1>2. CASE finalChanges' = finalChanges
    BY <1>2, <1>t DEF EditsOrdered
  <1>3. CASE NextEntry \/ BeginFix \/ CollectEdit \/ EditsCollected
    BY <1>3, <1>2 DEF NextEntry, BeginFix, CollectEdit, EditsCollected
  <1>4. CASE ValidateFails \/ ValidateEdit \/ ValidateReturns \/ AllValidated \/ Reject
    BY <1>4, <1>2 DEF ValidateFails, ValidateEdit, ValidateReturns, AllValidated, Reject
  <1>5. CASE UNCHANGED vars \/ \E x \in File : CallValidate(x)
    BY <1>5, <1>2 DEF vars, CallValidate
  <1> QED
    BY <1>1, <1>3, <1>4, <1>5 DEF Next, Terminated

-----------------------------------------------------------------------------
(* Theorems *)

\* The invariant holds in every state of every execution of getFixes.
THEOREM Inductive == Spec => []IndInv
  <1>1. IndInv /\ [Next]_vars => IndInv'
    BY NextTypeOK, NextLoopInv, NextCandidateInv, NextDecideInv, NextEditsOrdered DEF IndInv
  <1> QED
    BY <1>1, InitIndInv, PTL DEF Spec

\* getFixes and validate never index outside a slice and keep their variables' types.
THEOREM TypeCorrect == Spec => []TypeOK
  <1>1. IndInv => TypeOK
    BY DEF IndInv
  <1> QED
    BY <1>1, Inductive, PTL

\* Whatever fixes are suggested, the edits applyEdits gets are sorted and disjoint.
THEOREM OrderedEdits == Spec => []EditsOrdered
  <1>1. IndInv => EditsOrdered
    BY DEF IndInv
  <1> QED
    BY <1>1, Inductive, PTL

-----------------------------------------------------------------------------
(* The invariant behind FixesAtomic: lists of edits are compared by what they  *)
(* contain, since validate sorts them and drops repetitions.                   *)

Has(s, e) == \E j \in 1..Len(s) : Equals(s[j], e)

\* The edit e of file x is one of the first l edits of a fix.
FixHas(edits, l, x, e) == \E m \in 1..l : edits[m].file = x /\ Equals(edits[m], e)

\* The edit e of file x belongs to a fix that was taken.
Taken(x, e) ==
    \E k \in 1..Len(entries) :
        chosen[k] > 0 /\ FixHas(entries[k][chosen[k]], Len(entries[k][chosen[k]]), x, e)

\* Fixes are taken in the order of the diagnostics, and only if every edit has a file.
ChosenInv ==
    \A k \in 1..Len(entries) :
        /\ chosen[k] <= Len(entries[k])
        /\ k >= d => chosen[k] = 0
        /\ chosen[k] > 0 =>
              \A m \in 1..Len(entries[k][chosen[k]]) : entries[k][chosen[k]][m].file \in File

\* finalChanges holds the edits of the fixes taken and nothing else.
FinalInv == \A x \in File : \A e \in TextEdit : Has(finalChanges[x], e) <=> Taken(x, e)

\* While the edits of a fix are collected the candidate is what was read so far.
CollectInv ==
    pc = "edits" =>
        /\ n <= Len(entries[d][f]) + 1
        /\ \A m \in 1..(n - 1) : entries[d][f][m].file \in File
        /\ \A x \in File : \A e \in TextEdit :
              Has(candidateChanges[x], e) <=> FixHas(entries[d][f], n - 1, x, e)

\* A validated file of the candidate holds the edits of the fix and those chosen before.
Merged(x) ==
    \A e \in TextEdit :
        IF candidateChanges[x] = <<>>
        THEN ~FixHas(entries[d][f], Len(entries[d][f]), x, e)
        ELSE Has(candidateChanges[x], e) <=>
                 FixHas(entries[d][f], Len(entries[d][f]), x, e) \/ Has(finalChanges[x], e)

MergeInv ==
    pc \in {"files", "validate", "decide"} /\ applicable =>
        /\ \A m \in 1..Len(entries[d][f]) : entries[d][f][m].file \in File
        /\ \A x \in todo : \A e \in TextEdit :
              Has(candidateChanges[x], e) <=> FixHas(entries[d][f], Len(entries[d][f]), x, e)
        /\ \A x \in File \ todo : (pc = "validate" /\ x = file) \/ Merged(x)

\* validate's loop keeps the edits it has looked at, up to repetitions.
ScanInv ==
    pc = "validate" /\ applicable =>
        /\ file \notin todo
        /\ \A e \in TextEdit :
              /\ Has(sorted, e) <=> FixHas(entries[d][f], Len(entries[d][f]), file, e)
                                       \/ Has(finalChanges[file], e)
              /\ Has(kept, e) <=> \E j \in 1..(i - 1) : Equals(sorted[j], e)

AtomicInv == ChosenInv /\ FinalInv /\ CollectInv /\ MergeInv /\ ScanInv

-----------------------------------------------------------------------------
(* What lists of edits contain *)

LEMMA EqualsSymmetric == \A a, b, c : /\ Equals(a, a)
                                      /\ Equals(a, b) => Equals(b, a)
                                      /\ Equals(a, b) /\ Equals(b, c) => Equals(a, c)
  BY DEF Equals

\* The indices of a stable sort are distinct, so each position of the argument occurs.
LEMMA SortOnto ==
  ASSUME NEW s \in Seq(TextEdit), NEW p \in [1..Len(s) -> 1..Len(s)],
         \A j, k \in 1..Len(s) : j < k => Precedes(s, p[j], p[k]),
         NEW m \in 1..Len(s)
  PROVE  \E j \in 1..Len(s) : p[j] = m
  <1> DEFINE S == 1..Len(s)
  <1>1. ASSUME NEW j \in S, NEW k \in S, j < k PROVE p[j] # p[k]
    <2>1. Precedes(s, p[j], p[k])
      BY <1>1
    <2>2. p[j] \in Nat
      OBVIOUS
    <2>3. s[p[j]] \in TextEdit
      BY ElementOfSeq
    <2>4. s[p[j]].start \in Nat /\ s[p[j]].end \in Nat
      BY <2>3, InputAssumption DEF TextEdit
    <2>5. ~Precedes(s, p[j], p[j])
      BY <2>2, <2>4 DEF Precedes, Less
    <2> QED
      BY <2>1, <2>5
  <1>2. \A j, k \in S : p[j] = p[k] => j = k
    <2> SUFFICES ASSUME NEW j \in S, NEW k \in S, p[j] = p[k] PROVE j = k
      OBVIOUS
    <2>1. j < k \/ k < j \/ j = k
      OBVIOUS
    <2> QED
      BY <2>1, <1>1
  <1>3. p \in Injection(S, S)
    BY <1>2 DEF Injection, IsInjective
  <1>4. IsFiniteSet(S)
    BY FS_Interval
  <1>5. p \in Surjection(S, S)
    BY <1>3, <1>4, FS_Injection
  <1> QED
    BY <1>5 DEF Surjection

\* A stable sort contains the same edits.
LEMMA SortHas ==
  ASSUME NEW s \in Seq(TextEdit), NEW t \in StableSorts(s), NEW e
  PROVE  Has(t, e) <=> Has(s, e)
  <1>1. PICK p \in [1..Len(s) -> 1..Len(s)] :
          /\ t = [m \in 1..Len(s) |-> s[p[m]]]
          /\ \A j, k \in 1..Len(s) : j < k => Precedes(s, p[j], p[k])
    BY DEF StableSorts
  <1>2. t \in Seq(TextEdit) /\ Len(s) \in Nat
    BY SortType
  <1>3. Len(t) = Len(s)
    <2>1. DOMAIN t = 1..Len(s)
      BY <1>1
    <2> QED
      BY <1>2, <2>1, LenProperties
  <1>4. \A j \in 1..Len(s) : t[j] = s[p[j]] /\ p[j] \in 1..Len(s)
    BY <1>1
  <1>5. \A m \in 1..Len(s) : \E j \in 1..Len(s) : p[j] = m
    BY <1>1, SortOnto
  <1> QED
    BY <1>3, <1>4, <1>5 DEF Has

LEMMA EmptyHas == \A e : ~Has(<<>>, e)
  BY DEF Has

LEMMA NonEmptyHas ==
  ASSUME NEW s \in Seq(TextEdit), s # <<>>
  PROVE  \E e \in TextEdit : Has(s, e)
  <1>1. Len(s) \in Nat /\ Len(s) > 0
    BY EmptySeq
  <1>2. 1 \in 1..Len(s) /\ s[1] \in TextEdit
    BY <1>1, ElementOfSeq
  <1> QED
    BY <1>2, EqualsSymmetric DEF Has

LEMMA AppendHas ==
  ASSUME NEW s \in Seq(TextEdit), NEW a \in TextEdit, NEW e
  PROVE  Has(Append(s, a), e) <=> Has(s, e) \/ Equals(a, e)
  <1>1. /\ Len(Append(s, a)) = Len(s) + 1 /\ Len(s) \in Nat
        /\ \A j \in 1..Len(s) : Append(s, a)[j] = s[j]
        /\ Append(s, a)[Len(s) + 1] = a
    BY AppendProperties
  <1>2. \A j : j \in 1..(Len(s) + 1) <=> j \in 1..Len(s) \/ j = Len(s) + 1
    BY <1>1
  <1> QED
    BY <1>1, <1>2 DEF Has

LEMMA ConcatHas ==
  ASSUME NEW s \in Seq(TextEdit), NEW t \in Seq(TextEdit), NEW e
  PROVE  Has(s \o t, e) <=> Has(s, e) \/ Has(t, e)
  <1>1. /\ Len(s \o t) = Len(s) + Len(t) /\ Len(s) \in Nat /\ Len(t) \in Nat
        /\ \A j \in 1..Len(s) : (s \o t)[j] = s[j]
        /\ \A j \in 1..Len(t) : (s \o t)[Len(s) + j] = t[j]
    <2>1. /\ Len(s \o t) = Len(s) + Len(t) /\ Len(s) \in Nat /\ Len(t) \in Nat
          /\ \A j \in 1..Len(s) + Len(t) :
                (s \o t)[j] = IF j <= Len(s) THEN s[j] ELSE t[j - Len(s)]
      BY ConcatProperties
    <2>2. ASSUME NEW j \in 1..Len(t) PROVE (s \o t)[Len(s) + j] = t[j]
      <3>1. Len(s) + j \in 1..Len(s) + Len(t) /\ ~(Len(s) + j <= Len(s)) /\ Len(s) + j - Len(s) = j
        BY <2>1
      <3> QED
        BY <2>1, <3>1
    <2> QED
      BY <2>1, <2>2
  <1>2. \A j \in 1..(Len(s) + Len(t)) :
           j \in 1..Len(s) \/ (j - Len(s) \in 1..Len(t) /\ j = Len(s) + (j - Len(s)))
    BY <1>1
  <1>3. ASSUME Has(s \o t, e) PROVE Has(s, e) \/ Has(t, e)
    <2>1. PICK j \in 1..(Len(s) + Len(t)) : Equals((s \o t)[j], e)
      BY <1>1, <1>3 DEF Has
    <2>2. CASE j \in 1..Len(s)
      BY <1>1, <2>1, <2>2 DEF Has
    <2>3. CASE j - Len(s) \in 1..Len(t) /\ j = Len(s) + (j - Len(s))
      <3>1. (s \o t)[j] = t[j - Len(s)]
        BY <1>1, <2>3
      <3> QED
        BY <2>1, <2>3, <3>1 DEF Has
    <2> QED
      BY <1>2, <2>2, <2>3
  <1>4. ASSUME Has(s, e) PROVE Has(s \o t, e)
    <2>1. PICK j \in 1..Len(s) : Equals(s[j], e)
      BY <1>4 DEF Has
    <2>2. j \in 1..Len(s \o t) /\ (s \o t)[j] = s[j]
      BY <1>1
    <2> QED
      BY <2>1, <2>2 DEF Has
  <1>5. ASSUME Has(t, e) PROVE Has(s \o t, e)
    <2>1. PICK j \in 1..Len(t) : Equals(t[j], e)
      BY <1>5 DEF Has
    <2>2. Len(s) + j \in 1..Len(s \o t) /\ (s \o t)[Len(s) + j] = t[j]
      BY <1>1
    <2> QED
      BY <2>1, <2>2 DEF Has
  <1> QED
    BY <1>3, <1>4, <1>5

-----------------------------------------------------------------------------
(* AtomicInv is preserved *)

LEMMA InitAtomicInv == Init => AtomicInv
  <1> SUFFICES ASSUME Init PROVE AtomicInv
    OBVIOUS
  <1>e. entries \in Seq(Seq(Seq(nogoEdit)))
    BY InputAssumption DEF Init
  <1>1. ChosenInv
    <2> SUFFICES ASSUME NEW k \in 1..Len(entries)
                 PROVE  chosen[k] = 0 /\ Len(entries[k]) >= 0
      BY DEF ChosenInv
    <2>1. entries[k] \in Seq(Seq(nogoEdit))
      BY <1>e, ElementOfSeq
    <2> QED
      BY <2>1 DEF Init
  <1>2. FinalInv
    <2> SUFFICES ASSUME NEW x \in File, NEW e \in TextEdit
                 PROVE  ~Has(finalChanges[x], e) /\ ~Taken(x, e)
      BY DEF FinalInv
    <2>1. finalChanges[x] = <<>>
      BY DEF Init, NoChanges
    <2>2. \A k \in 1..Len(entries) : ~(chosen[k] > 0)
      BY DEF Init
    <2> QED
      BY <2>1, <2>2, EmptyHas DEF Taken
  <1>3. CollectInv /\ MergeInv /\ ScanInv
    BY DEF Init, CollectInv, MergeInv, ScanInv
  <1> QED
    BY <1>1, <1>2, <1>3 DEF AtomicInv

\* Only Accept changes what was taken, and what is returned for the files.
LEMMA OnlyAccept ==
  ASSUME [Next]_vars, ~Accept
  PROVE  UNCHANGED <<entries, finalChanges, chosen>>
  <1>1. CASE NextEntry \/ BeginFix \/ CollectEdit \/ EditsCollected
    BY <1>1 DEF NextEntry, BeginFix, CollectEdit, EditsCollected
  <1>2. CASE ValidateFails \/ ValidateEdit \/ ValidateReturns \/ AllValidated \/ Reject
    BY <1>2 DEF ValidateFails, ValidateEdit, ValidateReturns, AllValidated, Reject
  <1>3. CASE UNCHANGED vars \/ \E x \in File : CallValidate(x)
    BY <1>3 DEF vars, CallValidate
  <1> QED
    BY <1>1, <1>2, <1>3 DEF Next, Terminated

LEMMA NextChosenInv == IndInv /\ AtomicInv /\ [Next]_vars => ChosenInv'
  <1> SUFFICES ASSUME IndInv, AtomicInv, [Next]_vars, NEW k \in 1..Len(entries')
               PROVE  /\ chosen'[k] <= Len(entries'[k])
                      /\ k >= d' => chosen'[k] = 0
                      /\ chosen'[k] > 0 =>
                            \A m \in 1..Len(entries'[k][chosen'[k]]) :
                                entries'[k][chosen'[k]][m].file \in File
    BY DEF ChosenInv
  <1>t. TypeOK /\ ChosenInv /\ MergeInv
    BY DEF IndInv, AtomicInv
  <1>e. entries' = entries /\ d \in Nat
    BY <1>t, OnlyAccept DEF Accept, TypeOK
  <1>1. CASE Accept
    <2>1. /\ pc = "decide" /\ applicable /\ d' = d + 1 /\ chosen' = [chosen EXCEPT ![d] = f]
          /\ d \in 1..Len(entries) /\ f \in 1..Len(entries[d])
      BY <1>1, <1>t DEF Accept, TypeOK
    <2>2. CASE k = d
      <3>1. chosen'[k] = f
        BY <2>1, <2>2, <1>t, <1>e DEF TypeOK
      <3>2. f <= Len(entries[d]) /\ ~(k >= d')
        BY <2>1, <2>2, <1>e
      <3>3. \A m \in 1..Len(entries[d][f]) : entries[d][f][m].file \in File
        BY <2>1, <1>t DEF MergeInv
      <3> QED
        BY <3>1, <3>2, <3>3, <2>2, <1>e
    <2>3. CASE k # d
      <3>1. chosen'[k] = chosen[k]
        BY <2>1, <2>3, <1>t, <1>e DEF TypeOK
      <3>2. k >= d' => k >= d
        BY <2>1, <1>e
      <3> QED
        BY <3>1, <3>2, <1>t, <1>e DEF ChosenInv
    <2> QED
      BY <2>2, <2>3
  <1>2. CASE ~Accept
    <2>1. d' >= d
      <3>1. CASE NextEntry \/ Reject
        BY <3>1, <1>e DEF NextEntry, Reject
      <3>2. CASE ~(NextEntry \/ Reject)
        <4>1. d' = d
          <5>1. CASE BeginFix \/ CollectEdit BY <5>1 DEF BeginFix, CollectEdit
          <5>2. CASE EditsCollected \/ AllValidated BY <5>2 DEF EditsCollected, AllValidated
          <5>3. CASE ValidateFails BY <5>3 DEF ValidateFails
          <5>4. CASE ValidateEdit \/ ValidateReturns BY <5>4 DEF ValidateEdit, ValidateReturns
          <5>5. CASE \E x \in File : CallValidate(x) BY <5>5 DEF CallValidate
          <5>6. CASE Terminated \/ UNCHANGED vars BY <5>6 DEF vars, Terminated
          <5> QED BY <5>1, <5>2, <5>3, <5>4, <5>5, <5>6, <3>2, <1>2 DEF Next
        <4> QED BY <4>1, <1>e
      <3> QED
        BY <3>1, <3>2
    <2>2. d' \in Nat
      BY NextTypeOK DEF TypeOK
    <2>3. k >= d' => k >= d
      BY <2>1, <2>2, <1>e
    <2> QED
      BY <2>3, <1>2, <1>t, <1>e, OnlyAccept DEF ChosenInv
  <1> QED
    BY <1>1, <1>2

\* Taking a fix adds exactly its edits.
LEMMA NextFinalInv == IndInv /\ AtomicInv /\ [Next]_vars => FinalInv'
  <1> SUFFICES ASSUME IndInv, AtomicInv, [Next]_vars, NEW x \in File, NEW e \in TextEdit
               PROVE  Has(finalChanges'[x], e) <=> Taken(x, e)'
    BY DEF FinalInv
  <1>t. TypeOK /\ DecideInv /\ ChosenInv /\ FinalInv /\ MergeInv
    BY DEF IndInv, AtomicInv
  <1>1. CASE Accept
    <2> DEFINE edits == entries[d][f]
    <2>1. /\ pc = "decide" /\ applicable /\ entries' = entries
          /\ chosen' = [chosen EXCEPT ![d] = f]
          /\ d \in 1..Len(entries) /\ f \in 1..Len(entries[d])
          /\ todo = {}
      BY <1>1, <1>t DEF Accept, TypeOK, DecideInv
    <2>2. finalChanges'[x] = IF candidateChanges[x] = <<>> THEN finalChanges[x]
                             ELSE candidateChanges[x]
      BY <1>1 DEF Accept
    <2>3. chosen[d] = 0
      <3>1. d >= d
        BY <1>t DEF TypeOK
      <3> QED
        BY <2>1, <3>1, <1>t DEF ChosenInv
    <2>4. f > 0
      BY <2>1
    <2>5. /\ chosen'[d] = f
          /\ \A k \in 1..Len(entries) : k # d => chosen'[k] = chosen[k]
      BY <2>1, <1>t DEF TypeOK
    <2>6. Taken(x, e)' <=> Taken(x, e) \/ FixHas(edits, Len(edits), x, e)
      <3>1. ASSUME Taken(x, e)' PROVE Taken(x, e) \/ FixHas(edits, Len(edits), x, e)
        <4>1. PICK k \in 1..Len(entries) :
                chosen'[k] > 0 /\ FixHas(entries[k][chosen'[k]], Len(entries[k][chosen'[k]]), x, e)
          BY <2>1, <3>1 DEF Taken
        <4> QED
          BY <4>1, <2>5 DEF Taken
      <3>2. ASSUME Taken(x, e) PROVE Taken(x, e)'
        <4>1. PICK k \in 1..Len(entries) :
                chosen[k] > 0 /\ FixHas(entries[k][chosen[k]], Len(entries[k][chosen[k]]), x, e)
          BY <3>2 DEF Taken
        <4>2. chosen'[k] = chosen[k]
          BY <4>1, <2>3, <2>5
        <4> QED
          BY <4>1, <4>2, <2>1 DEF Taken
      <3>3. ASSUME FixHas(edits, Len(edits), x, e) PROVE Taken(x, e)'
        BY <3>3, <2>1, <2>4, <2>5 DEF Taken
      <3> QED
        BY <3>1, <3>2, <3>3
    <2>7. Merged(x)
      BY <2>1, <1>t DEF MergeInv
    <2>8. Has(finalChanges[x], e) <=> Taken(x, e)
      BY <1>t DEF FinalInv
    <2>9. CASE candidateChanges[x] = <<>>
      BY <2>2, <2>6, <2>7, <2>8, <2>9 DEF Merged
    <2>10. CASE candidateChanges[x] # <<>>
      <3>1. Has(candidateChanges[x], e) <=> FixHas(edits, Len(edits), x, e) \/ Has(finalChanges[x], e)
        BY <2>7, <2>10 DEF Merged
      <3>2. finalChanges'[x] = candidateChanges[x]
        BY <2>2, <2>10
      <3> QED
        BY <2>6, <2>8, <3>1, <3>2
    <2> QED
      BY <2>9, <2>10
  <1>2. CASE ~Accept
    <2>1. Has(finalChanges[x], e) <=> Taken(x, e)
      BY <1>t DEF FinalInv
    <2>2. Taken(x, e)' <=> Taken(x, e)
      BY <1>2, OnlyAccept DEF Taken
    <2> QED
      BY <2>1, <2>2, <1>2, OnlyAccept
  <1> QED
    BY <1>1, <1>2

\* The loop over a fix's edits appends each to its file, and stops at one without a file.
LEMMA NextCollectInv == IndInv /\ AtomicInv /\ [Next]_vars => CollectInv'
  <1> SUFFICES ASSUME IndInv, AtomicInv, [Next]_vars, pc' = "edits" PROVE CollectInv'
    BY DEF CollectInv
  <1>t. TypeOK /\ CollectInv
    BY DEF IndInv, AtomicInv
  <1>1. CASE BeginFix
    <2>1. n' = 1 /\ candidateChanges' = NoChanges
      BY <1>1 DEF BeginFix
    <2>2. pc = "fix" /\ entries' = entries /\ d' = d /\ f' = f
      BY <1>1 DEF BeginFix
    <2>3. Len(entries[d][f]) \in Nat
      BY <2>2, <1>t, InputTypes
    <2>4. n' <= Len(entries[d][f]) + 1 /\ n' - 1 = 0
      BY <2>1, <2>3
    <2>5. \A x \in File : \A e \in TextEdit :
            ~Has(candidateChanges'[x], e) /\ ~FixHas(entries[d][f], n' - 1, x, e)
      BY <2>1, <2>4, EmptyHas DEF NoChanges, FixHas
    <2> QED
      BY <2>2, <2>4, <2>5 DEF CollectInv
  <1>2. CASE CollectEdit
    <2>1. PICK edit : edit = entries[d][f][n]
      OBVIOUS
    <2>2. /\ pc = "edits" /\ n <= Len(entries[d][f]) /\ n' = n + 1
          /\ entries' = entries /\ d' = d /\ f' = f
          /\ edit.file # NoFile
          /\ candidateChanges' = [candidateChanges EXCEPT ![edit.file] = Append(@, edit)]
      BY <1>2, <2>1 DEF CollectEdit
    <2>3. Len(entries[d][f]) \in Nat /\ n \in Nat /\ n >= 1
      BY <2>2, <1>t, InputTypes DEF TypeOK
    <2>4. edit \in nogoEdit
      BY <2>1, <2>2, <2>3, <1>t, InputTypes
    <2>5. edit \in TextEdit /\ edit.file \in File
      BY <2>2, <2>4 DEF nogoEdit, TextEdit
    <2>6. n' <= Len(entries[d][f]) + 1 /\ n' - 1 = n
          /\ \A m : m \in 1..n <=> m \in 1..(n - 1) \/ m = n
      BY <2>2, <2>3
    <2>7. \A m \in 1..n : entries[d][f][m].file \in File
      BY <2>1, <2>2, <2>5, <2>6, <1>t DEF CollectInv
    <2>8. ASSUME NEW x \in File, NEW e \in TextEdit
          PROVE  Has(candidateChanges'[x], e) <=> FixHas(entries[d][f], n, x, e)
      <3>1. Has(candidateChanges[x], e) <=> FixHas(entries[d][f], n - 1, x, e)
        BY <2>2, <1>t DEF CollectInv
      <3>2. FixHas(entries[d][f], n, x, e) <=>
              FixHas(entries[d][f], n - 1, x, e) \/ (edit.file = x /\ Equals(edit, e))
        BY <2>1, <2>6 DEF FixHas
      <3>3. CASE edit.file = x
        <4>1. candidateChanges'[x] = Append(candidateChanges[x], edit)
          BY <2>2, <3>3, <1>t DEF TypeOK
        <4>2. candidateChanges[x] \in Seq(TextEdit)
          BY <1>t DEF TypeOK
        <4>3. Has(candidateChanges'[x], e) <=> Has(candidateChanges[x], e) \/ Equals(edit, e)
          BY <4>1, <4>2, <2>5, AppendHas
        <4> QED
          BY <3>1, <3>2, <3>3, <4>3
      <3>4. CASE edit.file # x
        <4>1. candidateChanges'[x] = candidateChanges[x]
          BY <2>2, <2>5, <3>4, <1>t DEF TypeOK
        <4> QED
          BY <3>1, <3>2, <3>4, <4>1
      <3> QED
        BY <3>3, <3>4
    <2> QED
      BY <2>2, <2>6, <2>7, <2>8 DEF CollectInv
  <1>3. CASE UNCHANGED vars
    BY <1>3, <1>t DEF vars, CollectInv
  <1>4. CASE NextEntry \/ EditsCollected \/ ValidateFails \/ ValidateReturns \/ AllValidated
             \/ Accept \/ Reject \/ (\E x \in File : CallValidate(x))
    BY <1>4 DEF NextEntry, EditsCollected, ValidateFails, ValidateReturns, AllValidated,
                Accept, Reject, CallValidate
  <1>5. CASE ValidateEdit
    BY <1>5 DEF ValidateEdit
  <1> QED
    BY <1>1, <1>2, <1>3, <1>4, <1>5 DEF Next, Terminated

\* Merging: a file leaves todo for validate, and validate's result takes its place.
LEMMA NextMergeInv == IndInv /\ AtomicInv /\ [Next]_vars => MergeInv'
  <1> SUFFICES ASSUME IndInv, AtomicInv, [Next]_vars,
                      pc' \in {"files", "validate", "decide"}, applicable'
               PROVE  MergeInv'
    BY DEF MergeInv
  <1>t. TypeOK /\ LoopInv /\ CollectInv /\ MergeInv /\ ScanInv
    BY DEF IndInv, AtomicInv
  <1>1. CASE EditsCollected
    <2>1. /\ pc = "edits" /\ applicable /\ n > Len(entries[d][f])
          /\ UNCHANGED <<entries, d, f, finalChanges, candidateChanges>>
          /\ todo' = {x \in File : candidateChanges[x] # <<>>}
      BY <1>1 DEF EditsCollected
    <2>2. n - 1 = Len(entries[d][f])
      <3>1. Len(entries[d][f]) \in Nat /\ n \in Nat /\ n <= Len(entries[d][f]) + 1
        BY <2>1, <1>t, InputTypes DEF TypeOK, CollectInv
      <3> QED
        BY <2>1, <3>1
    <2>3. /\ \A m \in 1..Len(entries[d][f]) : entries[d][f][m].file \in File
          /\ \A x \in File : \A e \in TextEdit :
                Has(candidateChanges[x], e) <=> FixHas(entries[d][f], Len(entries[d][f]), x, e)
      BY <2>1, <2>2, <1>t DEF CollectInv
    <2>4. ASSUME NEW x \in File \ todo' PROVE Merged(x)'
      <3>1. candidateChanges[x] = <<>>
        BY <2>1, <2>4
      <3> QED
        BY <2>1, <2>3, <3>1, EmptyHas DEF Merged
    <2> QED
      BY <2>1, <2>3, <2>4 DEF MergeInv
  <1>2. ASSUME NEW y \in File, CallValidate(y) PROVE MergeInv'
    <2>1. /\ pc = "files" /\ pc' = "validate" /\ file' = y /\ todo' = todo \ {y}
          /\ UNCHANGED <<entries, d, f, finalChanges, candidateChanges, applicable>>
      BY <1>2 DEF CallValidate
    <2>2. ASSUME NEW x \in File \ todo', x # file' PROVE Merged(x)'
      <3>1. Merged(x)
        BY <2>1, <2>2, <1>t DEF MergeInv
      <3> QED
        BY <2>1, <3>1 DEF Merged
    <2> QED
      BY <2>1, <2>2, <1>t DEF MergeInv
  <1>3. CASE ValidateFails
    BY <1>3 DEF ValidateFails
  <1>4. CASE ValidateEdit
    <2>1. pc = "validate" /\ UNCHANGED <<pc, entries, d, f, finalChanges, candidateChanges,
                                         applicable, todo, file>>
      BY <1>4 DEF ValidateEdit
    <2>2. ASSUME NEW x \in File, Merged(x) PROVE Merged(x)'
      BY <2>1, <2>2 DEF Merged
    <2> QED
      BY <2>1, <2>2, <1>t DEF MergeInv
  <1>5. CASE ValidateReturns
    <2>1. /\ pc = "validate" /\ pc' = "files" /\ i > Len(sorted)
          /\ UNCHANGED <<entries, d, f, finalChanges, applicable, todo, file>>
          /\ candidateChanges' = [candidateChanges EXCEPT ![file] = kept]
      BY <1>5 DEF ValidateReturns, validateState
    <2>2. file \in File /\ file \notin todo
      BY <2>1, <1>t DEF TypeOK, ScanInv
    <2>3. candidateChanges'[file] = kept /\ \A x \in File : x # file => candidateChanges'[x] = candidateChanges[x]
      BY <2>1, <2>2, <1>t DEF TypeOK
    <2>4. Merged(file)'
      <3>1. i - 1 = Len(sorted)
        <4>1. Len(sorted) \in Nat /\ i \in Nat /\ i <= Len(sorted) + 1
          BY <2>1, <1>t DEF LoopInv, TypeOK
        <4> QED
          BY <2>1, <4>1
      <3>2. ASSUME NEW e \in TextEdit
            PROVE  Has(kept, e) <=> FixHas(entries[d][f], Len(entries[d][f]), file, e)
                                      \/ Has(finalChanges[file], e)
        <4>1. Has(kept, e) <=> Has(sorted, e)
          BY <2>1, <3>1, <1>t DEF ScanInv, Has
        <4> QED
          BY <2>1, <4>1, <1>t DEF ScanInv
      <3> SUFFICES ASSUME NEW e \in TextEdit
                   PROVE IF kept = <<>>
                         THEN ~FixHas(entries[d][f], Len(entries[d][f]), file, e)
                         ELSE Has(kept, e) <=>
                                FixHas(entries[d][f], Len(entries[d][f]), file, e)
                                  \/ Has(finalChanges[file], e)
        BY <2>1, <2>3 DEF Merged
      <3> QED
        BY <3>2, EmptyHas
    <2>5. ASSUME NEW x \in File \ todo, x # file PROVE Merged(x)'
      <3>1. Merged(x)
        BY <2>1, <2>5, <1>t DEF MergeInv
      <3>2. candidateChanges'[x] = candidateChanges[x]
        BY <2>3, <2>5
      <3> QED
        BY <2>1, <3>1, <3>2 DEF Merged
    <2>6. \A x \in todo : candidateChanges'[x] = candidateChanges[x]
      BY <2>2, <2>3, <1>t DEF TypeOK
    <2>7. \A m \in 1..Len(entries[d][f]) : entries[d][f][m].file \in File
      BY <2>1, <1>t DEF MergeInv
    <2>8. \A x \in todo : \A e \in TextEdit :
            Has(candidateChanges'[x], e) <=> FixHas(entries[d][f], Len(entries[d][f]), x, e)
      BY <2>1, <2>6, <1>t DEF MergeInv
    <2>9. \A x \in File \ todo : Merged(x)'
      BY <2>1, <2>4, <2>5
    <2> QED
      BY <2>1, <2>7, <2>8, <2>9 DEF MergeInv
  <1>6. CASE AllValidated
    <2>1. pc = "files" /\ UNCHANGED <<entries, d, f, finalChanges, candidateChanges, applicable, todo>>
      BY <1>6 DEF AllValidated
    <2>2. ASSUME NEW x \in File, Merged(x) PROVE Merged(x)'
      BY <2>1, <2>2 DEF Merged
    <2> QED
      BY <2>1, <2>2, <1>t DEF MergeInv
  <1>7. CASE UNCHANGED vars
    <2>1. UNCHANGED <<pc, entries, d, f, finalChanges, candidateChanges, applicable, todo, file>>
      BY <1>7 DEF vars, validateState
    <2>2. ASSUME NEW x \in File, Merged(x) PROVE Merged(x)'
      BY <2>1, <2>2 DEF Merged
    <2> QED
      BY <2>1, <2>2, <1>t DEF MergeInv
  <1>8. CASE NextEntry \/ BeginFix \/ CollectEdit \/ Accept \/ Reject
    <2>1. pc' \in {"entry", "fix", "edits", "done"}
      BY <1>8 DEF NextEntry, BeginFix, CollectEdit, Accept, Reject
    <2> QED
      BY <2>1
  <1> QED
    BY <1>1, <1>2, <1>3, <1>4, <1>5, <1>6, <1>7, <1>8 DEF Next, Terminated

\* validate: the sorted copy holds the edits of both lists, an edit left out repeats its
\* predecessor.
LEMMA NextScanInv == IndInv /\ AtomicInv /\ [Next]_vars => ScanInv'
  <1> SUFFICES ASSUME IndInv, AtomicInv, [Next]_vars, pc' = "validate", applicable'
               PROVE  ScanInv'
    BY DEF ScanInv
  <1>t. TypeOK /\ LoopInv /\ MergeInv /\ ScanInv
    BY DEF IndInv, AtomicInv
  <1>1. ASSUME NEW y \in File, CallValidate(y) PROVE ScanInv'
    <2>1. /\ pc = "files" /\ file' = y /\ todo' = todo \ {y} /\ y \in todo
          /\ UNCHANGED <<entries, d, f, finalChanges, applicable>>
          /\ i' = 1 /\ kept' = <<>>
          /\ sorted' \in StableSorts(candidateChanges[y] \o finalChanges[y])
      BY <1>1 DEF CallValidate
    <2>2. candidateChanges[y] \in Seq(TextEdit) /\ finalChanges[y] \in Seq(TextEdit)
      BY <1>t DEF TypeOK
    <2>3. candidateChanges[y] \o finalChanges[y] \in Seq(TextEdit)
      BY <2>2, ConcatProperties
    <2>4. ASSUME NEW e \in TextEdit
          PROVE  /\ Has(sorted', e) <=> FixHas(entries[d][f], Len(entries[d][f]), y, e)
                                          \/ Has(finalChanges[y], e)
                 /\ Has(kept', e) <=> \E j \in 1..(i' - 1) : Equals(sorted'[j], e)
      <3>1. Has(sorted', e) <=> Has(candidateChanges[y] \o finalChanges[y], e)
        BY <2>1, <2>3, SortHas
      <3>2. Has(candidateChanges[y] \o finalChanges[y], e) <=>
              Has(candidateChanges[y], e) \/ Has(finalChanges[y], e)
        BY <2>2, ConcatHas
      <3>3. Has(candidateChanges[y], e) <=> FixHas(entries[d][f], Len(entries[d][f]), y, e)
        BY <2>1, <1>t DEF MergeInv
      <3>4. ~Has(kept', e) /\ 1..(i' - 1) = {}
        BY <2>1, EmptyHas
      <3> QED
        BY <3>1, <3>2, <3>3, <3>4
    <2> QED
      BY <2>1, <2>4 DEF ScanInv
  <1>2. CASE ValidateEdit
    <2>0. /\ pc = "validate" /\ i <= Len(sorted) /\ i' = i + 1
          /\ UNCHANGED <<entries, d, f, finalChanges, applicable, todo, file, sorted>>
      BY <1>2 DEF ValidateEdit
    <2>1. /\ i \in 1..Len(sorted)
          /\ Len(sorted) \in Nat /\ kept \in Seq(TextEdit) /\ sorted \in Seq(TextEdit)
      BY <2>0, <1>t DEF TypeOK
    <2>2. sorted[i] \in TextEdit
      BY <2>1, ElementOfSeq
    <2>3. i' - 1 = i /\ \A j : j \in 1..i <=> j \in 1..(i - 1) \/ j = i
      BY <2>0, <2>1
    <2>4. ASSUME NEW e \in TextEdit
          PROVE  Has(kept', e) <=> \E j \in 1..i : Equals(sorted[j], e)
      <3>1. Has(kept, e) <=> \E j \in 1..(i - 1) : Equals(sorted[j], e)
        BY <2>0, <1>t DEF ScanInv
      <3>2. (\E j \in 1..i : Equals(sorted[j], e)) <=> Has(kept, e) \/ Equals(sorted[i], e)
        BY <3>1, <2>3
      <3>3. CASE i > 1 /\ Equals(sorted[i - 1], sorted[i])
        <4>1. kept' = kept
          BY <1>2, <3>3 DEF ValidateEdit
        <4>2. i - 1 \in 1..(i - 1)
          BY <2>1, <3>3
        <4>3. Equals(sorted[i], e) => Has(kept, e)
          BY <3>1, <3>3, <4>2, EqualsSymmetric
        <4> QED
          BY <3>2, <4>1, <4>3
      <3>4. CASE ~(i > 1 /\ Equals(sorted[i - 1], sorted[i]))
        <4>1. kept' = Append(kept, sorted[i])
          BY <1>2, <3>4 DEF ValidateEdit
        <4> QED
          BY <3>2, <4>1, <2>1, <2>2, AppendHas
      <3> QED
        BY <3>3, <3>4
    <2> QED
      BY <2>0, <2>1, <2>3, <2>4, <1>t DEF ScanInv
  <1>3. CASE UNCHANGED vars
    BY <1>3, <1>t DEF vars, validateState, ScanInv
  <1>4. CASE NextEntry \/ BeginFix \/ CollectEdit \/ EditsCollected \/ ValidateFails
             \/ ValidateReturns \/ AllValidated \/ Accept \/ Reject
    BY <1>4, <1>t DEF NextEntry, BeginFix, CollectEdit, EditsCollected, ValidateFails,
                      ValidateReturns, AllValidated, Accept, Reject
  <1> QED
    BY <1>1, <1>2, <1>3, <1>4 DEF Next, Terminated

\* What is taken and what is returned agree, so every fix is applied as a whole.
LEMMA AtomicFixes == IndInv /\ AtomicInv => FixesAtomic
  <1> SUFFICES ASSUME IndInv, AtomicInv PROVE FixesAtomic
    OBVIOUS
  <1>t. TypeOK /\ ChosenInv /\ FinalInv
    BY DEF IndInv, AtomicInv
  <1>1. ASSUME NEW k \in 1..Len(entries), chosen[k] > 0,
               NEW m \in 1..Len(entries[k][chosen[k]])
        PROVE  LET e == entries[k][chosen[k]][m] IN
                   e.file \in File /\ \E j \in 1..Len(finalChanges[e.file]) :
                                        Equals(finalChanges[e.file][j], e)
    <2>1. PICK e : e = entries[k][chosen[k]][m]
      OBVIOUS
    <2>2. e.file \in File
      BY <1>1, <2>1, <1>t DEF ChosenInv
    <2>3. entries[k] \in Seq(Seq(nogoEdit))
      BY <1>t, ElementOfSeq DEF TypeOK
    <2>4. chosen[k] \in 1..Len(entries[k])
      <3>1. Len(entries[k]) \in Nat
        BY <2>3
      <3>2. chosen[k] \in Nat
        BY <1>t DEF TypeOK
      <3>3. chosen[k] <= Len(entries[k])
        BY <1>t DEF ChosenInv
      <3> QED
        BY <1>1, <3>1, <3>2, <3>3
    <2>5. entries[k][chosen[k]] \in Seq(nogoEdit)
      BY <2>3, <2>4, ElementOfSeq
    <2>6. e \in nogoEdit
      BY <1>1, <2>1, <2>5, ElementOfSeq
    <2>7. e \in TextEdit
      BY <2>2, <2>6 DEF nogoEdit, TextEdit
    <2>8. FixHas(entries[k][chosen[k]], Len(entries[k][chosen[k]]), e.file, e)
      BY <2>1, EqualsSymmetric DEF FixHas
    <2>9. Taken(e.file, e)
      BY <1>1, <2>8 DEF Taken
    <2>10. Has(finalChanges[e.file], e)
      BY <2>2, <2>7, <2>9, <1>t DEF FinalInv
    <2> QED
      BY <2>1, <2>2, <2>10 DEF Has
  <1>2. ASSUME NEW x \in File, NEW j \in 1..Len(finalChanges[x])
        PROVE  \E k \in 1..Len(entries) : chosen[k] > 0 /\
                 \E m \in 1..Len(entries[k][chosen[k]]) :
                     /\ entries[k][chosen[k]][m].file = x
                     /\ Equals(finalChanges[x][j], entries[k][chosen[k]][m])
    <2>1. finalChanges[x] \in Seq(TextEdit)
      BY <1>t DEF TypeOK
    <2>2. finalChanges[x][j] \in TextEdit
      BY <2>1, ElementOfSeq
    <2>3. Has(finalChanges[x], finalChanges[x][j])
      BY EqualsSymmetric DEF Has
    <2>4. Taken(x, finalChanges[x][j])
      BY <2>2, <2>3, <1>t DEF FinalInv
    <2> QED
      BY <2>4, EqualsSymmetric DEF Taken, FixHas
  <1> QED
    BY <1>1, <1>2 DEF FixesAtomic

\* Both invariants hold in every state of every execution of getFixes.
THEOREM AtomicInductive == Spec => [](IndInv /\ AtomicInv)
  <1>1. IndInv /\ AtomicInv /\ [Next]_vars => AtomicInv'
    BY NextChosenInv, NextFinalInv, NextCollectInv, NextMergeInv, NextScanInv DEF AtomicInv
  <1> QED
    BY <1>1, InitAtomicInv, Inductive, PTL DEF Spec

\* A fix is taken with all its edits in all files or not at all, and nothing else is applied,
\* although validate sorts and deduplicates the edits of a file again for every fix.
THEOREM WholeFixes == Spec => []FixesAtomic
  <1> QED
    BY AtomicInductive, AtomicFixes, PTL

-----------------------------------------------------------------------------
(* applyEdits *)

\* What holds of 0, and of n if it holds of n - 1, holds up to m.
LEMMA UpTo ==
  ASSUME NEW m \in Nat, NEW G, 0 \in G, \A q \in 1..m : q - 1 \in G => q \in G
  PROVE  \A q \in 0..m : q \in G
  <1> DEFINE R == OpToRel(<, Nat)
             Fails == (0..m) \ G
  <1>1. SUFFICES ASSUME Fails # {} PROVE FALSE OBVIOUS
  <1>2. IsWellFoundedOn(R, Nat) BY NatLessThanWellFounded
  <1>3. \E x \in Fails : \A y \in Fails : ~(<<y, x>> \in R)
    <2>1. Fails \subseteq Nat OBVIOUS
    <2> HIDE DEF R, Fails
    <2> QED BY <1>1, <1>2, <2>1, WFMin
  <1>4. PICK x \in Fails : \A y \in Fails : ~(<<y, x>> \in R) BY <1>3
  <1>5. \A y \in Nat : y < x => <<y, x>> \in R BY DEF OpToRel
  <1> HIDE DEF R
  <1>6. x \in 1..m /\ x - 1 \in 0..m /\ x - 1 \in Nat /\ x - 1 < x
    <2>1. x \in 0..m /\ x # 0 OBVIOUS
    <2> QED BY <2>1
  <1>7. x - 1 \in G BY <1>4, <1>5, <1>6
  <1> QED BY <1>6, <1>7

\* A loop of m rounds has a result.
LEMMA Rounds ==
  ASSUME NEW S, NEW a \in S, NEW m \in Nat, NEW F \in [1..m -> [S -> S]]
  PROVE  \E h \in [0..m -> S] : \A q \in 0..m : h[q] = IF q = 0 THEN a ELSE F[q][h[q - 1]]
  <1> DEFINE Is(h, k) == \A q \in 0..k : h[q] = IF q = 0 THEN a ELSE F[q][h[q - 1]]
             G == {k \in 0..m : \E h \in [0..k -> S] : Is(h, k)}
  <1>1. 0 \in G
    <2> DEFINE j == [q \in 0..0 |-> a]
    <2>1. j \in [0..0 -> S] /\ Is(j, 0) /\ 0 \in 0..m OBVIOUS
    <2> HIDE DEF j, Is
    <2> QED BY <2>1
  <1>2. ASSUME NEW k \in 1..m, k - 1 \in G PROVE k \in G
    <2>1. PICK h \in [0..(k - 1) -> S] : Is(h, k - 1) BY <1>2
    <2> DEFINE j == [q \in 0..k |-> IF q = k THEN F[k][h[k - 1]] ELSE h[q]]
    <2>2. F[k][h[k - 1]] \in S
      <3>1. k - 1 \in 0..(k - 1) OBVIOUS
      <3>2. h[k - 1] \in S /\ F[k] \in [S -> S] BY <3>1
      <3> QED BY <3>2
    <2>3. \A q \in 0..k : q = k \/ q \in 0..(k - 1) OBVIOUS
    <2>4. j \in [0..k -> S] BY <2>2, <2>3
    <2>5. \A q \in 0..k : j[q] = IF q = 0 THEN a ELSE F[q][j[q - 1]]
      <3> TAKE q \in 0..k
      <3>1. CASE q = k
        <4>1. k # 0 /\ k - 1 # k /\ k - 1 \in 0..k OBVIOUS
        <4> QED BY <3>1, <4>1
      <3>2. CASE q # k
        <4>1. q \in 0..(k - 1) /\ (q # 0 => q - 1 \in 0..k /\ q - 1 # k) BY <3>2
        <4> QED BY <3>2, <4>1, <2>1
      <3> QED BY <3>1, <3>2
    <2> HIDE DEF j
    <2> QED BY <2>4, <2>5
  <1> HIDE DEF G
  <1>3. \A k \in 0..m : k \in G BY <1>1, <1>2, UpTo
  <1>4. m \in 0..m OBVIOUS
  <1> QED BY <1>3, <1>4 DEF G

Bytes == Seq(Byte)

\* The inputs of applyEdits: edits that are in order and lie in the text.
IsPatch(src, edits) ==
    /\ src \in Bytes /\ edits \in Seq(TextEdit) /\ Ordered(edits)
    /\ \A k \in 1..Len(edits) : edits[k].end <= Len(src)

\* What that says of the text and of each edit.
LEMMA EditTypes ==
  ASSUME NEW src, NEW edits, IsPatch(src, edits)
  PROVE  /\ Len(src) \in Nat /\ Len(edits) \in Nat
         /\ \A k \in 1..Len(edits) : /\ edits[k].start \in Nat /\ edits[k].end \in Nat /\ edits[k].new \in Bytes
                                     /\ edits[k].start <= edits[k].end /\ edits[k].end <= Len(src)
         /\ \A j, k \in 1..Len(edits) : j < k => edits[j].end <= edits[k].start
         /\ \A p \in 1..Len(src) : src[p] \in Byte
  <1>1. edits \in Seq(TextEdit) /\ src \in Seq(Byte) /\ Ordered(edits) BY DEF IsPatch, Bytes
  <1>2. \A k \in 1..Len(edits) : edits[k] \in TextEdit BY <1>1
  <1>3. \A e \in TextEdit : e.start \in Nat /\ e.end \in Nat /\ e.new \in Bytes BY InputAssumption DEF TextEdit, Bytes
  <1>4. Len(src) \in Nat /\ Len(edits) \in Nat /\ \A p \in 1..Len(src) : src[p] \in Byte BY <1>1
  <1> QED BY <1>1, <1>2, <1>3, <1>4 DEF IsPatch, Ordered

\* Concatenation of texts.
LEMMA Cat ==
  /\ <<>> \in Bytes
  /\ \A s, t \in Bytes : s \o t \in Bytes
  /\ \A s \in Bytes : s \o <<>> = s /\ <<>> \o s = s
  /\ \A r, s, t \in Bytes : (r \o s) \o t = r \o (s \o t)
  <1>1. <<>> \in Bytes BY EmptySeq DEF Bytes
  <1>2. \A s, t \in Bytes : s \o t \in Bytes BY ConcatProperties DEF Bytes
  <1>3. \A s \in Bytes : s \o <<>> = s /\ <<>> \o s = s BY ConcatEmptySeq DEF Bytes
  <1>4. \A r, s, t \in Bytes : (r \o s) \o t = r \o (s \o t) BY ConcatAssociative DEF Bytes
  <1> QED BY <1>1, <1>2, <1>3, <1>4

\* A part of a text.
LEMMA Part ==
  ASSUME NEW src \in Bytes, NEW a \in Nat, NEW b \in Nat, b <= Len(src)
  PROVE  /\ SubSeq(src, a + 1, b) \in Bytes
         /\ b <= a => SubSeq(src, a + 1, b) = <<>>
         /\ a < b => SubSeq(src, a + 1, b) = SubSeq(src, a + 1, b - 1) \o <<src[b]>>
  <1>1. src \in Seq(Byte) /\ Len(src) \in Nat BY DEF Bytes
  <1>2. CASE b <= a
    <2>1. SubSeq(src, a + 1, b) = <<>> BY <1>1, <1>2, SubSeqEmpty
    <2>2. ~(a < b) /\ <<>> \in Bytes BY <1>2, Cat
    <2> DEFINE s == SubSeq(src, a + 1, b)
    <2>3. s \in Bytes BY <2>1, <2>2
    <2> QED BY <2>1, <2>2, <2>3
  <1>3. CASE a < b
    <2>1. SubSeq(src, a + 1, b) \in Seq(Byte)
      <3>1. \A k \in (a + 1)..b : src[k] \in Byte BY <1>1
      <3> QED BY <1>1, <3>1, SubSeqProperties
    <2>2. SubSeq(src, a + 1, b) = SubSeq(src, a + 1, b - 1) \o <<src[b]>>
      BY <1>1, <1>3, SubSeqRecursiveSecond
    <2> QED BY <2>1, <2>2, <1>3 DEF Bytes
  <1> QED BY <1>2, <1>3

\* Where the part of the text that the first k edits have dealt with ends.
End(edits, k) == IF k = 0 THEN 0 ELSE edits[k].end

\* What applyEdits has put out after each edit.
LEMMA Output ==
  ASSUME NEW src, NEW edits, IsPatch(src, edits)
  PROVE  \E U \in [0..Len(edits) -> Bytes] :
           /\ U[0] = <<>>
           /\ \A k \in 1..Len(edits) :
                 U[k] = (U[k - 1] \o SubSeq(src, End(edits, k - 1) + 1, edits[k].start)) \o edits[k].new
           /\ applyEdits(src, edits) = U[Len(edits)] \o SubSeq(src, End(edits, Len(edits)) + 1, Len(src))
  <1> DEFINE len == Len(edits)
             piece(k) == SubSeq(src, (IF k = 1 THEN 0 ELSE edits[k - 1].end) + 1, edits[k].start)
             new(k) == edits[k].new
             P(h) == h = [k \in 0..len |-> IF k = 0 THEN <<>> ELSE h[k - 1] \o piece(k) \o new(k)]
             F == [k \in 1..len |-> [s \in Bytes |-> s \o piece(k) \o new(k)]]
  <1>1. len \in Nat BY EditTypes
  <1>2. ASSUME NEW k \in 1..len PROVE piece(k) = SubSeq(src, End(edits, k - 1) + 1, edits[k].start)
    <2>1. End(edits, k - 1) = IF k = 1 THEN 0 ELSE edits[k - 1].end
      <3>1. k - 1 = 0 <=> k = 1 BY <1>1
      <3> QED BY <3>1 DEF End
    <2> QED BY <2>1
  <1>3. ASSUME NEW k \in 1..len PROVE piece(k) \in Bytes /\ new(k) \in Bytes
    <2>1. End(edits, k - 1) \in Nat
      <3>1. k - 1 = 0 \/ k - 1 \in 1..len BY <1>1
      <3> QED BY <3>1, EditTypes DEF End
    <2>2. edits[k].start \in Nat /\ edits[k].start <= Len(src) /\ edits[k].new \in Bytes BY EditTypes
    <2>3. src \in Bytes BY DEF IsPatch
    <2> QED BY <1>2, <2>1, <2>2, <2>3, Part
  <1>4. applyEdits(src, edits) = (CHOOSE h : P(h))[len] \o SubSeq(src, (IF len = 0 THEN 0 ELSE edits[len].end) + 1, Len(src))
    BY DEF applyEdits
  <1> HIDE DEF piece, new, len
  <1>5. \E h : P(h)
    <2>1. F \in [1..len -> [Bytes -> Bytes]] BY <1>3, Cat
    <2>2. <<>> \in Bytes BY Cat
    <2> DEFINE a == <<>>
    <2>3. a \in Bytes BY <2>2
    <2> HIDE DEF F, P, a
    <2>4. \E h \in [0..len -> Bytes] : \A k \in 0..len : h[k] = IF k = 0 THEN a ELSE F[k][h[k - 1]]
      BY <1>1, <2>1, <2>3, Rounds
    <2>5. PICK h \in [0..len -> Bytes] : \A k \in 0..len : h[k] = IF k = 0 THEN <<>> ELSE F[k][h[k - 1]]
      BY <2>4 DEF a
    <2>6. ASSUME NEW k \in 0..len PROVE h[k] = IF k = 0 THEN <<>> ELSE h[k - 1] \o piece(k) \o new(k)
      <3>1. CASE k = 0 BY <3>1, <2>5
      <3>2. CASE k # 0
        <4>1. k \in 1..len /\ k - 1 \in 0..len BY <3>2, <1>1
        <4>2. h[k - 1] \in Bytes BY <4>1
        <4>3. F[k][h[k - 1]] = h[k - 1] \o piece(k) \o new(k) BY <4>1, <4>2 DEF F
        <4> QED BY <2>5, <3>2, <4>3
      <3> QED BY <3>1, <3>2
    <2> USE DEF P
    <2>7. P(h) BY <2>6
    <2> QED BY <2>7
  <1>6. PICK h : P(h) /\ h = CHOOSE x : P(x)
    <2> HIDE DEF P
    <2> QED BY <1>5
  <1>7. \A k \in 0..len : h[k] = IF k = 0 THEN <<>> ELSE h[k - 1] \o piece(k) \o new(k) BY <1>6
  <1>8. h \in [0..len -> Bytes]
    <2> DEFINE G == {k \in 0..len : h[k] \in Bytes}
    <2>1. 0 \in G BY <1>1, <1>7, Cat
    <2>2. \A k \in 1..len : k - 1 \in G => k \in G BY <1>1, <1>3, <1>7, Cat
    <2> HIDE DEF G
    <2>3. \A k \in 0..len : k \in G BY <1>1, <2>1, <2>2, UpTo
    <2>4. DOMAIN h = 0..len /\ h = [k \in DOMAIN h |-> h[k]] BY <1>6
    <2>5. \A k \in 0..len : h[k] \in Bytes BY <2>3 DEF G
    <2> QED BY <2>4, <2>5
  <1>9. \A k \in 1..len : h[k] = (h[k - 1] \o SubSeq(src, End(edits, k - 1) + 1, edits[k].start)) \o edits[k].new
    <2> TAKE k \in 1..len
    <2>1. k \in 0..len /\ k # 0 BY <1>1
    <2>2. h[k] = h[k - 1] \o piece(k) \o new(k) BY <1>7, <2>1
    <2> QED BY <1>2, <2>2 DEF new
  <1>10. h[0] = <<>> BY <1>1, <1>7
  <1>11. applyEdits(src, edits) = h[len] \o SubSeq(src, End(edits, len) + 1, Len(src)) BY <1>4, <1>6 DEF End
  <1> QED BY <1>8, <1>9, <1>10, <1>11 DEF len
\* What the k-th edit puts at the offset p.
Here(edits, k, p) == IF edits[k].start = p THEN edits[k].new ELSE <<>>

\* The texts of the first k edits at an offset, for every k.
LEMMA TextsAt ==
  ASSUME NEW src, NEW edits, IsPatch(src, edits), NEW p
  PROVE  \E t \in [0..Len(edits) -> Bytes] :
           /\ t[0] = <<>>
           /\ \A k \in 1..Len(edits) : t[k] = t[k - 1] \o Here(edits, k, p)
           /\ Texts(edits, p) = t[Len(edits)]
  <1> DEFINE len == Len(edits)
             new(k) == IF edits[k].start = p THEN edits[k].new ELSE <<>>
             P(h) == h = [k \in 0..len |-> IF k = 0 THEN <<>> ELSE h[k - 1] \o new(k)]
             F == [k \in 1..len |-> [s \in Bytes |-> s \o new(k)]]
             a == <<>>
  <1>1. len \in Nat BY EditTypes
  <1>2. \A k \in 1..len : new(k) = Here(edits, k, p) BY DEF Here
  <1>3. \A k \in 1..len : new(k) \in Bytes BY EditTypes, Cat
  <1>4. Texts(edits, p) = (CHOOSE h : P(h))[len] BY DEF Texts
  <1> HIDE DEF new, len
  <1>5. \E h : P(h)
    <2>1. F \in [1..len -> [Bytes -> Bytes]] BY <1>3, Cat
    <2>2. a \in Bytes BY Cat
    <2> HIDE DEF F, P, a
    <2>3. \E h \in [0..len -> Bytes] : \A k \in 0..len : h[k] = IF k = 0 THEN a ELSE F[k][h[k - 1]]
      BY <1>1, <2>1, <2>2, Rounds
    <2>4. PICK h \in [0..len -> Bytes] : \A k \in 0..len : h[k] = IF k = 0 THEN <<>> ELSE F[k][h[k - 1]]
      BY <2>3 DEF a
    <2>5. ASSUME NEW k \in 0..len PROVE h[k] = IF k = 0 THEN <<>> ELSE h[k - 1] \o new(k)
      <3>1. CASE k = 0 BY <3>1, <2>4
      <3>2. CASE k # 0
        <4>1. k \in 1..len /\ k - 1 \in 0..len BY <3>2, <1>1
        <4>2. h[k - 1] \in Bytes BY <4>1
        <4>3. F[k][h[k - 1]] = h[k - 1] \o new(k) BY <4>1, <4>2 DEF F
        <4> QED BY <2>4, <3>2, <4>3
      <3> QED BY <3>1, <3>2
    <2> USE DEF P
    <2>6. P(h) BY <2>5
    <2> QED BY <2>6
  <1>6. PICK h : P(h) /\ h = CHOOSE x : P(x)
    <2> HIDE DEF P
    <2> QED BY <1>5
  <1>7. \A k \in 0..len : h[k] = IF k = 0 THEN <<>> ELSE h[k - 1] \o new(k) BY <1>6
  <1>8. h \in [0..len -> Bytes]
    <2> DEFINE G == {k \in 0..len : h[k] \in Bytes}
    <2>1. 0 \in G BY <1>1, <1>7, Cat
    <2>2. \A k \in 1..len : k - 1 \in G => k \in G BY <1>1, <1>3, <1>7, Cat
    <2> HIDE DEF G
    <2>3. \A k \in 0..len : k \in G BY <1>1, <2>1, <2>2, UpTo
    <2>4. DOMAIN h = 0..len /\ h = [k \in DOMAIN h |-> h[k]] BY <1>6
    <2>5. \A k \in 0..len : h[k] \in Bytes BY <2>3 DEF G
    <2> QED BY <2>4, <2>5
  <1>9. \A k \in 1..len : h[k] = h[k - 1] \o Here(edits, k, p)
    <2> TAKE k \in 1..len
    <2>1. k \in 0..len /\ k # 0 BY <1>1
    <2>2. h[k] = h[k - 1] \o new(k) BY <1>7, <2>1
    <2> QED BY <1>2, <2>2
  <1>10. h[0] = <<>> BY <1>1, <1>7
  <1>11. Texts(edits, p) = h[len] BY <1>4, <1>6
  <1> QED BY <1>8, <1>9, <1>10, <1>11 DEF len

\* T[p][k]: the texts of the first k edits at the offset p.
IsTexts(T, src, edits) ==
    /\ T \in [0..Len(src) -> [0..Len(edits) -> Bytes]]
    /\ \A p \in 0..Len(src) :
          /\ T[p][0] = <<>>
          /\ \A k \in 1..Len(edits) : T[p][k] = T[p][k - 1] \o Here(edits, k, p)
          /\ Texts(edits, p) = T[p][Len(edits)]

\* There are such texts (Texts has a value).
LEMMA TextsExist ==
  ASSUME NEW src, NEW edits, IsPatch(src, edits)
  PROVE  \E T : IsTexts(T, src, edits)
  <1> DEFINE Is(t, p) == /\ t \in [0..Len(edits) -> Bytes]
                         /\ t[0] = <<>>
                         /\ \A k \in 1..Len(edits) : t[k] = t[k - 1] \o Here(edits, k, p)
                         /\ Texts(edits, p) = t[Len(edits)]
             c(p) == CHOOSE t : Is(t, p)
             T == [p \in 0..Len(src) |-> c(p)]
  <1>1. ASSUME NEW p \in 0..Len(src) PROVE Is(T[p], p)
    <2>1. \E t : Is(t, p) BY TextsAt
    <2> HIDE DEF Is
    <2>2. Is(CHOOSE t : Is(t, p), p) BY <2>1
    <2> QED BY <2>2
  <1>2. T \in [0..Len(src) -> [0..Len(edits) -> Bytes]]
    <2>1. \A p \in 0..Len(src) : c(p) \in [0..Len(edits) -> Bytes] BY <1>1
    <2> HIDE DEF c
    <2> QED BY <2>1
  <1> HIDE DEF T
  <1>3. IsTexts(T, src, edits) BY <1>1, <1>2 DEF IsTexts
  <1> QED BY <1>3

\* What is left of the byte p when the first k edits are applied.
Left(src, edits, k, p) ==
    IF \E j \in 1..k : edits[j].start <= p - 1 /\ p - 1 < edits[j].end THEN <<>> ELSE <<src[p]>>

\* Z[p] is what the first k edits make of the text up to the offset p, byte by byte.
IsPrefix(Z, k, src, edits, T) ==
    /\ Z \in [0..Len(src) -> Bytes]
    /\ Z[0] = T[0][k]
    /\ \A p \in 1..Len(src) : Z[p] = (Z[p - 1] \o Left(src, edits, k, p)) \o T[p][k]

\* A byte or nothing.
LEMMA LeftType ==
  ASSUME NEW src, NEW edits, IsPatch(src, edits), NEW k, NEW p \in 1..Len(src)
  PROVE  Left(src, edits, k, p) \in Bytes
  <1>1. src[p] \in Byte BY EditTypes
  <1>2. <<src[p]>> \in Bytes BY <1>1 DEF Bytes
  <1> QED BY <1>2, Cat DEF Left

\* There is such a sequence of texts for every k.
LEMMA PrefixExists ==
  ASSUME NEW src, NEW edits, IsPatch(src, edits), NEW T, IsTexts(T, src, edits), NEW k \in 0..Len(edits)
  PROVE  \E Z : IsPrefix(Z, k, src, edits, T)
  <1> DEFINE N == Len(src)
             F == [p \in 1..N |-> [s \in Bytes |-> (s \o Left(src, edits, k, p)) \o T[p][k]]]
             a == T[0][k]
  <1>1. N \in Nat BY EditTypes
  <1>2. \A p \in 0..N : T[p][k] \in Bytes BY DEF IsTexts
  <1>3. \A p \in 1..N : p \in 0..N /\ Left(src, edits, k, p) \in Bytes BY LeftType
  <1>4. F \in [1..N -> [Bytes -> Bytes]] BY <1>2, <1>3, Cat
  <1>5. a \in Bytes BY <1>1, <1>2
  <1> HIDE DEF F, N, a
  <1>6. \E Z \in [0..N -> Bytes] : \A p \in 0..N : Z[p] = IF p = 0 THEN a ELSE F[p][Z[p - 1]]
    BY <1>1, <1>4, <1>5, Rounds
  <1>7. PICK Z \in [0..N -> Bytes] : \A p \in 0..N : Z[p] = IF p = 0 THEN a ELSE F[p][Z[p - 1]]
    BY <1>6
  <1>8. Z[0] = T[0][k] BY <1>1, <1>7 DEF a
  <1>9. ASSUME NEW p \in 1..N PROVE Z[p] = (Z[p - 1] \o Left(src, edits, k, p)) \o T[p][k]
    <2>1. p \in 0..N /\ p # 0 /\ p - 1 \in 0..N BY <1>1
    <2>2. Z[p - 1] \in Bytes BY <2>1
    <2>3. F[p][Z[p - 1]] = (Z[p - 1] \o Left(src, edits, k, p)) \o T[p][k] BY <2>2 DEF F
    <2> QED BY <1>7, <2>1, <2>3
  <1> QED BY <1>8, <1>9 DEF IsPrefix, N

\* What Expected is: the last of them, for all edits.
LEMMA ExpectedIs ==
  ASSUME NEW src, NEW edits, IsPatch(src, edits), NEW T, IsTexts(T, src, edits)
  PROVE  \E Z : IsPrefix(Z, Len(edits), src, edits, T) /\ Expected(src, edits) = Z[Len(src)]
  <1> DEFINE N == Len(src)
             len == Len(edits)
             left(p) == IF Covered(edits, p - 1) THEN <<>> ELSE <<src[p]>>
             P(h) == h = [p \in 0..N |-> IF p = 0 THEN Texts(edits, 0) ELSE h[p - 1] \o left(p) \o Texts(edits, p)]
  <1>1. N \in Nat /\ len \in Nat BY EditTypes
  <1>2. \A p \in 1..N : left(p) = Left(src, edits, len, p) BY DEF Left, Covered
  <1>3. \A p \in 0..N : Texts(edits, p) = T[p][len] /\ T[p][len] \in Bytes
    <2>1. len \in 0..len BY <1>1
    <2>2. T \in [0..N -> [0..len -> Bytes]] BY DEF IsTexts
    <2>3. \A p \in 0..N : Texts(edits, p) = T[p][len] BY DEF IsTexts
    <2> HIDE DEF len, N
    <2> QED BY <2>1, <2>2, <2>3
  <1>4. Expected(src, edits) = (CHOOSE h : P(h))[N] BY DEF Expected
  <1> HIDE DEF left, N
  <1>5. \E h : P(h)
    <2>1. PICK Z : IsPrefix(Z, len, src, edits, T) BY <1>1, PrefixExists
    <2>2. Z \in [0..N -> Bytes] /\ Z[0] = T[0][len] BY <2>1 DEF IsPrefix, N
    <2>3. \A p \in 1..N : Z[p] = (Z[p - 1] \o Left(src, edits, len, p)) \o T[p][len] BY <2>1 DEF IsPrefix, N
    <2> HIDE DEF len
    <2>4. ASSUME NEW p \in 0..N
          PROVE  Z[p] = IF p = 0 THEN Texts(edits, 0) ELSE Z[p - 1] \o left(p) \o Texts(edits, p)
      <3>1. CASE p = 0 BY <3>1, <2>2, <1>3
      <3>2. CASE p # 0
        <4>1. p \in 1..N BY <3>2, <1>1
        <4> QED BY <4>1, <3>2, <2>3, <1>2, <1>3
      <3> QED BY <3>1, <3>2
    <2>5. P(Z) BY <2>2, <2>4
    <2> QED BY <2>5
  <1>6. PICK h : P(h) /\ h = CHOOSE x : P(x)
    <2> HIDE DEF P
    <2> QED BY <1>5
  <1>7. \A p \in 0..N : h[p] = IF p = 0 THEN Texts(edits, 0) ELSE h[p - 1] \o left(p) \o Texts(edits, p) BY <1>6
  <1> HIDE DEF len
  <1>8. h[0] = T[0][len] BY <1>1, <1>3, <1>7
  <1>9. ASSUME NEW p \in 1..N PROVE h[p] = (h[p - 1] \o Left(src, edits, len, p)) \o T[p][len]
    <2>1. p \in 0..N /\ p # 0 BY <1>1
    <2> QED BY <2>1, <1>2, <1>3, <1>7
  <1>10. h \in [0..N -> Bytes]
    <2> DEFINE G == {p \in 0..N : h[p] \in Bytes}
    <2>1. 0 \in G BY <1>1, <1>3, <1>8
    <2>2. ASSUME NEW p \in 1..N, p - 1 \in G PROVE p \in G
      <3>1. Left(src, edits, len, p) \in Bytes BY LeftType DEF N
      <3>2. p \in 0..N /\ T[p][len] \in Bytes BY <1>1, <1>3
      <3>3. h[p - 1] \in Bytes BY <2>2
      <3>4. (h[p - 1] \o Left(src, edits, len, p)) \o T[p][len] \in Bytes BY <3>1, <3>2, <3>3, Cat
      <3>5. h[p] \in Bytes BY <1>9, <3>4
      <3> QED BY <3>2, <3>5
    <2> HIDE DEF G
    <2>3. \A p \in 0..N : p \in G BY <1>1, <2>1, <2>2, UpTo
    <2>4. DOMAIN h = 0..N /\ h = [p \in DOMAIN h |-> h[p]] BY <1>6
    <2>5. \A p \in 0..N : h[p] \in Bytes BY <2>3 DEF G
    <2> QED BY <2>4, <2>5
  <1>11. IsPrefix(h, len, src, edits, T) BY <1>8, <1>9, <1>10 DEF IsPrefix, N
  <1> QED BY <1>4, <1>6, <1>11 DEF len, N
\* No text where no edit starts.
LEMMA NoText ==
  ASSUME NEW src, NEW edits, IsPatch(src, edits), NEW T, IsTexts(T, src, edits),
         NEW k \in 0..Len(edits), NEW p \in 0..Len(src), \A j \in 1..k : edits[j].start # p
  PROVE  T[p][k] = <<>>
  <1> DEFINE G == {m \in 0..k : T[p][m] = <<>>}
  <1>1. k \in Nat /\ \A m \in 1..k : m \in 1..Len(edits) BY EditTypes
  <1>2. 0 \in G BY <1>1 DEF IsTexts
  <1>3. ASSUME NEW m \in 1..k, m - 1 \in G PROVE m \in G
    <2>1. T[p][m - 1] = <<>> BY <1>3
    <2>2. T[p][m] = T[p][m - 1] \o Here(edits, m, p) BY <1>1 DEF IsTexts
    <2>3. Here(edits, m, p) = <<>> BY DEF Here
    <2>4. <<>> \o <<>> = <<>> BY Cat
    <2>5. m \in 0..k BY <1>1
    <2> QED BY <2>1, <2>2, <2>3, <2>4, <2>5
  <1> HIDE DEF G
  <1>4. \A m \in 0..k : m \in G BY <1>1, <1>2, <1>3, UpTo
  <1>5. k \in 0..k BY <1>1
  <1> QED BY <1>4, <1>5 DEF G

\* Without edits: the text as it is.
LEMMA PrefixZero ==
  ASSUME NEW src, NEW edits, IsPatch(src, edits), NEW T, IsTexts(T, src, edits),
         NEW Z, IsPrefix(Z, 0, src, edits, T), NEW p \in 0..Len(src)
  PROVE  Z[p] = SubSeq(src, 1, p)
  <1> DEFINE N == Len(src)
             G == {q \in 0..N : Z[q] = SubSeq(src, 0 + 1, q)}
  <1>1. N \in Nat /\ Len(edits) \in Nat /\ src \in Bytes BY EditTypes DEF IsPatch
  <1>2. Z[0] = <<>> /\ \A q \in 0..N : T[q][0] = <<>> BY <1>1 DEF IsTexts, IsPrefix
  <1> HIDE DEF N
  <1>3. 0 \in G
    <2>1. \A a \in Nat : SubSeq(src, a + 1, 0) = <<>> BY <1>1, Part DEF N
    <2>2. SubSeq(src, 0 + 1, 0) = <<>> BY <2>1
    <2>3. 0 \in 0..N BY <1>1
    <2> QED BY <1>2, <2>2, <2>3
  <1>4. ASSUME NEW q \in 1..N, q - 1 \in G PROVE q \in G
    <2>1. Z[q] = (Z[q - 1] \o Left(src, edits, 0, q)) \o T[q][0] BY DEF IsPrefix, N
    <2>2. Left(src, edits, 0, q) = <<src[q]>> BY DEF Left
    <2>3. q \in 0..N /\ q \in Nat /\ 0 < q /\ q <= N BY <1>1
    <2>4. SubSeq(src, 0 + 1, q) = SubSeq(src, 0 + 1, q - 1) \o <<src[q]>> BY <1>1, <2>3, Part DEF N
    <2>5. SubSeq(src, 0 + 1, q) \in Bytes BY <1>1, <2>3, Part DEF N
    <2>6. Z[q - 1] = SubSeq(src, 0 + 1, q - 1) BY <1>4
    <2>7. Z[q] = SubSeq(src, 0 + 1, q) \o <<>> BY <1>2, <2>1, <2>2, <2>3, <2>4, <2>6
    <2>8. Z[q] = SubSeq(src, 0 + 1, q) BY <2>5, <2>7, Cat
    <2> QED BY <2>3, <2>8
  <1> HIDE DEF G
  <1>5. \A q \in 0..N : q \in G BY <1>1, <1>3, <1>4, UpTo
  <1>6. Z[p] = SubSeq(src, 0 + 1, p) BY <1>5 DEF G, N
  <1> QED BY <1>6

\* One edit more changes nothing in front of it.
LEMMA PrefixSame ==
  ASSUME NEW src, NEW edits, IsPatch(src, edits), NEW T, IsTexts(T, src, edits),
         NEW k \in 1..Len(edits), NEW Y, IsPrefix(Y, k - 1, src, edits, T), NEW Z, IsPrefix(Z, k, src, edits, T),
         NEW p \in 0..Len(src), p < edits[k].start
  PROVE  Z[p] = Y[p]
  <1> DEFINE G == {q \in 0..p : Z[q] = Y[q]}
  <1>1. /\ Len(src) \in Nat /\ Len(edits) \in Nat /\ p \in Nat /\ edits[k].start \in Nat
        /\ \A q \in 0..p : q \in 0..Len(src)
    BY EditTypes
  <1>2. ASSUME NEW q \in 0..p PROVE T[q][k] = T[q][k - 1]
    <2>1. q \in 0..Len(src) /\ edits[k].start # q BY <1>1
    <2>2. T[q][k] = T[q][k - 1] \o <<>> BY <2>1 DEF IsTexts, Here
    <2>3. T[q][k - 1] \in Bytes
      <3>1. k - 1 \in 0..Len(edits) BY <1>1
      <3> QED BY <2>1, <3>1 DEF IsTexts
    <2> QED BY <2>2, <2>3, Cat
  <1>3. 0 \in G
    <2>1. 0 \in 0..p BY <1>1
    <2> QED BY <2>1, <1>2 DEF IsPrefix
  <1>4. ASSUME NEW q \in 1..p, q - 1 \in G PROVE q \in G
    <2>1. q \in 0..p /\ q \in 1..Len(src) BY <1>1
    <2>2. Left(src, edits, k, q) = Left(src, edits, k - 1, q)
      <3>1. ~(edits[k].start <= q - 1) BY <1>1
      <3>2. \A j \in 1..k : j \in 1..(k - 1) \/ j = k BY <1>1
      <3>3. \A j \in 1..(k - 1) : j \in 1..k BY <1>1
      <3> QED BY <3>1, <3>2, <3>3 DEF Left
    <2>3. Z[q] = (Z[q - 1] \o Left(src, edits, k, q)) \o T[q][k] BY <2>1 DEF IsPrefix
    <2>4. Y[q] = (Y[q - 1] \o Left(src, edits, k - 1, q)) \o T[q][k - 1] BY <2>1 DEF IsPrefix
    <2>5. Z[q - 1] = Y[q - 1] BY <1>4
    <2>6. Z[q] = Y[q] BY <1>2, <2>1, <2>2, <2>3, <2>4, <2>5
    <2> QED BY <2>1, <2>6
  <1> HIDE DEF G
  <1>5. \A q \in 0..p : q \in G BY <1>1, <1>3, <1>4, UpTo
  <1>6. p \in 0..p BY <1>1
  <1> QED BY <1>5, <1>6 DEF G

\* What an edit does to the text in front of it, and to the text behind it.
AddsText(Z, Y, edit) == Z[edit.start] = Y[edit.start] \o edit.new
Copies(Z, src, edit, p) == Z[p] = Z[edit.start] \o SubSeq(src, edit.end + 1, p)

\* Where it starts, its text is added.
LEMMA PrefixStart ==
  ASSUME NEW src, NEW edits, IsPatch(src, edits), NEW T, IsTexts(T, src, edits),
         NEW k \in 1..Len(edits), NEW Y, IsPrefix(Y, k - 1, src, edits, T), NEW Z, IsPrefix(Z, k, src, edits, T)
  PROVE  AddsText(Z, Y, edits[k])
  <1> DEFINE s == edits[k].start
             new == edits[k].new
  <1>1. Len(src) \in Nat /\ Len(edits) \in Nat /\ s \in 0..Len(src) /\ new \in Bytes BY EditTypes
  <1>2. T[s][k] = T[s][k - 1] \o new BY <1>1 DEF IsTexts, Here
  <1>3. T[s][k - 1] \in Bytes
    <2>1. k - 1 \in 0..Len(edits) BY <1>1
    <2> QED BY <2>1, <1>1 DEF IsTexts
  <1>4. CASE s = 0
    <2>1. Z[0] = T[0][k] /\ Y[0] = T[0][k - 1] BY DEF IsPrefix
    <2> QED BY <2>1, <1>2, <1>4 DEF AddsText
  <1>5. CASE s # 0
    <2>1. s \in 1..Len(src) /\ s - 1 \in 0..Len(src) /\ s - 1 < s BY <1>1, <1>5
    <2> DEFINE y == Y[s - 1]
               left == Left(src, edits, k - 1, s)
    <2>2. Left(src, edits, k, s) = left
      <3>1. ~(s <= s - 1) BY <1>1
      <3>2. \A j \in 1..k : j \in 1..(k - 1) \/ j = k BY <1>1
      <3>3. \A j \in 1..(k - 1) : j \in 1..k BY <1>1
      <3> QED BY <3>1, <3>2, <3>3 DEF Left
    <2>3. Z[s - 1] = y BY <2>1, PrefixSame
    <2>4. Z[s] = (Z[s - 1] \o Left(src, edits, k, s)) \o T[s][k] BY <2>1 DEF IsPrefix
    <2>5. Y[s] = (y \o left) \o T[s][k - 1] BY <2>1 DEF IsPrefix
    <2>6. y \in Bytes /\ left \in Bytes BY <2>1, LeftType DEF IsPrefix
    <2> HIDE DEF y, left, s, new
    <2>7. Z[s] = (y \o left) \o (T[s][k - 1] \o new) BY <1>2, <2>2, <2>3, <2>4
    <2>8. y \o left \in Bytes BY <2>6, Cat
    <2>9. Z[s] = ((y \o left) \o T[s][k - 1]) \o new BY <1>1, <1>3, <2>7, <2>8, Cat
    <2>10. Z[s] = Y[s] \o new BY <2>5, <2>9
    <2> QED BY <2>10 DEF s, new, AddsText
  <1> QED BY <1>4, <1>5

\* Behind its start: nothing up to its end, and then the text as it is.
LEMMA PrefixBehind ==
  ASSUME NEW src, NEW edits, IsPatch(src, edits), NEW T, IsTexts(T, src, edits),
         NEW k \in 1..Len(edits), NEW Z, IsPrefix(Z, k, src, edits, T),
         NEW p \in 0..Len(src), edits[k].start <= p
  PROVE  Copies(Z, src, edits[k], p)
  <1> DEFINE s == edits[k].start
             e == edits[k].end
             N == Len(src)
             G == {m \in 0..(N - s) : Z[s + m] = Z[s] \o SubSeq(src, e + 1, s + m)}
  <1>1. /\ N \in Nat /\ Len(edits) \in Nat /\ k \in Nat /\ s \in Nat /\ e \in Nat /\ s <= e /\ e <= N /\ src \in Bytes
        /\ \A j \in 1..k : /\ edits[j].start \in Nat /\ edits[j].end \in Nat
                            /\ edits[j].start <= s /\ edits[j].end <= e
    <2>1. ASSUME NEW j \in 1..k PROVE /\ edits[j].start \in Nat /\ edits[j].end \in Nat
                                      /\ edits[j].start <= s /\ edits[j].end <= e
      <3>1. j \in 1..Len(edits) /\ (j < k \/ j = k) BY EditTypes
      <3>2. edits[j].start \in Nat /\ edits[j].end \in Nat /\ edits[j].start <= edits[j].end BY <3>1, EditTypes
      <3>3. s \in Nat /\ e \in Nat /\ s <= e BY EditTypes
      <3>4. j < k => edits[j].end <= s BY <3>1, EditTypes
      <3> HIDE DEF s, e
      <3> QED BY <3>1, <3>2, <3>3, <3>4 DEF s, e
    <2> QED BY <2>1, EditTypes DEF IsPatch
  <1>2. Z[s] \in Bytes
    <2>1. s \in 0..N BY <1>1
    <2> QED BY <2>1 DEF IsPrefix
  <1> HIDE DEF s, e, N
  <1>3. 0 \in G
    <2>1. SubSeq(src, e + 1, s) = <<>> BY <1>1, Part DEF N
    <2>2. s + 0 = s /\ 0 \in 0..(N - s) BY <1>1
    <2>3. Z[s] = Z[s] \o <<>> BY <1>2, Cat
    <2> QED BY <2>1, <2>2, <2>3
  <1>4. ASSUME NEW m \in 1..(N - s), m - 1 \in G PROVE m \in G
    <2> DEFINE q == s + m
    <2>1. /\ q \in 1..N /\ q \in 0..N /\ q \in Nat /\ q - 1 \in Nat /\ s + (m - 1) = q - 1 /\ s < q /\ q <= N
          /\ m \in 0..(N - s)
      BY <1>1
    <2>2. Z[q - 1] = Z[s] \o SubSeq(src, e + 1, q - 1) BY <1>4, <2>1
    <2> HIDE DEF q
    <2>3. Z[q] = (Z[q - 1] \o Left(src, edits, k, q)) \o T[q][k] BY <2>1 DEF IsPrefix, N
    <2>4. T[q][k] = <<>>
      <3>1. \A j \in 1..k : edits[j].start # q BY <1>1, <2>1
      <3>2. k \in 0..Len(edits) BY <1>1
      <3>3. q \in 0..Len(src) BY <2>1 DEF N
      <3> HIDE DEF G
      <3> QED BY <3>1, <3>2, <3>3, NoText
    <2>5. Z[q - 1] \in Bytes /\ Left(src, edits, k, q) \in Bytes
      <3>1. q - 1 \in 0..N BY <1>1, <2>1
      <3> QED BY <2>1, <3>1, LeftType DEF IsPrefix, N
    <2>6. Z[q] = Z[q - 1] \o Left(src, edits, k, q) BY <2>3, <2>4, <2>5, Cat
    <2>7. Z[q] = Z[s] \o SubSeq(src, e + 1, q)
      <3>1. CASE q <= e
        <4>1. Left(src, edits, k, q) = <<>>
          <5>1. k \in 1..k /\ s <= q - 1 /\ q - 1 < e BY <1>1, <2>1, <3>1
          <5> QED BY <5>1 DEF Left, s, e
        <4>2. SubSeq(src, e + 1, q) = <<>> BY <1>1, <2>1, <3>1, Part DEF N
        <4>3. SubSeq(src, e + 1, q - 1) = <<>>
          <5>1. q - 1 <= e /\ q - 1 <= N BY <1>1, <2>1, <3>1
          <5> QED BY <1>1, <2>1, <5>1, Part DEF N
        <4> QED BY <2>2, <2>5, <2>6, <4>1, <4>2, <4>3, Cat
      <3>2. CASE ~(q <= e)
        <4>1. Left(src, edits, k, q) = <<src[q]>>
          <5>1. \A j \in 1..k : ~(q - 1 < edits[j].end) BY <1>1, <2>1, <3>2
          <5> QED BY <5>1 DEF Left
        <4>2. SubSeq(src, e + 1, q) = SubSeq(src, e + 1, q - 1) \o <<src[q]>>
          <5>1. e < q BY <1>1, <2>1, <3>2
          <5> QED BY <1>1, <2>1, <5>1, Part DEF N
        <4>3. SubSeq(src, e + 1, q - 1) \in Bytes
          <5>1. q - 1 <= N BY <1>1, <2>1
          <5> QED BY <1>1, <2>1, <5>1, Part DEF N
        <4>4. <<src[q]>> \in Bytes BY <2>5, <4>1
        <4> DEFINE part == SubSeq(src, e + 1, q - 1)
                   byte == <<src[q]>>
        <4>5. Z[q] = (Z[s] \o part) \o byte BY <2>2, <2>6, <4>1
        <4> HIDE DEF part, byte
        <4>6. Z[q] = Z[s] \o (part \o byte) BY <1>2, <4>3, <4>4, <4>5, Cat DEF part, byte
        <4> QED BY <4>2, <4>6 DEF part, byte
      <3> QED BY <3>1, <3>2
    <2> QED BY <2>1, <2>7 DEF q
  <1>5. \A m \in 0..(N - s) : m \in G
    <2> HIDE DEF G
    <2>1. N - s \in Nat BY <1>1
    <2> QED BY <1>3, <1>4, <2>1, UpTo
  <1>6. p - s \in 0..(N - s) /\ s + (p - s) = p BY <1>1 DEF N, s
  <1>7. Z[p] = Z[s] \o SubSeq(src, e + 1, p) BY <1>5, <1>6
  <1> QED BY <1>7 DEF s, e, Copies
\* applyEdits is exact on edits that are in order and lie in the text.
LEMMA ApplyExact ==
  ASSUME NEW src, NEW edits, IsPatch(src, edits)
  PROVE  applyEdits(src, edits) = Expected(src, edits)
  <1> DEFINE N == Len(src)
             len == Len(edits)
  <1>1. PICK U \in [0..len -> Bytes] :
           /\ U[0] = <<>>
           /\ \A k \in 1..len : U[k] = (U[k - 1] \o SubSeq(src, End(edits, k - 1) + 1, edits[k].start)) \o edits[k].new
           /\ applyEdits(src, edits) = U[len] \o SubSeq(src, End(edits, len) + 1, N)
    BY Output
  <1>2. PICK T : IsTexts(T, src, edits) BY TextsExist
  <1>3. PICK X : IsPrefix(X, len, src, edits, T) /\ Expected(src, edits) = X[N] BY <1>2, ExpectedIs
  <1>4. N \in Nat /\ len \in Nat /\ src \in Bytes BY EditTypes DEF IsPatch
  <1>5. \A k \in 0..len : End(edits, k) \in Nat /\ End(edits, k) <= N
    <2>1. \A k \in 0..len : k = 0 \/ k \in 1..len BY <1>4
    <2> QED BY <2>1, <1>4, EditTypes DEF End
  <1> DEFINE Good(k) == \A Z : IsPrefix(Z, k, src, edits, T) =>
                           \A p \in 0..N : End(edits, k) <= p => Z[p] = U[k] \o SubSeq(src, End(edits, k) + 1, p)
             G == {k \in 0..len : Good(k)}
  <1>6. 0 \in G
    <2>1. End(edits, 0) = 0 /\ U[0] = <<>> BY <1>1 DEF End
    <2>2. ASSUME NEW Z, IsPrefix(Z, 0, src, edits, T), NEW p \in 0..N
          PROVE  Z[p] = U[0] \o SubSeq(src, End(edits, 0) + 1, p)
      <3>1. Z[p] = SubSeq(src, 1, p) BY <1>2, <2>2, PrefixZero
      <3>2. Z[p] \in Bytes BY <2>2 DEF IsPrefix
      <3>3. <<>> \o Z[p] = Z[p] BY <3>2, Cat
      <3>4. End(edits, 0) + 1 = 1 BY <2>1
      <3> QED BY <2>1, <3>1, <3>3, <3>4
    <2>3. Good(0) BY <2>2
    <2>4. 0 \in 0..len BY <1>4
    <2> HIDE DEF Good
    <2> QED BY <2>3, <2>4
  <1>7. ASSUME NEW k \in 1..len, k - 1 \in G PROVE k \in G
    <2> DEFINE s == edits[k].start
               new == edits[k].new
    <2>1. /\ k \in 0..len /\ k - 1 \in 0..len /\ s \in 0..N /\ End(edits, k) = edits[k].end
          /\ s <= edits[k].end /\ edits[k].end \in Nat
      BY <1>4, EditTypes DEF End
    <2>2. End(edits, k - 1) <= s
      <3>1. CASE k = 1 BY <3>1, <2>1 DEF End
      <3>2. CASE k # 1
        <4>1. k - 1 \in 1..len /\ k - 1 < k /\ k - 1 # 0 BY <1>4, <3>2
        <4>2. edits[k - 1].end <= s BY <4>1, EditTypes
        <4> QED BY <4>1, <4>2 DEF End
      <3> QED BY <3>1, <3>2
    <2>3. PICK Y : IsPrefix(Y, k - 1, src, edits, T) BY <1>2, <2>1, PrefixExists
    <2>4. Y[s] = U[k - 1] \o SubSeq(src, End(edits, k - 1) + 1, s)
      <3>1. Good(k - 1) BY <1>7
      <3> QED BY <2>1, <2>2, <2>3, <3>1
    <2>5. U[k] = Y[s] \o new BY <1>1, <2>4
    <2>6. ASSUME NEW Z, IsPrefix(Z, k, src, edits, T), NEW p \in 0..N, End(edits, k) <= p
          PROVE  Z[p] = U[k] \o SubSeq(src, End(edits, k) + 1, p)
      <3> HIDE DEF Good, G, s, new, N, len
      <3>1. Z[s] = Y[s] \o new
        <4> USE DEF s, new, len
        <4>1. IsTexts(T, src, edits) /\ IsPrefix(Y, k - 1, src, edits, T) /\ IsPrefix(Z, k, src, edits, T) /\ k \in 1..Len(edits)
          BY <1>2, <2>3, <2>6
        <4>2. AddsText(Z, Y, edits[k]) BY <4>1, PrefixStart
        <4> QED BY <4>2 DEF AddsText
      <3>2. s <= p BY <1>4, <2>1, <2>6
      <3>3. Z[p] = Z[s] \o SubSeq(src, edits[k].end + 1, p)
        <4> USE DEF s, len, N
        <4>1. /\ IsTexts(T, src, edits) /\ IsPrefix(Z, k, src, edits, T) /\ k \in 1..Len(edits) /\ p \in 0..Len(src)
              /\ edits[k].start <= p
          BY <1>2, <2>6, <3>2
        <4>2. Copies(Z, src, edits[k], p) BY <4>1, PrefixBehind
        <4> QED BY <4>2 DEF Copies
      <3> QED BY <2>1, <2>5, <3>1, <3>3
    <2>7. Good(k) BY <2>6
    <2> HIDE DEF Good
    <2> QED BY <2>1, <2>7
  <1>8. \A k \in 0..len : k \in G
    <2> HIDE DEF G
    <2> QED BY <1>4, <1>6, <1>7, UpTo
  <1>9. len \in 0..len /\ N \in 0..N BY <1>4
  <1>10. Good(len)
    <2> HIDE DEF Good
    <2> QED BY <1>8, <1>9
  <1>11. X[N] = U[len] \o SubSeq(src, End(edits, len) + 1, N) BY <1>3, <1>5, <1>9, <1>10
  <1> QED BY <1>1, <1>3, <1>11

-----------------------------------------------------------------------------
(* What is applied *)

\* The edits returned for a file lie in it, since they are edits of the input.
LEMMA InFile ==
  ASSUME entries \in Inputs, IndInv, AtomicInv, NEW x \in File
  PROVE  IsPatch(Source[x], finalChanges[x])
  <1>1. Source[x] \in Bytes BY InputAssumption DEF Bytes
  <1>2. finalChanges[x] \in Seq(TextEdit) /\ Ordered(finalChanges[x]) BY DEF IndInv, TypeOK, EditsOrdered
  <1>3. ASSUME NEW j \in 1..Len(finalChanges[x]) PROVE finalChanges[x][j].end <= Len(Source[x])
    <2>1. FixesAtomic BY AtomicFixes
    <2>2. PICK k \in 1..Len(entries) :
             chosen[k] > 0 /\
             \E m \in 1..Len(entries[k][chosen[k]]) :
                 entries[k][chosen[k]][m].file = x /\ Equals(finalChanges[x][j], entries[k][chosen[k]][m])
      BY <2>1 DEF FixesAtomic
    <2>3. PICK m \in 1..Len(entries[k][chosen[k]]) :
             entries[k][chosen[k]][m].file = x /\ Equals(finalChanges[x][j], entries[k][chosen[k]][m])
      BY <2>2
    <2>4. chosen[k] \in 1..Len(entries[k])
      <3>1. chosen[k] \in Nat BY DEF IndInv, TypeOK
      <3>2. chosen[k] <= Len(entries[k]) BY DEF AtomicInv, ChosenInv
      <3>3. Len(entries[k]) \in Nat
        <4>1. entries[k] \in Seq(Seq(nogoEdit)) BY ElementOfSeq DEF IndInv, TypeOK
        <4> QED BY <4>1, LenProperties
      <3> QED BY <2>2, <3>1, <3>2, <3>3
    <2>5. x # NoFile BY InputAssumption
    <2>6. entries[k][chosen[k]][m].end <= Len(Source[x])
      BY <2>3, <2>4, <2>5, PositionAssumption
    <2> QED BY <2>3, <2>6 DEF Equals
  <1> QED BY <1>1, <1>2, <1>3 DEF IsPatch

\* The diagnostics are those of the input, in every state.
LEMMA SameEntries ==
  ASSUME [Next]_vars
  PROVE  entries' = entries
  <1>1. CASE Accept BY <1>1 DEF Accept
  <1>2. CASE ~Accept BY <1>2, OnlyAccept
  <1> QED BY <1>1, <1>2

\* Whatever fixes are suggested, applyEdits changes exactly the ranges that the edits returned by getFixes
\* name, and inserts every text once per edit.
THEOREM PatchExactHolds == Spec => []PatchExact
  <1>1. Init => entries \in Inputs BY DEF Init
  <1>2. entries \in Inputs /\ [Next]_vars => (entries \in Inputs)' BY SameEntries
  <1>3. entries \in Inputs /\ IndInv /\ AtomicInv => PatchExact BY InFile, ApplyExact DEF PatchExact
  <1> QED BY <1>1, <1>2, <1>3, AtomicInductive, PTL DEF Spec

-----------------------------------------------------------------------------
(* Findings in the build *)

Codes == {None, "nogoSuccess", "nogoViolation", "nogoError", "killed"}
Running == {"load", "facts", "diagnostics"}

BuildTypeOK ==
    /\ setup \in Setups /\ debugMode \in BOOLEAN
    /\ compile \in [Package -> {"waiting", "ok", "failed"}]
    /\ phase \in [Package -> {"waiting", "exited", "ok", "failed"} \cup Running]
    /\ findings \in [Package -> BOOLEAN]
    /\ exitCode \in [Package -> Codes]
    /\ DOMAIN pkgFacts = Package /\ DOMAIN factsFile = Package
    /\ log \subseteq Package /\ fix \subseteq Package /\ faults \subseteq Package
    /\ validation \in [Package -> {"waiting", "ok", "findings", "error"}]

\* Before the analyzers have run there is nothing found, and before the action has succeeded no log.
FoundInv(p) ==
    /\ phase[p] \in {"waiting", "load"} => ~findings[p]
    /\ p \in log => phase[p] = "ok"
    /\ p \in fix => findings[p] /\ phase[p] \in {"exited", "ok"}

\* What the exit code says of the findings; in debug mode they are an error.
ExitInv(p) ==
    phase[p] = "exited" =>
        /\ exitCode[p] = "nogoViolation" => findings[p]
        /\ exitCode[p] = "nogoSuccess" => ~findings[p]

\* What is left by an action that has succeeded, and what becomes of it.
LogInv(p) ==
    /\ phase[p] = "ok" => (p \in log <=> findings[p])
    /\ validation[p] # "waiting" => phase[p] = "ok"
    /\ (validation[p] = "ok" => ~findings[p]) /\ (validation[p] = "findings" => findings[p])

BuildInv == BuildTypeOK /\ \A p \in Package : FoundInv(p) /\ ExitInv(p) /\ LogInv(p)

-----------------------------------------------------------------------------

\* The build starts with no action run and nothing found.
LEMMA BuildInitially ==
  ASSUME BuildInit
  PROVE  BuildInv
  <1>1. BuildTypeOK BY DEF BuildInit, BuildTypeOK, Codes
  <1>2. \A p \in Package : FoundInv(p) /\ ExitInv(p) /\ LogInv(p)
    BY DEF BuildInit, FoundInv, ExitInv, LogInv
  <1> QED BY <1>1, <1>2 DEF BuildInv

\* Every action keeps the types.
LEMMA BuildTypes ==
  ASSUME BuildTypeOK, NEW p \in Package, Step(p)
  PROVE  BuildTypeOK'
  <1>1. CASE GoCompilePkg(p) BY <1>1 DEF BuildTypeOK, GoCompilePkg
  <1>2. CASE BuilderFails(p) BY <1>2 DEF BuildTypeOK, BuilderFails
  <1>3. CASE NoSources(p) BY <1>3 DEF BuildTypeOK, NoSources
  <1>4. CASE StartNogo(p) BY <1>4 DEF BuildTypeOK, StartNogo, Running
  <1>5. CASE NoRoots(p) BY <1>5 DEF BuildTypeOK, NoRoots, Running
  <1>6. CASE CheckPackage(p)
    <2>1. CASE Error(p) /\ UNCHANGED <<pkgFacts, findings>>
      BY <1>6, <2>1 DEF BuildTypeOK, CheckPackage, Error, Running, Codes
    <2>2. CASE ~(Error(p) /\ UNCHANGED <<pkgFacts, findings>>)
      <3>1. PICK found \in BOOLEAN : findings' = [findings EXCEPT ![p] = found]
        BY <1>6, <2>2 DEF CheckPackage
      <3> QED BY <1>6, <2>2, <3>1 DEF BuildTypeOK, CheckPackage, Running
    <2> QED BY <2>1, <2>2
  <1>7. CASE WriteFacts(p) BY <1>7 DEF BuildTypeOK, WriteFacts, Error, Running, Codes
  <1>8. CASE Diagnostics(p) BY <1>8 DEF BuildTypeOK, Diagnostics, ExitCode, Running, Codes
  <1>9. CASE Killed(p) BY <1>9 DEF BuildTypeOK, Killed, Running, Codes
  <1>10. CASE LogFindings(p) BY <1>10 DEF BuildTypeOK, LogFindings, Fail
  <1>11. CASE ReturnResult(p) BY <1>11 DEF BuildTypeOK, ReturnResult, Fail
  <1>12. CASE NogoValidation(p) BY <1>12 DEF BuildTypeOK, NogoValidation
  <1> QED BY <1>1, <1>2, <1>3, <1>4, <1>5, <1>6, <1>7, <1>8, <1>9, <1>10, <1>11, <1>12 DEF Step

\* An action of one package writes nothing of another.
LEMMA Others ==
  ASSUME BuildInv, NEW p \in Package, Step(p), NEW q \in Package, q # p
  PROVE  FoundInv(q)' /\ ExitInv(q)' /\ LogInv(q)'
  <1>1. /\ phase'[q] = phase[q] /\ findings'[q] = findings[q] /\ exitCode'[q] = exitCode[q]
        /\ validation'[q] = validation[q] /\ (q \in log' <=> q \in log) /\ (q \in fix' => q \in fix)
    <2>1. CASE GoCompilePkg(p) BY <2>1 DEF GoCompilePkg
    <2>2. CASE BuilderFails(p) \/ NoSources(p) \/ StartNogo(p) \/ NoRoots(p)
      BY <2>2 DEF BuildInv, BuildTypeOK, BuilderFails, NoSources, StartNogo, NoRoots
    <2>3. CASE CheckPackage(p) BY <2>3 DEF BuildInv, BuildTypeOK, CheckPackage, Error
    <2>4. CASE WriteFacts(p) BY <2>4 DEF BuildInv, BuildTypeOK, WriteFacts, Error
    <2>5. CASE Diagnostics(p) BY <2>5 DEF BuildInv, BuildTypeOK, Diagnostics
    <2>6. CASE Killed(p) BY <2>6 DEF BuildInv, BuildTypeOK, Killed
    <2>7. CASE LogFindings(p) BY <2>7 DEF BuildInv, BuildTypeOK, LogFindings, Fail
    <2>8. CASE ReturnResult(p) BY <2>8 DEF BuildInv, BuildTypeOK, ReturnResult, Fail
    <2>9. CASE NogoValidation(p) BY <2>9 DEF BuildInv, BuildTypeOK, NogoValidation
    <2> QED BY <2>1, <2>2, <2>3, <2>4, <2>5, <2>6, <2>7, <2>8, <2>9 DEF Step
  <1> QED BY <1>1 DEF BuildInv, FoundInv, ExitInv, LogInv

\* An action keeps what the invariant says of its own package: the code tells findings from
\* errors, the log is written for findings only, and ValidateNogo looks at the log.
LEMMA Own ==
  ASSUME BuildInv, NEW p \in Package, Step(p)
  PROVE  FoundInv(p)' /\ ExitInv(p)' /\ LogInv(p)'
  <1> USE DEF FoundInv, ExitInv, LogInv
  <1>1. CASE GoCompilePkg(p) BY <1>1 DEF BuildInv, GoCompilePkg
  <1>2. CASE BuilderFails(p) BY <1>2 DEF BuildInv, BuildTypeOK, BuilderFails
  <1>3. CASE NoSources(p) BY <1>3 DEF BuildInv, BuildTypeOK, NoSources
  <1>4. CASE StartNogo(p) BY <1>4 DEF BuildInv, BuildTypeOK, StartNogo
  <1>5. CASE NoRoots(p) BY <1>5 DEF BuildInv, BuildTypeOK, NoRoots
  <1>6. CASE CheckPackage(p) BY <1>6 DEF BuildInv, BuildTypeOK, CheckPackage, Error
  <1>7. CASE WriteFacts(p) BY <1>7 DEF BuildInv, BuildTypeOK, WriteFacts, Error
  <1>8. CASE Diagnostics(p) BY <1>8 DEF BuildInv, BuildTypeOK, Diagnostics, ExitCode
  <1>9. CASE Killed(p) BY <1>9 DEF BuildInv, BuildTypeOK, Killed
  <1>10. CASE LogFindings(p) BY <1>10 DEF BuildInv, BuildTypeOK, LogFindings, Fail
  <1>11. CASE ReturnResult(p) BY <1>11 DEF BuildInv, BuildTypeOK, ReturnResult, Fail
  <1>12. CASE NogoValidation(p) BY <1>12 DEF BuildInv, BuildTypeOK, NogoValidation
  <1> QED BY <1>1, <1>2, <1>3, <1>4, <1>5, <1>6, <1>7, <1>8, <1>9, <1>10, <1>11, <1>12 DEF Step

\* The findings of every package are followed correctly in every state of every build: the
\* inductive invariant of the actions GoCompilePkg, RunNogo and ValidateNogo.
THEOREM BuildInductive == BuildSpec => []BuildInv
  <1>1. BuildInv /\ [BuildNext]_buildVars => BuildInv'
    <2> SUFFICES ASSUME BuildInv, [BuildNext]_buildVars PROVE BuildInv'
      OBVIOUS
    <2>1. ASSUME NEW p \in Package, Step(p) PROVE BuildInv'
      <3>1. BuildTypeOK' BY <2>1, BuildTypes DEF BuildInv
      <3>2. \A q \in Package : FoundInv(q)' /\ ExitInv(q)' /\ LogInv(q)' BY <2>1, Own, Others
      <3> QED BY <3>1, <3>2 DEF BuildInv
    <2>2. CASE UNCHANGED buildVars
      BY <2>2 DEF buildVars, BuildInv, BuildTypeOK, FoundInv, ExitInv, LogInv
    <2> QED BY <2>1, <2>2 DEF BuildNext, BuildEnds
  <1> QED BY BuildInitially, <1>1, PTL DEF BuildSpec

\* ValidateNogo succeeds only without findings and prints findings only where there are some, and a patch is
\* only kept beside a log,
\* whatever fails in the builder, the nogo binary, the validation itself or other packages.
THEOREM ValidationIsExact == BuildSpec => []ValidationExact
  <1>1. BuildInv => ValidationExact
    BY DEF BuildInv, BuildTypeOK, FoundInv, LogInv, ValidationExact
  <1> QED BY BuildInductive, <1>1, PTL

-----------------------------------------------------------------------------
(* Facts *)

\* What the analysis of a package needs the facts of, itself aside: they have succeeded before it
\* starts.
Chain(p) == Reachable(p, Analyzed)

ChainInv(p) ==
    phase[p] # "waiting" => p \notin Chain(p) /\ \A q \in Chain(p) : phase[q] = "ok"

\* Packages are compiled under their import path.
NoImportmap == setup.importmap = setup.importpath

Fact(q) == <<setup.importpath[q], q>>
Knows(p) == \A q \in FactChain(p) \cup {p} : Fact(q) \in pkgFacts[p]

\* The action may still succeed, and the facts file is written.
Written(p) ==
    \/ phase[p] \in {"diagnostics", "ok"}
    \/ phase[p] = "exited" /\ exitCode[p] \in {"nogoSuccess", "nogoViolation"}

KnowsInv(p) ==
    NoImportmap /\ setup.producers /\ p \notin setup.empty =>
        /\ phase[p] = "facts" \/ Written(p) => Knows(p)
        /\ Written(p) => factsFile[p] = pkgFacts[p]

Facts == SUBSET (Path \X Package)
FactTypes == pkgFacts \in [Package -> Facts] /\ factsFile \in [Package -> Facts \cup {NoFactsFile}]

FactsInv == FactTypes /\ \A p \in Package : ChainInv(p) /\ KnowsInv(p)

\* The parts of a build.
LEMMA SetupParts ==
  ASSUME BuildTypeOK
  PROVE  /\ deps \in [Package -> SUBSET Package]
         /\ setup.importpath \in [Package -> Path] /\ setup.importmap \in [Package -> Path]
         /\ setup.producers \in BOOLEAN
         /\ Analyzed \in [Package -> SUBSET Package]
         /\ \A p \in Package : Analyzed[p] = IF p \in setup.empty THEN {} ELSE deps[p] \cap HasFacts
  <1>1. setup \in Setup BY SetupAssumption DEF BuildTypeOK
  <1>2. /\ deps \in [Package -> SUBSET Package]
        /\ setup.importpath \in [Package -> Path] /\ setup.importmap \in [Package -> Path]
        /\ setup.producers \in BOOLEAN
    BY <1>1 DEF Setup, deps
  <1>3. /\ Analyzed \in [Package -> SUBSET Package]
        /\ \A p \in Package : Analyzed[p] = IF p \in setup.empty THEN {} ELSE deps[p] \cap HasFacts
    <2> HIDE DEF deps
    <2> QED BY <1>2 DEF Analyzed, HasFacts
  <1> QED BY <1>2, <1>3

\* What can be reached is closed, and in every closed set.
LEMMA Closure ==
  ASSUME NEW succ \in [Package -> SUBSET Package], NEW p \in Package
  PROVE  /\ Reachable(p, succ) \subseteq Package
         /\ succ[p] \subseteq Reachable(p, succ)
         /\ \A r \in Reachable(p, succ) : succ[r] \subseteq Reachable(p, succ)
         /\ \A S \in SUBSET Package :
               succ[p] \subseteq S /\ (\A r \in S : succ[r] \subseteq S) => Reachable(p, succ) \subseteq S
  BY DEF Reachable

\* It is what is next and what can be reached from there.
LEMMA OneStep ==
  ASSUME NEW succ \in [Package -> SUBSET Package], NEW p \in Package
  PROVE  Reachable(p, succ) = succ[p] \cup UNION {Reachable(dep, succ) : dep \in succ[p]}
  <1> DEFINE U == succ[p] \cup UNION {Reachable(dep, succ) : dep \in succ[p]}
  <1>1. \A dep \in succ[p] : /\ dep \in Package /\ Reachable(dep, succ) \subseteq Package
                           /\ succ[dep] \subseteq Reachable(dep, succ)
                           /\ \A r \in Reachable(dep, succ) : succ[r] \subseteq Reachable(dep, succ)
    BY Closure
  <1>2. U \subseteq Package BY <1>1
  <1>3. \A r \in U : succ[r] \subseteq U BY <1>1
  <1>4. Reachable(p, succ) \subseteq U
    <2> HIDE DEF U
    <2>1. succ[p] \subseteq U BY DEF U
    <2> QED BY <2>1, <1>2, <1>3, Closure
  <1>5. ASSUME NEW dep \in succ[p] PROVE Reachable(dep, succ) \subseteq Reachable(p, succ)
    <2>1. /\ Reachable(p, succ) \subseteq Package /\ succ[p] \subseteq Reachable(p, succ)
          /\ \A r \in Reachable(p, succ) : succ[r] \subseteq Reachable(p, succ)
      BY Closure
    <2>2. dep \in Package /\ succ[dep] \subseteq Reachable(p, succ) BY <2>1
    <2> QED BY <2>1, <2>2, Closure
  <1>6. succ[p] \subseteq Reachable(p, succ) BY Closure
  <1> QED BY <1>4, <1>5, <1>6

\* The chain of a package goes through the packages it depends on.
LEMMA ChainSteps ==
  ASSUME BuildTypeOK, NEW p \in Package
  PROVE  /\ Chain(p) = Analyzed[p] \cup UNION {Chain(dep) : dep \in Analyzed[p]}
         /\ Chain(p) \subseteq Package
         /\ Chain(p) \subseteq Reachable(p, deps)
  <1>1. Analyzed \in [Package -> SUBSET Package] /\ deps \in [Package -> SUBSET Package] BY SetupParts
  <1>2. \A q \in Package : Analyzed[q] \subseteq deps[q] BY SetupParts
  <1> HIDE DEF deps, Analyzed
  <1>3. Chain(p) \subseteq Package BY <1>1, Closure DEF Chain
  <1>4. Chain(p) = Analyzed[p] \cup UNION {Chain(dep) : dep \in Analyzed[p]} BY <1>1, OneStep DEF Chain
  <1>5. Chain(p) \subseteq Reachable(p, deps)
    <2> DEFINE S == Reachable(p, deps)
    <2>1. /\ S \subseteq Package /\ deps[p] \subseteq S
          /\ \A r \in S : deps[r] \subseteq S
      BY <1>1, Closure
    <2>2. Analyzed[p] \subseteq S /\ \A r \in S : Analyzed[r] \subseteq S BY <1>2, <2>1
    <2> HIDE DEF S
    <2>3. Chain(p) \subseteq S BY <1>1, <2>1, <2>2, Closure DEF Chain
    <2> QED BY <2>3 DEF S
  <1> QED BY <1>3, <1>4, <1>5

\* Packages and what they depend on do not change.
LEMMA SameSetup ==
  ASSUME setup' = setup
  PROVE  /\ \A p : Chain(p)' = Chain(p) /\ FactChain(p)' = FactChain(p) /\ Fact(p)' = Fact(p)
         /\ NoImportmap' = NoImportmap
  <1>1. \A p : Chain(p)' = Chain(p) BY DEF Chain, Reachable, Analyzed, deps, HasFacts
  <1>2. \A p : FactChain(p)' = FactChain(p) BY DEF FactChain, Reachable, Analyzed, deps, HasFacts
  <1>3. \A p : Fact(p)' = Fact(p) BY DEF Fact
  <1> QED BY <1>1, <1>2, <1>3 DEF NoImportmap

\* A facts file that an import has written is read, whatever other files there are.
LEMMA FactsRead ==
  ASSUME BuildTypeOK, FactTypes, NoImportmap, NEW p \in Package, NEW dep \in deps[p] \cap HasFacts,
         factsFile[dep] = pkgFacts[dep], NEW q \in Below(p), Fact(q) \in pkgFacts[dep]
  PROVE  Fact(q) \in Decode(p)
  <1>1. dep \in Package /\ deps \in [Package -> SUBSET Package] BY SetupParts
  <1>2. pkgFacts[dep] # NoFactsFile BY <1>1, NoFactsFileAssumption DEF FactTypes, Facts
  <1> DEFINE path == ImportedPath(dep)
             files == {factsFile[e] : e \in {e \in deps[p] \cap HasFacts : setup.importpath[e] = path}}
  <1>3. path = setup.importpath[dep] BY DEF NoImportmap, ImportedPath
  <1>4. path \in DOMAIN factMap(p) /\ factMap(p)[path] = files BY <1>3 DEF factMap
  <1>5. factsFile[dep] \in files \ {NoFactsFile} BY <1>2, <1>3
  <1>6. readFacts(p, path) = UNION (files \ {NoFactsFile}) BY <1>4 DEF readFacts
  <1> HIDE DEF files
  <1>7. Fact(q) \in readFacts(p, path) BY <1>5, <1>6
  <1>8. Fact(q)[1] = ImportedPath(q) BY DEF Fact, ImportedPath, NoImportmap
  <1> QED BY <1>7, <1>8 DEF Decode, path

\* When the analysis of a package starts it gets all the facts of its chain: those of a direct
\* import from its file, the others because the import had got them.
LEMMA AllDecoded ==
  ASSUME BuildTypeOK, FactsInv, NoImportmap, setup.producers, NEW p \in Package, p \notin setup.empty, phase[p] = "load",
         NEW q \in FactChain(p)
  PROVE  Fact(q) \in Decode(p)
  <1>1. q \in Chain(p) /\ q \notin setup.empty BY DEF FactChain, Chain
  <1>2. /\ Chain(p) = Analyzed[p] \cup UNION {Chain(dep) : dep \in Analyzed[p]}
        /\ Chain(p) \subseteq Reachable(p, deps) /\ Chain(p) \subseteq Package
    BY ChainSteps
  <1>3. p \notin Chain(p) /\ \A r \in Chain(p) : phase[r] = "ok" BY DEF FactsInv, ChainInv
  <1>4. q \in Below(p) BY <1>1, <1>2, <1>3 DEF Below
  <1>5. PICK dep \in Analyzed[p] : q = dep \/ q \in Chain(dep) BY <1>1, <1>2
  <1>6. dep \in deps[p] \cap HasFacts /\ dep \in Package /\ phase[dep] = "ok" BY <1>2, <1>3, <1>5, SetupParts
  <1>7. dep \notin setup.empty
    <2> SUFFICES ASSUME dep \in setup.empty PROVE FALSE
      OBVIOUS
    <2>1. Analyzed[dep] = {} BY <1>6, SetupParts
    <2>2. Chain(dep) = {} BY <1>6, <2>1, ChainSteps
    <2> QED BY <1>1, <1>5, <2>2
  <1>8. Knows(dep) /\ factsFile[dep] = pkgFacts[dep] BY <1>6, <1>7 DEF FactsInv, KnowsInv, Written
  <1>9. q \in FactChain(dep) \cup {dep} BY <1>1, <1>5 DEF FactChain, Chain
  <1>10. Fact(q) \in pkgFacts[dep] BY <1>8, <1>9 DEF Knows
  <1> QED BY <1>4, <1>6, <1>8, <1>10, FactsRead DEF FactsInv

\* Facts are read from files and name packages.
LEMMA DecodeType ==
  ASSUME BuildTypeOK, FactTypes, NEW p \in Package
  PROVE  Decode(p) \in Facts
  <1>1. \A dep \in deps[p] \cap HasFacts : factsFile[dep] \in Facts \cup {NoFactsFile}
    BY SetupParts DEF FactTypes
  <1>2. \A path : readFacts(p, path) \subseteq Path \X Package
    <2> TAKE path
    <2>1. CASE path \in DOMAIN factMap(p)
      <3>1. factMap(p)[path] = {factsFile[dep] : dep \in {e \in deps[p] \cap HasFacts : setup.importpath[e] = path}}
        BY <2>1 DEF factMap
      <3>2. \A fact \in factMap(p)[path] : fact \in Facts \cup {NoFactsFile} BY <1>1, <3>1
      <3>3. readFacts(p, path) = UNION (factMap(p)[path] \ {NoFactsFile}) BY <2>1 DEF readFacts
      <3> QED BY <3>2, <3>3 DEF Facts
    <2>2. CASE path \notin DOMAIN factMap(p) BY <2>2 DEF readFacts
    <2> QED BY <2>1, <2>2
  <1> QED BY <1>2 DEF Decode, Facts

\* What an action of p leaves alone.
Untouched(q) ==
    phase'[q] = phase[q] /\ exitCode'[q] = exitCode[q] /\ pkgFacts'[q] = pkgFacts[q] /\ factsFile'[q] = factsFile[q]

\* An action of one package writes nothing of another, and its success is final.
LEMMA FactsOfOthers ==
  ASSUME BuildTypeOK, FactTypes, NEW p \in Package, Step(p)
  PROVE  /\ setup' = setup /\ FactTypes'
         /\ \A q \in Package \ {p} : Untouched(q)
         /\ phase[p] = "ok" => phase'[p] = "ok"
  <1> DEFINE Goal == /\ setup' = setup /\ FactTypes'
                     /\ \A q \in Package \ {p} : Untouched(q)
                     /\ phase[p] = "ok" => phase'[p] = "ok"
  <1> USE DEF BuildTypeOK, FactTypes, Untouched
  <1>1. CASE GoCompilePkg(p) BY <1>1 DEF GoCompilePkg
  <1>2. CASE BuilderFails(p) \/ StartNogo(p) \/ NoRoots(p) BY <1>2 DEF BuilderFails, StartNogo, NoRoots
  <1>3. CASE NoSources(p) BY <1>3 DEF NoSources, Facts
  <1>4. CASE CheckPackage(p)
    <2> DEFINE new == Decode(p) \cup (IF setup.producers THEN {<<AnalyzedPath(p), p>>} ELSE {})
    <2>1. new \in Facts
      <3>1. Decode(p) \in Facts BY DecodeType
      <3>2. AnalyzedPath(p) \in Path BY SetupParts DEF AnalyzedPath
      <3> QED BY <3>1, <3>2 DEF Facts
    <2>2. \/ pkgFacts' = [pkgFacts EXCEPT ![p] = new]
          \/ pkgFacts' = pkgFacts
      BY <1>4 DEF CheckPackage
    <2>3. \/ phase' = [phase EXCEPT ![p] = "facts"] /\ exitCode' = exitCode
          \/ phase' = [phase EXCEPT ![p] = "exited"] /\ exitCode' = [exitCode EXCEPT ![p] = "nogoError"]
      BY <1>4 DEF CheckPackage, Error
    <2>4. setup' = setup /\ factsFile' = factsFile /\ phase[p] = "load" BY <1>4 DEF CheckPackage
    <2> HIDE DEF new, Facts
    <2> QED BY <2>1, <2>2, <2>3, <2>4
  <1>5. CASE WriteFacts(p)
    <2> HIDE DEF Facts
    <2> QED BY <1>5 DEF WriteFacts, Error
  <1>6. CASE Diagnostics(p) BY <1>6 DEF Diagnostics
  <1>7. CASE Killed(p) BY <1>7 DEF Killed
  <1>8. CASE LogFindings(p) BY <1>8 DEF LogFindings, Fail
  <1>9. CASE ReturnResult(p) BY <1>9 DEF ReturnResult, Fail
  <1>10. CASE NogoValidation(p) BY <1>10 DEF NogoValidation
  <1> QED BY <1>1, <1>2, <1>3, <1>4, <1>5, <1>6, <1>7, <1>8, <1>9, <1>10 DEF Step

\* An action starts when all of its chain has succeeded, so that nothing is in its own chain.
LEMMA ChainKept ==
  ASSUME BuildTypeOK, FactsInv, NEW p \in Package, Step(p), NEW q \in Package
  PROVE  ChainInv(q)'
  <1>1. /\ setup' = setup /\ \A r \in Package \ {p} : phase'[r] = phase[r]
        /\ phase[p] = "ok" => phase'[p] = "ok"
    BY FactsOfOthers DEF FactsInv, Untouched
  <1>2. Chain(q)' = Chain(q) BY <1>1, SameSetup
  <1>3. Chain(q) = Analyzed[q] \cup UNION {Chain(dep) : dep \in Analyzed[q]} /\ Chain(q) \subseteq Package
    BY ChainSteps
  <1>4. \A r \in Package : phase[r] = "ok" => phase'[r] = "ok" BY <1>1
  <1>5. CASE phase[q] # "waiting" BY <1>2, <1>3, <1>4, <1>5 DEF FactsInv, ChainInv
  <1>6. CASE phase[q] = "waiting" /\ phase'[q] = "waiting" BY <1>6 DEF ChainInv
  <1>7. CASE phase[q] = "waiting" /\ phase'[q] # "waiting"
    <2>1. q = p BY <1>1, <1>7
    <2>2. InputsReady(p)
      <3>1. CASE GoCompilePkg(p) \/ NogoValidation(p) BY <1>7, <2>1, <3>1 DEF GoCompilePkg, NogoValidation
      <3>2. CASE BuilderFails(p) \/ NoSources(p) \/ StartNogo(p) BY <3>2 DEF BuilderFails, NoSources, StartNogo
      <3>3. CASE NoRoots(p) \/ CheckPackage(p) \/ WriteFacts(p) \/ Diagnostics(p) \/ Killed(p)
        BY <1>7, <2>1, <3>3 DEF NoRoots, CheckPackage, WriteFacts, Diagnostics, Killed
      <3>4. CASE LogFindings(p) \/ ReturnResult(p) BY <1>7, <2>1, <3>4 DEF LogFindings, ReturnResult
      <3> QED BY <3>1, <3>2, <3>3, <3>4 DEF Step
    <2>3. \A dep \in Analyzed[q] : phase[dep] = "ok" /\ dep \in Package BY <2>1, <2>2, SetupParts DEF InputsReady
    <2>4. \A dep \in Analyzed[q] : \A r \in Chain(dep) : phase[r] = "ok" BY <2>3 DEF FactsInv, ChainInv
    <2>5. \A r \in Chain(q) : phase[r] = "ok" BY <1>3, <2>3, <2>4
    <2>6. q \notin Chain(q) BY <1>7, <2>5
    <2> QED BY <1>2, <1>3, <1>4, <2>5, <2>6 DEF ChainInv
  <1> QED BY <1>5, <1>6, <1>7

\* The facts go from a package's analysis into its file.
LEMMA KnowsKept ==
  ASSUME BuildTypeOK, FactsInv, NEW p \in Package, Step(p), NEW q \in Package
  PROVE  KnowsInv(q)'
  <1>1. setup' = setup /\ \A r \in Package \ {p} : Untouched(r) BY FactsOfOthers DEF FactsInv
  <1>2. /\ \A r : FactChain(r)' = FactChain(r) /\ Fact(r)' = Fact(r)
        /\ NoImportmap' = NoImportmap
    BY <1>1, SameSetup
  <1>3. KnowsInv(q) BY DEF FactsInv
  <1>4. ASSUME Untouched(q) PROVE KnowsInv(q)'
    <2>1. Knows(q)' <=> Knows(q) BY <1>2, <1>4 DEF Knows, Untouched
    <2>2. Written(q)' <=> Written(q) BY <1>4 DEF Written, Untouched
    <2> QED BY <1>1, <1>2, <1>3, <1>4, <2>1, <2>2 DEF KnowsInv, Untouched
  <1>5. ASSUME q = p, NoImportmap, setup.producers, p \notin setup.empty
        PROVE  /\ phase'[p] = "facts" \/ Written(p)' => Knows(p)'
               /\ Written(p)' => factsFile'[p] = pkgFacts'[p]
    <2>1. /\ phase[p] = "facts" \/ Written(p) => Knows(p)
          /\ Written(p) => factsFile[p] = pkgFacts[p]
      BY <1>3, <1>5 DEF KnowsInv
    <2>2. ASSUME pkgFacts'[p] = pkgFacts[p] PROVE Knows(p)' <=> Knows(p) BY <1>2, <2>2 DEF Knows
    <2>3. ASSUME ~(phase'[p] = "facts" \/ Written(p)')
          PROVE  /\ phase'[p] = "facts" \/ Written(p)' => Knows(p)'
                 /\ Written(p)' => factsFile'[p] = pkgFacts'[p]
      BY <2>3
    <2>4. ASSUME pkgFacts'[p] = pkgFacts[p], factsFile'[p] = factsFile[p], Written(p), phase'[p] # "facts"
          PROVE  /\ phase'[p] = "facts" \/ Written(p)' => Knows(p)'
                 /\ Written(p)' => factsFile'[p] = pkgFacts'[p]
      BY <2>1, <2>2, <2>4
    <2> USE DEF BuildTypeOK, FactsInv, FactTypes
    <2>5. CASE GoCompilePkg(p) \/ NogoValidation(p)
      <3>1. Untouched(p) BY <2>5 DEF GoCompilePkg, NogoValidation, Untouched
      <3>2. Written(p)' <=> Written(p) BY <3>1 DEF Written, Untouched
      <3> QED BY <2>1, <2>2, <3>1, <3>2 DEF Untouched
    <2>6. CASE BuilderFails(p) \/ StartNogo(p)
      <3>1. phase'[p] \in {"failed", "load"} BY <2>6 DEF BuilderFails, StartNogo
      <3> QED BY <2>3, <3>1 DEF Written
    <2>7. CASE NoSources(p) BY <1>5, <2>7 DEF NoSources
    <2>8. CASE NoRoots(p) BY <1>5, <2>8 DEF NoRoots
    <2>9. CASE CheckPackage(p)
      <3> DEFINE new == Decode(p) \cup (IF setup.producers THEN {<<AnalyzedPath(p), p>>} ELSE {})
      <3>1. phase[p] = "load" BY <2>9 DEF CheckPackage
      <3>2. \/ pkgFacts' = [pkgFacts EXCEPT ![p] = new] /\ phase' = [phase EXCEPT ![p] = "facts"]
            \/ phase' = [phase EXCEPT ![p] = "exited"] /\ exitCode' = [exitCode EXCEPT ![p] = "nogoError"]
        BY <2>9 DEF CheckPackage, Error
      <3>3. Fact(p) \in new BY <1>5 DEF Fact, AnalyzedPath
      <3>4. \A r \in FactChain(p) : Fact(r) \in new BY <1>5, <3>1, AllDecoded
      <3> HIDE DEF new
      <3>5. CASE pkgFacts' = [pkgFacts EXCEPT ![p] = new] /\ phase' = [phase EXCEPT ![p] = "facts"]
        <4>1. pkgFacts'[p] = new /\ phase'[p] = "facts" BY <3>5
        <4>2. Knows(p)' BY <1>2, <3>3, <3>4, <4>1 DEF Knows
        <4>3. ~Written(p)' BY <4>1 DEF Written
        <4> QED BY <4>2, <4>3
      <3>6. CASE phase' = [phase EXCEPT ![p] = "exited"] /\ exitCode' = [exitCode EXCEPT ![p] = "nogoError"]
        <4>1. phase'[p] = "exited" /\ exitCode'[p] = "nogoError" BY <3>6
        <4> QED BY <2>3, <4>1 DEF Written
      <3> QED BY <3>2, <3>5, <3>6
    <2>10. CASE WriteFacts(p)
      <3>1. /\ phase[p] = "facts" /\ pkgFacts' = pkgFacts
            /\ \/ factsFile'[p] = pkgFacts[p] /\ phase'[p] = "diagnostics"
               \/ phase'[p] = "exited" /\ exitCode'[p] = "nogoError"
        BY <2>10 DEF WriteFacts, Error
      <3>2. CASE factsFile'[p] = pkgFacts[p] /\ phase'[p] = "diagnostics" BY <2>1, <2>2, <3>1, <3>2
      <3>3. CASE phase'[p] = "exited" /\ exitCode'[p] = "nogoError" BY <2>3, <3>3 DEF Written
      <3> QED BY <3>1, <3>2, <3>3
    <2>11. CASE Diagnostics(p)
      <3>1. phase[p] = "diagnostics" /\ phase'[p] = "exited" /\ pkgFacts' = pkgFacts /\ factsFile' = factsFile
        BY <2>11 DEF Diagnostics
      <3> QED BY <2>4, <3>1 DEF Written
    <2>12. CASE Killed(p)
      <3>1. phase'[p] = "exited" /\ exitCode'[p] = "killed" BY <2>12 DEF Killed
      <3> QED BY <2>3, <3>1 DEF Written
    <2>13. CASE LogFindings(p)
      <3>1. /\ phase[p] = "exited" /\ exitCode[p] = "nogoViolation" /\ pkgFacts' = pkgFacts
            /\ \/ phase'[p] = "ok" /\ factsFile' = factsFile
               \/ phase'[p] = "failed"
        BY <2>13 DEF LogFindings, Fail
      <3>2. CASE phase'[p] = "ok" /\ factsFile' = factsFile BY <2>4, <3>1, <3>2 DEF Written
      <3>3. CASE phase'[p] = "failed" BY <2>3, <3>3 DEF Written
      <3> QED BY <3>1, <3>2, <3>3
    <2>14. CASE ReturnResult(p)
      <3>1. /\ phase[p] = "exited" /\ pkgFacts' = pkgFacts
            /\ \/ exitCode[p] = "nogoSuccess" /\ phase'[p] = "ok" /\ factsFile' = factsFile
               \/ phase'[p] = "failed"
        BY <2>14 DEF ReturnResult, Fail
      <3>2. CASE exitCode[p] = "nogoSuccess" /\ phase'[p] = "ok" /\ factsFile' = factsFile
        BY <2>4, <3>1, <3>2 DEF Written
      <3>3. CASE phase'[p] = "failed" BY <2>3, <3>3 DEF Written
      <3> QED BY <3>1, <3>2, <3>3
    <2> QED BY <2>5, <2>6, <2>7, <2>8, <2>9, <2>10, <2>11, <2>12, <2>13, <2>14 DEF Step
  <1>6. CASE q # p BY <1>1, <1>4, <1>6
  <1>7. CASE q = p
    <2>1. setup' = setup BY <1>1
    <2> QED BY <1>2, <1>5, <1>7, <2>1 DEF KnowsInv
  <1> QED BY <1>6, <1>7

\* In every state of every build the packages that have got through know the facts of their chains.
THEOREM FactsInductive == BuildSpec => []FactsInv
  <1>1. BuildInit => FactsInv
    <2> SUFFICES ASSUME BuildInit PROVE FactsInv
      OBVIOUS
    <2>1. FactTypes BY DEF BuildInit, FactTypes, Facts
    <2>2. \A p \in Package : phase[p] = "waiting" BY DEF BuildInit
    <2> QED BY <2>1, <2>2 DEF FactsInv, ChainInv, KnowsInv, Written
  <1>2. BuildInv /\ FactsInv /\ [BuildNext]_buildVars => FactsInv'
    <2> SUFFICES ASSUME BuildInv, FactsInv, [BuildNext]_buildVars PROVE FactsInv'
      OBVIOUS
    <2>1. ASSUME NEW p \in Package, Step(p) PROVE FactsInv'
      <3>1. BuildTypeOK BY DEF BuildInv
      <3>2. FactTypes' BY <2>1, <3>1, FactsOfOthers DEF FactsInv
      <3>3. \A q \in Package : ChainInv(q)' /\ KnowsInv(q)' BY <2>1, <3>1, ChainKept, KnowsKept
      <3> QED BY <3>2, <3>3 DEF FactsInv
    <2>2. CASE UNCHANGED buildVars
      <3>1. UNCHANGED <<setup, phase, exitCode, pkgFacts, factsFile>> BY <2>2 DEF buildVars
      <3>2. /\ \A r : Chain(r)' = Chain(r) /\ FactChain(r)' = FactChain(r) /\ Fact(r)' = Fact(r)
            /\ NoImportmap' = NoImportmap
        BY <3>1, SameSetup
      <3>3. \A p \in Package : (Knows(p)' <=> Knows(p)) /\ (Written(p)' <=> Written(p))
        BY <3>1, <3>2 DEF Knows, Written
      <3>4. FactTypes' BY <3>1 DEF FactsInv, FactTypes
      <3>5. \A p \in Package : ChainInv(p)' BY <3>1, <3>2 DEF FactsInv, ChainInv
      <3>6. \A p \in Package : KnowsInv(p)' BY <3>1, <3>2, <3>3 DEF FactsInv, KnowsInv
      <3> QED BY <3>4, <3>5, <3>6 DEF FactsInv
    <2> QED BY <2>1, <2>2 DEF BuildNext, BuildEnds
  <1> QED BY BuildInductive, <1>1, <1>2, PTL DEF BuildSpec

\* "The fact [a dependency] exports must still reach the dependent's check" (_run_nogo, readFacts):
\* along any chain of packages, whatever fails and in whatever order the actions run, as long as
\* packages are compiled under their import path.
THEOREM FactsReach == BuildSpec => [](NoImportmap => FactsReachDependents)
  <1>1. BuildInv /\ FactsInv /\ NoImportmap => FactsReachDependents
    <2> SUFFICES ASSUME BuildInv, FactsInv, NoImportmap, NEW p \in Package, Loaded(p), NEW q \in FactChain(p)
                 PROVE  \E fact \in pkgFacts[p] : fact[2] = q
      BY DEF FactsReachDependents
    <2>1. Knows(p) BY DEF FactsInv, KnowsInv, Loaded, Written
    <2>2. Fact(q) \in pkgFacts[p] BY <2>1 DEF Knows
    <2>3. Fact(q)[2] = q BY DEF Fact
    <2> QED BY <2>2, <2>3
  <1> QED BY BuildInductive, FactsInductive, <1>1, PTL
=============================================================================
