---------------------------- MODULE NogoAnalysis ----------------------------
(***************************************************************************)
(* What nogo's analysis of one package promises: analyzers are decided one *)
(* at a time, each after the ones it requires; a failure carries over to   *)
(* the analyzers that require the failed one; the caller learns the        *)
(* outcome when all the analyzers it asked for are decided, and nothing is *)
(* decided after that.                                                     *)
(***************************************************************************)
CONSTANTS Analyzer, Requires

VARIABLES
    status,   \* status[a]: "pending", "done", "skipped" or "failed"
    outcome,  \* what the caller got: "none" until it is told
    pending   \* the analyzers the caller asked for, while it waits for them

vars == <<status, outcome, pending>>

Init ==
    /\ status = [a \in Analyzer |-> "pending"]
    /\ outcome = "none"
    /\ pending = {}

Ask(R) ==
    /\ outcome = "none" /\ pending = {}
    /\ pending' = R
    /\ UNCHANGED <<status, outcome>>

\* The package cannot be loaded, an analyzer's flags are wrong, or there is nothing to do.
Refuse ==
    /\ outcome = "none" /\ pending = {}
    /\ outcome' \in {"no package", "error"}
    /\ UNCHANGED <<status, pending>>

Decide(a) ==
    /\ pending # {}
    /\ status[a] = "pending"
    /\ \A d \in Requires[a] : status[d] # "pending"
    /\ \E s \in IF \E d \in Requires[a] : status[d] = "failed"
                THEN {"failed"} ELSE {"done", "skipped", "failed"} :
          status' = [status EXCEPT ![a] = s]
    /\ UNCHANGED <<outcome, pending>>

\* Success needs every analyzer asked for to be done; an error may have another cause.
Tell ==
    /\ pending # {}
    /\ \A a \in pending : status[a] # "pending"
    /\ outcome' \in IF \A a \in pending : status[a] = "done" THEN {"ok", "error"} ELSE {"error"}
    /\ pending' = {}
    /\ UNCHANGED status

Next ==
    \/ \E R \in SUBSET Analyzer : R # {} /\ Ask(R)
    \/ Refuse
    \/ \E a \in Analyzer : Decide(a)
    \/ Tell

Spec == Init /\ [][Next]_vars
=============================================================================
