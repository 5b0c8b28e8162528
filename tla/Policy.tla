------------------------------- MODULE Policy -------------------------------
(***************************************************************************)
(* What a compilation promises: the rules a source program stands for      *)
(* reach the backend in source order, each with exactly its own matches;   *)
(* compilation fails only if one of them makes no sense.                   *)
(***************************************************************************)
EXTENDS Meaning

CONSTANT
    Asts,           \* the programs
    BackendRefuses  \* may the backend refuse a rule it is given

VARIABLES
    source,     \* the program
    grouping,   \* are groups kept out of line
    resolving,  \* are names resolved
    policy,     \* the calls the program stands for
    sent,       \* the calls the backend has received
    outcome     \* "running", "ok", "error", "dead"

polVars == <<source, grouping, resolving, policy, sent, outcome>>

-----------------------------------------------------------------------------
Pending == (Len(sent) + 1)..Len(policy)

Senseless == \E i \in Pending : policy[i].k = "rule" /\ ~Sensible(policy[i].c)

Init ==
    /\ source \in Asts
    /\ grouping \in BOOLEAN
    /\ resolving \in BOOLEAN
    /\ policy = Meaning(source, grouping, resolving)
    /\ sent = <<>>
    /\ outcome = "running"

(* The next call of the policy, never another.                             *)
Send ==
    /\ outcome = "running"
    /\ Pending # {}
    /\ LET next == policy[Len(sent) + 1] IN
        /\ next.k = "rule" => Sensible(next.c)
        /\ sent' = Append(sent, AsCall(next))
    /\ UNCHANGED <<source, grouping, resolving, policy, outcome>>

Succeed ==
    /\ outcome = "running"
    /\ Pending = {}
    /\ outcome' = "ok"
    /\ UNCHANGED <<source, grouping, resolving, policy, sent>>

Fail ==
    /\ outcome = "running"
    /\ Senseless
    /\ outcome' \in {"error", "dead"}
    /\ UNCHANGED <<source, grouping, resolving, policy, sent>>

(* The backend cannot express the rule it has just been given.             *)
Refuse ==
    /\ outcome = "running"
    /\ BackendRefuses
    /\ sent # <<>> /\ sent[Len(sent)].k = "rule"
    /\ outcome' = "error"
    /\ UNCHANGED <<source, grouping, resolving, policy, sent>>

Next == Send \/ Succeed \/ Fail \/ Refuse

Spec == Init /\ [][Next]_polVars
=============================================================================
