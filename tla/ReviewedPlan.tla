----------------------------- MODULE ReviewedPlan -----------------------------
(***************************************************************************)
(* What a Pass B workflow promises of a plan, without assignments, attempts, *)
(* evidence or repairs: a step is begun by one provider, after the steps it *)
(* depends on were accepted, and accepted once, by another provider; the    *)
(* workflow is completed with the last acceptance and never otherwise.      *)
(***************************************************************************)
CONSTANTS
    Steps,       \* steps of the plan
    Before,      \* the steps each step depends on
    Providers,   \* who can do or judge work
    None         \* "nobody yet"

VARIABLES
    author,      \* who does a step
    judge,       \* who accepted it
    finished     \* the workflow is completed

vars == <<author, judge, finished>>

Init ==
    /\ author = [s \in Steps |-> None]
    /\ judge = [s \in Steps |-> None]
    /\ finished = FALSE

Begin(s, p) ==
    /\ author[s] = None
    /\ \A d \in Before[s] : judge[d] # None
    /\ author' = [author EXCEPT ![s] = p]
    /\ UNCHANGED <<judge, finished>>

Accept(s, q) ==
    /\ author[s] # None /\ judge[s] = None
    /\ q # author[s]
    /\ judge' = [judge EXCEPT ![s] = q]
    /\ finished' = \A t \in Steps : judge'[t] # None
    /\ UNCHANGED author

Next == \E s \in Steps, p \in Providers : Begin(s, p) \/ Accept(s, p)

Spec == Init /\ [][Next]_vars
=============================================================================
