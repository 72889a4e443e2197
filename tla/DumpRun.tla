------------------------------ MODULE DumpRun ------------------------------
(***************************************************************************)
(* What a run of JitDumper promises: either it ends with an error, or it   *)
(* visits every method of the module exactly once, replaces the body of    *)
(* the visited method at most once and as a whole, leaves every other body *)
(* alone, and saves the module after the last visit and never touches it   *)
(* again.                                                                  *)
(***************************************************************************)
EXTENDS Integers

CONSTANTS Method, None

VARIABLES
    phase,    \* "start", "dump", "saved" or "failed"
    todo,     \* methods not visited yet
    visited,  \* the method visited last
    dumped,   \* methods whose body is the dumped one
    count     \* the number the run reports

vars == <<phase, todo, visited, dumped, count>>

Init ==
    /\ phase = "start"
    /\ todo = Method
    /\ visited = None
    /\ dumped = {}
    /\ count = 0

Start ==
    /\ phase = "start"
    /\ phase' = "dump"
    /\ UNCHANGED <<todo, visited, dumped, count>>

Fail ==
    /\ phase \in {"start", "dump"}
    /\ phase' = "failed"
    /\ UNCHANGED <<todo, visited, dumped, count>>

Visit(m) ==
    /\ phase = "dump"
    /\ m \in todo
    /\ todo' = todo \ {m}
    /\ visited' = m
    /\ UNCHANGED <<phase, dumped, count>>

Dump ==
    /\ phase = "dump"
    /\ visited # None
    /\ visited \notin dumped
    /\ dumped' = dumped \cup {visited}
    /\ count' = count + 1
    /\ UNCHANGED <<phase, todo, visited>>

Save ==
    /\ phase = "dump"
    /\ todo = {}
    /\ phase' = "saved"
    /\ UNCHANGED <<todo, visited, dumped, count>>

Next ==
    \/ Start \/ Fail \/ Dump \/ Save
    \/ \E m \in Method : Visit(m)

\* Spec without its fairness.
Safety == Init /\ [][Next]_vars

Spec == Safety /\ WF_vars(Next)
=============================================================================
