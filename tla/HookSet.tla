------------------------------ MODULE HookSet ------------------------------
(***************************************************************************)
(* What Detours promises to those who use it: calls are attached to and    *)
(* detached from their detours by transactions, each of which takes effect *)
(* as a whole or not at all, and whose result tells which.                 *)
(***************************************************************************)
EXTENDS Naturals

CONSTANTS Client, Pointer

VARIABLES
    hooked,   \* the pointers whose functions are detoured
    wanted,   \* those the open transaction is to attach or detach
    phase,    \* of each client
    answer    \* what its last transaction returned

absVars == <<hooked, wanted, phase, answer>>

Init ==
    /\ hooked = {}
    /\ wanted = {}
    /\ phase = [c \in Client |-> "idle"]
    /\ answer = [c \in Client |-> "none"]

Open(c) ==
    /\ phase[c] = "idle"
    /\ \A d \in Client : phase[d] # "open"
    /\ phase' = [phase EXCEPT ![c] = "open"]
    /\ wanted' = {}
    /\ UNCHANGED <<hooked, answer>>

Ask(c, p) ==
    /\ phase[c] = "open"
    /\ wanted' = wanted \cup {p}
    /\ UNCHANGED <<hooked, phase, answer>>

\* All that is wanted is done in one step.
Commit(c) ==
    /\ phase[c] = "open"
    /\ phase' = [phase EXCEPT ![c] = "commit"]
    /\ hooked' = (hooked \ wanted) \cup (wanted \ hooked)
    /\ wanted' = {}
    /\ UNCHANGED answer

\* Nothing is done, because something failed or because the client says so.
Abort(c) ==
    /\ phase[c] = "open"
    /\ phase' \in {[phase EXCEPT ![c] = how] : how \in {"abort", "drop"}}
    /\ wanted' = {}
    /\ UNCHANGED <<hooked, answer>>

Answer(c) ==
    /\ phase[c] \in {"commit", "abort", "drop"}
    /\ answer' = [answer EXCEPT ![c] = CASE phase[c] = "commit" -> "success"
                                         [] phase[c] = "abort" -> "error"
                                         [] OTHER -> "dropped"]
    /\ phase' = [phase EXCEPT ![c] = "idle"]
    /\ UNCHANGED <<hooked, wanted>>

Next == \E c \in Client :
    Open(c) \/ Commit(c) \/ Abort(c) \/ Answer(c) \/ \E p \in Pointer : Ask(c, p)

Spec == Init /\ [][Next]_absVars
=============================================================================
