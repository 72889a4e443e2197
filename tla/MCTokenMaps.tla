---------------------------- MODULE MCTokenMaps ----------------------------
(***************************************************************************)
(* Small instances of TokenMaps for TLC.                                   *)
(***************************************************************************)
EXTENDS TokenMaps, TLC

CONSTANTS m1, m2, m3, f1,                   \* methods
          e1, e2, e3, e4, r1, r2, r3, r4,   \* tokens of the code and real ones
          list, other, add, count           \* a class, another, a method, a field

\* e3 is in code of m2 the JIT does not reach, but m1 uses it as well.
\* m3 uses a class the runtime cannot load.
MCCode == m1 :> {e1, e3} @@ m2 :> {e2, e3, r1} @@ m3 :> {e1, e4} @@ f1 :> {e1, e2}
MCLive == m1 :> {e1, e3} @@ m2 :> {e2} @@ m3 :> {e1, e4} @@ f1 :> {e1, e2}

\* The target's code is encoded, the other module's is not.
MCDecode ==
    Target :> [k \in Token |-> CASE k = e1 -> r1 [] k = e2 -> r2 [] k = e3 -> r3
                                 [] k = e4 -> r4 [] OTHER -> k]
    @@ Other :> [k \in Token |-> k]

Ref(c, m, f) == [hClass |-> c, hMethod |-> m, hField |-> f]

\* r1 is a method and r2 a field of one class, r3 the class itself.  The other
\* module refers to the same members by other tokens.
MCResolved ==
    Target :> [k \in Token |-> CASE k = r1 -> Ref(list, add, None)
                                 [] k = r2 -> Ref(list, None, count)
                                 [] k = r3 -> Ref(list, None, None)
                                 [] OTHER -> Ref(other, None, None)]
    @@ Other :> [k \in Token |-> CASE k = e1 -> Ref(list, None, count)
                                   [] OTHER -> Ref(list, add, None)]

\* r1 and r2 are the same method of two instantiations of a generic class:
\* the runtime has one description for both.
MCShared ==
    Target :> [k \in Token |-> CASE k = r1 -> Ref(list, add, None)
                                 [] k = r2 -> Ref(other, add, None)
                                 [] OTHER -> Ref(list, None, None)]
    @@ Other :> [k \in Token |-> Ref(list, None, None)]
MCSharedCode == m1 :> {e1, e2} @@ f1 :> {e1}
=============================================================================
