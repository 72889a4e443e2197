------------------------ MODULE MCDetourTransaction ------------------------
EXTENDS DetourTransaction

CONSTANTS r1, r2, f1, f2, f3, f4, jump1, p1, p2, p3, p4, p5, d1, d2, d3

Ins(len, extra, ends) == [len |-> len, extra |-> extra, ends |-> ends]

\* p1 holds a jump to f1, which ends with a short jump and padding; f2 begins with a long instruction; f3 is
\* too small; p4 is null; p5's detour is its function f4.  f1 and f2 share a page.
MCRegion == {r1, r2}
MCFunction == {f1, f2, f3, f4}
MCDetour == {d1, d2, d3, f4}
MCPointer == {p1, p2, p3, p4, p5}
MCAddress == MCFunction \cup {jump1}
MCAround == [f \in MCFunction |-> IF f \in {f1, f2} THEN {r1} ELSE {r2}]
\* A search for f3 finds r2, whose trampolines turn out to be too far away, but not for f1.
MCReach == [f \in MCFunction |-> IF f = f1 THEN Slot ELSE {r1} \X (0..Last)]
MCDetourOf == [p \in MCPointer |-> CASE p = p1 -> d1 [] p = p2 -> d2 [] p = p5 -> f4 [] OTHER -> d3]
MCStart == [p \in MCPointer |-> CASE p = p1 -> jump1 [] p = p2 -> f2 [] p = p3 -> f3 [] p = p5 -> f4 [] OTHER -> Null]
MCLeads == [a \in MCAddress |-> IF a = jump1 THEN f1 ELSE a]
MCPageOf == [f \in MCFunction |-> IF f \in {f3, f4} THEN 2 ELSE 1]
MCInstructions == [f \in MCFunction |->
    CASE f = f1 -> <<Ins(1, 0, FALSE), Ins(2, 3, TRUE)>>
      [] f = f2 -> <<Ins(7, 0, FALSE)>>
      [] OTHER  -> <<Ins(1, 0, TRUE)>>]
MCPadding == [f \in MCFunction |-> CASE f = f1 -> 2 [] f = f3 -> 3 [] OTHER -> 0]
=============================================================================
