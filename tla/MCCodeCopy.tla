----------------------------- MODULE MCCodeCopy -----------------------------
(***************************************************************************)
(* Small instances of CodeCopy for TLC: every opcode of the tables with    *)
(* every form of ModR/M byte or every prefix, and a few functions whose    *)
(* trampoline is looked for in crowded address spaces.                     *)
(*                                                                         *)
(* Distances of many bytes are scaled down by 64.                          *)
(***************************************************************************)
EXTENDS CodeCopy

MCGB == 16777216
MCSlack == 8192
MCRegionSize == 1024
MCSystemLo == 7 * (MCGB \div 4)
MCSystemHi == 2 * MCGB
MCSystemStep == MCGB \div 8
MCUserTop == [x64 \in BOOLEAN |-> IF x64 THEN 16 * MCGB ELSE 4 * MCGB - MCRegionSize]
MCSpace == [x64 \in BOOLEAN |-> IF x64 THEN 64 * MCGB ELSE 4 * MCGB]

----------------------------------------------------------------------------
\* Instructions as sequences of cells.  A form is a ModR/M byte and what follows
\* it; that of an operand at a fixed place has an offset in the x64 build.
Offset(x64) == IF x64 THEN 3000 ELSE 0
Wide05(x64) == <<\h05, Offset(x64), 0, 0, 0>>
Forms(x64) == {<<\h00>>, <<\h04, \h00>>, <<\h04, \h05>>, <<\h44, \h05>>, <<\h45>>,
               <<\h80>>, <<\h84, \h05>>, <<\hC0>>, Wide05(x64)}
WithReg(form, reg) == [form EXCEPT ![1] = @ + 8 * reg]

\* Opcodes that are not of the one-byte map, and those whose branch cannot be
\* made longer.
Extended == {\h0F, \h62, \h8F, \hC4, \hC5}
CannotMove == \hE0..\hE3
Opcodes(x64) == {op \in 0..255 : Defined(0, op, x64) /\ op \notin Prefix(x64) \cup Extended \cup CannotMove}
Opcodes0F(x64) == {op \in 0..255 : Defined(1, op, x64) /\ op \notin {\h38, \h3A, \h78, \hB8}}
BranchTo(map, op) == CASE BranchSize(map, op) = 1 -> <<100>>
                       [] BranchSize(map, op) = 4 -> <<3000, 0, 0, 0>>
                       [] OTHER                   -> <<>>

\* Groups: the reg field of their ModR/M byte is part of the opcode.
Regs(op) == CASE op \in {\hF6, \hF7} -> {0, 2, 7} [] op = \hFF -> 0..6 [] OTHER -> {0}

OneByte(x64, forms) ==
    UNION {IF HasModRM(0, op) THEN {<<op>> \o WithReg(f, r) : f \in forms, r \in Regs(op)}
           ELSE {<<op>> \o BranchTo(0, op)} : op \in Opcodes(x64)}
TwoByte(x64, forms) ==
    UNION {IF HasModRM(1, op) THEN {<<\h0F, op>> \o f : f \in forms}
           ELSE {<<\h0F, op>> \o BranchTo(1, op)} : op \in Opcodes0F(x64)}
Escaped(x64) == {i \o f : i \in {<<\h0F, \h38, \h1C>>, <<\h0F, \h3A, \h0F>>, <<\h0F, \h78>>,
                                 <<\hF3, \h0F, \hB8>>, <<\h8F>>}, f \in Forms(x64)}
Older86 == {<<op>> \o f : op \in {\h62, \hC4, \hC5}, f \in {f \in Forms(FALSE) : f[1] < \hC0}}

\* VEX, EVEX and XOP, with every pp, some opcodes of each map, W set and not.
VexOpcodes(m) == IF m = 1 THEN {\h10, \h58, \h70, \h77, \hC2} ELSE {\h18}
VexForms(m, op, x64) == IF HasModRM(m, op) THEN {Wide05(x64), <<\h44, \h05>>, <<\hC0>>} ELSE {<<>>}
EncodedAs(prefix, m, x64) ==
    UNION {{prefix \o <<op>> \o f : f \in VexForms(m, op, x64)} : op \in VexOpcodes(m)}
Vex(x64) ==
    UNION {EncodedAs(<<\hC5, \hF8 + p>>, 1, x64) : p \in 0..3}
    \cup UNION {EncodedAs(<<\hC4, \hE0 + m, w + p>>, m, x64) : m \in 1..3, p \in 0..3, w \in {\h78, \hF8}}
    \cup UNION {EncodedAs(<<\h62, \hF0 + m, w + p, \h48>>, m, x64)
                : m \in {1, 2, 3, 5, 6}, p \in 0..3, w \in {\h7C, \hFC}}
    \cup UNION {EncodedAs(<<\h8F, \hE0 + m, \h78>>, m, x64) : m \in 8..10}

\* In the x86 build an operand-size prefix shortens the offset of a branch, and
\* an address-size prefix changes the ModR/M byte: no compiler makes such code.
PrefixesOf(x64) == {<<\h66>>, <<\hF2>>, <<\hF3>>} \cup (IF x64 THEN {<<\h48>>, <<\h66, \h48>>} ELSE {})
PrefixesOfOneByte(x64) == {<<\hF0>>, <<\h64>>} \cup (IF x64 THEN {<<\h41>>, <<\h67>>, <<\h66, \h41>>} ELSE {})
Branch(i) == IF i[1] = \h0F THEN BranchSize(1, i[2]) > 0 ELSE BranchSize(0, i[1]) > 0
Prefixed(x64) ==
    LET one == {i \in OneByte(x64, {Wide05(x64)}) : x64 \/ ~Branch(i)}
        two == {i \in TwoByte(x64, {Wide05(x64)}) : x64 \/ ~Branch(i)}
    IN
    {p \o i : p \in PrefixesOf(x64), i \in one} \cup {p \o i : p \in PrefixesOf(x64), i \in two}
    \cup {p \o i : p \in PrefixesOfOneByte(x64), i \in one}
    \cup {p \o <<\h0F, \h78, \hC0>> : p \in {<<\h66>>, <<\hF2>>}}
    \cup (IF x64 THEN {} ELSE {<<\h67, op, 0, 0>> : op \in \hA0..\hA3})
Instructions(x64) ==
    OneByte(x64, Forms(x64)) \cup TwoByte(x64, Forms(x64)) \cup Escaped(x64) \cup Vex(x64)
    \cup Prefixed(x64) \cup (IF x64 THEN {} ELSE Older86)
Zeros == [n \in 1..12 |-> 0]

----------------------------------------------------------------------------
Block1(base, size) == [base |-> base, size |-> size]
InModule(a) == {Block1(a - (a % MCRegionSize), 2 * MCRegionSize)}
Place(x64) == (IF x64 THEN 3 * MCGB ELSE MCGB) + 5000
AtPlace(x64, i) == [x64 |-> x64, code |-> i \o Zeros, at |-> Place(x64),
                    memory |-> InModule(Place(x64)), failures |-> 0]
Tables == {AtPlace(TRUE, i) : i \in Instructions(TRUE)} \cup {AtPlace(FALSE, i) : i \in Instructions(FALSE)}

----------------------------------------------------------------------------
\* Crowded address spaces: everything is allocated but a few gaps, which are
\* given as <<first, end>>.  (The first region never is allocated.)
Down(a) == a - (a % MCRegionSize)
FullBut(gaps, top) ==
    {Block1(b, Min({g[1] : g \in {g \in gaps : g[1] >= b}} \cup {top}) - b)
        : b \in {MCRegionSize} \cup {g[2] : g \in {g \in gaps : g[2] < top}}}
OneRegion(a) == <<Down(a), Down(a) + MCRegionSize>>
TwoGB == 2 * MCGB - MCSlack
Gaps(a) ==
    {{},
     {OneRegion(a - TwoGB + MCRegionSize)}, {OneRegion(a - TwoGB)},
     {OneRegion(a + TwoGB)}, {OneRegion(a + 2 * MCGB)},
     {<<MCSystemLo, MCSystemHi + MCRegionSize>>},
     {OneRegion(MCSystemLo - MCRegionSize)}, {OneRegion(MCSystemHi + MCRegionSize)},
     {OneRegion(MCSystemLo - MCSystemStep)}, {OneRegion(MCSystemHi + MCSystemStep)},
     {OneRegion(a - (MCGB \div 2)), OneRegion(a + 3 * (MCGB \div 2))},
     {OneRegion(a - (MCGB \div 8)), OneRegion(a - 3 * (MCGB \div 4))}, {OneRegion(a - MCGB)}}
Memories(x64, a) ==
    LET top == MCUserTop[x64]
        inside(gaps) == {g \in gaps : g[1] > MCRegionSize /\ g[2] < top /\ ~(g[1] <= a /\ a < g[2])}
    IN  {InModule(a)} \cup {FullBut(inside(gaps), top) : gaps \in Gaps(a)}
Places(x64) ==
    IF x64 THEN {MCGB \div 2, 3 * MCGB, 16 * MCGB - (MCGB \div 4)}
    ELSE {MCGB, MCSystemLo + (MCGB \div 8), 3 * MCGB + (MCGB \div 2)}

\* What functions begin with: two short jumps and the longest instruction there
\* is room for, a call, data as far away as Slack allows, a jump far up or down,
\* a short function with padding behind it or without.
Far(x64, a) == {o \in {-(MCGB + (MCGB \div 2)), MCGB + (MCGB \div 2)} : a + o \in MCGB \div 8 .. MCUserTop[x64]}
Codes(x64, a) ==
    {<<\h74, 20, \h75, -20, \h48, \hC7, \h84, \h24>> \o Zeros,
     <<\hE8, -3000>> \o Zeros, <<\hA9>> \o Zeros, <<\hEB, 100>>, <<\hF3, \hC3>>,
     <<\hC3, \h66, \h90, \h90>>, <<\hC3, \h0F, \h1F, 0, \h90>>, <<\hC3, \h0F, \h1F, \h40, 0>>,
     <<\hC3, \h66, \h66, \h66>> \o Nop8, <<\hC3, \h55, \h90, \h90, \h90>>,
     <<\h65, \hFF, \h25>> \o Zeros}
    \cup {<<\hE9, o>> \o Zeros : o \in Far(x64, a)}
    \cup (IF x64 THEN {<<\hFF, \h25, o>> \o Zeros : o \in Far(x64, a)}
                      \cup {<<\h48, \h8B, \h05, o>> \o Zeros : o \in {100 - MCSlack, MCSlack - 100}}
          ELSE {})
Spaces(x64) ==
    UNION {{[x64 |-> x64, code |-> c, at |-> a + 5000, memory |-> m, failures |-> n]
             : c \in Codes(x64, a), m \in Memories(x64, a + 5000), n \in 0..1} : a \in Places(x64)}
\* Places from which the search finds what cannot be reached: a little above the
\* first gigabyte, near the end, and in the first bytes of a region.
EdgePlaces(x64) == {MCGB + 100, MCGB + 5000} \cup (IF x64 THEN {} ELSE {4 * MCGB - 5000})
Edges(x64) ==
    UNION {{[x64 |-> x64, code |-> c, at |-> a, memory |-> m, failures |-> 0]
             : c \in {<<\hA9>> \o Zeros, <<\hE8, -3000>> \o Zeros}, m \in Memories(x64, a)}
           : a \in EdgePlaces(x64)}
Crowded == Spaces(TRUE) \cup Spaces(FALSE) \cup Edges(TRUE) \cup Edges(FALSE)
MCFunction == Crowded \cup Tables

\* Functions with a loop within their first five bytes.
Looping == {AtPlace(x64, <<\h31, \hC0, op, -4>>) : x64 \in BOOLEAN, op \in CannotMove}
=============================================================================
