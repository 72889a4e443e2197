---------------------------- MODULE X86Encoding ----------------------------
(***************************************************************************)
(* How the processor reads instructions, as far as Detours has to know:    *)
(* where one ends, and what it refers to relative to its own address.      *)
(* This is the reference the copier is checked against.  It is written     *)
(* from the structure of the opcode maps (prefixes, map, ModR/M, SIB,      *)
(* displacement, immediate) and not from the tables of the copier.         *)
(*                                                                         *)
(* Code is a function from positions to cells.  A cell is a byte, but for  *)
(* the first cell of a relative offset, which holds the whole offset; the  *)
(* other cells of the offset, and those of displacements and immediates    *)
(* that are not relative, are 0.                                           *)
(***************************************************************************)
EXTENDS Integers, Sequences

SegmentPrefix == {\h26, \h2E, \h36, \h3E, \h64, \h65}
Prefix86 == SegmentPrefix \cup {\h66, \h67, \hF0, \hF2, \hF3}
Prefix64 == Prefix86 \cup (\h40..\h4F)
Prefix(x64) == IF x64 THEN Prefix64 ELSE Prefix86

\* Opcodes that mean something, in the one-byte map and after 0F.
Undefined64 == {\h06, \h07, \h0E, \h16, \h17, \h1E, \h1F, \h27, \h2F, \h37, \h3F, \h60, \h61,
                \h82, \h9A, \hCE, \hD4, \hD5, \hD6, \hEA}
Undefined0F == {\h04, \h0A, \h0C, \h36, \h39, \h7A, \h7B, \hB9, \hFF}
                   \cup (\h24..\h27) \cup (\h3B..\h3F)
Defined(map, op, x64) ==
    CASE map = 0 -> op \notin IF x64 THEN Undefined64 ELSE {\hD6}
      [] map = 1 -> op \notin Undefined0F
      [] OTHER   -> TRUE

\* Opcodes that are followed by a ModR/M byte.  In maps other than these two
\* all are.
ModRM0 == {\h62, \h63, \h69, \h6B, \hC0, \hC1, \hC4, \hC5, \hC6, \hC7, \hF6, \hF7, \hFE, \hFF}
              \cup (\h80..\h8F) \cup (\hD0..\hD3) \cup (\hD8..\hDF)
              \cup {op \in 0..\h3F : op % 8 < 4}
NoModRM0F == {\h0B, \h0E, \h77} \cup (\h05..\h09) \cup (\h30..\h37) \cup (\h80..\h8F)
              \cup (\hA0..\hA2) \cup (\hA8..\hAA) \cup (\hC8..\hCF)
HasModRM(map, op) ==
    CASE map = 0 -> op \in ModRM0
      [] map = 1 -> op \notin NoModRM0F
      [] OTHER   -> TRUE

\* Opcodes with an immediate of one byte, and with one as large as an operand
\* (but never of eight bytes).
Byte0 == {\h6A, \h6B, \h80, \h82, \h83, \hA8, \hC0, \hC1, \hC6, \hCD, \hD4, \hD5}
            \cup (\hB0..\hB7) \cup (\hE4..\hE7) \cup {op \in 0..\h3F : op % 8 = 4}
Byte0F == {\h0F, \hA4, \hAC, \hBA, \hC2, \hC4, \hC5, \hC6} \cup (\h70..\h73)
Operand0 == {\h68, \h69, \h81, \hA9, \hC7} \cup {op \in 0..\h3F : op % 8 = 5}

\* The bytes of the immediate; d tells of the prefixes.
Immediate0(op, d, reg) ==
    LET z == IF d.o16 THEN 2 ELSE 4 IN
    CASE op \in Byte0                  -> 1
      [] op \in Operand0               -> z
      [] op = \hF6                     -> IF reg < 2 THEN 1 ELSE 0
      [] op = \hF7                     -> IF reg < 2 THEN z ELSE 0
      [] op \in {\hC2, \hCA}           -> 2
      [] op = \hC8                     -> 3
      [] op \in \hB8..\hBF             -> IF d.w THEN 8 ELSE z
      [] op \in \hA0..\hA3 /\ d.x64    -> IF d.a THEN 4 ELSE 8
      [] op \in \hA0..\hA3 /\ ~d.x64   -> IF d.a THEN 2 ELSE 4
      [] op \in {\h9A, \hEA}           -> z + 2
      [] OTHER                         -> 0
ImmediateSize(map, op, d, reg) ==
    CASE map = 0 -> Immediate0(op, d, reg)
      [] map = 1 -> IF op \in Byte0F THEN 1
                    ELSE IF op = \h78 /\ d.extract THEN 2 ELSE 0
      [] map \in {3, 8} -> 1
      [] map = 10 -> 4
      [] OTHER -> 0

\* Relative branches: by one byte, or by four.
JumpIf == \h70..\h7F
ShortBranch == JumpIf \cup (\hE0..\hE3) \cup {\hEB}
BranchSize(map, op) ==
    CASE map = 0 /\ op \in ShortBranch  -> 1
      [] map = 0 /\ op \in {\hE8, \hE9} -> 4
      [] map = 1 /\ op \in \h80..\h8F   -> 4
      [] OTHER                          -> 0

\* The prefixes before the opcode of the instruction at position i of code.
PrefixCount(code, i, x64) ==
    CHOOSE n \in 0..4 : /\ code[i + n] \notin Prefix(x64)
                        /\ \A m \in 0..(n - 1) : code[i + m] \in Prefix(x64)

\* The opcode behind np prefixes: its map, where it is, and what the prefixes
\* (also those within VEX, EVEX and XOP) say of it.
Opcode(code, i, x64, np) ==
    LET prefixes == {code[i + n] : n \in 0..(np - 1)}
        o == code[i + np]
        next == code[i + np + 1]
        vex == \/ o \in {\hC4, \hC5, \h62} /\ (x64 \/ next >= \hC0)
               \/ o = \h8F /\ next % 32 >= 8
        map == CASE o = \h0F /\ next = \h38 -> 2
                 [] o = \h0F /\ next = \h3A -> 3
                 [] o = \h0F                -> 1
                 [] vex /\ o = \hC5         -> 1
                 [] vex /\ o = \h62         -> next % 8
                 [] vex                     -> next % 32
                 [] OTHER                   -> 0
        skip == CASE o = \h0F        -> IF next \in {\h38, \h3A} THEN 2 ELSE 1
                  [] vex /\ o = \hC5 -> 2
                  [] vex /\ o = \h62 -> 4
                  [] vex             -> 3
                  [] OTHER           -> 0
        w == x64 /\ np > 0 /\ code[i + np - 1] \in \h48..\h4F
    IN  [x64 |-> x64, map |-> map, op |-> code[i + np + skip], at |-> i + np + skip,
         w |-> w, o16 |-> \h66 \in prefixes /\ ~w, a |-> \h67 \in prefixes,
         extract |-> ~vex /\ prefixes \cap {\h66, \hF2} # {}]

\* What the ModR/M byte behind an opcode says; without one, as for a register.
ModRMByte(code, o) == IF HasModRM(o.map, o.op) THEN code[o.at + 1] ELSE \hC0
Operand(code, o, modrm) ==
    LET mod == modrm \div 64
        sib == mod # 3 /\ modrm % 8 = 4
        base == IF sib THEN code[o.at + 2] % 8 ELSE modrm % 8
    IN  [reg  |-> (modrm \div 8) % 8,
         size |-> (IF HasModRM(o.map, o.op) THEN 1 ELSE 0) + (IF sib THEN 1 ELSE 0),
         disp |-> CASE mod = 0 -> IF base = 5 THEN 4 ELSE 0
                    [] mod = 1 -> 1
                    [] mod = 2 -> 4
                    [] mod = 3 -> 0,
         rip  |-> o.x64 /\ mod = 0 /\ modrm % 8 = 5]

\* An instruction: its length, its relative offset (position and width, 0 if
\* there is none), its map, opcode and where the opcode is.
Instruction(i, o, m) ==
    LET field == o.at + 1 + m.size
        branch == BranchSize(o.map, o.op)
    IN  [len |-> field - i + m.disp + branch + ImmediateSize(o.map, o.op, o, m.reg),
         field |-> field, width |-> IF m.rip THEN 4 ELSE branch,
         map |-> o.map, op |-> o.op, at |-> o.at]

\* The instruction that begins at position i of code.
Decoded(code, i, o) == Instruction(i, o, Operand(code, o, ModRMByte(code, o)))
Decode(code, i, x64) == Decoded(code, i, Opcode(code, i, x64, PrefixCount(code, i, x64)))

\* What the instruction d at position i of code does if code[0] is at address
\* base: itself without its offset, and where the offset leads.  The short and
\* the near form of a jump do the same.
Jumps(d) == \/ d.map = 0 /\ d.op \in JumpIf \cup {\hE9, \hEB}
            \/ d.map = 1 /\ d.op \in \h80..\h8F
MeaningOf(d, code, i, base, space) ==
    LET prefixes == [n \in 1..(d.at - i - d.map) |-> code[i + n - 1]]
        whole == [n \in 1..d.len |-> IF i + n - 1 \in d.field..(d.field + d.width - 1)
                                     THEN 0 ELSE code[i + n - 1]]
    IN  [code   |-> IF Jumps(d) THEN prefixes ELSE whole,
         jump   |-> IF ~Jumps(d) THEN "no"
                    ELSE IF d.op \in {\hE9, \hEB} /\ d.map = 0 THEN "always" ELSE "if",
         cc     |-> IF Jumps(d) /\ (d.map = 1 \/ d.op \in JumpIf) THEN d.op % 16 ELSE 0,
         target |-> IF d.width = 0 THEN <<>>
                    ELSE <<(base + i + d.len + code[d.field]) % space>>]
Meaning(code, i, base, space, x64) == MeaningOf(Decode(code, i, x64), code, i, base, space)
=============================================================================
