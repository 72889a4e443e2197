------------------------------ MODULE CodeCopy ------------------------------
(***************************************************************************)
(* What DetourAttachEx makes of the first bytes of a function: it finds    *)
(* memory for a trampoline (RegionSearch), copies whole instructions there *)
(* until five bytes are free for a jump (DetourCopyInstruction), and adds  *)
(* a jump back to the rest.  The copy must do what the function did from   *)
(* another address, and there is room for 30 bytes.                        *)
(*                                                                         *)
(* A copy function of the copier is an operator: it is given the index of  *)
(* the byte it is called for and what the prefixes before it have set, and *)
(* results in the cells it writes, the bytes it goes on by, the target it  *)
(* reports and by how much the copy is longer (lExtra).                    *)
(***************************************************************************)
EXTENDS RegionSearch, CopyTable, X86Encoding, SequencesExt

\* A region has trampolines to hand out.
ASSUME RegionHolds == RegionSize >= 4 * 96

VARIABLES
    tramp,     \* rbCode and what follows it in the trampoline
    src,       \* pbSrc - pbTarget
    at,        \* pbTrampoline - rbCode
    align,     \* rAlign[]: [obTarget, obTrampoline]
    target,    \* *m_ppbTarget of the instruction copied last
    remain     \* pbRemain

copyVars == <<tramp, src, at, align, target, remain>>
vars == <<searchVars, copyVars>>

\* sizeof(_DETOUR_TRAMPOLINE), offsetof(pbRemain), sizeof(rbCode), SIZE_OF_JMP.
TrampolineSize == IF fn.x64 THEN 96 ELSE 72
RemainOffset == 72
CodeSize == 30
cbJump == 5
\* The first trampoline of a region that is handed out.
place == pv + 3 * TrampolineSize

Table == CopyTables[fn.x64]
Table0F == CopyTables0F[fn.x64]
NoTarget == <<"none">>
Dynamic == <<"dynamic">>
Cells(k, n) == [m \in 1..n |-> Cell(k + m - 1)]
Result(cells, length, tgt, extra) ==
    [cells |-> cells, length |-> length, target |-> tgt, extra |-> extra]
\* What is copied before the opcode.
After(k, n, r) == [r EXCEPT !.cells = Cells(k, n) \o @, !.length = n + @]

----------------------------------------------------------------------------
\* An offset that is written as a signed number of 2 * half values.
WrapTo(n, half) == ((n + half) % (2 * half)) - half
Half(size) == CASE size = 1 -> 128 [] size = 2 -> 32768 [] size = 4 -> 2 * GB

\* How far the copy is from its source.  In the x86 build it is a LONG.
Moved == (place + at) - (fn.at + src)
NewOffset(old) == IF fn.x64 THEN old - Moved ELSE WrapTo(old - Moved, Half(4))

\* Mutant: the target is reckoned from the new offset.
AdjustTargetLate(k, length, rel, size) ==
    LET new == NewOffset(Cell(k + rel))
    IN  [offset |-> WrapTo(new, Half(size)),
         extra  |-> IF new < -Half(size) \/ new >= Half(size) THEN 4 - size ELSE 0,
         target |-> (fn.at + k + length + new) % Space[fn.x64]]

\* An offset that does not fit is cut off, and the caller is told by how much
\* larger the offset would have to be (by nothing if it has four bytes).
AdjustTarget(k, length, rel, size) ==
    LET old == Cell(k + rel)
        new == NewOffset(old)
    IN  [offset |-> WrapTo(new, Half(size)),
         extra  |-> IF new < -Half(size) \/ new >= Half(size) THEN 4 - size ELSE 0,
         target |-> (fn.at + k + length + old) % Space[fn.x64]]

\* Mutant: REX.W does not trump 66.
FixedSizeOperandFirst(e, st) ==
    IF "ADDRESS" \in e.flags THEN (IF st.address THEN e.size16 ELSE e.size)
    ELSE IF st.operand THEN e.size16
    ELSE IF fn.x64 /\ st.rax /\ "RAX" \in e.flags THEN e.size + 4 ELSE e.size

FixedSize(e, st) ==
    IF "ADDRESS" \in e.flags THEN (IF st.address THEN e.size16 ELSE e.size)
    ELSE IF fn.x64 /\ st.rax THEN (IF "RAX" \in e.flags THEN e.size + 4 ELSE e.size)
    ELSE IF st.operand THEN e.size16 ELSE e.size

\* The table has the SIB flag only for the mod whose SIB byte may add four bytes,
\* and the RIP flag only means something in the x64 build.
CopyBytes(e, k, st) ==
    LET more == IF e.mod > 0 THEN ModRm(Cell(k + e.mod)) ELSE 0
        base == IF more >= SIB /\ more < RIP /\ Cell(k + e.mod + 1) % 8 = 5 THEN 4 ELSE 0
        length == FixedSize(e, st) + (more % 16) + base
        data == fn.x64 /\ more >= RIP
        rel == IF data THEN e.mod + 1 ELSE e.rel
        a == AdjustTarget(k, length, rel, IF data THEN 4 ELSE length - rel)
        tgt == IF "DYNAMIC" \in e.flags THEN Dynamic
               ELSE IF e.rel > 0 THEN <<"code", a.target>> ELSE NoTarget
    IN  IF rel = 0 THEN Result(Cells(k, length), length, tgt, 0)
        ELSE Result([Cells(k, length) EXCEPT ![rel + 1] = a.offset], length, tgt,
                    IF "NOENLARGE" \in e.flags THEN -a.extra ELSE a.extra)

\* Mutant: the offset is that of an instruction of two bytes.
CopyBytesJumpShort(k) ==
    LET old == Cell(k + 1)
        to == <<"code", (fn.at + k + 2 + old) % Space[fn.x64]>>
        near == WrapTo(old - Moved, Half(4))
    IN  IF Cell(k) = \hEB THEN Result(<<\hE9, near, 0, 0, 0>>, 2, to, 3)
        ELSE Result(<<\h0F, \h80 + (Cell(k) % 16), near, 0, 0, 0>>, 2, to, 4)

\* A short jump becomes a near one.
CopyBytesJump(k) ==
    LET old == Cell(k + 1)
        to == <<"code", (fn.at + k + 2 + old) % Space[fn.x64]>>
        near(extra) == WrapTo(old - (Moved + extra), Half(4))
    IN  IF Cell(k) = \hEB THEN Result(<<\hE9, near(3), 0, 0, 0>>, 2, to, 3)
        ELSE Result(<<\h0F, \h80 + (Cell(k) % 16), near(4), 0, 0, 0>>, 2, to, 4)

\* Nothing is copied.
Invalid == Result(<<>>, 1, NoTarget, 0)

Copy0F78(k, st) == CopyBytes(IF st.f2 \/ st.operand THEN Bytes(4) ELSE BytesMod, k, st)
Reg(modrm) == (modrm \div 8) % 8
Copy0F00(k, st) == CopyBytes(IF Reg(Cell(k + 1)) = 6 THEN BytesModDynamic ELSE BytesMod, k, st)
Copy0FB8(k, st) == CopyBytes(IF st.f3 THEN BytesMod ELSE Bytes3Or5Dynamic, k, st)
Entry0F(k, st) ==
    LET e == Table0F[Cell(k)] IN
    CASE e.copy = "CopyBytes" -> CopyBytes(e, k, st)
      [] e.copy = "Copy0F78"  -> Copy0F78(k, st)
      [] e.copy = "Copy0F00"  -> Copy0F00(k, st)
      [] e.copy = "Copy0FB8"  -> Copy0FB8(k, st)
      [] e.copy = "Invalid"   -> Invalid
Copy0F(k, st) == After(k, 1, Entry0F(k + 1, st))

CopyF6(k, st) == CopyBytes(IF Reg(Cell(k + 1)) = 0 THEN BytesMod1 ELSE BytesMod, k, st)
CopyF7(k, st) == CopyBytes(IF Reg(Cell(k + 1)) = 0 THEN BytesModOperand ELSE BytesMod, k, st)

\* A call or a jump through memory: the target is what is read there (the
\* references are not limited to a module: nothing calls DetourSetCodeModule).
CopyFF(k, st) ==
    LET r == CopyBytes(BytesMod, k, st)
        b1 == Cell(k + 1)
        plain == IF fn.x64 THEN st.segment \notin {\h64, \h65} ELSE st.segment \in {0, \h2E}
        pointer == IF fn.x64 THEN fn.at + k + 6 + Cell(k + 2) ELSE Cell(k + 2)
    IN  [r EXCEPT !.target =
            IF b1 \in {\h15, \h25} THEN (IF plain THEN <<"at", pointer>> ELSE Dynamic)
            ELSE IF Reg(b1) \in 2..5 THEN Dynamic ELSE @]

\* p stands for a prefix, m for a map of opcodes.
CopyVexEvexCommon(m, k, st, p) ==
    LET pst == [st EXCEPT !.operand = @ \/ p = 1, !.f3 = @ \/ p = 2, !.f2 = @ \/ p = 3] IN
    CASE m = 1             -> Entry0F(k, pst)
      [] m \in {2, 5, 6}   -> CopyBytes(BytesMod, k, pst)
      [] m = 3             -> CopyBytes(BytesMod1, k, pst)
      [] OTHER             -> Invalid
CopyVexCommon(m, k, st) == CopyVexEvexCommon(m, k, st, Cell(k - 1) % 4)

\* In the x86 build these three are other instructions unless a ModR/M byte
\* would say that the operand is a register.
Older(k) == ~fn.x64 /\ Cell(k + 1) < \hC0
Wide(st, b) == [st EXCEPT !.rax = @ \/ (fn.x64 /\ b >= \h80)]
CopyVex3(k, st) ==
    IF Older(k) THEN CopyBytes(BytesMod, k, st)
    ELSE After(k, 3, CopyVexCommon(Cell(k + 1) % 32, k + 3, Wide(st, Cell(k + 2))))
CopyVex2(k, st) ==
    IF Older(k) THEN CopyBytes(BytesMod, k, st)
    ELSE After(k, 2, CopyVexCommon(1, k + 2, st))
CopyEvex(k, st) ==
    LET p0 == Cell(k + 1)
        p1 == Cell(k + 2)
    IN  IF Older(k) THEN CopyBytes(BytesMod, k, st)
        ELSE IF p0 % 16 >= 8 \/ p1 % 8 < 4 THEN Invalid
        ELSE After(k, 4, CopyVexEvexCommon(p0 % 8, k + 4, Wide(st, p1), p1 % 4))
CopyXop(k, st) ==
    LET m == Cell(k + 1) % 32 IN
    CopyBytes(CASE m = 8 -> BytesXop(1) [] m = 9 -> BytesXop(0) [] m = 10 -> BytesXop(4)
                [] OTHER -> BytesMod, k, st)

----------------------------------------------------------------------------
\* The functions that copy a prefix and go on with the next byte.
PrefixCopies == {"CopyBytesPrefix", "CopyBytesSegment", "CopyBytesRax",
                 "Copy66", "Copy67", "CopyF2", "CopyF3"}
CopyBytesPrefix(k) ==
    CHOOSE n \in 0..4 : /\ Table[Cell(k + n)].copy \notin PrefixCopies
                        /\ \A m \in 0..(n - 1) : Table[Cell(k + m)].copy \in PrefixCopies

\* What each of them sets; p are the prefixes of the instruction.
Set(p, copy) == SelectSeq(p, LAMBDA b : Table[b].copy = copy)
Copy66(p) == Set(p, "Copy66") # <<>>
Copy67(p) == Set(p, "Copy67") # <<>>
CopyF2(p) == Set(p, "CopyF2") # <<>>
CopyF3(p) == Set(p, "CopyF3") # <<>>
CopyBytesRax(p) == \E b \in ToSet(Set(p, "CopyBytesRax")) : b % 16 >= 8
CopyBytesSegment(p) == Set(p, "CopyBytesSegment")

\* The state of a CDetourDis when the opcode is copied.  The constructor leaves
\* m_nSegmentOverride as it was: garbage.
Overrides(p, garbage) ==
    [operand |-> Copy66(p), address |-> Copy67(p), f2 |-> CopyF2(p), f3 |-> CopyF3(p),
     rax |-> CopyBytesRax(p),
     segment |-> IF CopyBytesSegment(p) = <<>> THEN garbage ELSE Last(CopyBytesSegment(p))]

CopyOpcode(k, st) ==
    LET e == Table[Cell(k)] IN
    CASE e.copy = "CopyBytes"     -> CopyBytes(e, k, st)
      [] e.copy = "CopyBytesJump" -> CopyBytesJump(k)
      [] e.copy = "Invalid"       -> Invalid
      [] e.copy = "Copy0F"        -> Copy0F(k, st)
      [] e.copy = "CopyF6"        -> CopyF6(k, st)
      [] e.copy = "CopyF7"        -> CopyF7(k, st)
      [] e.copy = "CopyFF"        -> CopyFF(k, st)
      [] e.copy = "CopyVex2"      -> CopyVex2(k, st)
      [] e.copy = "CopyVex3"      -> CopyVex3(k, st)
      [] e.copy = "CopyEvex"      -> CopyEvex(k, st)
      [] e.copy = "CopyXop"       -> CopyXop(k, st)

\* DetourCopyInstruction(rbCode + at, pbTarget + k): what may come out.
DetourCopyInstruction(k) ==
    LET n == CopyBytesPrefix(k)
        garbage == IF Table[Cell(k + n)].copy = "CopyFF" THEN {0, \h64} ELSE {0}
    IN  {After(k, n, CopyOpcode(k + n, Overrides(Cells(k, n), g))) : g \in garbage}

----------------------------------------------------------------------------
\* detour_does_code_end_function.
EndsFunction(k) ==
    LET b == Cells(k, 3) IN
    \/ b[1] \in {\hEB, \hE9, \hE0, \hC2, \hC3, \hCC}
    \/ b[1] = \hF3 /\ b[2] = \hC3
    \/ b[1] = \hFF /\ b[2] = \h25
    \/ b[1] \in SegmentPrefix /\ b[2] = \hFF /\ b[3] = \h25

\* detour_is_code_filler: nops of 1 to 11 bytes, and int 3.
Nop8 == <<\h0F, \h1F, \h84, 0, 0, 0, 0, 0>>
Fillers ==
    {<<\h90>>, <<\h66, \h90>>, <<\h0F, \h1F, 0>>, <<\h0F, \h1F, \h40, 0>>,
     <<\h0F, \h1F, \h44, 0, 0>>, <<\h66, \h0F, \h1F, \h44, 0, 0>>,
     <<\h0F, \h1F, \h80, 0, 0, 0, 0>>, Nop8, <<\h66>> \o Nop8, <<\h66, \h66>> \o Nop8,
     <<\h66, \h66, \h66>> \o Nop8, <<\hCC>>}
FillerAt(k) == {f \in Fillers : Cells(k, Len(f)) = f}

\* Mutant: the address of the rest is kept behind the jump.
JumpIndirectInline == <<\hFF, \h25, 0, 0, 0, 0, fn.at + src, 0, 0, 0, 0, 0, 0, 0>>

\* detour_gen_jmp_indirect (x64): through pbRemain.
JumpIndirect == <<\hFF, \h25, RemainOffset - (at + 6), 0, 0, 0>>
\* detour_gen_jmp_immediate (x86).
JumpImmediate == <<\hE9, WrapTo(fn.at + src - (place + at + 5), Half(4)), 0, 0, 0>>
JumpBack == IF fn.x64 THEN JumpIndirect ELSE JumpImmediate

\* memory[n..] := cells
Written(memory, n, cells) ==
    [k \in DOMAIN memory |-> IF k \in n..(n + Len(cells) - 1) THEN cells[k - n + 1] ELSE memory[k]]

----------------------------------------------------------------------------
\* The end of detour_alloc_trampoline: a sanity check, and the trampoline is
\* filled with int 3.
TakeTrampoline ==
    /\ pc = "found"
    /\ IF JumpBounds.lo <= place /\ place <= JumpBounds.hi
       THEN pc' = "copy" /\ tramp' = [n \in DOMAIN tramp |-> \hCC]
       ELSE pc' = "none" /\ UNCHANGED tramp
    /\ UNCHANGED <<fn, pass, pbTry, pv, refused, src, at, align, target, remain>>

\* An instruction is copied.  The loop ends when there is room for a jump, when
\* rAlign is full and when the function ends.
CopyInstruction ==
    /\ pc = "copy"
    /\ \E r \in DetourCopyInstruction(src) :
        /\ tramp' = Written(tramp, at, r.cells)
        /\ src' = src + r.length
        /\ at' = at + r.length + r.extra
        /\ align' = Append(align, [obTarget |-> src' % 8, obTrampoline |-> at' % 32])
        /\ target' = r.target
    /\ pc' = IF src' >= cbJump \/ Len(align') >= 8 \/ EndsFunction(src) THEN "pad" ELSE "copy"
    /\ UNCHANGED <<fn, pass, pbTry, pv, refused, remain>>

\* "Consume, but don't duplicate padding if it is needed and available."
Pad ==
    /\ pc = "pad" /\ src < cbJump
    /\ IF FillerAt(src) = {}
       THEN pc' = "small" /\ UNCHANGED src
       ELSE src' = src + Len(CHOOSE f \in FillerAt(src) : TRUE) /\ UNCHANGED pc
    /\ UNCHANGED <<fn, pass, pbTry, pv, refused, tramp, at, align, target, remain>>

\* What was copied is not larger than rbCode, and leaves room for the jump back
\* (for five bytes of it, whatever its size).
Finish ==
    /\ pc = "pad" /\ src >= cbJump
    /\ IF at > CodeSize THEN pc' = "break" /\ UNCHANGED <<tramp, remain>>
       ELSE IF src > CodeSize - cbJump THEN pc' = "many" /\ UNCHANGED <<tramp, remain>>
       ELSE /\ pc' = "done"
            /\ tramp' = Written(tramp, at, JumpBack \o [n \in 1..(CodeSize - at - Len(JumpBack)) |-> \hCC])
            /\ remain' = fn.at + src
    /\ UNCHANGED <<fn, pass, pbTry, pv, refused, src, at, align, target>>

Ended == pc \in {"none", "small", "break", "many", "done"} /\ UNCHANGED vars

Init ==
    /\ SearchInit
    /\ tramp = [n \in 0..47 |-> 0]
    /\ src = 0 /\ at = 0 /\ align = <<>> /\ target = NoTarget /\ remain = Null

Next ==
    \/ Search /\ UNCHANGED copyVars
    \/ TakeTrampoline
    \/ CopyInstruction
    \/ Pad
    \/ Finish
    \/ Ended

\* DetourAttachEx runs to its end.
Spec == Init /\ [][Next]_vars /\ WF_vars(Next)

----------------------------------------------------------------------------
TypeOK ==
    /\ fn.x64 \in BOOLEAN /\ fn.at \in Nat /\ fn.code \in Seq(Int)
    /\ pc \in {"search", "found", "none", "copy", "pad", "small", "break", "many", "done"}
    /\ pass \in 1..(Len(Passes) + 1)
    /\ pbTry \in Nat \cup {Null} /\ pv \in Nat \cup {Null}
    /\ refused \in 0..fn.failures
    /\ tramp \in [0..47 -> Int]
    /\ src \in 0..30 /\ at \in 0..47
    /\ align \in Seq([obTarget : 0..7, obTrampoline : 0..31]) /\ Len(align) <= 8
    /\ target[1] \in {"none", "dynamic", "code", "at"}
    /\ remain \in Nat \cup {Null}

Source == [k \in 0..63 |-> Cell(k)]
\* Where the n-th instruction begins, in the function and in the trampoline, as
\* rAlign tells a suspended thread.
SourceOf(n) == IF n = 1 THEN 0 ELSE align[n - 1].obTarget
CopyOf(n) == IF n = 1 THEN 0 ELSE align[n - 1].obTrampoline

\* An instruction has just been copied.
Copied == pc \in {"copy", "pad"} /\ align # <<>>

\* What is copied are whole instructions: each ends where the processor ends it.
LengthRight ==
    Copied =>
        LET n == Len(align)
        IN  (SourceOf(n) + Decode(Source, SourceOf(n), fn.x64).len) % 8 = align[n].obTarget

\* A trampoline in use does what the overwritten instructions did, one after the
\* other, and then goes on behind them.
CopyMeansSame ==
    pc = "done" =>
        /\ \A n \in DOMAIN align :
            /\ Meaning(tramp, CopyOf(n), place, Space[fn.x64], fn.x64)
                 = Meaning(Source, SourceOf(n), fn.at, Space[fn.x64], fn.x64)
            /\ CopyOf(n) + Decode(tramp, CopyOf(n), fn.x64).len = align[n].obTrampoline
        /\ LET back == Meaning(tramp, at, place, Space[fn.x64], fn.x64)
           IN  IF fn.x64 THEN back.code[1] = \hFF /\ back.target = <<place + RemainOffset>>
               ELSE back.jump = "always" /\ back.target = <<remain>>

\* Nothing is written behind rbCode.
CopyFits == align # <<>> => \A n \in CodeSize..47 : tramp[n] = \hCC

\* The target that is reported for an instruction is where it branches to, and
\* data is not reported as code.
TargetReported ==
    Copied =>
        LET n == Len(align)
            d == Decode(Source, SourceOf(n), fn.x64)
            m == Meaning(Source, SourceOf(n), fn.at, Space[fn.x64], fn.x64)
        IN  IF BranchSize(d.map, d.op) > 0 THEN target = <<"code", m.target[1]>>
            ELSE target[1] # "code"

\* Memory that is found is used, unless it is beyond the bounds: for a function
\* that begins with a jump, at the two ends of the address space, or as far above
\* as is looked if the function is among the first bytes of its 64 KB.
UnreachableOnlyAtEdges ==
    pc = "none" /\ pv # Null =>
        \/ FirstJump # <<>>
        \/ pv < Slack
        \/ ~fn.x64 /\ pv >= Space[FALSE] - Slack
        \/ /\ pv = RoundDown(fn.at) + (2 * GB - Slack)
           /\ fn.at % RegionSize < 3 * TrampolineSize

\* Where the bytes are that a copy of the opcode at k looks up in the tables.
OpcodeAt(k) ==
    CASE Cell(k) = \h0F -> {k, k + 1}
      [] Cell(k) = \hC4 -> {k, k + 3}
      [] Cell(k) = \hC5 -> {k, k + 2}
      [] Cell(k) = \h62 -> {k, k + 4}
      [] OTHER          -> {k}

\* There is an instruction at k, behind at most four prefixes.
Readable(k) ==
    \E n \in 0..4 :
        /\ \A m \in 0..(n - 1) : Table[Cell(k + m)].copy \in PrefixCopies
        /\ Table[Cell(k + n)].copy \notin PrefixCopies
        /\ \A j \in OpcodeAt(k + n) : Cell(j) \in 0..255

\* What CodeCopyProofs supposes of the code that is overwritten.  None of its
\* instructions is a loop or a jrcxz whose target is out of reach (DetourAttachEx
\* goes back by three bytes for it), and no copy is longer than an instruction can
\* be.  Two short jumps that fill the first four bytes, and grow to twelve, are not
\* followed by one whose copy has more than twelve: it would leave less than six of
\* the 30 bytes for the jump back.
Plain ==
    pc = "copy" =>
        /\ Readable(src)
        /\ \A r \in DetourCopyInstruction(src) :
            /\ r.extra >= 0 /\ r.length + r.extra <= 15
            /\ src = 4 /\ at > 9 => r.length + r.extra <= 12

\* DetourAttachEx returns.
Terminates == <>(pc \in {"none", "small", "break", "many", "done"})
=============================================================================
