----------------------------- MODULE CopyTable -----------------------------
(***************************************************************************)
(* The opcode tables of Detours' instruction copier: for each opcode, what *)
(* copies it and how large it is.  The tables differ between the builds    *)
(* for x64 and for x86.                                                    *)
(***************************************************************************)
EXTENDS Integers

\* COPYENTRY: nFixedSize, nFixedSize16, nModOffset, nRelOffset, nFlagBits, pfCopy.
Entry(size, size16, mod, rel, flags) ==
    [size |-> size, size16 |-> size16, mod |-> mod, rel |-> rel, flags |-> flags,
     copy |-> "CopyBytes"]
\* ENTRY_DataIgnored.
Other(copy) == [Entry(0, 0, 0, 0, {}) EXCEPT !.copy = copy]

Bytes(n) == Entry(n, n, 0, 0, {})
BytesDynamic(n) == Entry(n, n, 0, 0, {"DYNAMIC"})
BytesMod == Entry(2, 2, 1, 0, {})
BytesModDynamic == Entry(2, 2, 1, 0, {"DYNAMIC"})
BytesMod1 == Entry(3, 3, 1, 0, {})
BytesModOperand == Entry(6, 4, 1, 0, {})
Bytes3Or5 == Entry(5, 3, 0, 0, {})
Bytes3Or5Dynamic == Entry(5, 3, 0, 0, {"DYNAMIC"})
Bytes5Or7Dynamic == Entry(7, 5, 0, 0, {"DYNAMIC"})
Bytes1Address(x64) == IF x64 THEN Entry(9, 5, 0, 0, {"ADDRESS"}) ELSE Entry(5, 3, 0, 0, {"ADDRESS"})
Bytes3Or5Rax(x64) == Entry(5, 3, 0, 0, IF x64 THEN {"RAX"} ELSE {})
Bytes3Or5Target(x64) == Entry(5, IF x64 THEN 5 ELSE 3, 0, 1, {})
Bytes2CantJump == Entry(2, 2, 0, 1, {"NOENLARGE"})
BytesXop(immediate) == Entry(5 + immediate, 5 + immediate, 4, 0, {})

\* Opcodes all of whose eight neighbours are the same instruction on other
\* operands: ADD, OR, ADC, SBB, AND, SUB, XOR, CMP.
Column(c) == {op \in 0..\h3F : op % 8 = c}
Only86(x64, entry) == IF x64 THEN Other("Invalid") ELSE entry

\* s_rceCopyTable, 00 to 5F.
CopyTableLow(x64) ==
    LET mod == Column(0) \cup Column(1) \cup Column(2) \cup Column(3)
        segment == {\h26, \h2E, \h36, \h3E}
        pushes == ((Column(6) \cup Column(7)) \ segment) \ {\h0F}
    IN  [op \in \h00..\h5F |->
            CASE op \in mod        -> BytesMod
              [] op \in Column(4)  -> Bytes(2)
              [] op \in Column(5)  -> Bytes3Or5
              [] op = \h0F         -> Other("Copy0F")
              [] op \in segment    -> Other("CopyBytesSegment")
              [] op \in pushes     -> Only86(x64, Bytes(1))
              [] op \in \h40..\h4F -> IF x64 THEN Other("CopyBytesRax") ELSE Bytes(1)
              [] op \in \h50..\h5F -> Bytes(1)]

\* s_rceCopyTable, 60 to BF.
CopyTableMiddle(x64) ==
    LET mod == {\h63} \cup (\h84..\h8E) IN
    [op \in \h60..\hBF |->
        CASE op \in {\h60, \h61}        -> Only86(x64, Bytes(1))
          [] op = \h62                  -> Other("CopyEvex")
          [] op \in {\h64, \h65}        -> Other("CopyBytesSegment")
          [] op = \h66                  -> Other("Copy66")
          [] op = \h67                  -> Other("Copy67")
          [] op \in {\h68, \hA9}        -> Bytes3Or5
          [] op \in {\h69, \h81}        -> BytesModOperand
          [] op \in {\h6A, \hA8}        -> Bytes(2)
          [] op \in {\h6B, \h80, \h83}  -> BytesMod1
          [] op \in \h70..\h7F          -> Other("CopyBytesJump")
          [] op = \h82                  -> Only86(x64, BytesMod1)
          [] op \in mod                 -> BytesMod
          [] op = \h8F                  -> Other("CopyXop")
          [] op = \h9A                  -> Only86(x64, Bytes5Or7Dynamic)
          [] op \in \hA0..\hA3          -> Bytes1Address(x64)
          [] op \in \hB0..\hB7          -> Bytes(2)
          [] op \in \hB8..\hBF          -> Bytes3Or5Rax(x64)
          [] OTHER                      -> Bytes(1)]

\* s_rceCopyTable, C0 to FF.
CopyTableHigh(x64) ==
    LET mod == (\hD0..\hD3) \cup (\hD8..\hDF) \cup {\hFE} IN
    [op \in \hC0..\hFF |->
        CASE op \in {\hC0, \hC1, \hC6}  -> BytesMod1
          [] op = \hC2                  -> Bytes(3)
          [] op = \hC4                  -> Other("CopyVex3")
          [] op = \hC5                  -> Other("CopyVex2")
          [] op = \hC7                  -> BytesModOperand
          [] op = \hC8                  -> Bytes(4)
          [] op = \hCA                  -> BytesDynamic(3)
          [] op \in {\hCB, \hCC, \hCF, \hF1} -> BytesDynamic(1)
          [] op = \hCD                  -> BytesDynamic(2)
          [] op = \hCE                  -> Only86(x64, BytesDynamic(1))
          [] op \in mod                 -> BytesMod
          [] op \in {\hD4, \hD5}        -> Only86(x64, Bytes(2))
          [] op = \hD6                  -> Other("Invalid")
          [] op \in \hE0..\hE3          -> Bytes2CantJump
          [] op \in \hE4..\hE7          -> Bytes(2)
          [] op \in {\hE8, \hE9}        -> Bytes3Or5Target(x64)
          [] op = \hEA                  -> Only86(x64, Bytes5Or7Dynamic)
          [] op = \hEB                  -> Other("CopyBytesJump")
          [] op = \hF0                  -> Other("CopyBytesPrefix")
          [] op = \hF2                  -> Other("CopyF2")
          [] op = \hF3                  -> Other("CopyF3")
          [] op = \hF6                  -> Other("CopyF6")
          [] op = \hF7                  -> Other("CopyF7")
          [] op = \hFF                  -> Other("CopyFF")
          [] OTHER                      -> Bytes(1)]

\* s_rceCopyTable0F, 00 to 7F.
CopyTable0FLow(x64) ==
    LET alone == {\h0B, \h0E, \h37, \h77} \cup (\h05..\h09) \cup (\h30..\h35)
        invalid == {\h04, \h0A, \h0C, \h25, \h27, \h36, \h39, \h7A, \h7B} \cup (\h3B..\h3F)
    IN  [op \in \h00..\h7F |->
            CASE op = \h00 /\ ~x64       -> Other("Copy0F00")
              [] op \in alone            -> Bytes(1)
              [] op \in {\h24, \h26}     -> Only86(x64, BytesMod)
              [] op \in invalid          -> Other("Invalid")
              [] op = \h0F               -> BytesMod1
              [] op = \h38               -> Entry(3, 3, 2, 0, {})
              [] op = \h3A               -> Entry(4, 4, 2, 0, {})
              [] op \in \h70..\h73       -> BytesMod1
              [] op = \h78               -> Other("Copy0F78")
              [] OTHER                   -> BytesMod]

\* s_rceCopyTable0F, 80 to FF.
CopyTable0FHigh(x64) ==
    LET alone == (\hA0..\hA2) \cup (\hA8..\hAA) \cup (\hC8..\hCF) IN
    [op \in \h80..\hFF |->
        CASE op \in \h80..\h8F           -> Bytes3Or5Target(x64)
          [] op \in alone                -> Bytes(1)
          [] op \in {\hA4, \hAC, \hBA, \hC2, \hC4, \hC5, \hC6} -> BytesMod1
          [] op = \hB8 /\ ~x64           -> Other("Copy0FB8")
          [] op \in {\hB9, \hFF}         -> Other("Invalid")
          [] OTHER                       -> BytesMod]

CopyTables == [x64 \in BOOLEAN |-> [op \in 0..255 |->
    IF op <= \h5F THEN CopyTableLow(x64)[op]
    ELSE IF op <= \hBF THEN CopyTableMiddle(x64)[op] ELSE CopyTableHigh(x64)[op]]]
CopyTables0F == [x64 \in BOOLEAN |-> [op \in 0..255 |->
    IF op <= \h7F THEN CopyTable0FLow(x64)[op] ELSE CopyTable0FHigh(x64)[op]]]

\* The flags of s_rbModRm.
SIB == 16
RIP == 32

\* s_rbModRm: the bytes that follow a ModR/M byte (NOTSIB), with SIB where the
\* SIB byte tells of four more.
ModRm(modrm) ==
    LET mod == modrm \div 64
        rm == modrm % 8
    IN  CASE mod = 0 /\ rm = 4 -> SIB + 1
          [] mod = 0 /\ rm = 5 -> RIP + 4
          [] mod = 1           -> IF rm = 4 THEN 2 ELSE 1
          [] mod = 2           -> IF rm = 4 THEN 5 ELSE 4
          [] OTHER             -> 0
=============================================================================
