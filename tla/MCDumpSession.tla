--------------------------- MODULE MCDumpSession ---------------------------
(***************************************************************************)
(* Small instances of DumpSession for TLC.                                 *)
(***************************************************************************)
EXTENDS DumpSession, TLC

CONSTANTS m1, m2, m3, m4, m5, f1, unboxing, instantiating

\* m1 is an instance method of a value type: its handle is an unboxing stub.
\* The handle of m3 is an instantiating stub.
MCWrapped == unboxing :> m1 @@ instantiating :> m3
MCMethodHandle ==
    [m \in Method |-> CASE m = m1 -> unboxing [] m = m3 -> instantiating [] OTHER -> m]

\* m1 has two local variables, the other methods none.
MCNumLocals == [d \in Desc |-> IF d = m1 THEN 2 ELSE 0]

\* The bodies in the file are empty, their code is put in place at run time,
\* but for m2's, which is as large as what the JIT sees, and m5's, which is
\* larger.
MCJitSize == [d \in Desc |-> 2]
MCDiskSize == [m \in Method |-> CASE m = m2 -> 2 [] m = m5 -> 3 [] OTHER -> 0]
=============================================================================
