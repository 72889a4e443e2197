--------------------------- MODULE DumpBodyProofs ---------------------------
(***************************************************************************)
(* Theorems about what compilations yield and what method bodies hold.     *)
(* That foreign code is left alone holds for every run; that every body    *)
(* is its own method's, with exactly its locals, holds as long as the      *)
(* runtime compiles no method of its own accord while it is the current    *)
(* one (Undisturbed), and so if it compiles none of the target (Quiet).    *)
(***************************************************************************)
EXTENDS DumpSessionProofs, FiniteSetTheorems

----------------------------------------------------------------------------
\* Facts about the top compilation, in the form the cases below need.

\* A step of a compilation is a step of a frame, which it rewrites or removes.
LEMMA StepOfTop ==
    ASSUME ControlInv, NEW t \in Thread, FrameStep(t)
    PROVE  /\ depth[t] > 0 /\ depth[t] \in Level
           /\ Top(t) \in Frame /\ Top(t) = frame[t][depth[t]]
           /\ Top(t).meth \in Desc /\ Top(t).pc # "idle"
           /\ UNCHANGED mainVars
           /\ UNCHANGED <<current, reader>>
  <1>1. depth[t] > 0
    BY DEF FrameStep, At, GetArgType, CompCompile, TestCurrent, KeepFakeCode,
           RealCompile, ImportPhase, GiveUp, CallCallback, SizeGuard, ReadVariables,
           ReadInstructions, ReadExceptionHandlers, ReturnFakeCode, Return
  <1>2. depth[t] \in Level /\ Top(t) \in Frame /\ Top(t) = frame[t][depth[t]]
    BY <1>1, TopType DEF ControlInv, Top
  <1>3. Top(t).meth \in Desc /\ Top(t).pc # "idle"
    BY <1>2 DEF ControlInv, StackOK, TypeOK
  <1>4. UNCHANGED mainVars /\ UNCHANGED <<current, reader>>
    BY DEF FrameStep, GetArgType, CompCompile, TestCurrent, KeepFakeCode,
           RealCompile, ImportPhase, GiveUp, CallCallback, SizeGuard, ReadVariables,
           ReadInstructions, ReadExceptionHandlers, ReturnFakeCode, Return,
           frameUnchanged, managedVars, nativeVars
  <1>. QED
    BY <1>1, <1>2, <1>3, <1>4

\* Where a step of a compilation that is not its last leads: the frame f that
\* replaces the top one.
Moved(t, f) ==
    /\ f \in Frame
    /\ SetTop(t, f)
    /\ depth' = depth
    /\ f.meth = Top(t).meth /\ f.stray = Top(t).stray
    /\ f.pc # "idle"
    /\ Top(t).pc = "locals" => Top(t).meth \notin Stub
    /\ f.pc \in PastTest =>
        Top(t).pc \in PastTest \/ (Top(t).pc = "recheck" /\ Top(t).meth = current)
    /\ f.pc = "return" => Top(t).pc \in PastTest \/ f.code = Top(t).meth
    /\ f.pc = "guard" => f.sig = [of |-> current, n |-> locals[current]]
    /\ f.pc = "vars" => Top(t).pc = "guard" /\ f.sig = Top(t).sig
    /\ f.pc = "locals" =>
        /\ Top(t).pc = "locals" /\ f.seen = Top(t).seen + 1
        /\ locals' = IF hooked /\ Top(t).meth = current
                     THEN [locals EXCEPT ![current] = @ + 1] ELSE locals
    /\ f.pc # "locals" =>
        /\ f.seen = Top(t).seen /\ locals' = locals
        /\ Top(t).pc = "locals" => Top(t).seen = NumLocals[Top(t).meth]
    /\ \/ body' = body
       \/ Top(t).pc = "vars" /\ body' = [body EXCEPT ![reader].sig = Top(t).sig]
       \/ Top(t).pc = "ins" /\ body' = [body EXCEPT ![reader].il = Top(t).meth]
       \/ Top(t).pc = "eh" /\ body' = [body EXCEPT ![reader].eh = Top(t).meth]

\* Every step of a compilation ends it or moves it on.
LEMMA FrameMoves ==
    ASSUME ControlInv, NEW t \in Thread, FrameStep(t)
    PROVE  \/ Pop(t) /\ locals' = locals /\ body' = body
           \/ \E f \in Frame : Moved(t, f)
  <1> USE DEF frameUnchanged, mainVars, managedVars, nativeVars
  <1>1. Top(t) \in Frame
    BY StepOfTop
  <1>2. CASE GetArgType(t)
    <2> DEFINE f == [Top(t) EXCEPT !.seen = Top(t).seen + 1]
    <2>1. Moved(t, f)
      BY <1>1, <1>2 DEF GetArgType, At, Moved, Frame, FramePC, PastTest
    <2>. QED
      BY <2>1 DEF Moved
  <1>3. CASE CompCompile(t)
    <2>1. PICK p \in {"real", "first", "recheck"} : Goto(t, p)
      BY <1>3 DEF CompCompile
    <2> DEFINE f == [Top(t) EXCEPT !.pc = p]
    <2>2. Moved(t, f)
      BY <1>1, <1>3, <2>1 DEF CompCompile, Goto, At, Moved, Frame, FramePC, PastTest
    <2>. QED
      BY <2>2 DEF Moved
  <1>4. CASE TestCurrent(t)
    <2>1. PICK p \in {"import", "real"} :
            Goto(t, p) /\ (p = "import" => current = Top(t).meth)
      BY <1>4 DEF TestCurrent
    <2> DEFINE f == [Top(t) EXCEPT !.pc = p]
    <2>2. Moved(t, f)
      BY <1>1, <1>4, <2>1 DEF TestCurrent, Goto, At, Moved, Frame, FramePC, PastTest
    <2>. QED
      BY <2>2 DEF Moved
  <1>5. CASE KeepFakeCode(t) \/ RealCompile(t)
    <2> DEFINE f == [Top(t) EXCEPT !.pc = "return", !.code = Top(t).meth]
    <2>1. Moved(t, f)
      BY <1>1, <1>5 DEF KeepFakeCode, RealCompile, At, Moved, Frame, FramePC, PastTest
    <2>. QED
      BY <2>1 DEF Moved
  <1>6. CASE CallCallback(t)
    <2> DEFINE f == [Top(t) EXCEPT !.pc = "guard",
                                   !.sig = [of |-> current, n |-> locals[current]]]
    <2>1. Top(t).pc = "sig" /\ current \in Desc
      <3>1. Top(t).pc = "sig"
        BY <1>6 DEF CallCallback, At
      <3>2. fakeCode # None
        BY <3>1, StepOfTop DEF ControlInv, HookPath, PastTest
      <3>. QED
        BY <3>1, <3>2 DEF ControlInv, ReaderOK, TypeOK
    <2>2. [of |-> current, n |-> locals[current]] \in Signature
      BY <2>1 DEF Signature, ControlInv, TypeOK
    <2>3. Moved(t, f)
      BY <1>1, <1>6, <2>1, <2>2 DEF CallCallback, Moved, Frame, FramePC, PastTest
    <2>. QED
      BY <2>3 DEF Moved
  <1>7. CASE ReturnFakeCode(t)
    <2> DEFINE f == [Top(t) EXCEPT !.pc = "return", !.code = fakeCode]
    <2>1. Moved(t, f)
      BY <1>1, <1>7 DEF ReturnFakeCode, At, Moved, Frame, FramePC, PastTest,
                        ControlInv, TypeOK
    <2>. QED
      BY <2>1 DEF Moved
  <1>8. CASE ImportPhase(t)
    <2> DEFINE f == [Top(t) EXCEPT !.pc = "sig"]
    <2>1. Moved(t, f)
      BY <1>1, <1>8 DEF ImportPhase, Goto, At, Moved, Frame, FramePC, PastTest
    <2>. QED
      BY <2>1 DEF Moved
  <1>9. CASE SizeGuard(t)
    <2>1. PICK p \in {"fake", "vars"} : Goto(t, p)
      BY <1>9 DEF SizeGuard
    <2> DEFINE f == [Top(t) EXCEPT !.pc = p]
    <2>2. Moved(t, f)
      BY <1>1, <1>9, <2>1 DEF SizeGuard, Goto, At, Moved, Frame, FramePC, PastTest
    <2>. QED
      BY <2>2 DEF Moved
  <1>10. CASE ReadVariables(t)
    <2> DEFINE f == [Top(t) EXCEPT !.pc = "ins"]
    <2>1. Moved(t, f)
      BY <1>1, <1>10 DEF ReadVariables, Goto, At, Moved, Frame, FramePC, PastTest
    <2>. QED
      BY <2>1 DEF Moved
  <1>11. CASE ReadInstructions(t)
    <2> DEFINE f == [Top(t) EXCEPT !.pc = "eh"]
    <2>1. Moved(t, f)
      BY <1>1, <1>11 DEF ReadInstructions, Goto, At, Moved, Frame, FramePC, PastTest
    <2>. QED
      BY <2>1 DEF Moved
  <1>12. CASE ReadExceptionHandlers(t)
    <2> DEFINE f == [Top(t) EXCEPT !.pc = "fake"]
    <2>1. Moved(t, f)
      BY <1>1, <1>12 DEF ReadExceptionHandlers, Goto, At, Moved, Frame, FramePC, PastTest
    <2>. QED
      BY <2>1 DEF Moved
  <1>13. CASE GiveUp(t) \/ Return(t)
    BY <1>13 DEF GiveUp, Return
  <1>. QED
    BY <1>2, <1>3, <1>4, <1>5, <1>6, <1>7, <1>8, <1>9, <1>10, <1>11, <1>12, <1>13
       DEF FrameStep

\* A handle unwraps to the method it was made for, or stays a stub.
LEMMA UnboxedReader ==
    ASSUME NEW m \in Method
    PROVE  GetUnboxedMethod(MethodHandle[m]) \in Stub \cup {m}
  <1>1. MethodHandle[m] = m \/ (MethodHandle[m] \in Stub /\ Wrapped[MethodHandle[m]] = m)
    BY HandleAssumption
  <1>2. m \notin Stub
    BY SetAssumption
  <1>3. GetUnboxedMethod(MethodHandle[m]) \in {MethodHandle[m], Wrapped[MethodHandle[m]]}
    BY DEF GetUnboxedMethod
  <1>4. MethodHandle[m] = m => GetUnboxedMethod(MethodHandle[m]) = m
    BY <1>2 DEF GetUnboxedMethod
  <1>. QED
    BY <1>1, <1>3, <1>4

\* What a step of the main thread does to the state it shares with the
\* compilations: it leaves the stacks alone, goes to the next method, or
\* starts compiling a method it has made current.
LEMMA MainMoves ==
    ASSUME ControlInv, MainStep
    PROVE  /\ depth[Main] = 0
           /\ locals' = locals /\ body' = body
           /\ \/ /\ UNCHANGED <<frame, depth, current, reader, remaining>>
                 /\ pc' # "call"
              \/ \E m \in Method : NextMethod(m)
              \/ \E d \in Desc :
                    /\ Push(Main, Compiling(d, FALSE))
                    /\ current' = d
                    /\ UNCHANGED <<reader, remaining, hooked>>
                    /\ \/ pc' = "primed" /\ d = Useless
                       \/ pc = "call" /\ pc' = "next" /\ d \in Stub \cup {reader} /\ reader \in Method
  <1> USE DEF mainVars, managedVars, nativeVars, stackVars
  <1>1. CASE CreateCompiler \/ InitialiseOffsets \/ ApplyHooks \/ HookAdded
                \/ CompileNothing \/ ResolveFails \/ Save
    BY <1>1 DEF CreateCompiler, InitialiseOffsets, ApplyHooks, HookAdded, AddHookReturns,
                CompileNothing, ResolveFails, Save, MainAt
  <1>2. CASE \E m \in Method : NextMethod(m)
    BY <1>2 DEF NextMethod, MainAt
  <1>3. CASE Prime
    BY <1>3 DEF Prime, MainAt, Desc
  <1>4. CASE CompileMethod
    <2>1. reader \in Method /\ depth[Main] = 0
      BY <1>4 DEF CompileMethod, MainAt, ControlInv, ReaderOK, TypeOK
    <2>2. /\ GetUnboxedMethod(MethodHandle[reader]) \in Desc
          /\ GetUnboxedMethod(MethodHandle[reader]) \in Stub \cup {reader}
      BY <2>1, UnboxedReader DEF Desc
    <2>. QED
      BY <1>4, <2>1, <2>2 DEF CompileMethod, MainAt
  <1>. QED
    BY <1>1, <1>2, <1>3, <1>4 DEF MainStep

\* The frames after a step that pushes, moves on or ends a compilation.
LEMMA FramesAfterPush ==
    ASSUME ControlInv, NEW t \in Thread, NEW f \in Frame, Push(t, f)
    PROVE  /\ depth[t] + 1 \in Level
           /\ \A u \in Thread : depth'[u] = IF u = t THEN depth[t] + 1 ELSE depth[u]
           /\ \A u \in Thread, l \in Level :
                frame'[u][l] = IF u = t /\ l = depth[t] + 1 THEN f ELSE frame[u][l]
  BY PushType DEF ControlInv

\* A compilation at its start.
LEMMA StrayFrame ==
    ASSUME NEW d \in Desc
    PROVE  LET f == Compiling(d, TRUE)
           IN  f \in Frame /\ f.meth = d /\ f.pc = "locals" /\ f.stray /\ f.seen = 0
  BY DEF Compiling, NoFrame, Frame, FramePC, Signature, NoSignature

LEMMA OwnedFrame ==
    ASSUME NEW d \in Desc
    PROVE  LET f == Compiling(d, FALSE)
           IN  f \in Frame /\ f.meth = d /\ f.pc = "locals" /\ ~f.stray /\ f.seen = 0
  BY DEF Compiling, NoFrame, Frame, FramePC, Signature, NoSignature

LEMMA FramesAfterMove ==
    ASSUME ControlInv, NEW t \in Thread, FrameStep(t), NEW f \in Frame, Moved(t, f)
    PROVE  \A u \in Thread, l \in Level :
                frame'[u][l] = IF u = t /\ l = depth[t] THEN f ELSE frame[u][l]
  BY StepOfTop, SetTopType DEF ControlInv, Moved

LEMMA FramesAfterPop ==
    ASSUME ControlInv, NEW t \in Thread, FrameStep(t), Pop(t)
    PROVE  /\ \A u \in Thread : depth'[u] = IF u = t THEN depth[t] - 1 ELSE depth[u]
           /\ \A u \in Thread, l \in Level :
                frame'[u][l] = IF u = t /\ l = depth[t] THEN NoFrame ELSE frame[u][l]
  BY StepOfTop, PopType DEF ControlInv

\* The empty frame is outside every case of the invariants.
LEMMA Empty ==
    /\ NoFrame.meth = None /\ NoFrame.pc = "idle" /\ ~NoFrame.stray
    /\ None \notin Desc
  BY SetAssumption DEF NoFrame

----------------------------------------------------------------------------
\* Foreign code.

\* The garbage collector touches neither compilations nor bodies.
LEMMA CollectionKeeps ==
    ASSUME CollectDelegate \/ \E t \in Thread : CallCollected(t)
    PROVE  /\ UNCHANGED <<remaining, hooked, reader, body, current, fakeCode, locals,
                          depth, frame>>
           /\ pc' = pc \/ pc' = "crashed"
  BY DEF CollectDelegate, CallCollected, mainVars, managedVars, nativeVars, stackVars

LEMMA ForeignStep == ControlInv /\ ForeignInv /\ [Next]_vars => ForeignInv'
  <1> SUFFICES ASSUME ControlInv, ForeignInv, [Next]_vars PROVE ForeignInv'
    OBVIOUS
  <1>0. Main \in Thread /\ Foreign \subseteq Desc /\ None \notin Foreign
    BY Empty DEF Thread, Desc
  <1>1. CASE MainStep
    <2>1. CASE UNCHANGED <<frame, current>>
      BY <2>1 DEF ForeignInv
    <2>2. CASE \E m \in Method : NextMethod(m)
      BY <2>2 DEF NextMethod, ForeignInv, nativeVars, stackVars
    <2>3. ASSUME NEW d \in Desc, Push(Main, Compiling(d, FALSE)), current' = d,
                 d \in Stub \cup Method \cup {Useless}
          PROVE  ForeignInv'
      <3> DEFINE f == Compiling(d, FALSE)
      <3>1. d \notin Foreign
        BY <2>3, SetAssumption
      <3>2. f \in Frame /\ f.meth = d /\ Push(Main, f)
        BY <2>3, OwnedFrame
      <3> HIDE DEF f
      <3>3. \A u \in Thread, l \in Level :
                frame'[u][l] = IF u = Main /\ l = depth[Main] + 1 THEN f ELSE frame[u][l]
        BY <1>0, <3>2, FramesAfterPush
      <3>. QED
        BY <2>3, <3>1, <3>2, <3>3 DEF ForeignInv
    <2>. QED
      BY <1>1, <2>1, <2>2, <2>3, MainMoves
  <1>2. ASSUME NEW t \in Thread, FrameStep(t) PROVE ForeignInv'
    <2>1. UNCHANGED current
      BY <1>2, StepOfTop
    <2>2. CASE Pop(t)
      BY <1>0, <1>2, <2>1, <2>2, FramesAfterPop, Empty DEF ForeignInv
    <2>3. ASSUME NEW f \in Frame, Moved(t, f) PROVE ForeignInv'
      <3>1. f.meth \in Foreign => f.pc \notin PastTest /\ (f.pc = "return" => f.code = f.meth)
        BY <1>2, <2>3, StepOfTop DEF ForeignInv, Moved
      <3>. QED
        BY <1>2, <2>1, <2>3, <3>1, FramesAfterMove DEF ForeignInv
    <2>. QED
      BY <1>2, <2>2, <2>3, FrameMoves
  <1>3. ASSUME NEW t \in Thread, NEW d \in Stray, StrayCompile(t, d) PROVE ForeignInv'
    <2>1. d \in Desc
      BY SetAssumption DEF Desc
    <2> DEFINE f == Compiling(d, TRUE)
    <2>2. Push(t, f) /\ UNCHANGED current
      BY <1>3 DEF StrayCompile, nativeVars
    <2>3. /\ f.pc = "locals"
          /\ \A u \in Thread, l \in Level :
                frame'[u][l] = IF u = t /\ l = depth[t] + 1 THEN f ELSE frame[u][l]
      BY <1>3, <2>1, <2>2, StrayFrame, FramesAfterPush
    <2> HIDE DEF f
    <2>. QED
      BY <2>2, <2>3 DEF ForeignInv, PastTest
  <1>4. CASE UNCHANGED vars
    BY <1>4 DEF vars, stackVars, nativeVars, ForeignInv
  <1>5. CASE CollectDelegate \/ \E t \in Thread : CallCollected(t)
    BY <1>5, CollectionKeeps DEF ForeignInv
  <1>. QED
    BY <1>1, <1>2, <1>3, <1>4, <1>5 DEF Next, Done

\* Whatever the dumper does, a compilation of a method outside the target
\* module yields that method's own code.
THEOREM ForeignIntact == Spec => []ForeignCodeIntact
  <1>1. Init => ForeignInv
    <2> SUFFICES ASSUME Init PROVE ForeignInv
      OBVIOUS
    <2>1. current = None /\ \A t \in Thread, l \in Level : frame[t][l] = NoFrame
      BY DEF Init
    <2>. QED
      BY <2>1, Empty DEF ForeignInv, Desc
  <1>2. ControlInv /\ ForeignInv => ForeignCodeIntact
    BY TopType DEF ControlInv, ForeignInv, ForeignCodeIntact, At, Top
  <1>. QED
    BY <1>1, <1>2, ForeignStep, ControlInvariant, PTL DEF Spec

----------------------------------------------------------------------------
\* Bodies, if the dumper owns the target's compilations.

Owned == ControlInv /\ UndisturbedInv

\* While the main thread has no compilation, compile_method has none at all.
LEMMA NoneOwned ==
    ASSUME Owned, depth[Main] = 0
    PROVE  /\ \A t \in Thread, l \in Level : l <= depth[t] => frame[t][l].stray
           /\ \A t \in Thread, l \in Level : frame[t][l].meth \in Desc => frame[t][l].stray
  <1>1. \A t \in Thread, l \in Level : l <= depth[t] => frame[t][l].stray
    BY DEF Owned, UndisturbedInv, SoloFrame
  <1>2. \A t \in Thread, l \in Level : frame[t][l].meth \in Desc => l <= depth[t]
    BY Empty DEF Owned, ControlInv, StackOK
  <1>. QED
    BY <1>1, <1>2

\* A compilation on the dumper's path is that of the reader's method.
LEMMA PathOfReader ==
    ASSUME Owned, NEW t \in Thread, NEW l \in Level, frame[t][l].pc \in PastTest
    PROVE  /\ ~frame[t][l].stray
           /\ frame[t][l].meth = reader /\ reader = current /\ reader \in Method
  <1>1. l <= depth[t]
    BY Empty DEF Owned, ControlInv, StackOK, PastTest
  <1>2. ~frame[t][l].stray /\ frame[t][l].meth \notin Stub
    BY DEF Owned, UndisturbedInv, OwnFrame, PastTest
  <1>3. frame[t][l].meth # Useless
    BY DEF Owned, ControlInv, UselessOnce, PastTest
  <1>4. frame[t][l].meth = reader /\ frame[t][l].meth = current
    BY <1>1, <1>2, <1>3 DEF Owned, UndisturbedInv, SoloFrame
  <1>5. reader \in Method
    BY DEF Owned, ControlInv, ReaderOK, TypeOK
  <1>. QED
    BY <1>2, <1>4, <1>5

\* What compile_method compiles stays alone, and only that gets to the callback.
LEMMA SoloStep ==
    ASSUME Undisturbed, Owned, [Next]_vars
    PROVE  SoloFrame' /\ OwnFrame'
  <1>0. Main \in Thread /\ 1 \in Level
    BY BoundAssumption DEF Thread, Level
  <1>1. CASE MainStep
    <2>0. /\ depth[Main] = 0
          /\ \A t \in Thread, l \in Level : l <= depth[t] => frame[t][l].stray
      BY <1>1, MainMoves, NoneOwned DEF Owned
    <2>1. CASE UNCHANGED <<frame, depth, current, reader>>
      BY <2>0, <2>1 DEF Owned, UndisturbedInv, SoloFrame, OwnFrame
    <2>2. CASE \E m \in Method : NextMethod(m)
      BY <2>0, <2>2 DEF NextMethod, stackVars, nativeVars, Owned, UndisturbedInv, SoloFrame, OwnFrame
    <2>3. ASSUME NEW d \in Desc, Push(Main, Compiling(d, FALSE)), current' = d,
                 UNCHANGED reader, pc' # "call", d \in Stub \cup {Useless, reader}
          PROVE  SoloFrame' /\ OwnFrame'
      <3> DEFINE f == Compiling(d, FALSE)
      <3>1. f \in Frame /\ f.meth = d /\ ~f.stray /\ f.pc = "locals" /\ Push(Main, f)
        BY <2>3, OwnedFrame
      <3> HIDE DEF f
      <3>2. /\ \A u \in Thread : depth'[u] = IF u = Main THEN 1 ELSE depth[u]
            /\ \A u \in Thread, l \in Level :
                  frame'[u][l] = IF u = Main /\ l = 1 THEN f ELSE frame[u][l]
        BY <1>0, <2>0, <3>1, FramesAfterPush DEF Owned
      <3>3. SoloFrame'
        BY <2>0, <2>3, <3>1, <3>2 DEF SoloFrame, Level
      <3>4. OwnFrame'
        BY <2>3, <3>1, <3>2 DEF Owned, UndisturbedInv, OwnFrame, PastTest
      <3>. QED
        BY <3>3, <3>4
    <2>. QED
      BY <1>1, <2>1, <2>2, <2>3, MainMoves DEF Owned
  <1>2. ASSUME NEW t \in Thread, FrameStep(t) PROVE SoloFrame' /\ OwnFrame'
    <2>0. /\ UNCHANGED <<pc, current, reader>>
          /\ depth[t] \in Level /\ Top(t) = frame[t][depth[t]]
      BY <1>2, StepOfTop DEF Owned, mainVars
    <2>1. CASE Pop(t)
      <3>1. /\ \A u \in Thread : depth'[u] = IF u = t THEN depth[t] - 1 ELSE depth[u]
            /\ \A u \in Thread, l \in Level :
                  frame'[u][l] = IF u = t /\ l = depth[t] THEN NoFrame ELSE frame[u][l]
        BY <1>2, <2>1, FramesAfterPop DEF Owned
      <3>2. SoloFrame'
        BY <2>0, <3>1 DEF Owned, UndisturbedInv, SoloFrame, Level
      <3>3. OwnFrame'
        BY <3>1, Empty, SetAssumption DEF Owned, UndisturbedInv, OwnFrame, PastTest, Desc
      <3>. QED
        BY <3>2, <3>3
    <2>2. ASSUME NEW f \in Frame, Moved(t, f) PROVE SoloFrame' /\ OwnFrame'
      <3>1. /\ depth' = depth
            /\ \A u \in Thread, l \in Level :
                  frame'[u][l] = IF u = t /\ l = depth[t] THEN f ELSE frame[u][l]
        BY <1>2, <2>2, FramesAfterMove DEF Owned, Moved
      <3>2. f.meth = Top(t).meth /\ f.stray = Top(t).stray
        BY <2>2 DEF Moved
      <3>3. SoloFrame'
        BY <2>0, <3>1, <3>2 DEF Owned, UndisturbedInv, SoloFrame
      <3>4. f.pc \in PastTest => ~f.stray
        BY <2>0, <2>2, <3>2 DEF Moved, Owned, UndisturbedInv, OwnFrame, Undisturbed
      <3>5. f.meth \in Stub => FALSE
        BY <2>0, <2>2, <3>2 DEF Moved, Owned, UndisturbedInv, OwnFrame
      <3>6. f.pc \in {"guard", "vars"} => f.sig.of = f.meth
        <4>1. CASE f.pc = "guard"
          <5>1. depth[t] <= depth[t]
            BY <2>0 DEF Level
          <5>2. f.meth = current
            BY <2>0, <3>2, <3>4, <4>1, <5>1 DEF PastTest, Owned, UndisturbedInv, SoloFrame
          <5>. QED
            BY <2>2, <4>1, <5>2 DEF Moved
        <4>2. CASE f.pc = "vars"
          BY <2>0, <2>2, <4>2 DEF Moved, Owned, UndisturbedInv, OwnFrame
        <4>. QED
          BY <4>1, <4>2
      <3>7. OwnFrame'
        BY <2>0, <3>1, <3>2, <3>4, <3>5, <3>6 DEF Owned, UndisturbedInv, OwnFrame
      <3>. QED
        BY <3>3, <3>7
    <2>. QED
      BY <1>2, <2>1, <2>2, FrameMoves DEF Owned
  <1>3. ASSUME NEW t \in Thread, NEW d \in Stray, StrayCompile(t, d)
        PROVE  SoloFrame' /\ OwnFrame'
    <2> DEFINE f == Compiling(d, TRUE)
    <2>1. d \in Desc /\ d \notin Stub
      BY SetAssumption DEF Desc
    <2>2. Push(t, f) /\ UNCHANGED <<pc, current, reader>>
      BY <1>3 DEF StrayCompile, nativeVars, mainVars, managedVars
    <2>3. f \in Frame /\ f.meth = d /\ f.pc = "locals" /\ f.stray
      BY <2>1, StrayFrame
    <2> HIDE DEF f
    <2>4. /\ \A u \in Thread : depth'[u] = IF u = t THEN depth[t] + 1 ELSE depth[u]
          /\ \A u \in Thread, l \in Level :
                frame'[u][l] = IF u = t /\ l = depth[t] + 1 THEN f ELSE frame[u][l]
      BY <1>3, <2>2, <2>3, FramesAfterPush DEF Owned
    <2>5. SoloFrame'
      <3>1. depth \in [Thread -> 0..MaxDepth]
        BY DEF Owned, ControlInv, TypeOK
      <3>. QED
        BY <2>2, <2>3, <2>4, <3>1 DEF Owned, UndisturbedInv, SoloFrame, Level
    <2>6. OwnFrame'
      BY <2>1, <2>2, <2>3, <2>4 DEF Owned, UndisturbedInv, OwnFrame, PastTest
    <2>. QED
      BY <2>5, <2>6
  <1>4. CASE UNCHANGED vars
    BY <1>4 DEF vars, mainVars, managedVars, stackVars, nativeVars, Owned, UndisturbedInv,
                SoloFrame, OwnFrame
  <1>5. CASE CollectDelegate \/ \E t \in Thread : CallCollected(t)
    BY <1>5, CollectionKeeps DEF Owned, UndisturbedInv, SoloFrame, OwnFrame
  <1>. QED
    BY <1>1, <1>2, <1>3, <1>4, <1>5 DEF Next, Done

\* The locals collected for a method are those its one compilation reported.
LEMMA FreshStep ==
    ASSUME Undisturbed, Owned, [Next]_vars
    PROVE  FreshLocals'
  <1>0. /\ Main \in Thread /\ 1 \in Level /\ Method \subseteq Desc
        /\ Useless \notin Method /\ Stub \cap Method = {} /\ Foreign \cap Method = {}
        /\ None \notin Method
    BY BoundAssumption, SetAssumption DEF Thread, Level, Desc
  <1>1. CASE MainStep
    <2>0. /\ depth[Main] = 0 /\ locals' = locals
          /\ \A t \in Thread, l \in Level : frame[t][l].meth \in Method => frame[t][l].stray
      BY <1>0, <1>1, MainMoves, NoneOwned DEF Owned
    <2>1. ASSUME UNCHANGED <<frame, depth, current, reader, remaining>>, pc' # "call"
          PROVE  FreshLocals'
      BY <2>0, <2>1 DEF Owned, UndisturbedInv, FreshLocals
    <2>2. ASSUME NEW m \in Method, NextMethod(m) PROVE FreshLocals'
      <3>1. /\ m \in remaining /\ remaining' = remaining \ {m} /\ reader' = m
            /\ pc = "next" /\ pc' = "call" /\ hooked' = hooked /\ frame' = frame
        BY <2>2 DEF NextMethod, MainAt, stackVars
      <3>. QED
        BY <2>0, <3>1 DEF Owned, UndisturbedInv, FreshLocals
    <2>3. ASSUME NEW d \in Desc, Push(Main, Compiling(d, FALSE)),
                 UNCHANGED <<reader, remaining, hooked>>,
                 \/ pc' = "primed" /\ d = Useless
                 \/ pc = "call" /\ pc' = "next" /\ d \in Stub \cup {reader} /\ reader \in Method
          PROVE  FreshLocals'
      <3> DEFINE f == Compiling(d, FALSE)
      <3>1. /\ f \in Frame /\ f.meth = d /\ f.pc = "locals" /\ f.seen = 0 /\ Push(Main, f)
        BY <2>3, OwnedFrame
      <3> HIDE DEF f
      <3>2. \A u \in Thread, l \in Level :
                  frame'[u][l] = IF u = Main /\ l = 1 THEN f ELSE frame[u][l]
        BY <1>0, <2>0, <3>1, FramesAfterPush DEF Owned
      <3>3. d \in Method => d = reader /\ pc = "call" /\ pc' = "next" /\ locals[d] = 0
        BY <1>0, <2>3 DEF Owned, UndisturbedInv, FreshLocals
      <3>4. \A u \in Thread, l \in Level :
                frame'[u][l].meth \in Method /\ ~frame'[u][l].stray =>
                    frame'[u][l] = f
        BY <2>0, <3>2
      <3>. QED
        BY <2>0, <2>3, <3>1, <3>3, <3>4 DEF Owned, UndisturbedInv, FreshLocals
    <2>. QED
      BY <1>1, <2>1, <2>2, <2>3, MainMoves DEF Owned
  <1>2. ASSUME NEW t \in Thread, FrameStep(t) PROVE FreshLocals'
    <2>0. /\ UNCHANGED <<pc, hooked, remaining, current, reader>>
          /\ depth[t] \in Level /\ Top(t) = frame[t][depth[t]] /\ Top(t).meth \in Desc
      BY <1>2, StepOfTop DEF Owned, mainVars
    <2>1. CASE Pop(t) /\ locals' = locals
      <3>1. \A u \in Thread, l \in Level :
                  frame'[u][l] = IF u = t /\ l = depth[t] THEN NoFrame ELSE frame[u][l]
        BY <1>2, <2>1, FramesAfterPop DEF Owned
      <3>2. NoFrame.meth \notin Method
        BY <1>0, Empty
      <3>. QED
        BY <2>0, <2>1, <3>1, <3>2 DEF Owned, UndisturbedInv, FreshLocals
    <2>2. ASSUME NEW f \in Frame, Moved(t, f) PROVE FreshLocals'
      <3>1. \A u \in Thread, l \in Level :
                  frame'[u][l] = IF u = t /\ l = depth[t] THEN f ELSE frame[u][l]
        BY <1>2, <2>2, FramesAfterMove DEF Owned
      <3>0. pc \notin Ended
        BY <1>2 DEF FrameStep
      <3>2. f.meth = Top(t).meth /\ f.stray = Top(t).stray
        BY <2>2 DEF Moved
      <3>3. ASSUME ~Top(t).stray
            PROVE  /\ t = Main /\ depth[t] = 1 /\ pc # "call" /\ Top(t).meth = current
                   /\ Top(t).meth \in Stub \cup {Useless, reader}
        <4>1. depth[t] <= depth[t]
          BY <2>0 DEF Level
        <4>. QED
          BY <2>0, <3>3, <4>1 DEF Owned, UndisturbedInv, SoloFrame
      <3>4. Top(t).stray /\ Top(t).pc = "locals" => Top(t).meth # current
        BY <2>0 DEF Undisturbed
      <3>5. ASSUME NEW u \in Thread, NEW l \in Level, ~(u = t /\ l = depth[t]),
                   frame[u][l].meth \in Method, ~frame[u][l].stray
            PROVE  locals' = locals
        <4>1. u = Main /\ l = 1
          <5>1. l <= depth[u]
            BY <1>0, <3>5, Empty DEF Owned, ControlInv, StackOK
          <5>. QED
            BY <3>5, <5>1 DEF Owned, UndisturbedInv, SoloFrame
        <4>2. Top(t).stray
          BY <3>3, <3>5, <4>1
        <4>. QED
          BY <2>2, <3>4, <4>2 DEF Moved
      <3>6. \A m \in Method :
                m \in remaining \/ (pc = "call" /\ m = reader) => locals'[m] = 0
        <4> SUFFICES ASSUME NEW m \in Method, m \in remaining \/ (pc = "call" /\ m = reader)
                     PROVE  locals'[m] = 0
          OBVIOUS
        <4>1. locals[m] = 0 /\ reader \notin remaining
          BY DEF Owned, UndisturbedInv, FreshLocals
        <4>2. CASE locals' = locals
          BY <4>1, <4>2
        <4>3. CASE locals' # locals
          <5>1. /\ Top(t).meth = current /\ Top(t).pc = "locals" /\ Top(t).meth \notin Stub
                /\ locals' = [locals EXCEPT ![current] = @ + 1]
            BY <2>2, <4>3 DEF Moved
          <5>2. current \in {Useless, reader} /\ pc # "call"
            BY <3>3, <3>4, <5>1
          <5>3. m # current
            BY <1>0, <4>1, <5>2
          <5>. QED
            BY <1>0, <4>1, <5>1, <5>3 DEF Owned, ControlInv, TypeOK
        <4>. QED
          BY <4>2, <4>3
      <3>7. ASSUME f.meth \in Method, ~f.stray
            PROVE  /\ pc = "next"
                   /\ hooked => locals'[f.meth] = f.seen
                   /\ f.pc # "locals" => f.seen = NumLocals[f.meth]
                   /\ f.pc \in {"guard", "vars"} => f.sig.n = NumLocals[f.meth]
        <4>1. /\ pc = "next"
              /\ hooked => locals[f.meth] = Top(t).seen
              /\ Top(t).pc # "locals" => Top(t).seen = NumLocals[f.meth]
              /\ Top(t).pc \in {"guard", "vars"} => Top(t).sig.n = NumLocals[f.meth]
          BY <2>0, <3>0, <3>2, <3>7 DEF Owned, UndisturbedInv, FreshLocals
        <4>2. f.meth = current
          BY <3>2, <3>3, <3>7
        <4>3. CASE f.pc = "locals"
          <5>1. /\ f.seen = Top(t).seen + 1
                /\ hooked => locals' = [locals EXCEPT ![current] = @ + 1]
            BY <2>2, <3>2, <4>2, <4>3 DEF Moved
          <5>. QED
            BY <1>0, <3>7, <4>1, <4>2, <4>3, <5>1 DEF Owned, ControlInv, TypeOK
        <4>4. CASE f.pc # "locals"
          <5>1. f.seen = Top(t).seen /\ locals' = locals /\ f.seen = NumLocals[f.meth]
            BY <2>2, <3>2, <4>1, <4>4 DEF Moved
          <5>2. f.pc = "guard" => hooked /\ f.sig.n = locals[current]
            <6>1. f.pc = "guard" => Top(t).pc \in PastTest \cup {"recheck"}
              BY <2>2 DEF Moved, PastTest
            <6>2. Top(t).pc \in PastTest \cup {"recheck"} => hooked
              BY <2>0 DEF Owned, ControlInv, HookPath
            <6>. QED
              BY <2>2, <6>1, <6>2 DEF Moved
          <5>3. f.pc = "vars" => f.sig.n = NumLocals[f.meth]
            BY <2>2, <4>1 DEF Moved
          <5>. QED
            BY <4>1, <4>2, <4>4, <5>1, <5>2, <5>3
        <4>. QED
          BY <4>3, <4>4
      <3>8. ASSUME NEW u \in Thread, NEW l \in Level,
                   frame'[u][l].meth \in Method, ~frame'[u][l].stray
            PROVE  /\ pc = "next"
                   /\ hooked => locals'[frame'[u][l].meth] = frame'[u][l].seen
                   /\ frame'[u][l].pc # "locals" =>
                        frame'[u][l].seen = NumLocals[frame'[u][l].meth]
                   /\ frame'[u][l].pc \in {"guard", "vars"} =>
                        frame'[u][l].sig.n = NumLocals[frame'[u][l].meth]
        <4>1. CASE u = t /\ l = depth[t]
          BY <3>1, <3>7, <3>8, <4>1
        <4>2. CASE ~(u = t /\ l = depth[t])
          BY <3>0, <3>1, <3>5, <3>8, <4>2 DEF Owned, UndisturbedInv, FreshLocals
        <4>. QED
          BY <4>1, <4>2
      <3>9. reader' \notin remaining'
        BY <2>0 DEF Owned, UndisturbedInv, FreshLocals
      <3>. QED
        BY <2>0, <3>6, <3>8, <3>9 DEF FreshLocals
    <2>. QED
      BY <1>2, <2>1, <2>2, FrameMoves DEF Owned
  <1>3. ASSUME NEW t \in Thread, NEW d \in Stray, StrayCompile(t, d) PROVE FreshLocals'
    <2> DEFINE f == Compiling(d, TRUE)
    <2>1. d \in Desc
      BY SetAssumption DEF Desc
    <2>2. Push(t, f) /\ UNCHANGED <<pc, hooked, remaining, reader, locals>>
      BY <1>3 DEF StrayCompile, nativeVars, mainVars, managedVars
    <2>3. f \in Frame /\ f.stray
      BY <2>1, StrayFrame
    <2> HIDE DEF f
    <2>4. \A u \in Thread, l \in Level :
                frame'[u][l] = IF u = t /\ l = depth[t] + 1 THEN f ELSE frame[u][l]
      BY <1>3, <2>2, <2>3, FramesAfterPush DEF Owned
    <2>. QED
      BY <2>2, <2>3, <2>4 DEF Owned, UndisturbedInv, FreshLocals
  <1>4. CASE UNCHANGED vars
    BY <1>4 DEF vars, mainVars, managedVars, stackVars, nativeVars, Owned, UndisturbedInv, FreshLocals
  <1>5. CASE CollectDelegate \/ \E t \in Thread : CallCollected(t)
    BY <1>5, CollectionKeeps DEF Owned, UndisturbedInv, FreshLocals, Ended
  <1>. QED
    BY <1>1, <1>2, <1>3, <1>4, <1>5 DEF Next, Done

\* The callback fills the body of its own method.
LEMMA BodyStep ==
    ASSUME Owned, [Next]_vars
    PROVE  OwnBody' /\ LocalsExact'
  <1>1. CASE body' = body
    BY <1>1 DEF Owned, UndisturbedInv, OwnBody, LocalsExact
  <1>2. ASSUME NEW t \in Thread, FrameStep(t), body' # body
        PROVE  OwnBody' /\ LocalsExact'
    <2>1. /\ depth[t] \in Level /\ Top(t) = frame[t][depth[t]]
      BY <1>2, StepOfTop DEF Owned
    <2>2. PICK f \in Frame : Moved(t, f)
      BY <1>2, FrameMoves DEF Owned
    <2>3. Top(t).pc \in {"vars", "ins", "eh"}
      BY <1>2, <2>2 DEF Moved
    <2>4. Top(t).meth = reader /\ ~Top(t).stray /\ reader \in Method
      BY <2>1, <2>3, PathOfReader DEF PastTest
    <2>5. Top(t).pc = "vars" => Top(t).sig.of = reader /\ Top(t).sig.n = NumLocals[reader]
      BY <2>1, <2>4 DEF Owned, UndisturbedInv, OwnFrame, FreshLocals
    <2>6. body \in [Method -> Body]
      BY DEF Owned, ControlInv, TypeOK
    <2>7. \/ Top(t).pc = "vars" /\ body' = [body EXCEPT ![reader].sig = Top(t).sig]
          \/ body' = [body EXCEPT ![reader].il = reader]
          \/ body' = [body EXCEPT ![reader].eh = reader]
      BY <1>2, <2>2, <2>4 DEF Moved
    <2>8. \A m \in Method :
            /\ body'[m].sig = body[m].sig \/ (m = reader /\ Top(t).pc = "vars" /\ body'[m].sig = Top(t).sig)
            /\ body'[m].il = body[m].il \/ (m = reader /\ body'[m].il = m)
            /\ body'[m].eh = body[m].eh \/ (m = reader /\ body'[m].eh = m)
      BY <2>4, <2>6, <2>7 DEF Body
    <2>. QED
      BY <2>5, <2>8 DEF Owned, UndisturbedInv, OwnBody, LocalsExact
  <1>3. CASE MainStep
    BY <1>1, <1>3, MainMoves DEF Owned
  <1>4. CASE \E t \in Thread, d \in Stray : StrayCompile(t, d)
    BY <1>1, <1>4 DEF StrayCompile, managedVars
  <1>5. CASE CollectDelegate \/ \E t \in Thread : CallCollected(t)
    BY <1>1, <1>5, CollectionKeeps
  <1>6. CASE UNCHANGED vars
    BY <1>1, <1>6 DEF vars, managedVars
  <1>. QED
    BY <1>1, <1>2, <1>3, <1>4, <1>5, <1>6 DEF Next, Done

LEMMA InitUndisturbed == Init => UndisturbedInv
  <1> SUFFICES ASSUME Init PROVE UndisturbedInv
    OBVIOUS
  <1>1. /\ \A t \in Thread, l \in Level : frame[t][l] = NoFrame
        /\ \A t \in Thread : depth[t] = 0
        /\ current = None /\ reader = None /\ remaining = Method /\ pc = "create"
        /\ \A m \in Method : body[m] = DiskBody
        /\ \A d \in Desc : locals[d] = 0
    BY DEF Init
  <1>2. None \notin Desc /\ Foreign \cup Method \cup Stub \subseteq Desc
    BY Empty DEF Desc
  <1>3. ForeignInv
    BY <1>1, <1>2, Empty DEF ForeignInv
  <1>4. SoloFrame
    BY <1>1 DEF SoloFrame, Level
  <1>5. OwnFrame
    BY <1>1, <1>2, Empty DEF OwnFrame, PastTest
  <1>6. FreshLocals
    BY <1>1, <1>2, Empty DEF FreshLocals
  <1>7. OwnBody /\ LocalsExact
    BY <1>1, <1>2 DEF OwnBody, LocalsExact, DiskBody, NoSignature
  <1>. QED
    BY <1>3, <1>4, <1>5, <1>6, <1>7 DEF UndisturbedInv

\* The invariants of the bodies hold as long as nothing disturbs the dumper.
LEMMA OwnedStep ==
    ASSUME Undisturbed, Owned, [Next]_vars
    PROVE  Owned'
  BY ControlStep, ForeignStep, SoloStep, FreshStep, BodyStep DEF Owned, UndisturbedInv

LEMMA InitOwned == Init => Owned
  BY InitType, InitControl, InitUndisturbed DEF ControlInv, Control, Owned

LEMMA OwnedInvariant == Spec /\ []Undisturbed => []Owned
  BY InitOwned, OwnedStep, PTL DEF Spec

\* If the runtime compiles no method of the target of its own accord it
\* disturbs no compilation of the dumper's, whatever foreign methods it
\* compiles meanwhile: no foreign method is ever current.
THEOREM QuietUndisturbed ==
    ASSUME Quiet
    PROVE  Spec => []Undisturbed
  <1>1. Owned => Undisturbed
    <2> SUFFICES ASSUME Owned, NEW t \in Thread, NEW l \in Level, frame[t][l].stray
                 PROVE  frame[t][l].meth # current
      BY DEF Undisturbed
    <2>1. frame[t][l].meth \in Foreign
      BY SetAssumption DEF Quiet, Owned, UndisturbedInv, OwnFrame
    <2>. QED
      BY <2>1 DEF Owned, UndisturbedInv, ForeignInv
  <1>2. Owned /\ [Next]_vars => Owned'
    BY <1>1, OwnedStep
  <1>. QED
    BY <1>1, <1>2, InitOwned, PTL DEF Spec

\* Undisturbed, every body holds only parts of its own method, whatever other
\* methods, of the target too, are compiled on any thread and to any depth:
\* the callback and the reader agree.
THEOREM OwnBodyUndisturbed == Spec /\ []Undisturbed => []OwnBody
  <1>1. Owned => OwnBody
    BY DEF Owned, UndisturbedInv
  <1>. QED
    BY <1>1, OwnedInvariant, PTL

\* Undisturbed, a dumped body has exactly its method's local variables.
THEOREM LocalsExactUndisturbed == Spec /\ []Undisturbed => []LocalsExact
  <1>1. Owned => LocalsExact
    BY DEF Owned, UndisturbedInv
  <1>. QED
    BY <1>1, OwnedInvariant, PTL

----------------------------------------------------------------------------
(* What the dumper has done when the module is saved.                      *)

Followed == Owned /\ CompleteInv

\* The loop takes every method once, and hooks stay in place.
LEMMA LoopStep ==
    ASSUME Owned, LoopInv, [Next]_vars
    PROVE  LoopInv'
  <1> USE DEF LoopInv
  <1>1. ASSUME UNCHANGED mainVars, pc \notin Ended PROVE LoopInv'
    BY <1>1 DEF mainVars, Ended
  <1>2. CASE CreateCompiler \/ InitialiseOffsets \/ ApplyHooks
    <2>1. ~hooked /\ pc \in {"create", "offsets", "apply"}
      BY <1>2 DEF CreateCompiler, InitialiseOffsets, ApplyHooks, MainAt, Owned, ControlInv,
                  FakeCodeFirst
    <2>. QED
      BY <1>2, <2>1 DEF CreateCompiler, InitialiseOffsets, ApplyHooks, MainAt, AddHookReturns, Ended
  <1>3. CASE Prime \/ HookAdded
    <2>1. hooked \in BOOLEAN
      BY DEF Owned, ControlInv, TypeOK
    <2>2. CASE Prime
      BY <2>2 DEF Prime, MainAt, Ended
    <2>3. CASE HookAdded
      BY <2>1, <2>3 DEF HookAdded, MainAt, AddHookReturns, Ended
    <2>. QED
      BY <1>3, <2>2, <2>3
  <1>4. CASE \E m \in Method : NextMethod(m)
    BY <1>4 DEF NextMethod, MainAt, Ended
  <1>5. CASE CompileMethod \/ CompileNothing \/ ResolveFails
    <2>1. CASE CompileMethod
      BY <2>1 DEF CompileMethod, MainAt, Ended
    <2>2. CASE CompileNothing
      BY <2>2 DEF CompileNothing, MainAt, Ended
    <2>3. CASE ResolveFails
      BY <2>3 DEF ResolveFails, MainAt, Ended
    <2>. QED
      BY <1>5, <2>1, <2>2, <2>3
  <1>6. CASE Save
    BY <1>6 DEF Save, MainAt, Ended, stackVars
  <1>7. ASSUME NEW t \in Thread, FrameStep(t) PROVE LoopInv'
    BY <1>1, <1>7, StepOfTop DEF Owned, FrameStep
  <1>8. ASSUME NEW t \in Thread, NEW d \in Stray, StrayCompile(t, d) PROVE LoopInv'
    BY <1>1, <1>8 DEF StrayCompile
  <1>9. CASE CollectDelegate
    BY <1>1, <1>9 DEF CollectDelegate
  <1>10. ASSUME NEW t \in Thread, CallCollected(t) PROVE LoopInv'
    BY <1>10 DEF CallCollected, Ended
  <1>11. CASE UNCHANGED vars
    BY <1>11 DEF vars, mainVars, stackVars
  <1>. QED
    BY <1>2, <1>3, <1>4, <1>5, <1>6, <1>7, <1>8, <1>9, <1>10, <1>11 DEF Next, MainStep, Done

\* What is under way is compiled by compile_method, which made it current.
LEMMA UnderwayIs ==
    ASSUME Owned, Underway
    PROVE  /\ Main \in Thread /\ 1 \in Level /\ 1 <= depth[Main]
           /\ frame[Main][1] \in Frame /\ frame[Main][1].meth \in Desc
           /\ frame[Main][1].meth = current /\ pc # "call"
           /\ frame[Main][1].meth \in Stub \cup {Useless, reader}
           /\ pc = "next" => /\ frame[Main][1].meth \in Stub \cup {reader}
                             /\ reader \in Method
  <1>1. Main \in Thread /\ 1 \in Level /\ depth \in [Thread -> 0..MaxDepth]
    BY BoundAssumption DEF Thread, Level, Owned, ControlInv, TypeOK
  <1>2. 1 <= depth[Main]
    BY <1>1 DEF Underway
  <1>3. frame[Main][1] \in Frame /\ frame[Main][1].meth \in Desc
    BY <1>1, <1>2 DEF Owned, ControlInv, TypeOK, StackOK
  <1>4. /\ frame[Main][1].meth = current /\ pc # "call"
        /\ frame[Main][1].meth \in Stub \cup {Useless, reader}
    BY <1>1, <1>2 DEF Underway, Owned, UndisturbedInv, SoloFrame
  <1>5. ASSUME pc = "next"
        PROVE  frame[Main][1].meth \in Stub \cup {reader} /\ reader \in Method
    <2>1. frame[Main][1].meth # Useless
      BY <1>1, <1>5 DEF Owned, ControlInv, UselessOnce, Ended
    <2>2. current \in Desc /\ current # Useless
      BY <1>3, <1>4, <2>1
    <2>3. reader # None
      BY <2>2, Empty DEF Owned, ControlInv, ReaderOK
    <2>. QED
      BY <1>4, <2>1, <2>3 DEF Owned, ControlInv, TypeOK
  <1>. QED
    BY <1>1, <1>2, <1>3, <1>4, <1>5

\* The compilations of others leave bodies alone.
LEMMA OthersKeep ==
    ASSUME Owned, NEW t \in Thread, FrameStep(t), ~(t = Main /\ depth[Main] = 1 /\ Underway)
    PROVE  /\ body' = body /\ dumpedMethods' = dumpedMethods
           /\ Underway' = Underway
           /\ Underway => frame'[Main][1] = frame[Main][1]
  <1>0. /\ Main \in Thread /\ 1 \in Level /\ depth[t] \in Level
        /\ depth \in [Thread -> 0..MaxDepth]
        /\ Top(t) = frame[t][depth[t]]
    BY StepOfTop, BoundAssumption DEF Thread, Level, Owned, ControlInv, TypeOK
  <1>1. Top(t).stray
    <2>1. depth[t] <= depth[t]
      BY <1>0 DEF Level
    <2>2. ~Top(t).stray => t = Main /\ depth[t] = 1
      BY <1>0, <2>1 DEF Owned, UndisturbedInv, SoloFrame
    <2>3. ~Top(t).stray => Underway
      BY <1>0, <2>2 DEF Underway
    <2>. QED
      BY <2>2, <2>3
  <1>2. Top(t).pc \notin PastTest
    BY <1>0, <1>1 DEF Owned, UndisturbedInv, OwnFrame
  <1>3. body' = body /\ dumpedMethods' = dumpedMethods
    BY <1>2 DEF FrameStep, PastTest, At, GetArgType, CompCompile, TestCurrent, KeepFakeCode,
           RealCompile, ImportPhase, GiveUp, CallCallback, SizeGuard, ReadVariables,
           ReadInstructions, ReadExceptionHandlers, ReturnFakeCode, Return, managedVars
  <1>4. CASE Pop(t)
    <2>1. /\ \A u \in Thread : depth'[u] = IF u = t THEN depth[t] - 1 ELSE depth[u]
          /\ \A u \in Thread, l \in Level :
                frame'[u][l] = IF u = t /\ l = depth[t] THEN NoFrame ELSE frame[u][l]
      BY <1>4, FramesAfterPop DEF Owned
    <2>2. CASE t = Main /\ depth[Main] = 1
      <3>1. ~Underway
        BY <2>2
      <3>2. depth'[Main] = 0
        BY <1>0, <2>1, <2>2
      <3>. QED
        BY <1>3, <3>1, <3>2 DEF Underway
    <2>3. CASE ~(t = Main /\ depth[Main] = 1)
      <3>1. frame'[Main][1] = frame[Main][1]
        BY <1>0, <2>1, <2>3
      <3>2. depth'[Main] > 0 <=> depth[Main] > 0
        BY <1>0, <2>1, <2>3 DEF Level
      <3>. QED
        BY <1>3, <3>1, <3>2 DEF Underway
    <2>. QED
      BY <2>2, <2>3
  <1>5. ASSUME NEW f \in Frame, Moved(t, f)
        PROVE  Underway' = Underway /\ (Underway => frame'[Main][1] = frame[Main][1])
    <2>1. /\ depth' = depth /\ f.stray
          /\ \A u \in Thread, l \in Level :
                frame'[u][l] = IF u = t /\ l = depth[t] THEN f ELSE frame[u][l]
      BY <1>1, <1>5, FramesAfterMove DEF Owned, Moved
    <2>2. CASE t = Main /\ depth[Main] = 1
      <3>1. frame'[Main][1].stray
        BY <1>0, <2>1, <2>2
      <3>2. ~Underway
        BY <2>2
      <3>. QED
        BY <3>1, <3>2 DEF Underway
    <2>3. CASE ~(t = Main /\ depth[Main] = 1)
      BY <1>0, <2>1, <2>3 DEF Underway
    <2>. QED
      BY <2>2, <2>3
  <1>. QED
    BY <1>3, <1>4, <1>5, FrameMoves DEF Owned

\* The stages of a body.
LEMMA Stages ==
    ASSUME NEW m
    PROVE  LET own == [of |-> m, n |-> NumLocals[m]]
           IN  /\ OwnBodyOf(m) = [sig |-> own, il |-> m, eh |-> m]
               /\ Progress(m, "ins") = [sig |-> own, il |-> None, eh |-> None]
               /\ Progress(m, "eh") = [sig |-> own, il |-> m, eh |-> None]
               /\ Progress(m, "fake") = Outcome(m) /\ Progress(m, "return") = Outcome(m)
  BY DEF OwnBodyOf, Progress

\* A step of the compilation under way: the body is as far as the compilation,
\* and if it ends the body is what the dumper leaves.
Advanced(f) ==
    /\ SetTop(Main, f) /\ depth' = depth
    /\ f.stray = FALSE
    /\ OnPath(f)
    /\ body' = [body EXCEPT ![reader] = Progress(reader, f.pc)]

LEMMA OwnStep ==
    ASSUME Followed, FrameStep(Main), depth[Main] = 1, Underway, hooked, pc = "next"
    PROVE  \/ Pop(Main) /\ body' = body /\ body[reader] = Outcome(reader)
           \/ \E f \in Frame : Advanced(f)
  <1> USE DEF frameUnchanged, mainVars, managedVars, nativeVars
  <1>0. /\ Main \in Thread /\ reader \in Method
        /\ Top(Main) \in Frame /\ Top(Main) = frame[Main][1]
        /\ Top(Main).meth = current /\ Top(Main).meth \in Stub \cup {reader}
        /\ Top(Main).stray = FALSE
    BY UnderwayIs DEF Followed, Underway, Top, Frame
  <1>1. /\ OnPath(Top(Main))
        /\ body[reader] = Progress(reader, Top(Main).pc)
        /\ body \in [Method -> Body]
    <2>1. ~Waiting(reader)
      BY DEF Followed, Owned, UndisturbedInv, FreshLocals, Waiting
    <2>. QED
      BY <1>0, <2>1 DEF Followed, CompleteInv, PathInv, BodiesInv, Owned, ControlInv, TypeOK
  <1>2. /\ Top(Main).meth \in Stub => Top(Main).pc = "locals"
        /\ Unjittable \subseteq Method /\ Stub \cap Method = {}
    BY <1>0, SetAssumption, UnderwayIs DEF Followed, Owned, UndisturbedInv, OwnFrame
  <1>3. body' = body => body' = [body EXCEPT ![reader] = body[reader]]
    BY <1>0, <1>1
  <1>4. CASE GetArgType(Main)
    <2> DEFINE f == [Top(Main) EXCEPT !.seen = Top(Main).seen + 1]
    <2>1. f \in Frame /\ f.pc = Top(Main).pc /\ f.meth = Top(Main).meth /\ f.stray = FALSE
      BY <1>0 DEF Frame
    <2>2. SetTop(Main, f) /\ depth' = depth /\ body' = body
      BY <1>4 DEF GetArgType
    <2> HIDE DEF f
    <2>. QED
      BY <1>1, <1>3, <2>1, <2>2 DEF Advanced, OnPath
  <1>5. ASSUME NEW p \in FramePC, Goto(Main, p), depth' = depth, body' = body,
               OnPath([Top(Main) EXCEPT !.pc = p]), Progress(reader, p) = body[reader]
        PROVE  \E f \in Frame : Advanced(f)
    <2> DEFINE f == [Top(Main) EXCEPT !.pc = p]
    <2>1. f \in Frame /\ f.pc = p /\ f.stray = FALSE
      BY <1>0 DEF Frame
    <2>2. SetTop(Main, f) /\ OnPath(f)
      BY <1>5 DEF Goto
    <2> HIDE DEF f
    <2>. QED
      BY <1>3, <1>5, <2>1, <2>2 DEF Advanced
  <1>6. ASSUME NEW p \in FramePC PROVE [Top(Main) EXCEPT !.pc = p].pc = p /\ [Top(Main) EXCEPT !.pc = p].meth = Top(Main).meth
    BY <1>0 DEF Frame
  <1>7. CASE CompCompile(Main)
    <2>1. fakeCode # None
      BY DEF Followed, Owned, ControlInv, FakeCodeFirst
    <2>2. Goto(Main, "recheck") /\ Top(Main).pc = "locals"
      BY <1>7, <2>1 DEF CompCompile, At
    <2>. QED
      BY <1>1, <1>5, <1>6, <1>7, <2>2 DEF CompCompile, OnPath, Progress, FramePC, PastTest
  <1>8. CASE TestCurrent(Main)
    <2>1. Goto(Main, "import") /\ Top(Main).pc = "recheck"
      BY <1>0, <1>8 DEF TestCurrent, At
    <2>. QED
      BY <1>1, <1>5, <1>6, <1>8, <2>1 DEF TestCurrent, OnPath, Progress, FramePC, PastTest
  <1>9. CASE KeepFakeCode(Main) \/ RealCompile(Main)
    BY <1>1, <1>9 DEF KeepFakeCode, RealCompile, At, OnPath
  <1>10. CASE ImportPhase(Main)
    <2>1. Goto(Main, "sig") /\ Top(Main).pc = "import" /\ Top(Main).meth \notin Unjittable
      BY <1>10 DEF ImportPhase, At
    <2>2. Top(Main).meth = reader
      BY <1>0, <1>2, <2>1
    <2>. QED
      BY <1>1, <1>5, <1>6, <1>10, <2>1, <2>2 DEF ImportPhase, OnPath, Progress, FramePC, PastTest
  <1>11. CASE GiveUp(Main)
    <2>1. Pop(Main) /\ body' = body
      BY <1>11 DEF GiveUp
    <2>2. body[reader] = DiskBody
      BY <1>1, <1>11 DEF GiveUp, Progress
    <2>3. ~Dumpable(reader)
      <3>1. CASE Top(Main).meth \in Stub
        BY <1>1, <3>1 DEF OnPath, Dumpable
      <3>2. CASE Top(Main).meth \in Unjittable
        BY <1>0, <1>2, <3>2 DEF Dumpable
      <3>. QED
        BY <1>11, <3>1, <3>2 DEF GiveUp
    <2>. QED
      BY <2>1, <2>2, <2>3 DEF Outcome
  <1>12. CASE CallCallback(Main)
    <2> DEFINE s == [of |-> current, n |-> locals[current]]
               f == [Top(Main) EXCEPT !.pc = "guard", !.sig = s]
    <2>1. s \in Signature
      <3>1. current \in Desc
        BY <1>0, UnderwayIs DEF Followed
      <3>. QED
        BY <3>1 DEF Signature, Followed, Owned, ControlInv, TypeOK
    <2>2. f \in Frame /\ f.pc = "guard" /\ f.meth = Top(Main).meth /\ f.stray = FALSE
      BY <1>0, <2>1 DEF Frame, FramePC
    <2>3. SetTop(Main, f) /\ depth' = depth /\ body' = body /\ Top(Main).pc = "sig"
      BY <1>12 DEF CallCallback, At
    <2> HIDE DEF f
    <2>. QED
      BY <1>1, <1>3, <2>2, <2>3 DEF Advanced, OnPath, Progress, PastTest
  <1>13. CASE SizeGuard(Main)
    <2>1. Top(Main).pc = "guard" /\ depth' = depth /\ body' = body
      BY <1>13 DEF SizeGuard, At
    <2>2. Top(Main).meth = reader /\ body[reader] = DiskBody
      BY <1>0, <1>1, <1>2, <2>1 DEF Progress
    <2>3. InstructionsSize(reader) = DiskSize[reader]
      BY <2>2 DEF InstructionsSize, DiskBody
    <2>4. reader \notin Unjittable /\ MethodHandle[reader] \notin InstantiatingStub
      BY <1>0, <1>1, <1>2, <2>1, <2>2 DEF OnPath, PastTest
    <2>5. JitSize[reader] \in Nat /\ DiskSize[reader] \in Nat
      BY <1>0, FunctionAssumption DEF Desc
    <2>6. CASE JitSize[reader] < DiskSize[reader]
      <3>1. Goto(Main, "fake") /\ ~Dumpable(reader)
        BY <1>13, <2>2, <2>3, <2>5, <2>6 DEF SizeGuard, Dumpable
      <3>. QED
        BY <1>1, <1>5, <1>6, <2>1, <2>2, <2>4, <3>1 DEF OnPath, Progress, Outcome, FramePC, PastTest
    <2>7. CASE ~(JitSize[reader] < DiskSize[reader])
      <3>1. Goto(Main, "vars") /\ Dumpable(reader)
        BY <1>13, <2>2, <2>3, <2>4, <2>5, <2>7 DEF SizeGuard, Dumpable
      <3>. QED
        BY <1>1, <1>5, <1>6, <2>1, <2>2, <2>4, <3>1 DEF OnPath, Progress, Outcome, FramePC, PastTest
    <2>. QED
      BY <2>6, <2>7
  <1>14. ASSUME NEW p \in FramePC, NEW b, Goto(Main, p), depth' = depth,
                body' = [body EXCEPT ![reader] = b], OnPath([Top(Main) EXCEPT !.pc = p]),
                Progress(reader, p) = b
         PROVE  \E f \in Frame : Advanced(f)
    <2> DEFINE f == [Top(Main) EXCEPT !.pc = p]
    <2>1. f \in Frame /\ f.pc = p /\ f.stray = FALSE
      BY <1>0 DEF Frame
    <2>2. SetTop(Main, f) /\ OnPath(f)
      BY <1>14 DEF Goto
    <2> HIDE DEF f
    <2>. QED
      BY <1>14, <2>1, <2>2 DEF Advanced
  <1>15. CASE ReadVariables(Main)
    <2>1. Top(Main).pc = "vars" /\ Top(Main).meth = reader /\ Dumpable(reader)
      BY <1>0, <1>1, <1>2, <1>15 DEF ReadVariables, At, OnPath
    <2>2. Top(Main).sig = OwnBodyOf(reader).sig
      <3>1. Top(Main).sig.of = reader /\ Top(Main).sig.n = NumLocals[reader]
        BY <1>0, <2>1, UnderwayIs DEF Followed, Owned, UndisturbedInv, OwnFrame, FreshLocals
      <3>. QED
        BY <1>0, <3>1 DEF OwnBodyOf, Frame, Signature
    <2>3. [body[reader] EXCEPT !.sig = Top(Main).sig] = Progress(reader, "ins")
      <3>1. body[reader] = [sig |-> NoSignature, il |-> None, eh |-> None]
        BY <1>1, <2>1 DEF Progress, DiskBody
      <3>. QED
        BY <2>2, <3>1, Stages
    <2>4. body' = [body EXCEPT ![reader] = [body[reader] EXCEPT !.sig = Top(Main).sig]]
      BY <1>15 DEF ReadVariables
    <2>. QED
      BY <1>1, <1>6, <1>14, <1>15, <2>1, <2>3, <2>4 DEF ReadVariables, OnPath, FramePC, PastTest
  <1>16. CASE ReadInstructions(Main)
    <2>1. Top(Main).pc = "ins" /\ Top(Main).meth = reader /\ Dumpable(reader)
      BY <1>0, <1>1, <1>2, <1>16 DEF ReadInstructions, At, OnPath
    <2>2. [body[reader] EXCEPT !.il = Top(Main).meth] = Progress(reader, "eh")
      BY <1>1, <2>1, Stages
    <2>3. body' = [body EXCEPT ![reader] = [body[reader] EXCEPT !.il = Top(Main).meth]]
      BY <1>16 DEF ReadInstructions
    <2>. QED
      BY <1>1, <1>6, <1>14, <1>16, <2>1, <2>2, <2>3 DEF ReadInstructions, OnPath, FramePC, PastTest
  <1>17. CASE ReadExceptionHandlers(Main)
    <2>1. Top(Main).pc = "eh" /\ Top(Main).meth = reader /\ Dumpable(reader)
      BY <1>0, <1>1, <1>2, <1>17 DEF ReadExceptionHandlers, At, OnPath
    <2>2. [body[reader] EXCEPT !.eh = Top(Main).meth] = Progress(reader, "fake")
      BY <1>1, <2>1, Stages DEF Outcome
    <2>3. body' = [body EXCEPT ![reader] = [body[reader] EXCEPT !.eh = Top(Main).meth]]
      BY <1>17 DEF ReadExceptionHandlers
    <2>. QED
      BY <1>1, <1>6, <1>14, <1>17, <2>1, <2>2, <2>3 DEF ReadExceptionHandlers, OnPath, FramePC, PastTest
  <1>18. CASE ReturnFakeCode(Main)
    <2> DEFINE f == [Top(Main) EXCEPT !.pc = "return", !.code = fakeCode]
    <2>1. f \in Frame /\ f.pc = "return" /\ f.meth = Top(Main).meth /\ f.stray = FALSE
      BY <1>0 DEF Frame, FramePC, Followed, Owned, ControlInv, TypeOK
    <2>2. SetTop(Main, f) /\ depth' = depth /\ body' = body /\ Top(Main).pc = "fake"
      BY <1>18 DEF ReturnFakeCode, At
    <2> HIDE DEF f
    <2>. QED
      BY <1>1, <1>3, <2>1, <2>2 DEF Advanced, OnPath, Progress, PastTest
  <1>19. CASE Return(Main)
    BY <1>1, <1>19 DEF Return, At, Progress
  <1>. QED
    BY <1>4, <1>7, <1>8, <1>9, <1>10, <1>11, <1>12, <1>13, <1>15, <1>16, <1>17, <1>18, <1>19
       DEF FrameStep

\* The step of a compilation keeps every body as far as its method.
LEMMA BodiesFrame ==
    ASSUME Followed, NEW t \in Thread, FrameStep(t)
    PROVE  PathInv' /\ BodiesInv'
  <1>0. /\ UNCHANGED <<pc, remaining, hooked, reader, current>>
        /\ pc \notin Ended
        /\ \A m \in Method : Waiting(m)' = Waiting(m)
    BY StepOfTop DEF Followed, Owned, mainVars, FrameStep, Waiting
  <1>1. CASE ~(t = Main /\ depth[Main] = 1 /\ Underway)
    <2>1. /\ body' = body
          /\ Underway' = Underway
          /\ Underway => frame'[Main][1] = frame[Main][1]
      BY <1>1, OthersKeep DEF Followed
    <2>. QED
      BY <1>0, <2>1 DEF Followed, CompleteInv, PathInv, BodiesInv, OnPath
  <1>2. CASE t = Main /\ depth[Main] = 1 /\ Underway
    <2>1. CASE hooked /\ pc = "next"
      <3>0. /\ reader \in Method /\ ~Waiting(reader)
            /\ body \in [Method -> Body]
            /\ \A m \in Method : body[m] = IF Waiting(m) THEN DiskBody
                                           ELSE IF m = reader THEN Progress(m, frame[Main][1].pc)
                                           ELSE Outcome(m)
        BY <1>2, <2>1, UnderwayIs
           DEF Followed, CompleteInv, BodiesInv, Owned, ControlInv, TypeOK, UndisturbedInv, FreshLocals, Waiting
      <3>1. CASE Pop(Main) /\ body' = body /\ body[reader] = Outcome(reader)
        <4>1. depth'[Main] = 0
          <5>1. Main \in Thread /\ FrameStep(Main)
            BY <1>2, UnderwayIs DEF Followed
          <5>2. depth'[Main] = depth[Main] - 1
            BY <3>1, <5>1, FramesAfterPop DEF Followed, Owned
          <5>. QED
            BY <1>2, <5>2
        <4>2. ~Underway'
          BY <4>1 DEF Underway
        <4>. QED
          BY <1>0, <3>0, <3>1, <4>2 DEF PathInv, BodiesInv
      <3>2. ASSUME NEW f \in Frame, Advanced(f) PROVE PathInv' /\ BodiesInv'
        <4>1. frame'[Main][1] = f
          <5>1. SetTop(Main, f) /\ depth[Main] > 0 /\ Main \in Thread /\ 1 \in Level
            BY <1>2, <3>2, UnderwayIs DEF Advanced, Followed, Underway
          <5>. QED
            BY <1>2, <5>1, SetTopType DEF Followed, Owned, ControlInv
        <4>2. Underway' /\ OnPath(f)' = OnPath(f)
          BY <1>0, <1>2, <3>2, <4>1 DEF Underway, Advanced, OnPath
        <4>3. PathInv'
          BY <3>2, <4>1, <4>2, <1>0 DEF PathInv, Advanced, OnPath
        <4>4. \A m \in Method : body'[m] = IF m = reader THEN Progress(reader, f.pc) ELSE body[m]
          BY <3>0, <3>2 DEF Advanced
        <4>. QED
          BY <1>0, <3>0, <4>1, <4>2, <4>3, <4>4 DEF BodiesInv
      <3>. QED
        BY <1>2, <2>1, <3>1, <3>2, OwnStep
    <2>2. CASE ~(hooked /\ pc = "next")
      <3>1. PathInv'
        BY <1>0, <2>2 DEF PathInv
      <3>2. hooked /\ pc \notin {"next", "call"} \cup Ended => body' = body
        <4> SUFFICES ASSUME hooked, pc \notin {"next", "call"} \cup Ended PROVE body' = body
          OBVIOUS
        <4>1. Top(t).pc \notin PastTest
          <5>1. reader \notin Method
            BY DEF Followed, CompleteInv, LoopInv, Owned, UndisturbedInv, FreshLocals
          <5>. QED
            BY <5>1, PathOfReader, StepOfTop DEF Followed, Owned
        <4>. QED
          BY <4>1, FrameMoves DEF Moved, Followed, Owned, PastTest
      <3>3. ~hooked => body' = body
        <4> SUFFICES ASSUME ~hooked PROVE body' = body
          OBVIOUS
        <4>1. Top(t).pc \notin PastTest
          BY StepOfTop DEF Followed, Owned, ControlInv, HookPath
        <4>. QED
          BY <4>1, FrameMoves DEF Moved, Followed, Owned, PastTest
      <3>4. pc # "call"
        BY <1>2, UnderwayIs DEF Followed
      <3>5. body' = body
        BY <1>0, <2>2, <3>2, <3>3, <3>4
      <3>6. pc \notin {"next", "call"} \cup Ended => \A m \in Method : Waiting(m)
        BY DEF Followed, CompleteInv, LoopInv, Waiting
      <3>7. BodiesInv'
        <4>1. CASE pc = "next"
          BY <1>0, <2>2, <4>1 DEF BodiesInv
        <4>2. CASE pc # "next"
          BY <1>0, <3>4, <3>5, <3>6, <4>2 DEF Followed, CompleteInv, BodiesInv
        <4>. QED
          BY <4>1, <4>2
      <3>. QED
        BY <3>1, <3>7
    <2>. QED
      BY <2>1, <2>2
  <1>. QED
    BY <1>1, <1>2

\* What compile_method compiles, and whether it is a stub.
LEMMA UnboxedStub ==
    ASSUME NEW m \in Method
    PROVE  GetUnboxedMethod(MethodHandle[m]) \in Stub <=> MethodHandle[m] \in InstantiatingStub
  <1>1. CASE MethodHandle[m] \in InstantiatingStub
    BY <1>1, SetAssumption DEF GetUnboxedMethod
  <1>2. CASE MethodHandle[m] \notin InstantiatingStub
    <2>1. CASE MethodHandle[m] \in Stub
      BY <1>2, <2>1, SetAssumption, FunctionAssumption DEF GetUnboxedMethod
    <2>2. CASE MethodHandle[m] \notin Stub
      BY <1>2, <2>2 DEF GetUnboxedMethod
    <2>. QED
      BY <2>1, <2>2
  <1>. QED
    BY <1>1, <1>2

\* A step of the main thread does so too.
LEMMA BodiesMain ==
    ASSUME Followed, MainStep
    PROVE  PathInv' /\ BodiesInv'
  <1> USE DEF mainVars, managedVars, nativeVars, stackVars
  <1>0. /\ depth[Main] = 0 /\ ~Underway /\ body' = body /\ reader' \in Method \cup {None}
        /\ Main \in Thread /\ hooked \in BOOLEAN
    <2>1. depth[Main] = 0 /\ body' = body
      BY MainMoves DEF Followed, Owned
    <2>2. reader' \in Method \cup {None}
      BY MainStepType DEF Followed, Owned, ControlInv, TypeOK
    <2>. QED
      BY <2>1, <2>2 DEF Underway, Thread, Followed, Owned, ControlInv, TypeOK
  <1>1. pc # "crashed" /\ (hooked \/ pc \in {"create", "offsets", "apply"}) =>
            \A m \in Method : body[m] = IF Waiting(m) THEN DiskBody ELSE Outcome(m)
    BY <1>0 DEF Followed, CompleteInv, BodiesInv
  <1>2. pc \notin {"next", "call"} \cup Ended => remaining = Method
    BY DEF Followed, CompleteInv, LoopInv
  <1>3. CASE CreateCompiler \/ InitialiseOffsets \/ ApplyHooks \/ HookAdded
    <2>1. /\ UNCHANGED <<depth, frame, remaining>> /\ pc \notin {"next", "call"} \cup Ended
          /\ pc' # "crashed" /\ (hooked' \/ pc' \in {"create", "offsets", "apply"}) =>
                hooked \/ pc \in {"create", "offsets", "apply"}
      <3>1. CASE CreateCompiler \/ InitialiseOffsets
        BY <1>0, <3>1 DEF CreateCompiler, InitialiseOffsets, MainAt, Ended
      <3>2. CASE ApplyHooks
        BY <1>0, <3>2 DEF ApplyHooks, MainAt, Ended
      <3>3. CASE HookAdded
        BY <1>0, <3>3 DEF HookAdded, AddHookReturns, MainAt, Ended
      <3>. QED
        BY <1>3, <3>1, <3>2, <3>3
    <2>2. ~Underway'
      BY <1>0, <2>1 DEF Underway
    <2>3. \A m \in Method : Waiting(m) /\ Waiting(m)'
      BY <1>2, <2>1 DEF Waiting
    <2>4. pc # "crashed"
      BY <2>1 DEF Ended
    <2>. QED
      BY <1>0, <1>1, <2>1, <2>2, <2>3, <2>4 DEF PathInv, BodiesInv
  <1>4. CASE Prime
    <2>1. /\ UNCHANGED <<hooked, remaining>> /\ pc = "prime" /\ pc' = "primed"
      BY <1>4 DEF Prime, MainAt
    <2>2. \A m \in Method : Waiting(m) /\ Waiting(m)'
      BY <1>2, <2>1 DEF Waiting, Ended
    <2>. QED
      BY <1>0, <1>1, <2>1, <2>2 DEF PathInv, BodiesInv
  <1>5. ASSUME NEW m \in Method, NextMethod(m) PROVE PathInv' /\ BodiesInv'
    <2>1. /\ UNCHANGED <<depth, frame, hooked>> /\ pc = "next" /\ pc' = "call"
          /\ m \in remaining /\ remaining' = remaining \ {m} /\ reader' = m
      BY <1>5 DEF NextMethod, MainAt
    <2>2. ~Underway'
      BY <1>0, <2>1 DEF Underway
    <2>3. \A k \in Method : Waiting(k)' = Waiting(k)
      BY <2>1 DEF Waiting
    <2>. QED
      BY <1>0, <1>1, <2>1, <2>2, <2>3 DEF PathInv, BodiesInv
  <1>6. CASE CompileMethod
    <2> DEFINE d == GetUnboxedMethod(MethodHandle[reader])
               f == Compiling(d, FALSE)
    <2>1. /\ UNCHANGED <<hooked, remaining, reader>> /\ pc = "call" /\ pc' = "next"
          /\ Push(Main, f)
      BY <1>6 DEF CompileMethod, MainAt
    <2>2. reader \in Method
      BY <2>1 DEF Followed, Owned, ControlInv, ReaderOK, TypeOK
    <2>3. d \in Desc
      BY <2>2, UnboxedType DEF Desc
    <2>4. f \in Frame /\ f.meth = d /\ f.pc = "locals" /\ ~f.stray
      BY <2>3, OwnedFrame
    <2>5. d \in Stub <=> MethodHandle[reader] \in InstantiatingStub
      BY <2>2, UnboxedStub
    <2> HIDE DEF f, d
    <2>6. depth'[Main] = 1 /\ frame'[Main][1] = f
      <3>1. 1 \in Level
        BY BoundAssumption DEF Level
      <3>. QED
        BY <1>0, <2>1, <2>4, <3>1, FramesAfterPush DEF Followed, Owned
    <2>7. Underway'
      BY <2>4, <2>6 DEF Underway
    <2>8. PathInv'
      BY <2>1, <2>4, <2>5, <2>6 DEF PathInv, OnPath, PastTest
    <2>9. /\ Waiting(reader) /\ ~Waiting(reader)'
          /\ \A m \in Method : m # reader => Waiting(m)' = Waiting(m)
      BY <2>1 DEF Waiting, Followed, Owned, UndisturbedInv, FreshLocals
    <2>10. Progress(reader, "locals") = DiskBody
      BY DEF Progress
    <2>11. BodiesInv'
      BY <1>0, <1>1, <2>1, <2>2, <2>4, <2>6, <2>7, <2>9, <2>10 DEF BodiesInv
    <2>. QED
      BY <2>8, <2>11
  <1>7. CASE CompileNothing
    <2>1. ~hooked' /\ pc' \notin {"create", "offsets", "apply"}
      BY <1>7 DEF CompileNothing, Followed, CompleteInv, LoopInv
    <2>. QED
      BY <2>1 DEF PathInv, BodiesInv
  <1>8. CASE ResolveFails
    BY <1>8 DEF ResolveFails, PathInv, BodiesInv
  <1>9. CASE Save
    <2>1. /\ UNCHANGED <<depth, frame, hooked, remaining, reader>> /\ pc = "next" /\ pc' = "saved"
      BY <1>9 DEF Save, MainAt
    <2>2. ~Underway' /\ \A m \in Method : Waiting(m)' = Waiting(m)
      BY <1>0, <2>1 DEF Underway, Waiting
    <2>. QED
      BY <1>0, <1>1, <2>1, <2>2 DEF PathInv, BodiesInv
  <1>. QED
    BY <1>3, <1>4, <1>5, <1>6, <1>7, <1>8, <1>9 DEF MainStep

LEMMA BodiesStep ==
    ASSUME Followed, [Next]_vars
    PROVE  PathInv' /\ BodiesInv'
  <1>1. ASSUME UNCHANGED <<pc, remaining, hooked, reader, body, depth, frame>>
        PROVE  PathInv' /\ BodiesInv'
    BY <1>1 DEF Followed, CompleteInv, PathInv, OnPath, BodiesInv, Underway, Waiting
  <1>2. CASE MainStep
    BY <1>2, BodiesMain
  <1>3. ASSUME NEW t \in Thread, FrameStep(t) PROVE PathInv' /\ BodiesInv'
    BY <1>3, BodiesFrame
  <1>4. ASSUME NEW t \in Thread, NEW d \in Stray, StrayCompile(t, d) PROVE PathInv' /\ BodiesInv'
    <2> DEFINE f == Compiling(d, TRUE)
    <2>1. d \in Desc
      BY SetAssumption DEF Desc
    <2>2. Push(t, f) /\ UNCHANGED <<pc, remaining, hooked, reader, body>>
      BY <1>4 DEF StrayCompile, mainVars, managedVars
    <2>3. f \in Frame /\ f.stray
      BY <2>1, StrayFrame
    <2> HIDE DEF f
    <2>4. /\ Main \in Thread /\ 1 \in Level /\ depth \in [Thread -> 0..MaxDepth]
      BY BoundAssumption DEF Thread, Level, Followed, Owned, ControlInv, TypeOK
    <2>5. /\ \A u \in Thread : depth'[u] = IF u = t THEN depth[t] + 1 ELSE depth[u]
          /\ \A u \in Thread, l \in Level :
                frame'[u][l] = IF u = t /\ l = depth[t] + 1 THEN f ELSE frame[u][l]
      BY <2>2, <2>3, FramesAfterPush DEF Followed, Owned
    <2>6. Underway' = Underway /\ (Underway => frame'[Main][1] = frame[Main][1])
      <3>1. CASE depth[Main] = 0 /\ t = Main
        BY <2>3, <2>4, <2>5, <3>1 DEF Underway
      <3>2. CASE ~(depth[Main] = 0 /\ t = Main)
        <4>1. frame'[Main][1] = frame[Main][1]
          BY <2>4, <2>5, <3>2
        <4>2. depth'[Main] > 0 <=> depth[Main] > 0
          BY <2>4, <2>5, <3>2
        <4>. QED
          BY <4>1, <4>2 DEF Underway
      <3>. QED
        BY <3>1, <3>2
    <2>. QED
      BY <2>2, <2>6 DEF Followed, CompleteInv, PathInv, OnPath, BodiesInv, Waiting
  <1>5. CASE CollectDelegate
    BY <1>1, <1>5 DEF CollectDelegate, mainVars, stackVars
  <1>6. ASSUME NEW t \in Thread, CallCollected(t) PROVE PathInv' /\ BodiesInv'
    BY <1>6 DEF CallCollected, PathInv, BodiesInv
  <1>7. CASE UNCHANGED vars
    BY <1>1, <1>7 DEF vars, mainVars, managedVars, stackVars
  <1>. QED
    BY <1>2, <1>3, <1>4, <1>5, <1>6, <1>7 DEF Next, Done

\* What a step of a compilation does to bodies and to the count.
LEMMA Writes ==
    ASSUME Followed, NEW t \in Thread, FrameStep(t),
           ~(body' = body /\ dumpedMethods' = dumpedMethods)
    PROVE  /\ reader \in Method /\ pc = "next" /\ body[reader].eh = None
           /\ \A m \in Method : m # reader => body'[m] = body[m]
           /\ \/ body'[reader].eh = None /\ dumpedMethods' = dumpedMethods
              \/ body'[reader] = OwnBodyOf(reader) /\ dumpedMethods' = dumpedMethods + 1
  <1>1. t = Main /\ depth[Main] = 1 /\ Underway
    BY OthersKeep DEF Followed
  <1>2. ReadVariables(t) \/ ReadInstructions(t) \/ ReadExceptionHandlers(t)
    BY DEF FrameStep, GetArgType, CompCompile, TestCurrent, KeepFakeCode, RealCompile,
           ImportPhase, GiveUp, CallCallback, SizeGuard, ReturnFakeCode, Return, managedVars
  <1>3. /\ Top(t) = frame[Main][1] /\ depth[t] \in Level /\ Top(t).pc \in {"vars", "ins", "eh"}
    BY <1>1, <1>2, StepOfTop DEF Followed, Owned, ReadVariables, ReadInstructions,
       ReadExceptionHandlers, At
  <1>4. Top(t).meth = reader /\ reader \in Method /\ hooked /\ pc \notin Ended /\ pc # "call"
    BY <1>1, <1>3, StepOfTop, PathOfReader, UnderwayIs
       DEF PastTest, Followed, Owned, ControlInv, HookPath, FrameStep
  <1>5. reader \notin remaining
    BY DEF Followed, Owned, UndisturbedInv, FreshLocals
  <1>6. ~Waiting(reader) /\ pc = "next"
    BY <1>4, <1>5 DEF Waiting, Followed, CompleteInv, LoopInv
  <1>7. body[reader] = Progress(reader, Top(t).pc) /\ body \in [Method -> Body]
    BY <1>1, <1>3, <1>4, <1>6 DEF Followed, CompleteInv, BodiesInv, Owned, ControlInv, TypeOK, Ended
  <1>8. CASE ReadVariables(t)
    <2>1. Top(t).pc = "vars"
      BY <1>8 DEF ReadVariables, At
    <2>2. body[reader].eh = None
      BY <1>7, <2>1 DEF Progress, DiskBody
    <2>. QED
      BY <1>4, <1>6, <1>7, <1>8, <2>2 DEF ReadVariables, Body
  <1>9. CASE ReadInstructions(t)
    <2>1. Top(t).pc = "ins"
      BY <1>9 DEF ReadInstructions, At
    <2>2. body[reader].eh = None
      BY <1>7, <2>1, Stages
    <2>. QED
      BY <1>4, <1>6, <1>7, <1>9, <2>2 DEF ReadInstructions, Body
  <1>10. CASE ReadExceptionHandlers(t)
    <2>1. /\ dumpedMethods' = dumpedMethods + 1 /\ body' = [body EXCEPT ![reader].eh = reader]
          /\ Top(t).pc = "eh"
      BY <1>4, <1>10 DEF ReadExceptionHandlers, At
    <2>2. body[reader].eh = None
      BY <1>7, <2>1, Stages
    <2>3. [body[reader] EXCEPT !.eh = reader] = OwnBodyOf(reader)
      BY <1>7, <2>1, Stages
    <2>4. body'[reader] = OwnBodyOf(reader) /\ \A m \in Method : m # reader => body'[m] = body[m]
      BY <1>4, <1>7, <2>1, <2>3
    <2>. QED
      BY <1>4, <1>6, <2>1, <2>2, <2>4
  <1>. QED
    BY <1>2, <1>8, <1>9, <1>10

\* The main thread writes no body.
LEMMA MainCounts ==
    ASSUME Followed, MainStep
    PROVE  body' = body /\ dumpedMethods' = dumpedMethods
  <1>1. body' = body
    BY MainMoves DEF Followed, Owned
  <1>2. dumpedMethods' = dumpedMethods
    BY DEF MainStep, CreateCompiler, InitialiseOffsets, ApplyHooks, Prime, HookAdded,
           NextMethod, CompileMethod, CompileNothing, ResolveFails, Save, managedVars
  <1>. QED
    BY <1>1, <1>2

\* The count grows with each body that gets its last part.
LEMMA CountStep ==
    ASSUME Followed, [Next]_vars
    PROVE  CountInv'
  <1> DEFINE S == {m \in Method : body[m].eh # None}
  <1>1. CASE body' = body /\ dumpedMethods' = dumpedMethods
    BY <1>1 DEF Followed, CompleteInv, CountInv
  <1>2. ASSUME NEW t \in Thread, FrameStep(t), ~(body' = body /\ dumpedMethods' = dumpedMethods)
        PROVE  CountInv'
    <2>1. /\ reader \in Method /\ body[reader].eh = None
          /\ \A m \in Method : m # reader => body'[m] = body[m]
      BY <1>2, Writes
    <2>2. None \notin Method
      BY SetAssumption DEF Desc
    <2>3. CASE body'[reader].eh = None /\ dumpedMethods' = dumpedMethods
      <3>1. \A m \in Method : body'[m].eh = body[m].eh
        BY <2>1, <2>3
      <3>. QED
        BY <2>3, <3>1 DEF Followed, CompleteInv, CountInv
    <2>4. CASE body'[reader] = OwnBodyOf(reader) /\ dumpedMethods' = dumpedMethods + 1
      <3>1. body'[reader].eh = reader
        BY <2>4 DEF OwnBodyOf
      <3>2. {m \in Method : body'[m].eh # None} = S \cup {reader} /\ reader \notin S
        BY <2>1, <2>2, <3>1
      <3>3. IsFiniteSet(S)
        BY SetAssumption, FS_Subset
      <3>4. Cardinality(S \cup {reader}) = Cardinality(S) + 1
        BY <3>2, <3>3, FS_AddElement
      <3>. QED
        BY <2>4, <3>2, <3>4 DEF Followed, CompleteInv, CountInv
    <2>. QED
      BY <1>2, <2>3, <2>4, Writes
  <1>3. CASE MainStep
    BY <1>1, <1>3, MainCounts
  <1>4. ASSUME NEW t \in Thread, NEW d \in Stray, StrayCompile(t, d) PROVE CountInv'
    BY <1>1, <1>4 DEF StrayCompile, managedVars
  <1>5. CASE CollectDelegate \/ \E t \in Thread : CallCollected(t)
    BY <1>1, <1>5 DEF CollectDelegate, CallCollected, managedVars
  <1>6. CASE UNCHANGED vars
    BY <1>1, <1>6 DEF vars, managedVars
  <1>. QED
    BY <1>1, <1>2, <1>3, <1>4, <1>5, <1>6 DEF Next, Done

LEMMA InitComplete == Init => CompleteInv
  <1> SUFFICES ASSUME Init PROVE CompleteInv
    OBVIOUS
  <1>1. /\ pc = "create" /\ remaining = Method /\ ~hooked /\ dumpedMethods = 0
        /\ \A m \in Method : body[m] = DiskBody
    BY DEF Init
  <1>2. LoopInv /\ PathInv /\ BodiesInv
    BY <1>1 DEF LoopInv, PathInv, BodiesInv, Waiting, Ended
  <1>3. {m \in Method : body[m].eh # None} = {}
    BY <1>1 DEF DiskBody
  <1>4. CountInv
    BY <1>1, <1>3, FS_EmptySet DEF CountInv
  <1>. QED
    BY <1>2, <1>4 DEF CompleteInv

LEMMA FollowedInvariant == Spec /\ []Undisturbed => []Followed
  <1>1. Init => CompleteInv
    BY InitComplete
  <1>2. Owned /\ CompleteInv /\ [Next]_vars => CompleteInv'
    BY LoopStep, BodiesStep, CountStep DEF Followed, CompleteInv
  <1>3. Followed <=> Owned /\ CompleteInv
    BY DEF Followed
  <1>. QED
    BY <1>1, <1>2, <1>3, OwnedInvariant, PTL DEF Spec

\* Undisturbed, a module that is saved with hooks in place has every body that
\* can be dumped, whole, and every other as it was in the file, and the number
\* printed is theirs.
THEOREM CompleteUndisturbed == Spec /\ []Undisturbed => []CompleteWhenSaved
  <1>1. Followed => CompleteWhenSaved
    <2> SUFFICES ASSUME Followed, pc = "saved", hooked
                 PROVE  /\ \A m \in Method : body[m] = Outcome(m)
                        /\ dumpedMethods = Cardinality({m \in Method : Dumpable(m)})
      BY DEF CompleteWhenSaved, Outcome
    <2>1. remaining = {} /\ depth[Main] = 0
      BY DEF Followed, CompleteInv, LoopInv
    <2>2. ~Underway /\ \A m \in Method : ~Waiting(m)
      BY <2>1 DEF Underway, Waiting
    <2>3. \A m \in Method : body[m] = Outcome(m)
      BY <2>2 DEF Followed, CompleteInv, BodiesInv
    <2>4. \A m \in Method : body[m].eh # None <=> Dumpable(m)
      <3> SUFFICES ASSUME NEW m \in Method PROVE body[m].eh # None <=> Dumpable(m)
        OBVIOUS
      <3>1. m # None
        BY SetAssumption DEF Desc
      <3>2. CASE Dumpable(m)
        <4>1. body[m].eh = m
          <5>1. body[m] = OwnBodyOf(m)
            BY <2>3, <3>2, Zenon DEF Outcome
          <5>. QED
            BY <5>1 DEF OwnBodyOf
        <4>. QED
          BY <3>1, <3>2, <4>1, Zenon
      <3>3. CASE ~Dumpable(m)
        BY <2>3, <3>1, <3>3 DEF Outcome, DiskBody
      <3>. QED
        BY <3>2, <3>3 DEF Dumpable
    <2>5. {m \in Method : body[m].eh # None} = {m \in Method : Dumpable(m)}
      BY <2>4
    <2>. QED
      BY <2>3, <2>5 DEF Followed, CompleteInv, CountInv
  <1>. QED
    BY <1>1, FollowedInvariant, PTL

----------------------------------------------------------------------------
(* A run of the dumper is one that DumpRun allows.                         *)

\* The phase of a run.
LEMMA PhaseIs ==
    /\ pc \in {"create", "offsets", "apply", "prime", "primed"} => RunPhase = "start"
    /\ pc \in {"next", "call"} => RunPhase = "dump"
    /\ pc = "saved" => RunPhase = "saved"
    /\ pc \in {"failed", "crashed"} => RunPhase = "failed"
    /\ pc' \in {"create", "offsets", "apply", "prime", "primed"} => RunPhase' = "start"
    /\ pc' \in {"next", "call"} => RunPhase' = "dump"
    /\ pc' = "saved" => RunPhase' = "saved"
    /\ pc' \in {"failed", "crashed"} => RunPhase' = "failed"
  BY DEF RunPhase

\* A step that touches neither bodies nor the loop, but may end the run.
LEMMA RunGoesOn ==
    ASSUME pc \in MainPC, UNCHANGED <<remaining, reader, body, dumpedMethods>>,
           \/ RunPhase' = RunPhase
           \/ pc \notin Ended /\ pc' \in {"failed", "crashed"}
           \/ pc \notin {"next", "call"} \cup Ended /\ pc' = "next"
    PROVE  [Run!Next]_(Run!vars)
  <1>1. DumpedBodies' = DumpedBodies
    BY DEF DumpedBodies
  <1>2. CASE RunPhase' = RunPhase
    BY <1>1, <1>2 DEF Run!vars
  <1>3. CASE pc \notin Ended /\ pc' \in {"failed", "crashed"}
    <2>1. RunPhase \in {"start", "dump"} /\ RunPhase' = "failed"
      BY <1>3, PhaseIs DEF MainPC, Ended
    <2>. QED
      BY <1>1, <2>1 DEF Run!Next, Run!Fail
  <1>4. CASE pc \notin {"next", "call"} \cup Ended /\ pc' = "next"
    <2>1. RunPhase = "start" /\ RunPhase' = "dump"
      BY <1>4, PhaseIs DEF MainPC, Ended
    <2>. QED
      BY <1>1, <2>1 DEF Run!Next, Run!Start
  <1>. QED
    BY <1>2, <1>3, <1>4

LEMMA RunStep ==
    ASSUME Followed, [Next]_vars
    PROVE  [Run!Next]_(Run!vars)
  <1>0. pc \in MainPC
    BY DEF Followed, Owned, ControlInv, TypeOK
  <1>1. ASSUME UNCHANGED <<pc, remaining, reader, body, dumpedMethods>>
        PROVE  [Run!Next]_(Run!vars)
    <2>1. RunPhase' = RunPhase
      BY <1>1 DEF RunPhase
    <2>. QED
      BY <1>0, <1>1, <2>1, RunGoesOn
  <1>2. ASSUME NEW t \in Thread, FrameStep(t) PROVE [Run!Next]_(Run!vars)
    <2>1. UNCHANGED <<pc, remaining, reader>>
      BY <1>2, StepOfTop DEF Followed, Owned, mainVars
    <2>2. CASE body' = body /\ dumpedMethods' = dumpedMethods
      BY <1>1, <2>1, <2>2
    <2>3. CASE ~(body' = body /\ dumpedMethods' = dumpedMethods)
      <3>1. /\ reader \in Method /\ pc = "next" /\ body[reader].eh = None
            /\ \A m \in Method : m # reader => body'[m] = body[m]
        BY <1>2, <2>3, Writes
      <3>2. None \notin Method
        BY SetAssumption DEF Desc
      <3>3. reader \notin DumpedBodies
        BY <3>1, <3>2 DEF DumpedBodies, OwnBodyOf
      <3>4. RunPhase = "dump" /\ RunPhase' = "dump"
        BY <2>1, <3>1, PhaseIs
      <3>5. CASE body'[reader].eh = None /\ dumpedMethods' = dumpedMethods
        <4>1. \A m \in Method : body'[m] = OwnBodyOf(m) <=> body[m] = OwnBodyOf(m)
          BY <3>1, <3>2, <3>5 DEF OwnBodyOf
        <4>2. DumpedBodies' = DumpedBodies
          BY <4>1 DEF DumpedBodies
        <4>. QED
          BY <2>1, <3>4, <3>5, <4>2 DEF Run!vars
      <3>6. CASE body'[reader] = OwnBodyOf(reader) /\ dumpedMethods' = dumpedMethods + 1
        <4>1. DumpedBodies' = DumpedBodies \cup {reader}
          BY <3>1, <3>6 DEF DumpedBodies
        <4>. QED
          BY <2>1, <3>1, <3>2, <3>3, <3>4, <3>6, <4>1 DEF Run!Next, Run!Dump
      <3>. QED
        BY <1>2, <2>3, <3>5, <3>6, Writes
    <2>. QED
      BY <2>2, <2>3
  <1>3. ASSUME NEW t \in Thread, NEW d \in Stray, StrayCompile(t, d) PROVE [Run!Next]_(Run!vars)
    BY <1>1, <1>3 DEF StrayCompile, mainVars, managedVars
  <1>4. CASE CollectDelegate
    BY <1>1, <1>4 DEF CollectDelegate, mainVars
  <1>5. ASSUME NEW t \in Thread, CallCollected(t) PROVE [Run!Next]_(Run!vars)
    BY <1>0, <1>5, RunGoesOn DEF CallCollected, managedVars
  <1>6. CASE UNCHANGED vars
    BY <1>1, <1>6 DEF vars, mainVars, managedVars
  <1>7. CASE MainStep
    <2>0. body' = body /\ dumpedMethods' = dumpedMethods
      BY <1>7, MainCounts
    <2>1. CASE CreateCompiler \/ Prime
      <3>1. UNCHANGED <<remaining, reader>> /\ RunPhase = "start" /\ RunPhase' = "start"
        BY <2>1, PhaseIs DEF CreateCompiler, Prime, MainAt, managedVars
      <3>. QED
        BY <1>0, <2>0, <3>1, RunGoesOn
    <2>2. CASE InitialiseOffsets
      <3>1. UNCHANGED <<remaining, reader>> /\ pc = "offsets" /\ pc' \in {"apply", "next", "failed"}
        BY <2>2 DEF InitialiseOffsets, AddHookReturns, MainAt, managedVars
      <3>2. RunPhase = "start" /\ (pc' = "apply" => RunPhase' = "start")
        BY <3>1, PhaseIs
      <3>. QED
        BY <1>0, <2>0, <3>1, <3>2, RunGoesOn DEF Ended
    <2>3. CASE ApplyHooks
      <3>1. UNCHANGED <<remaining, reader>> /\ pc = "apply" /\ pc' \in {"prime", "crashed"}
        BY <2>3 DEF ApplyHooks, MainAt, managedVars
      <3>2. RunPhase = "start" /\ (pc' = "prime" => RunPhase' = "start")
        BY <3>1, PhaseIs
      <3>. QED
        BY <1>0, <2>0, <3>1, <3>2, RunGoesOn DEF Ended
    <2>4. CASE HookAdded
      <3>1. UNCHANGED <<remaining, reader>> /\ pc = "primed" /\ pc' \in {"next", "failed"}
        BY <2>4 DEF HookAdded, AddHookReturns, MainAt, managedVars
      <3>. QED
        BY <1>0, <2>0, <3>1, RunGoesOn DEF Ended
    <2>5. ASSUME NEW m \in Method, NextMethod(m) PROVE [Run!Next]_(Run!vars)
      <3>1. /\ m \in remaining /\ remaining' = remaining \ {m} /\ reader' = m
            /\ pc = "next" /\ pc' = "call"
        BY <2>5 DEF NextMethod, MainAt
      <3>2. RunPhase = "dump" /\ RunPhase' = "dump" /\ DumpedBodies' = DumpedBodies
        BY <2>0, <3>1, PhaseIs DEF DumpedBodies
      <3>. QED
        BY <2>0, <3>1, <3>2 DEF Run!Next, Run!Visit
    <2>6. CASE CompileMethod
      <3>1. UNCHANGED <<remaining, reader>> /\ RunPhase = "dump" /\ RunPhase' = "dump"
        BY <2>6, PhaseIs DEF CompileMethod, MainAt, managedVars
      <3>. QED
        BY <1>0, <2>0, <3>1, RunGoesOn
    <2>7. CASE CompileNothing \/ ResolveFails
      <3>1. UNCHANGED <<remaining, reader>> /\ pc = "call" /\ pc' \in {"next", "crashed"}
        BY <2>7 DEF CompileNothing, ResolveFails, MainAt, managedVars
      <3>2. RunPhase = "dump" /\ (pc' = "next" => RunPhase' = "dump")
        BY <3>1, PhaseIs
      <3>. QED
        BY <1>0, <2>0, <3>1, <3>2, RunGoesOn DEF Ended
    <2>8. CASE Save
      <3>1. UNCHANGED <<remaining, reader>> /\ remaining = {} /\ RunPhase = "dump" /\ RunPhase' = "saved"
        BY <2>8, PhaseIs DEF Save, MainAt, managedVars
      <3>2. DumpedBodies' = DumpedBodies
        BY <2>0 DEF DumpedBodies
      <3>. QED
        BY <2>0, <3>1, <3>2 DEF Run!Next, Run!Save
    <2>. QED
      BY <1>7, <2>1, <2>2, <2>3, <2>4, <2>5, <2>6, <2>7, <2>8 DEF MainStep
  <1>. QED
    BY <1>2, <1>3, <1>4, <1>5, <1>6, <1>7 DEF Next, Done

\* Undisturbed, two threads of callbacks, the loop over the methods and the
\* hook library together never dump a body twice, in part or out of turn, or
\* touch one after Save: every step of the program is one of DumpRun's or none.
THEOREM ImplementsRunUndisturbed == Spec /\ []Undisturbed => Run!Safety
  <1>1. Init => Run!Init
    <2> SUFFICES ASSUME Init PROVE Run!Init
      OBVIOUS
    <2>1. None \notin Method
      BY SetAssumption DEF Desc
    <2>2. DumpedBodies = {}
      BY <2>1 DEF Init, DumpedBodies, DiskBody, OwnBodyOf
    <2>3. RunPhase = "start"
      BY PhaseIs DEF Init
    <2>. QED
      BY <2>2, <2>3 DEF Init, Run!Init
  <1>. QED
    BY <1>1, RunStep, FollowedInvariant, PTL DEF Spec, Run!Safety
=============================================================================
