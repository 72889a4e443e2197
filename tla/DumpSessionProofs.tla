------------------------- MODULE DumpSessionProofs -------------------------
(***************************************************************************)
(* Theorems about DumpSession, for every module, every set of threads and  *)
(* every bound.                                                            *)
(***************************************************************************)
EXTENDS DumpSession, TLAPS

----------------------------------------------------------------------------
\* The stack operators keep their types.

\* The compilation a thread is working on is one of its frames.
LEMMA TopType ==
    ASSUME TypeOK, NEW t \in Thread, depth[t] > 0
    PROVE  /\ depth[t] \in Level
           /\ Top(t) \in Frame
  BY BoundAssumption DEF TypeOK, Level, Top

\* Writing a frame over the top one leaves a function of the same type, and
\* every other frame as it was.
LEMMA SetTopType ==
    ASSUME TypeOK, NEW t \in Thread, depth[t] > 0, NEW f \in Frame, SetTop(t, f)
    PROVE  /\ frame' \in [Thread -> [Level -> Frame]]
           /\ \A u \in Thread, l \in Level :
                frame'[u][l] = IF u = t /\ l = depth[t] THEN f ELSE frame[u][l]
  <1>1. depth[t] \in Level
    BY TopType
  <1>. QED
    BY <1>1 DEF TypeOK, SetTop

\* A compilation that only moves on is still a compilation of its type.
LEMMA GotoType ==
    ASSUME TypeOK, NEW t \in Thread, depth[t] > 0, NEW p \in FramePC, Goto(t, p)
    PROVE  /\ frame' \in [Thread -> [Level -> Frame]]
           /\ \A u \in Thread, l \in Level :
                frame'[u][l] = IF u = t /\ l = depth[t]
                               THEN [frame[t][depth[t]] EXCEPT !.pc = p] ELSE frame[u][l]
  <1>1. [Top(t) EXCEPT !.pc = p] \in Frame
    BY TopType DEF Frame
  <1>. QED
    BY <1>1, SetTopType DEF Goto, Top

\* The empty frame and a new compilation are frames.
LEMMA NewFrameType ==
    /\ NoFrame \in Frame
    /\ NoFrame.meth = None /\ NoFrame.pc = "idle"
    /\ \A d \in Desc :
        /\ Compiling(d, TRUE) \in Frame /\ Compiling(d, FALSE) \in Frame
        /\ Compiling(d, TRUE).meth = d /\ Compiling(d, FALSE).meth = d
        /\ Compiling(d, TRUE).pc = "locals" /\ Compiling(d, FALSE).pc = "locals"
  BY DEF NoFrame, Compiling, Frame, FramePC, Signature, NoSignature

\* Starting a compilation puts one frame above the others.
LEMMA PushType ==
    ASSUME TypeOK, NEW t \in Thread, NEW f \in Frame, Push(t, f)
    PROVE  /\ depth' \in [Thread -> 0..MaxDepth]
           /\ frame' \in [Thread -> [Level -> Frame]]
           /\ depth[t] + 1 \in Level
           /\ \A u \in Thread : depth'[u] = IF u = t THEN depth[t] + 1 ELSE depth[u]
           /\ \A u \in Thread, l \in Level :
                frame'[u][l] = IF u = t /\ l = depth[t] + 1 THEN f ELSE frame[u][l]
  <1>1. depth[t] + 1 \in Level /\ depth[t] + 1 \in 0..MaxDepth
    BY BoundAssumption DEF TypeOK, Push, Level
  <1>. QED
    BY <1>1 DEF TypeOK, Push

\* Ending a compilation empties the top frame.
LEMMA PopType ==
    ASSUME TypeOK, NEW t \in Thread, depth[t] > 0, Pop(t)
    PROVE  /\ depth' \in [Thread -> 0..MaxDepth]
           /\ frame' \in [Thread -> [Level -> Frame]]
           /\ \A u \in Thread : depth'[u] = IF u = t THEN depth[t] - 1 ELSE depth[u]
           /\ \A u \in Thread, l \in Level :
                frame'[u][l] = IF u = t /\ l = depth[t] THEN NoFrame ELSE frame[u][l]
  <1>1. /\ frame' \in [Thread -> [Level -> Frame]]
        /\ \A u \in Thread, l \in Level :
                frame'[u][l] = IF u = t /\ l = depth[t] THEN NoFrame ELSE frame[u][l]
    <2>1. NoFrame \in Frame
      BY NewFrameType
    <2>2. SetTop(t, NoFrame)
      BY DEF Pop
    <2>. QED
      BY <2>1, <2>2, SetTopType
  <1>2. depth[t] - 1 \in 0..MaxDepth
    BY BoundAssumption DEF TypeOK
  <1>. QED
    BY <1>1, <1>2 DEF Pop, TypeOK

----------------------------------------------------------------------------
\* Type correctness.

\* Descriptors the dumper asks to be compiled are descriptors.
LEMMA UnboxedType ==
    ASSUME NEW m \in Method
    PROVE  GetUnboxedMethod(MethodHandle[m]) \in Method \cup Stub
  BY FunctionAssumption DEF GetUnboxedMethod

LEMMA InitType == Init => TypeOK
  <1> SUFFICES ASSUME Init PROVE TypeOK
    OBVIOUS
  <1>1. NoFrame \in Frame /\ DiskBody \in Body
    BY NewFrameType DEF DiskBody, Body, Signature, NoSignature
  <1>2. frame \in [Thread -> [Level -> Frame]]
    BY <1>1 DEF Init
  <1>3. body \in [Method -> Body]
    BY <1>1 DEF Init
  <1>4. locals \in [Desc -> Nat]
    BY DEF Init
  <1>5. depth \in [Thread -> 0..MaxDepth] /\ strays \in 0..MaxStray
    BY BoundAssumption DEF Init
  <1>6. /\ pc \in MainPC /\ runtimeVersion \in Version /\ remaining \in SUBSET Method
        /\ reader \in Method \cup {None} /\ dumpedMethods \in Nat
        /\ initialized \in BOOLEAN /\ hooked \in BOOLEAN /\ collected \in BOOLEAN
        /\ current \in Desc \cup {None} /\ fakeCode \in Desc \cup {None}
    BY DEF Init, MainPC
  <1>. QED
    BY <1>2, <1>3, <1>4, <1>5, <1>6 DEF TypeOK

\* Each step of the main thread keeps the types.
LEMMA MainStepType == TypeOK /\ ReaderOK /\ MainStep => TypeOK'
  <1> SUFFICES ASSUME TypeOK, ReaderOK, MainStep PROVE TypeOK'
    OBVIOUS
  <1> USE DEF mainVars, managedVars, nativeVars, stackVars
  <1>1. CASE CreateCompiler
    BY <1>1 DEF CreateCompiler, TypeOK, MainPC
  <1>2. CASE InitialiseOffsets
    BY <1>2 DEF InitialiseOffsets, AddHookReturns, TypeOK, MainPC
  <1>3. CASE ApplyHooks
    BY <1>3 DEF ApplyHooks, TypeOK, MainPC
  <1>4. CASE Prime
    <2>1. Main \in Thread /\ Useless \in Desc
      BY DEF Thread, Desc
    <2>2. depth' \in [Thread -> 0..MaxDepth] /\ frame' \in [Thread -> [Level -> Frame]]
      BY <1>4, <2>1, PushType, NewFrameType DEF Prime
    <2>. QED
      BY <1>4, <2>1, <2>2 DEF Prime, TypeOK, MainPC
  <1>5. CASE HookAdded
    BY <1>5 DEF HookAdded, AddHookReturns, TypeOK, MainPC
  <1>6. CASE \E m \in Method : NextMethod(m)
    BY <1>6 DEF NextMethod, TypeOK, MainPC
  <1>7. CASE CompileMethod
    <2>1. reader \in Method
      BY <1>7 DEF CompileMethod, MainAt, ReaderOK, TypeOK
    <2>2. Main \in Thread /\ GetUnboxedMethod(MethodHandle[reader]) \in Desc
      BY <2>1, UnboxedType DEF Thread, Desc
    <2>3. depth' \in [Thread -> 0..MaxDepth] /\ frame' \in [Thread -> [Level -> Frame]]
      BY <1>7, <2>2, PushType, NewFrameType DEF CompileMethod
    <2>. QED
      BY <1>7, <2>2, <2>3 DEF CompileMethod, TypeOK, MainPC
  <1>8. CASE ResolveFails
    BY <1>8 DEF ResolveFails, TypeOK, MainPC
  <1>9. CASE Save
    BY <1>9 DEF Save, TypeOK, MainPC
  <1>10. CASE CompileNothing
    BY <1>10 DEF CompileNothing, TypeOK, MainPC
  <1>. QED
    BY <1>1, <1>2, <1>3, <1>4, <1>5, <1>6, <1>7, <1>8, <1>9, <1>10 DEF MainStep

\* Each stray compilation and each step of a compilation keeps the types.
LEMMA StrayType ==
    ASSUME TypeOK, NEW t \in Thread, NEW d \in Stray, StrayCompile(t, d)
    PROVE  TypeOK'
  <1>1. d \in Desc
    BY SetAssumption DEF Desc
  <1>2. depth' \in [Thread -> 0..MaxDepth] /\ frame' \in [Thread -> [Level -> Frame]]
    BY <1>1, PushType, NewFrameType DEF StrayCompile
  <1>3. strays' \in 0..MaxStray
    BY BoundAssumption DEF StrayCompile, TypeOK
  <1>. QED
    BY <1>2, <1>3 DEF StrayCompile, TypeOK, mainVars, managedVars, nativeVars

LEMMA FrameStepType ==
    ASSUME TypeOK, ReaderOK, HookPath, NEW t \in Thread, FrameStep(t)
    PROVE  TypeOK'
  <1> USE DEF frameUnchanged, mainVars, managedVars, nativeVars, stackVars
  <1>1. depth[t] > 0 /\ depth[t] \in Level /\ Top(t) \in Frame
    <2>1. depth[t] > 0
      BY DEF FrameStep, At, GetArgType, CompCompile, TestCurrent, KeepFakeCode,
             RealCompile, ImportPhase, GiveUp, CallCallback, SizeGuard, ReadVariables,
             ReadInstructions, ReadExceptionHandlers, ReturnFakeCode, Return
    <2>. QED
      BY <2>1, TopType
  <1>2. CASE GetArgType(t)
    <2>1. [Top(t) EXCEPT !.seen = @ + 1] \in Frame
      BY <1>1 DEF Frame
    <2>2. frame' \in [Thread -> [Level -> Frame]]
      BY <1>1, <1>2, <2>1, SetTopType DEF GetArgType
    <2>3. locals' \in [Desc -> Nat]
      <3>1. locals' = locals \/ locals' = [locals EXCEPT ![current] = locals[current] + 1]
        BY <1>2 DEF GetArgType
      <3>. QED
        BY <3>1 DEF TypeOK
    <2>. QED
      BY <1>2, <2>2, <2>3 DEF GetArgType, TypeOK
  <1>3. CASE CompCompile(t)
    <2>1. PICK p \in FramePC : Goto(t, p)
      BY <1>3 DEF CompCompile, FramePC
    <2>2. frame' \in [Thread -> [Level -> Frame]]
      BY <1>1, <2>1, GotoType
    <2>. QED
      BY <1>3, <2>2 DEF CompCompile, TypeOK
  <1>4. CASE TestCurrent(t)
    <2>1. PICK p \in FramePC : Goto(t, p)
      BY <1>4 DEF TestCurrent, FramePC
    <2>2. frame' \in [Thread -> [Level -> Frame]]
      BY <1>1, <2>1, GotoType
    <2>. QED
      BY <1>4, <2>2 DEF TestCurrent, TypeOK
  <1>5. CASE KeepFakeCode(t)
    <2>1. [Top(t) EXCEPT !.pc = "return", !.code = Top(t).meth] \in Frame
      BY <1>1 DEF Frame, FramePC
    <2>2. frame' \in [Thread -> [Level -> Frame]]
      BY <1>1, <1>5, <2>1, SetTopType DEF KeepFakeCode
    <2>3. Top(t).meth \in Desc \cup {None}
      BY <1>1 DEF Frame
    <2>. QED
      BY <1>5, <2>2, <2>3 DEF KeepFakeCode, TypeOK
  <1>6. CASE RealCompile(t)
    <2>1. [Top(t) EXCEPT !.pc = "return", !.code = Top(t).meth] \in Frame
      BY <1>1 DEF Frame, FramePC
    <2>2. frame' \in [Thread -> [Level -> Frame]]
      BY <1>1, <1>6, <2>1, SetTopType DEF RealCompile
    <2>. QED
      BY <1>6, <2>2 DEF RealCompile, TypeOK
  <1>7. CASE ImportPhase(t)
    <2>1. Goto(t, "sig") /\ "sig" \in FramePC
      BY <1>7 DEF ImportPhase, FramePC
    <2>2. frame' \in [Thread -> [Level -> Frame]]
      BY <1>1, <2>1, GotoType
    <2>. QED
      BY <1>7, <2>2 DEF ImportPhase, TypeOK
  <1>8. CASE GiveUp(t)
    <2>1. depth' \in [Thread -> 0..MaxDepth] /\ frame' \in [Thread -> [Level -> Frame]]
      BY <1>1, <1>8, PopType DEF GiveUp
    <2>. QED
      BY <1>8, <2>1 DEF GiveUp, TypeOK
  <1>9. CASE CallCallback(t)
    <2>1. current \in Desc
      <3>1. frame[t][depth[t]].pc \in PastTest
        BY <1>9 DEF CallCallback, At, Top, PastTest
      <3>2. fakeCode # None
        BY <1>1, <3>1 DEF HookPath
      <3>. QED
        BY <3>2 DEF ReaderOK, TypeOK
    <2>2. [of |-> current, n |-> locals[current]] \in Signature
      BY <2>1 DEF Signature, TypeOK
    <2>3. [Top(t) EXCEPT !.pc = "guard", !.sig = [of |-> current, n |-> locals[current]]]
            \in Frame
      BY <1>1, <2>2 DEF Frame, FramePC
    <2>4. frame' \in [Thread -> [Level -> Frame]]
      BY <1>1, <1>9, <2>3, SetTopType DEF CallCallback
    <2>. QED
      BY <1>9, <2>4 DEF CallCallback, TypeOK
  <1>10. CASE SizeGuard(t)
    <2>1. PICK p \in FramePC : Goto(t, p)
      BY <1>10 DEF SizeGuard, FramePC
    <2>2. frame' \in [Thread -> [Level -> Frame]]
      BY <1>1, <2>1, GotoType
    <2>. QED
      BY <1>10, <2>2 DEF SizeGuard, TypeOK
  <1>11. CASE ReadVariables(t)
    <2>1. frame' \in [Thread -> [Level -> Frame]]
      BY <1>1, <1>11, GotoType DEF ReadVariables, FramePC
    <2>2. body' \in [Method -> Body]
      BY <1>1, <1>11 DEF ReadVariables, TypeOK, Body, Frame
    <2>. QED
      BY <1>11, <2>1, <2>2 DEF ReadVariables, TypeOK
  <1>12. CASE ReadInstructions(t)
    <2>1. frame' \in [Thread -> [Level -> Frame]]
      BY <1>1, <1>12, GotoType DEF ReadInstructions, FramePC
    <2>2. body' \in [Method -> Body]
      BY <1>1, <1>12 DEF ReadInstructions, TypeOK, Body, Frame
    <2>. QED
      BY <1>12, <2>1, <2>2 DEF ReadInstructions, TypeOK
  <1>13. CASE ReadExceptionHandlers(t)
    <2>1. frame' \in [Thread -> [Level -> Frame]]
      BY <1>1, <1>13, GotoType DEF ReadExceptionHandlers, FramePC
    <2>2. body' \in [Method -> Body]
      BY <1>1, <1>13 DEF ReadExceptionHandlers, TypeOK, Body, Frame
    <2>. QED
      BY <1>13, <2>1, <2>2 DEF ReadExceptionHandlers, TypeOK
  <1>14. CASE ReturnFakeCode(t)
    <2>1. [Top(t) EXCEPT !.pc = "return", !.code = fakeCode] \in Frame
      BY <1>1 DEF Frame, FramePC, TypeOK
    <2>2. frame' \in [Thread -> [Level -> Frame]]
      BY <1>1, <1>14, <2>1, SetTopType DEF ReturnFakeCode
    <2>. QED
      BY <1>14, <2>2 DEF ReturnFakeCode, TypeOK
  <1>15. CASE Return(t)
    <2>1. depth' \in [Thread -> 0..MaxDepth] /\ frame' \in [Thread -> [Level -> Frame]]
      BY <1>1, <1>15, PopType DEF Return
    <2>. QED
      BY <1>15, <2>1 DEF Return, TypeOK
  <1>. QED
    BY <1>2, <1>3, <1>4, <1>5, <1>6, <1>7, <1>8, <1>9, <1>10, <1>11, <1>12, <1>13,
       <1>14, <1>15 DEF FrameStep

----------------------------------------------------------------------------
\* The control invariant.

Control == StackOK /\ UselessOnce /\ FakeCodeFirst /\ HookPath /\ ReaderOK

\* A step that only rewrites the top frame of a thread keeps the control
\* invariant if the new frame meets what the invariant asks of a frame.
LEMMA MoveOn ==
    ASSUME ControlInv, NEW t \in Thread, depth[t] > 0, NEW f \in Frame, SetTop(t, f),
           UNCHANGED <<pc, hooked, depth, current, fakeCode, reader>>,
           f.meth = Top(t).meth, f.pc # "idle",
           f.meth = Useless =>
                /\ f.pc \in {"locals", "first", "real", "return"}
                /\ f.pc = "locals" => fakeCode = None
                /\ hooked /\ fakeCode = None => f.pc \in {"locals", "first"},
           f.pc = "first" => f.meth = Useless /\ fakeCode = None,
           f.pc \in PastTest \cup {"first", "recheck"} => hooked,
           f.pc \in PastTest => fakeCode # None /\ reader # None,
           f.pc = "recheck" /\ f.meth = current => fakeCode # None,
           f.pc = "return" => f.code # None
    PROVE  Control'
  <1>1. /\ depth[t] \in Level
        /\ \A u \in Thread, l \in Level :
                frame'[u][l] = IF u = t /\ l = depth[t] THEN f ELSE frame[u][l]
    BY TopType, SetTopType DEF ControlInv
  <1>2. Top(t) = frame[t][depth[t]]
    BY DEF Top
  <1>3. Main \in Thread /\ 1 \in Level
    BY BoundAssumption DEF Thread, Level
  <1>4. StackOK'
    BY <1>1, <1>2 DEF ControlInv, StackOK, TypeOK
  <1>5. UselessOnce'
    BY <1>1, <1>2, <1>3 DEF ControlInv, UselessOnce
  <1>6. FakeCodeFirst'
    BY <1>1 DEF ControlInv, FakeCodeFirst
  <1>7. HookPath'
    BY <1>1 DEF ControlInv, HookPath
  <1>8. ReaderOK'
    BY <1>1 DEF ControlInv, ReaderOK
  <1>. QED
    BY <1>4, <1>5, <1>6, <1>7, <1>8 DEF Control

\* Ending a compilation keeps the control invariant, provided it is not the
\* first one ending without a fake code.
LEMMA PopControl ==
    ASSUME ControlInv, NEW t \in Thread, depth[t] > 0, Pop(t),
           UNCHANGED <<pc, hooked, current, fakeCode, reader>>,
           Top(t).meth = Useless => Top(t).pc = "return"
    PROVE  Control'
  <1>1. /\ depth' \in [Thread -> 0..MaxDepth]
        /\ depth[t] \in Level
        /\ \A u \in Thread : depth'[u] = IF u = t THEN depth[t] - 1 ELSE depth[u]
        /\ \A u \in Thread, l \in Level :
                frame'[u][l] = IF u = t /\ l = depth[t] THEN NoFrame ELSE frame[u][l]
    BY TopType, PopType DEF ControlInv
  <1>2. Top(t) = frame[t][depth[t]]
    BY DEF Top
  <1>3. Main \in Thread /\ 1 \in Level
    BY BoundAssumption DEF Thread, Level
  <1>4. NoFrame.meth = None /\ NoFrame.pc = "idle" /\ None # Useless
    BY SetAssumption DEF NoFrame, Desc
  <1>5. StackOK'
    <2> SUFFICES ASSUME NEW u \in Thread, NEW l \in Level
                 PROVE  IF l <= depth'[u]
                        THEN frame'[u][l].meth \in Desc /\ frame'[u][l].pc # "idle"
                        ELSE frame'[u][l] = NoFrame
      BY DEF StackOK
    <2>1. IF l <= depth[u]
          THEN frame[u][l].meth \in Desc /\ frame[u][l].pc # "idle"
          ELSE frame[u][l] = NoFrame
      BY DEF ControlInv, StackOK
    <2>2. depth[u] \in Nat /\ l \in Nat
      BY DEF ControlInv, TypeOK, Level
    <2>. QED
      BY <1>1, <2>1, <2>2
  <1>6. UselessOnce'
    <2>1. \A u \in Thread, l \in Level :
              (frame'[u][l].meth = Useless =>
                    /\ u = Main /\ l = 1 /\ pc \in {"primed"} \cup Ended
                    /\ frame'[u][l].pc \in {"locals", "first", "real", "return"}
                    /\ frame'[u][l].pc = "locals" => fakeCode = None)
      BY <1>1, <1>4 DEF ControlInv, UselessOnce
    <2>2. ASSUME pc = "primed", hooked, fakeCode = None
          PROVE  /\ depth'[Main] > 0
                 /\ frame'[Main][1].meth = Useless
                 /\ frame'[Main][1].pc \in {"locals", "first"}
      <3>1. /\ depth[Main] > 0
            /\ frame[Main][1].meth = Useless
            /\ frame[Main][1].pc \in {"locals", "first"}
        BY <2>2 DEF ControlInv, UselessOnce
      <3>2. ~(t = Main /\ depth[t] = 1)
        BY <1>2, <3>1
      <3>. QED
        BY <1>1, <1>3, <3>1, <3>2 DEF Level
    <2>. QED
      BY <2>1, <2>2 DEF ControlInv, UselessOnce
  <1>7. FakeCodeFirst'
    BY <1>1, <1>4 DEF ControlInv, FakeCodeFirst
  <1>8. HookPath'
    BY <1>1, <1>4 DEF ControlInv, HookPath, PastTest
  <1>9. ReaderOK'
    BY <1>1, <1>4 DEF ControlInv, ReaderOK, PastTest
  <1>. QED
    BY <1>5, <1>6, <1>7, <1>8, <1>9 DEF Control

\* A new compilation keeps the stacks in order and changes no other frame.
LEMMA PushFrames ==
    ASSUME ControlInv, NEW t \in Thread, NEW f \in Frame, Push(t, f),
           f.meth \in Desc, f.pc = "locals"
    PROVE  /\ StackOK'
           /\ depth'[t] = depth[t] + 1
           /\ \A u \in Thread, l \in Level :
                frame'[u][l] = IF u = t /\ l = depth[t] + 1 THEN f ELSE frame[u][l]
  <1>1. /\ depth' \in [Thread -> 0..MaxDepth]
        /\ depth[t] + 1 \in Level
        /\ \A u \in Thread : depth'[u] = IF u = t THEN depth[t] + 1 ELSE depth[u]
        /\ \A u \in Thread, l \in Level :
                frame'[u][l] = IF u = t /\ l = depth[t] + 1 THEN f ELSE frame[u][l]
    BY PushType DEF ControlInv
  <1>2. StackOK'
    <2> SUFFICES ASSUME NEW u \in Thread, NEW l \in Level
                 PROVE  IF l <= depth'[u]
                        THEN frame'[u][l].meth \in Desc /\ frame'[u][l].pc # "idle"
                        ELSE frame'[u][l] = NoFrame
      BY DEF StackOK
    <2>1. IF l <= depth[u]
          THEN frame[u][l].meth \in Desc /\ frame[u][l].pc # "idle"
          ELSE frame[u][l] = NoFrame
      BY DEF ControlInv, StackOK
    <2>2. depth[u] \in Nat /\ l \in Nat
      BY DEF ControlInv, TypeOK, Level
    <2>. QED
      BY <1>1, <2>1, <2>2
  <1>. QED
    BY <1>1, <1>2

\* The control invariant holds at the start.
LEMMA InitControl == Init => Control
  <1> SUFFICES ASSUME Init PROVE Control
    OBVIOUS
  <1>1. \A t \in Thread, l \in Level : frame[t][l] = NoFrame /\ depth[t] = 0
    BY DEF Init
  <1>2. NoFrame.meth # Useless /\ NoFrame.pc = "idle"
    BY NewFrameType, SetAssumption DEF Desc
  <1>3. StackOK
    BY <1>1 DEF StackOK, Level
  <1>4. UselessOnce
    BY <1>1, <1>2 DEF UselessOnce, Init
  <1>5. FakeCodeFirst
    BY <1>1, <1>2 DEF FakeCodeFirst, Init
  <1>6. HookPath /\ ReaderOK
    BY <1>1, <1>2 DEF HookPath, ReaderOK, PastTest, Init
  <1>. QED
    BY <1>3, <1>4, <1>5, <1>6 DEF Control

\* On an empty main stack there is no compilation of the useless method.
LEMMA EmptyStack ==
    ASSUME ControlInv, depth[Main] = 0
    PROVE  \A t \in Thread, l \in Level : frame[t][l].meth # Useless
  <1> SUFFICES ASSUME NEW t \in Thread, NEW l \in Level, frame[t][l].meth = Useless
               PROVE  FALSE
    OBVIOUS
  <1>1. t = Main /\ l = 1
    BY DEF ControlInv, UselessOnce
  <1>2. frame[t][l] = NoFrame
    BY <1>1 DEF ControlInv, StackOK
  <1>. QED
    BY <1>2, NewFrameType, SetAssumption DEF Desc

\* Each step of the main thread keeps the control invariant.
LEMMA MainStepControl == ControlInv /\ MainStep => Control'
  <1> SUFFICES ASSUME ControlInv, MainStep PROVE Control'
    OBVIOUS
  <1> USE DEF mainVars, managedVars, nativeVars, stackVars
  <1>1. Main \in Thread /\ 1 \in Level /\ None # Useless
    BY BoundAssumption, SetAssumption DEF Thread, Level, Desc
  <1>2. CASE CreateCompiler \/ InitialiseOffsets
    BY <1>2 DEF CreateCompiler, InitialiseOffsets, AddHookReturns, MainAt, ControlInv, Control, StackOK,
                UselessOnce, FakeCodeFirst, HookPath, ReaderOK, Ended
  <1>3. CASE ApplyHooks
    BY <1>3 DEF ApplyHooks, MainAt, ControlInv, Control, StackOK,
                UselessOnce, FakeCodeFirst, HookPath, ReaderOK, Ended
  <1>4. CASE Prime
    <2> DEFINE f == Compiling(Useless, FALSE)
    <2>1. f \in Frame /\ f.meth = Useless /\ f.pc = "locals" /\ Useless \in Desc
      BY NewFrameType DEF Desc
    <2> HIDE DEF f
    <2>2. /\ StackOK'
          /\ depth'[Main] = 1
          /\ \A u \in Thread, l \in Level :
                frame'[u][l] = IF u = Main /\ l = 1 THEN f ELSE frame[u][l]
      <3>1. Push(Main, f) /\ depth[Main] = 0
        BY <1>4 DEF Prime, MainAt, f
      <3>. QED
        BY <1>1, <2>1, <3>1, PushFrames
    <2>3. \A u \in Thread, l \in Level : frame[u][l].meth # Useless
      BY <1>4, EmptyStack DEF Prime, MainAt
    <2>4. fakeCode = None
      BY <1>4 DEF Prime, MainAt, ControlInv, FakeCodeFirst
    <2>5. UselessOnce'
      BY <1>1, <1>4, <2>1, <2>2, <2>3, <2>4 DEF Prime, UselessOnce
    <2>6. FakeCodeFirst'
      BY <1>1, <1>4, <2>1, <2>2, <2>4 DEF Prime, FakeCodeFirst, ControlInv
    <2>7. HookPath'
      BY <1>1, <1>4, <2>1, <2>2, <2>3 DEF Prime, HookPath, PastTest, ControlInv
    <2>8. ReaderOK'
      BY <1>1, <1>4, <2>1, <2>2 DEF Prime, ReaderOK, PastTest, ControlInv
    <2>. QED
      BY <2>2, <2>5, <2>6, <2>7, <2>8 DEF Control
  <1>5. CASE HookAdded
    <2>1. \A u \in Thread, l \in Level : frame[u][l].meth # Useless
      BY <1>5, EmptyStack DEF HookAdded, MainAt
    <2>2. hooked => fakeCode # None
      BY <1>1, <1>5, <2>1 DEF HookAdded, MainAt, ControlInv, UselessOnce
    <2>. QED
      BY <1>5, <2>1, <2>2 DEF HookAdded, AddHookReturns, MainAt, ControlInv, Control, StackOK,
                UselessOnce, FakeCodeFirst, HookPath, ReaderOK, Ended
  <1>6. CASE \E m \in Method : NextMethod(m)
    <2>1. PICK m \in Method : NextMethod(m)
      BY <1>6
    <2>2. m # None
      BY SetAssumption DEF Desc
    <2>. QED
      BY <2>1, <2>2 DEF NextMethod, MainAt, ControlInv, Control, StackOK,
                UselessOnce, FakeCodeFirst, HookPath, ReaderOK, Ended
  <1>7. CASE CompileMethod
    <2>1. reader \in Method
      BY <1>7 DEF CompileMethod, MainAt, ControlInv, ReaderOK, TypeOK
    <2> DEFINE d == GetUnboxedMethod(MethodHandle[reader])
               f == Compiling(d, FALSE)
    <2>2. d \in Desc /\ d # Useless /\ d # None
      BY <2>1, UnboxedType, SetAssumption DEF Desc
    <2>3. f \in Frame /\ f.meth = d /\ f.pc = "locals"
      BY <2>2, NewFrameType
    <2>4. hooked => fakeCode # None
      BY <1>7 DEF CompileMethod, MainAt, ControlInv, FakeCodeFirst
    <2>5. /\ Push(Main, f) /\ current' = d /\ depth[Main] = 0 /\ pc' = "next"
          /\ UNCHANGED <<reader, hooked, fakeCode>>
      BY <1>7 DEF CompileMethod, MainAt
    <2> HIDE DEF f, d
    <2>6. /\ StackOK'
          /\ \A u \in Thread, l \in Level :
                frame'[u][l] = IF u = Main /\ l = 1 THEN f ELSE frame[u][l]
      BY <1>1, <2>2, <2>3, <2>5, PushFrames
    <2>7. \A u \in Thread, l \in Level : frame[u][l].meth # Useless
      BY <2>5, EmptyStack
    <2>8. reader # None
      BY <2>1, SetAssumption DEF Desc
    <2>9. UselessOnce' /\ FakeCodeFirst' /\ HookPath' /\ ReaderOK'
      BY <2>2, <2>3, <2>4, <2>5, <2>6, <2>7, <2>8
         DEF UselessOnce, FakeCodeFirst, HookPath, ReaderOK, PastTest, ControlInv
    <2>. QED
      BY <2>6, <2>9 DEF Control
  <1>8. CASE ResolveFails
    BY <1>8 DEF ResolveFails, MainAt, ControlInv, Control, StackOK,
                UselessOnce, FakeCodeFirst, HookPath, ReaderOK, Ended
  <1>9. CASE Save
    BY <1>9 DEF Save, MainAt, ControlInv, Control, StackOK,
                UselessOnce, FakeCodeFirst, HookPath, ReaderOK, Ended
  <1>10. CASE CompileNothing
    BY <1>10 DEF CompileNothing, MainAt, ControlInv, Control, StackOK,
                UselessOnce, FakeCodeFirst, HookPath, ReaderOK, Ended
  <1>. QED
    BY <1>2, <1>3, <1>4, <1>5, <1>6, <1>7, <1>8, <1>9, <1>10 DEF MainStep

\* Each stray compilation keeps the control invariant.
LEMMA StrayControl ==
    ASSUME ControlInv, NEW t \in Thread, NEW d \in Stray, StrayCompile(t, d)
    PROVE  Control'
  <1> DEFINE f == Compiling(d, TRUE)
  <1>1. d \in Desc /\ d # Useless
    BY SetAssumption DEF Desc
  <1>2. f \in Frame /\ f.meth = d /\ f.pc = "locals"
    BY <1>1, NewFrameType
  <1>3. /\ Push(t, f)
        /\ UNCHANGED <<pc, hooked, reader, current, fakeCode>>
    BY DEF StrayCompile, mainVars, managedVars, nativeVars
  <1> HIDE DEF f
  <1>4. /\ StackOK'
        /\ depth'[t] = depth[t] + 1
        /\ \A u \in Thread, l \in Level :
              frame'[u][l] = IF u = t /\ l = depth[t] + 1 THEN f ELSE frame[u][l]
    BY <1>1, <1>2, <1>3, PushFrames
  <1>5. UselessOnce'
    <2>1. Main \in Thread /\ 1 \in Level
      BY BoundAssumption DEF Thread, Level
    <2>2. \A u \in Thread, l \in Level : frame'[u][l].meth = Useless =>
              frame'[u][l] = frame[u][l]
      BY <1>1, <1>2, <1>4
    <2>3. depth[Main] > 0 =>
              /\ depth'[Main] > 0
              /\ frame'[Main][1] = frame[Main][1]
      <3>1. depth[Main] \in Nat /\ depth[t] \in Nat
        BY <2>1 DEF ControlInv, TypeOK
      <3>2. depth' = [depth EXCEPT ![t] = depth[t] + 1] /\ depth \in [Thread -> 0..MaxDepth]
        BY <1>3 DEF Push, ControlInv, TypeOK
      <3>. QED
        BY <1>4, <2>1, <3>1, <3>2
    <2>. QED
      BY <1>3, <2>1, <2>2, <2>3 DEF ControlInv, UselessOnce
  <1>6. FakeCodeFirst'
    BY <1>2, <1>3, <1>4 DEF ControlInv, FakeCodeFirst
  <1>7. HookPath'
    BY <1>2, <1>3, <1>4 DEF ControlInv, HookPath, PastTest
  <1>8. ReaderOK'
    BY <1>2, <1>3, <1>4 DEF ControlInv, ReaderOK, PastTest
  <1>. QED
    BY <1>4, <1>5, <1>6, <1>7, <1>8 DEF Control

\* The first compilation is that of the useless method, at the bottom of the
\* main thread's stack, and there is no fake code before it is over.
LEMMA KeepControl ==
    ASSUME ControlInv, pc \notin Ended, NEW t \in Thread, KeepFakeCode(t)
    PROVE  Control' /\ fakeCode = None /\ fakeCode' = Useless
  <1> DEFINE f == [Top(t) EXCEPT !.pc = "return", !.code = Top(t).meth]
  <1>1. /\ depth[t] > 0 /\ depth[t] \in Level
        /\ Top(t) \in Frame /\ Top(t) = frame[t][depth[t]] /\ Top(t).pc = "first"
    BY TopType DEF KeepFakeCode, At, ControlInv, Top
  <1>2. Top(t).meth = Useless /\ fakeCode = None
    BY <1>1 DEF ControlInv, FakeCodeFirst
  <1>3. /\ f \in Frame /\ f.meth = Useless /\ f.pc = "return" /\ f.code = Useless
    BY <1>1, <1>2 DEF Frame, FramePC
  <1>4. /\ SetTop(t, f) /\ fakeCode' = Useless
        /\ UNCHANGED <<pc, hooked, depth, current, reader>>
    BY <1>2 DEF KeepFakeCode, frameUnchanged, mainVars, managedVars
  <1> HIDE DEF f
  <1>5. \A u \in Thread, l \in Level :
            frame'[u][l] = IF u = t /\ l = depth[t] THEN f ELSE frame[u][l]
    BY <1>1, <1>3, <1>4, SetTopType DEF ControlInv
  <1>6. Useless \in Desc /\ Useless # None
    BY SetAssumption DEF Desc
  <1>7. t = Main /\ depth[t] = 1 /\ pc = "primed"
    BY <1>1, <1>2 DEF ControlInv, UselessOnce
  <1>8. StackOK'
    BY <1>1, <1>3, <1>4, <1>5, <1>6 DEF ControlInv, StackOK, TypeOK
  <1>9. UselessOnce'
    BY <1>3, <1>4, <1>5, <1>6, <1>7 DEF ControlInv, UselessOnce
  <1>10. FakeCodeFirst'
    <2>1. \A u \in Thread, l \in Level : frame'[u][l].pc # "first"
      BY <1>1, <1>3, <1>5, <1>7 DEF ControlInv, UselessOnce, FakeCodeFirst
    <2>. QED
      BY <1>4, <1>6, <1>7, <2>1 DEF FakeCodeFirst
  <1>11. HookPath'
    BY <1>3, <1>4, <1>5, <1>6 DEF ControlInv, HookPath, PastTest
  <1>12. ReaderOK'
    BY <1>3, <1>4, <1>5, <1>6, <1>7 DEF ControlInv, ReaderOK, UselessOnce, PastTest
  <1>. QED
    BY <1>2, <1>4, <1>8, <1>9, <1>10, <1>11, <1>12 DEF Control

\* Each step of a compilation keeps the control invariant.
LEMMA FrameStepControl ==
    ASSUME ControlInv, NEW t \in Thread, FrameStep(t)
    PROVE  Control'
  <1> USE DEF frameUnchanged, mainVars, managedVars, nativeVars
  <1>1. /\ depth[t] > 0 /\ depth[t] \in Level
        /\ Top(t) \in Frame /\ Top(t) = frame[t][depth[t]]
    <2>1. depth[t] > 0
      BY DEF FrameStep, At, GetArgType, CompCompile, TestCurrent, KeepFakeCode,
             RealCompile, ImportPhase, GiveUp, CallCallback, SizeGuard, ReadVariables,
             ReadInstructions, ReadExceptionHandlers, ReturnFakeCode, Return
    <2>. QED
      BY <2>1, TopType DEF ControlInv, Top
  <1>2. Top(t).meth \in Desc
    BY <1>1 DEF ControlInv, StackOK, TypeOK
  <1>3. /\ Top(t).meth = Useless =>
                /\ Top(t).pc \in {"locals", "first", "real", "return"}
                /\ Top(t).pc = "locals" => fakeCode = None
                /\ hooked /\ fakeCode = None => Top(t).pc \in {"locals", "first"}
                /\ current = Useless
        /\ Top(t).pc \in PastTest \cup {"first", "recheck"} => hooked
        /\ Top(t).pc \in PastTest => fakeCode # None /\ reader # None
        /\ Top(t).pc = "recheck" /\ Top(t).meth = current => fakeCode # None
        /\ hooked /\ fakeCode = None => current \in {None, Useless}
        /\ reader = None => current \in {None, Useless}
    BY <1>1 DEF FrameStep, ControlInv, UselessOnce, HookPath, ReaderOK, FakeCodeFirst
  <1>4. None \notin Desc /\ Useless \notin Stub /\ Useless \notin Unjittable
    BY SetAssumption
  <1>5. \A p \in FramePC :
            LET f == [Top(t) EXCEPT !.pc = p]
            IN  f \in Frame /\ f.meth = Top(t).meth /\ f.pc = p /\ f.code = Top(t).code
    BY <1>1 DEF Frame
  <1>6. CASE GetArgType(t)
    <2> DEFINE f == [Top(t) EXCEPT !.seen = Top(t).seen + 1]
    <2>1. f \in Frame /\ f.meth = Top(t).meth /\ f.pc = "locals"
      BY <1>1, <1>6 DEF GetArgType, At, Frame
    <2>2. SetTop(t, f) /\ UNCHANGED <<pc, hooked, depth, current, fakeCode, reader>>
      BY <1>6 DEF GetArgType
    <2>3. Top(t).pc = "locals"
      BY <1>6 DEF GetArgType, At
    <2> HIDE DEF f
    <2>. QED
      BY <1>1, <1>3, <2>1, <2>2, <2>3, MoveOn DEF PastTest
  <1>7. CASE CompCompile(t)
    <2>1. PICK p \in {"real", "first", "recheck"} :
            /\ Goto(t, p)
            /\ p = "real" => ~hooked
            /\ p = "first" => hooked /\ current = Top(t).meth /\ fakeCode = None
            /\ p = "recheck" => hooked /\ ~(current = Top(t).meth /\ fakeCode = None)
      BY <1>7 DEF CompCompile
    <2> DEFINE f == [Top(t) EXCEPT !.pc = p]
    <2>2. f \in Frame /\ f.meth = Top(t).meth /\ f.pc = p
      BY <1>5, <2>1 DEF FramePC
    <2>3. SetTop(t, f) /\ UNCHANGED <<pc, hooked, depth, current, fakeCode, reader>>
      BY <1>7, <2>1 DEF CompCompile, Goto
    <2>4. Top(t).pc = "locals"
      BY <1>7 DEF CompCompile, At
    <2> HIDE DEF f
    <2>5. Top(t).meth = Useless => p \in {"first", "real"}
      BY <1>3, <2>1, <2>4
    <2>6. p = "first" => Top(t).meth = Useless
      BY <1>2, <1>3, <1>4, <2>1
    <2>7. Top(t).meth = Useless /\ hooked /\ fakeCode = None => p = "first"
      BY <2>1, <2>5
    <2>8. /\ p \notin PastTest
          /\ f.pc \in PastTest \cup {"first", "recheck"} => hooked
      BY <2>1, <2>2 DEF PastTest
    <2>9. f.pc = "recheck" /\ f.meth = current => fakeCode # None
      BY <2>1, <2>2
    <2>. QED
      BY <1>1, <2>1, <2>2, <2>3, <2>5, <2>6, <2>7, <2>8, <2>9, MoveOn
  <1>8. CASE TestCurrent(t)
    <2>1. PICK p \in {"import", "real"} :
            Goto(t, p) /\ (p = "import" => current = Top(t).meth)
      BY <1>8 DEF TestCurrent
    <2> DEFINE f == [Top(t) EXCEPT !.pc = p]
    <2>2. f \in Frame /\ f.meth = Top(t).meth /\ f.pc = p
      BY <1>5, <2>1 DEF FramePC
    <2>3. SetTop(t, f) /\ UNCHANGED <<pc, hooked, depth, current, fakeCode, reader>>
      BY <1>8, <2>1 DEF TestCurrent, Goto
    <2>4. Top(t).pc = "recheck"
      BY <1>8 DEF TestCurrent, At
    <2> HIDE DEF f
    <2>5. Top(t).meth # Useless
      BY <1>3, <2>4
    <2>6. p = "import" => fakeCode # None /\ reader # None
      BY <1>2, <1>3, <1>4, <2>1, <2>4, <2>5
    <2>7. hooked
      BY <1>3, <2>4
    <2>. QED
      BY <1>1, <2>1, <2>2, <2>3, <2>5, <2>6, <2>7, MoveOn DEF PastTest
  <1>9. CASE KeepFakeCode(t)
    BY <1>9, KeepControl DEF FrameStep
  <1>10. CASE RealCompile(t)
    <2> DEFINE f == [Top(t) EXCEPT !.pc = "return", !.code = Top(t).meth]
    <2>1. f \in Frame /\ f.meth = Top(t).meth /\ f.pc = "return" /\ f.code # None
      BY <1>1, <1>2, <1>4 DEF Frame, FramePC
    <2>2. SetTop(t, f) /\ UNCHANGED <<pc, hooked, depth, current, fakeCode, reader>>
      BY <1>10 DEF RealCompile
    <2>3. Top(t).pc = "real"
      BY <1>10 DEF RealCompile, At
    <2> HIDE DEF f
    <2>4. Top(t).meth = Useless => ~(hooked /\ fakeCode = None)
      BY <1>3, <2>3
    <2>. QED
      BY <1>1, <2>1, <2>2, <2>4, MoveOn DEF PastTest
  <1>11. CASE GiveUp(t)
    <2>1. Pop(t) /\ Top(t).meth # Useless
      BY <1>4, <1>11 DEF GiveUp
    <2>. QED
      BY <1>1, <1>11, <2>1, PopControl DEF GiveUp
  <1>12. CASE CallCallback(t)
    <2> DEFINE f == [Top(t) EXCEPT !.pc = "guard",
                                   !.sig = [of |-> current, n |-> locals[current]]]
    <2>1. Top(t).pc = "sig"
      BY <1>12 DEF CallCallback, At
    <2>2. current \in Desc
      BY <1>3, <2>1 DEF PastTest, ControlInv, ReaderOK, TypeOK
    <2>3. [of |-> current, n |-> locals[current]] \in Signature
      BY <2>2 DEF Signature, ControlInv, TypeOK
    <2>4. f \in Frame /\ f.meth = Top(t).meth /\ f.pc = "guard"
      BY <1>1, <2>3 DEF Frame, FramePC
    <2>5. SetTop(t, f) /\ UNCHANGED <<pc, hooked, depth, current, fakeCode, reader>>
      BY <1>12 DEF CallCallback
    <2> HIDE DEF f
    <2>. QED
      BY <1>1, <1>3, <2>1, <2>4, <2>5, MoveOn DEF PastTest
  <1>13. CASE ReturnFakeCode(t)
    <2> DEFINE f == [Top(t) EXCEPT !.pc = "return", !.code = fakeCode]
    <2>1. f \in Frame /\ f.meth = Top(t).meth /\ f.pc = "return" /\ f.code = fakeCode
      BY <1>1 DEF Frame, FramePC, ControlInv, TypeOK
    <2>2. SetTop(t, f) /\ UNCHANGED <<pc, hooked, depth, current, fakeCode, reader>>
      BY <1>13 DEF ReturnFakeCode
    <2>3. Top(t).pc = "fake"
      BY <1>13 DEF ReturnFakeCode, At
    <2> HIDE DEF f
    <2>. QED
      BY <1>1, <1>3, <2>1, <2>2, <2>3, MoveOn DEF PastTest
  <1>14. CASE Return(t)
    BY <1>1, <1>14, PopControl DEF Return, At
  <1>15. CASE ImportPhase(t) \/ SizeGuard(t) \/ ReadVariables(t) \/ ReadInstructions(t)
                \/ ReadExceptionHandlers(t)
    <2>1. PICK p \in {"sig", "fake", "vars", "ins", "eh"} : Goto(t, p)
      BY <1>15 DEF ImportPhase, SizeGuard, ReadVariables, ReadInstructions,
                   ReadExceptionHandlers
    <2> DEFINE f == [Top(t) EXCEPT !.pc = p]
    <2>2. f \in Frame /\ f.meth = Top(t).meth /\ f.pc = p
      BY <1>5, <2>1 DEF FramePC
    <2>3. SetTop(t, f) /\ UNCHANGED <<pc, hooked, depth, current, fakeCode, reader>>
      BY <1>15, <2>1 DEF ImportPhase, SizeGuard, ReadVariables, ReadInstructions,
                         ReadExceptionHandlers, Goto
    <2>4. Top(t).pc \in PastTest
      BY <1>15 DEF ImportPhase, SizeGuard, ReadVariables, ReadInstructions,
                   ReadExceptionHandlers, At, PastTest
    <2> HIDE DEF f
    <2>5. Top(t).meth # Useless
      BY <1>3, <2>4 DEF PastTest
    <2>. QED
      BY <1>1, <1>3, <2>1, <2>2, <2>3, <2>4, <2>5, MoveOn
  <1>. QED
    BY <1>6, <1>7, <1>8, <1>9, <1>10, <1>11, <1>12, <1>13, <1>14, <1>15 DEF FrameStep

\* So do the garbage collector and the crash it may lead to.
LEMMA CollectionControl ==
    ASSUME ControlInv, CollectDelegate \/ \E t \in Thread : CallCollected(t)
    PROVE  ControlInv'
  <1>1. /\ UNCHANGED <<runtimeVersion, remaining, initialized, hooked, reader, body,
                       dumpedMethods, current, fakeCode, locals, depth, frame, strays>>
        /\ pc' = pc \/ pc' = "crashed"
        /\ collected' \in BOOLEAN
    BY DEF CollectDelegate, CallCollected, mainVars, managedVars, nativeVars, stackVars,
           ControlInv, TypeOK
  <1>2. TypeOK'
    BY <1>1 DEF ControlInv, TypeOK, MainPC
  <1>3. StackOK' /\ FakeCodeFirst' /\ HookPath' /\ ReaderOK'
    BY <1>1 DEF ControlInv, StackOK, FakeCodeFirst, HookPath, ReaderOK
  <1>4. UselessOnce'
    BY <1>1 DEF ControlInv, UselessOnce, Ended
  <1>. QED
    BY <1>2, <1>3, <1>4 DEF ControlInv

\* The control invariant, types included, is inductive.
LEMMA ControlStep == ControlInv /\ [Next]_vars => ControlInv'
  <1> SUFFICES ASSUME ControlInv, [Next]_vars PROVE ControlInv'
    OBVIOUS
  <1>1. CASE MainStep
    BY <1>1, MainStepType, MainStepControl DEF ControlInv, Control
  <1>2. CASE \E t \in Thread : FrameStep(t)
    BY <1>2, FrameStepType, FrameStepControl DEF ControlInv, Control
  <1>3. CASE \E t \in Thread, d \in Stray : StrayCompile(t, d)
    BY <1>3, StrayType, StrayControl DEF ControlInv, Control
  <1>4. CASE CollectDelegate \/ \E t \in Thread : CallCollected(t)
    BY <1>4, CollectionControl
  <1>5. CASE UNCHANGED vars
    BY <1>5 DEF vars, mainVars, managedVars, nativeVars, stackVars, ControlInv, TypeOK,
                StackOK, UselessOnce, FakeCodeFirst, HookPath, ReaderOK
  <1>. QED
    BY <1>1, <1>2, <1>3, <1>4, <1>5 DEF Next, Done

----------------------------------------------------------------------------
\* Theorems.

\* The control invariant holds in every state of every run.
THEOREM ControlInvariant == Spec => []ControlInv
  <1>1. Init => ControlInv
    BY InitType, InitControl DEF ControlInv, Control
  <1>. QED
    BY <1>1, ControlStep, PTL DEF Spec

\* Type correctness, for every instance.
THEOREM TypeCorrect == Spec => []TypeOK
  <1>1. ControlInv => TypeOK
    BY DEF ControlInv
  <1>. QED
    BY <1>1, ControlInvariant, PTL

\* comp_compile never yields a null code pointer, whatever compilations run
\* on however many threads and within each other.
THEOREM NeverNull == Spec => []CodeNeverNull
  <1>1. ControlInv => CodeNeverNull
    BY TopType DEF ControlInv, HookPath, CodeNeverNull, At, Top
  <1>. QED
    BY <1>1, ControlInvariant, PTL

\* The callback never meets a null reader.
THEOREM ReaderExists == Spec => []CallbackHasReader
  <1>1. ControlInv => CallbackHasReader
    BY TopType DEF ControlInv, ReaderOK, CallbackHasReader, At, Top, PastTest
  <1>. QED
    BY <1>1, ControlInvariant, PTL

\* The fake code is set once, to the code of the useless method.
THEOREM FakeCodeStable == Spec => FakeCodeIsUseless
  <1> DEFINE Stable == fakeCode' = fakeCode \/ (fakeCode = None /\ fakeCode' = Useless)
  <1>1. ControlInv /\ [Next]_vars => [Stable]_vars
    <2> SUFFICES ASSUME ControlInv, [Next]_vars PROVE Stable
      OBVIOUS
    <2> USE DEF mainVars, managedVars, nativeVars, stackVars, frameUnchanged
    <2>1. CASE MainStep
      BY <2>1 DEF MainStep, CreateCompiler, InitialiseOffsets, ApplyHooks, Prime, HookAdded,
                  NextMethod, CompileMethod, CompileNothing,
                  ResolveFails, Save
    <2>2. CASE \E t \in Thread : FrameStep(t) /\ KeepFakeCode(t)
      BY <2>2, KeepControl DEF FrameStep
    <2>3. CASE \E t \in Thread : FrameStep(t) /\ ~KeepFakeCode(t)
      BY <2>3 DEF FrameStep, GetArgType, CompCompile, TestCurrent, RealCompile,
                  ImportPhase, GiveUp, CallCallback, SizeGuard, ReadVariables,
                  ReadInstructions, ReadExceptionHandlers, ReturnFakeCode, Return
    <2>4. CASE \E t \in Thread, d \in Stray : StrayCompile(t, d)
      BY <2>4 DEF StrayCompile
    <2>5. CASE CollectDelegate \/ \E t \in Thread : CallCollected(t)
      BY <2>5 DEF CollectDelegate, CallCollected
    <2>6. CASE UNCHANGED vars
      BY <2>6 DEF vars
    <2>. QED
      BY <2>1, <2>2, <2>3, <2>4, <2>5, <2>6 DEF Next, Done
  <1>. QED
    BY <1>1, ControlInvariant, PTL DEF Spec, FakeCodeIsUseless
=============================================================================
