---------------------------- MODULE DumpSession ----------------------------
(***************************************************************************)
(* One run of JitDumper: the managed main thread (Program.Main), the       *)
(* native hook library it drives (add_hook, get_unboxed_method,            *)
(* compile_method), the hooked JIT functions (compiler::comp_compile and   *)
(* cee_info::get_arg_type_hook) on every thread that compiles a method,    *)
(* and the managed callback that copies what the JIT saw into the method   *)
(* body of the module to be saved.                                         *)
(*                                                                         *)
(* A compilation is a frame on its thread's stack.  compile_method pushes  *)
(* one on the main thread.  The runtime pushes the others ("strays"): a    *)
(* thread of the target calls a method for the first time, or the JIT or   *)
(* the callback runs managed code that is itself not compiled yet.         *)
(* Nothing in the library is protected by a lock, so the frames of all     *)
(* threads interleave between any two accesses to the shared state.        *)
(*                                                                         *)
(* Instruction bytes, signatures and clauses are abstracted to the method  *)
(* they belong to; native code to the method whose code it is; the list    *)
(* of local signatures of a method to its length.                          *)
(***************************************************************************)
EXTENDS Integers, FiniteSets

CONSTANTS
    Method,              \* methods of the target module that have a CIL body
    Foreign,             \* methods outside the target module
    Useless,             \* Program.HelloWorld, whose code stands in for all
    Stub,                \* descriptors of stubs that wrap a method
    InstantiatingStub,   \* the stubs is_instantiating_stub recognises
    Wrapped,             \* [Stub -> Method], get_wrapped_method_descriptor
    MethodHandle,        \* [Method -> Method \cup Stub], ResolveMethodHandle
    Unresolvable,        \* methods whose handle the runtime refuses to make
    Unjittable,          \* methods the JIT reports an error for
    NumLocals,           \* [Desc -> Nat], local variables of a method
    JitSize,             \* [Desc -> Nat], compILCodeSize: size the JIT sees
    DiskSize,            \* [Method -> Nat], size of the body in the file
    Main, Worker,        \* the main thread, the threads of the target
    Version,             \* the values Environment.Version.Major may have
    Stray,               \* methods the runtime may compile on its own
    MaxStray,            \* bound: stray compilations of a behaviour
    MaxDepth,            \* bound: compilations nested on one thread
    None

Desc == Method \cup Foreign \cup Stub \cup {Useless}
Thread == {Main} \cup Worker
Level == 1..MaxDepth

\* create_compiler has a profile for each of these and no other.
Profiled == 1..5

ASSUME SetAssumption ==
    /\ Useless \notin Method \cup Foreign \cup Stub
    /\ Method \cap Foreign = {} /\ Stub \cap (Method \cup Foreign) = {}
    /\ None \notin Desc
    /\ Main \notin Worker
    /\ InstantiatingStub \subseteq Stub
    /\ Unresolvable \subseteq Method
    /\ Unjittable \subseteq Method
    /\ Stray \subseteq Method \cup Foreign
    /\ IsFiniteSet(Method)

ASSUME FunctionAssumption ==
    /\ Wrapped \in [Stub -> Method]
    /\ MethodHandle \in [Method -> Method \cup Stub]
    /\ NumLocals \in [Desc -> Nat]
    /\ JitSize \in [Desc -> Nat]
    /\ DiskSize \in [Method -> Nat]

\* The handle of a method is the method or a stub of that method.
ASSUME HandleAssumption ==
    \A m \in Method :
        MethodHandle[m] = m \/ (MethodHandle[m] \in Stub /\ Wrapped[MethodHandle[m]] = m)

ASSUME BoundAssumption == MaxStray \in Nat /\ MaxDepth \in Nat \ {0}

----------------------------------------------------------------------------
\* Data.

\* The local signatures handed to the callback: whose, and how many.
Signature == [of : Desc \cup {None}, n : Nat]
NoSignature == [of |-> None, n |-> 0]

\* What a body of the module holds: None until the dumper has overwritten it.
Body == [sig : Signature, il : Desc \cup {None}, eh : Desc \cup {None}]
DiskBody == [sig |-> NoSignature, il |-> None, eh |-> None]

\* The body of m as the JIT was given it.
OwnBodyOf(m) == [sig |-> [of |-> m, n |-> NumLocals[m]], il |-> m, eh |-> m]

MainPC == {"create", "offsets", "apply", "prime", "primed", "next", "call",
           "saved", "failed", "crashed"}
Ended == {"saved", "failed", "crashed"}

FramePC == {"idle", "locals", "recheck", "first", "real", "import", "sig",
            "guard", "vars", "ins", "eh", "fake", "return"}

\* One compilation: the method, where it is, how many locals it has reported,
\* what call_callback was about to pass on, and the code it yields.
Frame == [meth : Desc \cup {None}, pc : FramePC, seen : Nat,
          sig : Signature, code : Desc \cup {None}, stray : BOOLEAN]
NoFrame == [meth |-> None, pc |-> "idle", seen |-> 0,
            sig |-> NoSignature, code |-> None, stray |-> FALSE]

\* The code of a compilation while managed code runs on its thread: the JIT
\* may run a class constructor, the callback runs the dumper's own methods.
Reentrant == {"locals", "first", "real", "import", "guard", "vars", "ins", "eh"}

VARIABLES
    pc,              \* where Program.Main is
    runtimeVersion,  \* Environment.Version.Major
    remaining,       \* methods the foreach loop has not reached
    reader,          \* the method of _dumpedBodyReader
    body,            \* the module's method bodies
    dumpedMethods,   \* _dumpedMethods
    collected,       \* whether the delegate of the callback has been collected
    initialized,     \* offsets::initialized
    hooked,          \* whether the detours are in place
    current,         \* callback::current_method_descriptor
    fakeCode,        \* compiler::fake_code
    locals,          \* sizes of callback::locals_from_method_desc
    depth, frame,    \* the stack of compilations of each thread
    strays           \* stray compilations so far

mainVars == <<pc, runtimeVersion, remaining, initialized, hooked>>
managedVars == <<reader, body, dumpedMethods, collected>>
nativeVars == <<current, fakeCode, locals>>
stackVars == <<depth, frame, strays>>
vars == <<mainVars, managedVars, nativeVars, stackVars>>

Init ==
    /\ pc = "create"
    /\ runtimeVersion \in Version
    /\ remaining = Method
    /\ reader = None
    /\ body = [m \in Method |-> DiskBody]
    /\ dumpedMethods = 0
    /\ collected = FALSE
    /\ initialized = FALSE
    /\ hooked = FALSE
    /\ current = None
    /\ fakeCode = None
    /\ locals = [d \in Desc |-> 0]
    /\ depth = [t \in Thread |-> 0]
    /\ frame = [t \in Thread |-> [l \in Level |-> NoFrame]]
    /\ strays = 0

----------------------------------------------------------------------------
\* The stack of a thread.

Top(t) == frame[t][depth[t]]

At(t, p) == depth[t] > 0 /\ Top(t).pc = p

\* The top frame of t after a step.
SetTop(t, f) == frame' = [frame EXCEPT ![t][depth[t]] = f]

Goto(t, p) == SetTop(t, [Top(t) EXCEPT !.pc = p])

\* A compilation of d at its start.
Compiling(d, isStray) == [NoFrame EXCEPT !.meth = d, !.pc = "locals", !.stray = isStray]

Push(t, f) ==
    /\ depth[t] < MaxDepth
    /\ depth' = [depth EXCEPT ![t] = @ + 1]
    /\ frame' = [frame EXCEPT ![t][depth[t] + 1] = f]

Pop(t) ==
    /\ SetTop(t, NoFrame)
    /\ depth' = [depth EXCEPT ![t] = @ - 1]

----------------------------------------------------------------------------
\* The main thread.  It runs when no compilation is on its stack.

MainAt(p) == pc = p /\ depth[Main] = 0

\* add_hook: the runtime version picks the profile of the compiler, which is
\* null for a version without one; nothing looks at it yet.
CreateCompiler ==
    /\ MainAt("create")
    /\ pc' = "offsets"
    /\ UNCHANGED <<runtimeVersion, remaining, initialized, hooked,
                   managedVars, nativeVars, stackVars>>

\* What Main makes of add_hook's result.  add_hook returns a C++ bool, one byte,
\* and AddHook is declared to return the four bytes of a BOOL: the other three
\* are whatever the register held, and false may well be read as true.
AddHookReturns(result) ==
    pc' \in IF result THEN {"next"} ELSE {"failed", "next"}

\* initialise_offsets finds every symbol and member, or add_hook returns.
InitialiseOffsets ==
    /\ MainAt("offsets")
    /\ \/ initialized' = TRUE /\ pc' = "apply"
       \/ initialized' = FALSE /\ AddHookReturns(FALSE)
    /\ UNCHANGED <<runtimeVersion, remaining, hooked, managedVars, nativeVars, stackVars>>

\* apply_hooks calls each hook of the manager, the compiler's through a null
\* pointer when there is no profile.  The transaction commits or has no effect.
ApplyHooks ==
    /\ MainAt("apply")
    /\ IF runtimeVersion \in Profiled
       THEN \E committed \in BOOLEAN : hooked' = committed /\ pc' = "prime"
       ELSE hooked' = hooked /\ pc' = "crashed"
    /\ UNCHANGED <<runtimeVersion, remaining, initialized, managedVars, nativeVars, stackVars>>

\* add_hook compiles the useless method, whatever apply_hooks returned.
Prime ==
    /\ MainAt("prime")
    /\ current' = Useless
    /\ Push(Main, Compiling(Useless, FALSE))
    /\ pc' = "primed"
    /\ UNCHANGED <<runtimeVersion, remaining, initialized, hooked, managedVars,
                   fakeCode, locals, strays>>

\* Mutant: Main adds the hooks again until they hold.
HookAddedRetrying ==
    /\ MainAt("primed")
    /\ pc' = IF hooked THEN "next" ELSE "apply"
    /\ UNCHANGED <<runtimeVersion, remaining, initialized, hooked,
                   managedVars, nativeVars, stackVars>>

\* add_hook returns the result of apply_hooks, and Main goes on or ends.
HookAdded ==
    /\ MainAt("primed")
    /\ AddHookReturns(hooked)
    /\ UNCHANGED <<runtimeVersion, remaining, initialized, hooked,
                   managedVars, nativeVars, stackVars>>

\* _dumpedBodyReader = new(method.CilMethodBody)
NextMethod(m) ==
    /\ MainAt("next")
    /\ m \in remaining
    /\ remaining' = remaining \ {m}
    /\ reader' = m
    /\ pc' = "call"
    /\ UNCHANGED <<runtimeVersion, initialized, hooked, body, dumpedMethods, collected,
                   nativeVars, stackVars>>

\* Mutant: no stub is unwrapped.
GetUnboxedMethodNever(d) == d

\* An instantiating stub is left alone; any other stub is unwrapped.
GetUnboxedMethod(d) ==
    IF d \in InstantiatingStub \/ d \notin Stub THEN d ELSE Wrapped[d]

\* PInvoke.CompileMethod(moduleHandle.GetMethodHandle(method))
CompileMethod ==
    /\ MainAt("call")
    /\ reader \notin Unresolvable
    /\ initialized
    /\ pc' = "next"
    /\ current' = GetUnboxedMethod(MethodHandle[reader])
    /\ Push(Main, Compiling(GetUnboxedMethod(MethodHandle[reader]), FALSE))
    /\ UNCHANGED <<runtimeVersion, remaining, initialized, hooked, managedVars,
                   fakeCode, locals, strays>>

\* Without the offsets compile_method returns at once, if the program gets so
\* far: get_unboxed_method calls is_instantiating_stub before it looks at
\* initialized, through a null pointer unless the symbol was among those found.
CompileNothing ==
    /\ MainAt("call")
    /\ reader \notin Unresolvable
    /\ ~initialized
    /\ pc' \in {"next", "crashed"}
    /\ UNCHANGED <<runtimeVersion, remaining, initialized, hooked, managedVars,
                   nativeVars, stackVars>>

\* ResolveMethodHandle throws; nothing in Main catches it.
ResolveFails ==
    /\ MainAt("call")
    /\ reader \in Unresolvable
    /\ pc' = "crashed"
    /\ UNCHANGED <<runtimeVersion, remaining, initialized, hooked,
                   managedVars, nativeVars, stackVars>>

\* The loop is over: Main writes the module with its bodies as they are.
Save ==
    /\ MainAt("next")
    /\ remaining = {}
    /\ pc' = "saved"
    /\ UNCHANGED <<runtimeVersion, remaining, initialized, hooked,
                   managedVars, nativeVars, stackVars>>

MainStep ==
    \/ CreateCompiler \/ InitialiseOffsets \/ ApplyHooks \/ Prime \/ HookAdded
    \/ \E m \in Method : NextMethod(m)
    \/ CompileMethod \/ CompileNothing \/ ResolveFails \/ Save

----------------------------------------------------------------------------
\* The runtime compiles a method of its own accord.

\* A thread of the target may be anywhere in its code at any time.  The main
\* thread runs managed code between its native calls and, nested in a
\* compilation, wherever the JIT or the callback does.  The runtime compiles
\* a method on one thread at a time, except that compile_method goes straight
\* to the JIT and does not take part in that.
StrayCompile(t, d) ==
    /\ pc \notin Ended
    /\ d \in Stray
    /\ strays < MaxStray
    /\ \/ depth[t] = 0 /\ (t = Main => pc \in {"create", "next", "call"})
       \/ depth[t] > 0 /\ Top(t).pc \in Reentrant
    /\ \A u \in Thread, l \in Level : ~(frame[u][l].stray /\ frame[u][l].meth = d)
    /\ Push(t, Compiling(d, TRUE))
    /\ strays' = strays + 1
    /\ UNCHANGED <<mainVars, managedVars, nativeVars>>

----------------------------------------------------------------------------
\* The top compilation of a thread.

frameUnchanged == UNCHANGED <<mainVars, depth, strays>>

\* Mutant: the first local variable is not recorded.
GetArgTypeSkippingFirst(t) ==
    /\ At(t, "locals")
    /\ Top(t).meth \notin Stub
    /\ Top(t).seen < NumLocals[Top(t).meth]
    /\ SetTop(t, [Top(t) EXCEPT !.seen = @ + 1])
    /\ locals' = IF hooked /\ Top(t).meth = current /\ Top(t).seen > 0
                 THEN [locals EXCEPT ![current] = @ + 1]
                 ELSE locals
    /\ frameUnchanged /\ UNCHANGED <<managedVars, current, fakeCode>>

\* get_arg_type_hook: the JIT asks for the type of one more local variable.
GetArgType(t) ==
    /\ At(t, "locals")
    /\ Top(t).meth \notin Stub
    /\ Top(t).seen < NumLocals[Top(t).meth]
    /\ SetTop(t, [Top(t) EXCEPT !.seen = @ + 1])
    /\ locals' = IF hooked /\ Top(t).meth = current
                 THEN [locals EXCEPT ![current] = @ + 1]
                 ELSE locals
    /\ frameUnchanged /\ UNCHANGED <<managedVars, current, fakeCode>>

\* Mutant: whatever is compiled first provides the fake code.
CompCompileAnyFirst(t) ==
    /\ At(t, "locals")
    /\ Top(t).meth \notin Stub
    /\ Top(t).seen = NumLocals[Top(t).meth]
    /\ Goto(t, CASE ~hooked -> "real"
                 [] hooked /\ fakeCode = None -> "first"
                 [] OTHER -> "recheck")
    /\ frameUnchanged /\ UNCHANGED <<managedVars, nativeVars>>

\* Mutant: comp_compile takes the dumper's path from the start.
CompCompileNeverFirst(t) ==
    /\ At(t, "locals")
    /\ Top(t).meth \notin Stub
    /\ Top(t).seen = NumLocals[Top(t).meth]
    /\ Goto(t, IF hooked THEN "recheck" ELSE "real")
    /\ frameUnchanged /\ UNCHANGED <<managedVars, nativeVars>>

\* comp_compile up to its first test, or Compiler::compCompile undetoured.
CompCompile(t) ==
    /\ At(t, "locals")
    /\ Top(t).meth \notin Stub
    /\ Top(t).seen = NumLocals[Top(t).meth]
    /\ Goto(t, CASE ~hooked -> "real"
                 [] hooked /\ current = Top(t).meth /\ fakeCode = None -> "first"
                 [] OTHER -> "recheck")
    /\ frameUnchanged /\ UNCHANGED <<managedVars, nativeVars>>

\* Mutant: any method is taken for the current one while a dump is going on.
TestCurrentAny(t) ==
    /\ At(t, "recheck")
    /\ Goto(t, IF current \in {None, Useless} THEN "real" ELSE "import")
    /\ frameUnchanged /\ UNCHANGED <<managedVars, nativeVars>>

\* comp_compile tests the current method a second time.
TestCurrent(t) ==
    /\ At(t, "recheck")
    /\ Goto(t, IF current = Top(t).meth THEN "import" ELSE "real")
    /\ frameUnchanged /\ UNCHANGED <<managedVars, nativeVars>>

\* The very first compilation is real, and its code is kept.
KeepFakeCode(t) ==
    /\ At(t, "first")
    /\ SetTop(t, [Top(t) EXCEPT !.pc = "return", !.code = Top(t).meth])
    /\ fakeCode' = Top(t).meth
    /\ frameUnchanged /\ UNCHANGED <<managedVars, current, locals>>

\* Mutant: comp_compile does not pass method_code on.
RealCompileWithoutCode(t) ==
    /\ At(t, "real")
    /\ Top(t).meth \notin Unjittable
    /\ Goto(t, "return")
    /\ frameUnchanged /\ UNCHANGED <<managedVars, nativeVars>>

\* Mutant: the fake code replaces every code once there is one.
RealCompileReplaced(t) ==
    /\ At(t, "real")
    /\ Top(t).meth \notin Unjittable
    /\ SetTop(t, [Top(t) EXCEPT !.pc = "return",
                                !.code = IF fakeCode = None THEN Top(t).meth ELSE fakeCode])
    /\ frameUnchanged /\ UNCHANGED <<managedVars, nativeVars>>

\* A compilation the dumper is not interested in.
RealCompile(t) ==
    /\ At(t, "real")
    /\ Top(t).meth \notin Unjittable
    /\ SetTop(t, [Top(t) EXCEPT !.pc = "return", !.code = Top(t).meth])
    /\ frameUnchanged /\ UNCHANGED <<managedVars, nativeVars>>

\* import_phase resolves the tokens of the body and returns.
ImportPhase(t) ==
    /\ At(t, "import")
    /\ Top(t).meth \notin Unjittable
    /\ Goto(t, "sig")
    /\ frameUnchanged /\ UNCHANGED <<managedVars, nativeVars>>

\* The JIT reports an error before it is done with the method.
GiveUp(t) ==
    /\ depth[t] > 0
    /\ \/ Top(t).pc = "locals" /\ Top(t).meth \in Stub
       \/ Top(t).pc \in {"locals", "real", "import"} /\ Top(t).meth \in Unjittable
    /\ Pop(t)
    /\ UNCHANGED <<mainVars, strays, managedVars, nativeVars>>

\* call_callback takes the locals of the method that is current by now; the
\* instructions and the clauses are those of the compilation.
CallCallback(t) ==
    /\ At(t, "sig")
    /\ ~collected
    /\ SetTop(t, [Top(t) EXCEPT !.pc = "guard",
                                !.sig = [of |-> current, n |-> locals[current]]])
    /\ frameUnchanged /\ UNCHANGED <<managedVars, nativeVars>>

\* The function pointer of the callback leads to a delegate that is no more:
\* the runtime ends the process.
CallCollected(t) ==
    /\ At(t, "sig")
    /\ collected
    /\ pc \notin Ended
    /\ pc' = "crashed"
    /\ UNCHANGED <<runtimeVersion, remaining, initialized, hooked,
                   managedVars, nativeVars, stackVars>>

\* CilMethodBody.Instructions.Size
InstructionsSize(m) == IF body[m].il = None THEN DiskSize[m] ELSE JitSize[body[m].il]

\* Mutant: nothing stores the fake code when the callback returns at once.
SizeGuardReturning(t) ==
    /\ At(t, "guard")
    /\ Goto(t, IF JitSize[Top(t).meth] < InstructionsSize(reader) THEN "return" ELSE "vars")
    /\ frameUnchanged /\ UNCHANGED <<managedVars, nativeVars>>

\* CompilationCallback returns at once when the code has become smaller.
SizeGuard(t) ==
    /\ At(t, "guard")
    /\ Goto(t, IF JitSize[Top(t).meth] < InstructionsSize(reader) THEN "fake" ELSE "vars")
    /\ frameUnchanged /\ UNCHANGED <<managedVars, nativeVars>>

ReadVariables(t) ==
    /\ At(t, "vars")
    /\ body' = [body EXCEPT ![reader].sig = Top(t).sig]
    /\ Goto(t, "ins")
    /\ frameUnchanged /\ UNCHANGED <<reader, dumpedMethods, collected, nativeVars>>

ReadInstructions(t) ==
    /\ At(t, "ins")
    /\ body' = [body EXCEPT ![reader].il = Top(t).meth]
    /\ Goto(t, "eh")
    /\ frameUnchanged /\ UNCHANGED <<reader, dumpedMethods, collected, nativeVars>>

\* Mutant: the count goes the wrong way.
ReadExceptionHandlersDown(t) ==
    /\ At(t, "eh")
    /\ body' = [body EXCEPT ![reader].eh = Top(t).meth]
    /\ dumpedMethods' = dumpedMethods - 1
    /\ Goto(t, "fake")
    /\ frameUnchanged /\ UNCHANGED <<reader, collected, nativeVars>>

\* Mutant: the count is forgotten.
ReadExceptionHandlersUncounted(t) ==
    /\ At(t, "eh")
    /\ body' = [body EXCEPT ![reader].eh = Top(t).meth]
    /\ Goto(t, "fake")
    /\ frameUnchanged /\ UNCHANGED <<reader, dumpedMethods, collected, nativeVars>>

\* The last of the three, and the count of dumped methods.
ReadExceptionHandlers(t) ==
    /\ At(t, "eh")
    /\ body' = [body EXCEPT ![reader].eh = Top(t).meth]
    /\ dumpedMethods' = dumpedMethods + 1
    /\ Goto(t, "fake")
    /\ frameUnchanged /\ UNCHANGED <<reader, collected, nativeVars>>

\* *method_code = fake_code
ReturnFakeCode(t) ==
    /\ At(t, "fake")
    /\ SetTop(t, [Top(t) EXCEPT !.pc = "return", !.code = fakeCode])
    /\ frameUnchanged /\ UNCHANGED <<managedVars, nativeVars>>

\* comp_compile returns to the JIT and the JIT to the runtime.
Return(t) ==
    /\ At(t, "return")
    /\ Pop(t)
    /\ UNCHANGED <<mainVars, strays, managedVars, nativeVars>>

----------------------------------------------------------------------------
\* Main made the delegate in the argument list of AddHook and keeps no
\* reference to it, so that the garbage collector may take it at any time.
CollectDelegate ==
    /\ pc # "create"
    /\ pc \notin Ended
    /\ ~collected
    /\ collected' = TRUE
    /\ UNCHANGED <<mainVars, reader, body, dumpedMethods, nativeVars, stackVars>>

\* A crash or the end of Main ends every thread.
FrameStep(t) ==
    /\ pc \notin Ended
    /\ \/ GetArgType(t) \/ CompCompile(t) \/ TestCurrent(t)
       \/ KeepFakeCode(t) \/ RealCompile(t) \/ ImportPhase(t) \/ GiveUp(t)
       \/ CallCallback(t) \/ SizeGuard(t)
       \/ ReadVariables(t) \/ ReadInstructions(t) \/ ReadExceptionHandlers(t)
       \/ ReturnFakeCode(t) \/ Return(t)

----------------------------------------------------------------------------
Done == pc \in Ended /\ UNCHANGED vars

Next ==
    \/ MainStep
    \/ \E t \in Thread : FrameStep(t)
    \/ \E t \in Thread : CallCollected(t)
    \/ \E t \in Thread, d \in Stray : StrayCompile(t, d)
    \/ CollectDelegate
    \/ Done

\* The operating system runs every thread that can run.
Fairness == WF_vars(MainStep) /\ \A t \in Thread : WF_vars(FrameStep(t) \/ CallCollected(t))

Spec == Init /\ [][Next]_vars /\ Fairness

----------------------------------------------------------------------------
\* Properties.

\* Every variable keeps its type: the state of the managed program, of the
\* hook library and of the compilations in progress.
TypeOK ==
    /\ pc \in MainPC
    /\ runtimeVersion \in Version
    /\ remaining \in SUBSET Method
    /\ reader \in Method \cup {None}
    /\ body \in [Method -> Body]
    /\ dumpedMethods \in Nat
    /\ collected \in BOOLEAN
    /\ initialized \in BOOLEAN
    /\ hooked \in BOOLEAN
    /\ current \in Desc \cup {None}
    /\ fakeCode \in Desc \cup {None}
    /\ locals \in [Desc -> Nat]
    /\ depth \in [Thread -> 0..MaxDepth]
    /\ frame \in [Thread -> [Level -> Frame]]
    /\ strays \in 0..MaxStray

\* comp_compile never hands the runtime a null code pointer ("CLR Exception is
\* thrown if the pointer is 0"), however the tests of the current method on
\* one thread interleave with compile_method on another.
CodeNeverNull ==
    \A t \in Thread : At(t, "return") => Top(t).code # None

\* The callback never runs before Main has made a reader for it to fill: the
\* hooks are in place, and add_hook compiles a method through them, when
\* _dumpedBodyReader is still null.
CallbackHasReader ==
    \A t \in Thread : At(t, "guard") => reader # None

\* A compilation of a method outside the target module yields that method's
\* own code: only methods of the module are replaced by the fake code.
ForeignCodeIntact ==
    \A t \in Thread :
        At(t, "return") /\ Top(t).meth \in Foreign => Top(t).code = Top(t).meth

\* The fake code is that of the useless method and is set once: no method of
\* the target ever becomes the code that stands in for the others, and no
\* target method is compiled for real as a consequence (comp_compile's test
\* of fake_code against 0).
FakeCodeIsUseless ==
    [][fakeCode' = fakeCode \/ (fakeCode = None /\ fakeCode' = Useless)]_vars

\* Callback and reader agree: when the callback runs it is for the method the
\* reader was made for, and what it copies are that method's own locals,
\* instructions and clauses, so that no body ever holds parts of another
\* method (README.md:3, "A CIL method body dumper").
OwnBody ==
    \A m \in Method :
        /\ body[m].sig.of \in {m, None}
        /\ body[m].il \in {m, None}
        /\ body[m].eh \in {m, None}

\* Every dumped body has exactly the method's local variables: the library
\* collects them one call at a time over the whole compilation and never
\* clears what it collected.
LocalsExact ==
    \A m \in Method : body[m].sig.of = m => body[m].sig.n = NumLocals[m]

\* Once the hooks are in place a run does not crash, unless the runtime refuses
\* to make the handle of the method it has come to: in particular the callback
\* can be called as long as methods are compiled (README.md:6, README.md:9 and
\* README.md:10 list the versions the program was tested on).
HookedRunSurvives == pc = "crashed" /\ hooked => reader \in Unresolvable

\* A module is saved only if the hooks were in place: Main ends when AddHook
\* returns false (Program.cs:57 to 66) and never saves, as a dump, bodies the
\* JIT has not been asked for.
HookedWhenSaved == pc = "saved" => hooked

\* What the callback can be expected to dump: the handle leads to the method,
\* the JIT accepts it, and the code did not become smaller.
Dumpable(m) ==
    /\ MethodHandle[m] \notin InstantiatingStub
    /\ m \notin Unjittable
    /\ JitSize[m] >= DiskSize[m]

\* When the module is saved and the hooks were in place, each method that can be dumped has its own
\* complete body, every other method still has the body of the file (no body
\* is left half overwritten), and the count printed is that of dumped bodies.
CompleteWhenSaved ==
    pc = "saved" /\ hooked =>
        /\ \A m \in Method : body[m] = IF Dumpable(m) THEN OwnBodyOf(m) ELSE DiskBody
        /\ dumpedMethods = Cardinality({m \in Method : Dumpable(m)})

\* Every run of the dumper ends, with the module saved or with an error.
Terminates == <>(pc \in Ended)

----------------------------------------------------------------------------
\* A body counts as dumped once its last part is in place.
RunPhase ==
    CASE pc = "saved" -> "saved"
      [] pc \in {"failed", "crashed"} -> "failed"
      [] pc \in {"next", "call"} -> "dump"
      [] OTHER -> "start"

DumpedBodies == {m \in Method : body[m] = OwnBodyOf(m)}

Run == INSTANCE DumpRun WITH
    phase <- RunPhase, todo <- remaining, visited <- reader,
    dumped <- DumpedBodies, count <- dumpedMethods

\* A run of the program is a run DumpRun allows, with its fairness: the loop
\* over the methods, two threads of callbacks and the hook library together
\* never dump a body twice, dump a body out of turn, or touch one after Save.
ImplementsDumpRun == Run!Spec

----------------------------------------------------------------------------
\* The inductive invariants the proofs rest on.

\* The code of a compilation that has passed comp_compile's second test.
PastTest == {"import", "sig", "guard", "vars", "ins", "eh", "fake"}

\* A stack holds compilations up to its depth and nothing above.
StackOK ==
    \A t \in Thread, l \in Level :
        IF l <= depth[t]
        THEN frame[t][l].meth \in Desc /\ frame[t][l].pc # "idle"
        ELSE frame[t][l] = NoFrame

\* The useless method is compiled once, by add_hook, on an empty stack.
UselessOnce ==
    /\ \A t \in Thread, l \in Level :
        frame[t][l].meth = Useless =>
            /\ t = Main /\ l = 1 /\ pc \in {"primed"} \cup Ended
            /\ frame[t][l].pc \in {"locals", "first", "real", "return"}
            /\ frame[t][l].pc = "locals" => fakeCode = None
    /\ pc = "primed" => current = Useless
    /\ pc = "primed" /\ hooked /\ fakeCode = None =>
        /\ depth[Main] > 0
        /\ frame[Main][1].meth = Useless
        /\ frame[Main][1].pc \in {"locals", "first"}

\* Until there is a fake code, no method of the target is current, and only
\* the useless method can become the fake code.
FakeCodeFirst ==
    /\ hooked /\ fakeCode = None => current \in {None, Useless}
    /\ pc \in {"create", "offsets", "apply"} => ~hooked
    /\ pc \in {"create", "offsets", "apply", "prime"} => fakeCode = None /\ current = None
    /\ pc \in {"next", "call"} /\ hooked => fakeCode # None
    /\ \A t \in Thread, l \in Level :
        frame[t][l].pc = "first" => frame[t][l].meth = Useless /\ fakeCode = None

\* A compilation that takes the dumper's path finds a fake code.
HookPath ==
    \A t \in Thread, l \in Level :
        /\ frame[t][l].pc \in PastTest \cup {"first", "recheck"} => hooked
        /\ frame[t][l].pc \in PastTest => fakeCode # None
        /\ frame[t][l].pc = "recheck" /\ frame[t][l].meth = current => fakeCode # None
        /\ frame[t][l].pc = "return" => frame[t][l].code # None

\* Whoever needs the reader or the current method finds one.
ReaderOK ==
    /\ pc = "call" => reader # None
    /\ reader = None => current \in {None, Useless}
    /\ fakeCode # None => current # None
    /\ \A t \in Thread, l \in Level : frame[t][l].pc \in PastTest => reader # None

\* The whole of it: how fake_code, the current method and the compilations in
\* progress constrain each other.  It implies CodeNeverNull and, as an
\* invariant, that fake_code is only ever the code of the useless method.
ControlInv == TypeOK /\ StackOK /\ UselessOnce /\ FakeCodeFirst /\ HookPath /\ ReaderOK

\* No compilation of a foreign method is on the dumper's path, and each yields
\* its own code.  It implies ForeignCodeIntact.
ForeignInv ==
    /\ current \notin Foreign
    /\ \A t \in Thread, l \in Level : frame[t][l].meth \in Foreign =>
        /\ frame[t][l].pc \notin PastTest
        /\ frame[t][l].pc = "return" => frame[t][l].code = frame[t][l].meth

\* The runtime compiles none of the target's methods of its own accord.
Quiet == Stray \cap Method = {}

\* What the dumper needs of the runtime to own the target's compilations, and
\* less than Quiet: the runtime may compile any method of the target, but no
\* compilation of its own is of the method that is current while it reports
\* the types of locals (get_arg_type_hook) or is at comp_compile's second test.
Undisturbed ==
    \A t \in Thread, l \in Level :
        frame[t][l].stray /\ frame[t][l].pc \in {"locals", "recheck"} =>
            frame[t][l].meth # current

\* What is compiled by compile_method is at the bottom of the main thread's
\* stack; it is the current method and the reader's.
SoloFrame ==
    \A t \in Thread, l \in Level : l <= depth[t] /\ ~frame[t][l].stray =>
        /\ t = Main /\ l = 1
        /\ pc # "call"
        /\ frame[t][l].meth = current
        /\ frame[t][l].meth \in Stub \cup {Useless, reader}

\* Only such a compilation reaches the callback, with the method's locals; what
\* the runtime starts itself is a method it has a handle of, never a stub.
OwnFrame ==
    \A t \in Thread, l \in Level :
        /\ frame[t][l].stray => frame[t][l].meth \in Stray
        /\ frame[t][l].meth \in Stub => frame[t][l].pc = "locals"
        /\ frame[t][l].pc \in PastTest => ~frame[t][l].stray
        /\ frame[t][l].pc \in {"guard", "vars"} => frame[t][l].sig.of = frame[t][l].meth

\* The locals of a method that has not been compiled have not been collected;
\* those of a method being compiled are those reported so far.
FreshLocals ==
    /\ reader \notin remaining
    /\ \A m \in Method :
        m \in remaining \/ (pc = "call" /\ m = reader) => locals[m] = 0
    /\ \A t \in Thread, l \in Level :
        frame[t][l].meth \in Method /\ ~frame[t][l].stray =>
            /\ pc \in {"next"} \cup Ended
            /\ hooked => locals[frame[t][l].meth] = frame[t][l].seen
            /\ frame[t][l].pc # "locals" => frame[t][l].seen = NumLocals[frame[t][l].meth]
            /\ frame[t][l].pc \in {"guard", "vars"} =>
                    frame[t][l].sig.n = NumLocals[frame[t][l].meth]

\* What holds in addition as long as the runtime leaves the current method to
\* the dumper (Undisturbed).  It implies OwnBody and LocalsExact.
UndisturbedInv == ForeignInv /\ SoloFrame /\ OwnFrame /\ FreshLocals /\ OwnBody /\ LocalsExact

\* What the dumper leaves of a method's body, and what the body holds while its
\* compilation is at p.
Outcome(m) == IF Dumpable(m) THEN OwnBodyOf(m) ELSE DiskBody
Progress(m, p) ==
    CASE p = "ins" -> [OwnBodyOf(m) EXCEPT !.il = None, !.eh = None]
      [] p = "eh" -> [OwnBodyOf(m) EXCEPT !.eh = None]
      [] p \in {"fake", "return"} -> Outcome(m)
      [] OTHER -> DiskBody

\* compile_method has not got to m, or is compiling it.
Waiting(m) == m \in remaining \/ (pc = "call" /\ m = reader)
Underway == depth[Main] > 0 /\ ~frame[Main][1].stray

\* The loop over the methods takes each once, and hooks once in place stay.
LoopInv ==
    /\ pc \notin {"next", "call"} \cup Ended => remaining = Method
    /\ pc \in {"apply", "prime", "primed"} \/ hooked => initialized
    /\ pc = "failed" => ~hooked
    /\ pc = "saved" => remaining = {} /\ depth[Main] = 0

\* A compilation of compile_method's gets where it can be dumped, and only there.
OnPath(f) ==
    /\ f.meth \in Stub <=> MethodHandle[reader] \in InstantiatingStub
    /\ f.pc \notin {"first", "real"}
    /\ f.pc \in (PastTest \ {"import"}) \cup {"return"} => reader \notin Unjittable
    /\ f.pc \in {"vars", "ins", "eh"} => Dumpable(reader)
PathInv == hooked /\ pc = "next" /\ Underway => OnPath(frame[Main][1])

\* Each body is as far as its method.
BodiesInv ==
    pc # "crashed" /\ (hooked \/ pc \in {"create", "offsets", "apply"}) =>
        \A m \in Method :
            body[m] = IF Waiting(m) THEN DiskBody
                      ELSE IF m = reader /\ Underway THEN Progress(m, frame[Main][1].pc)
                      ELSE Outcome(m)

CountInv == dumpedMethods = Cardinality({m \in Method : body[m].eh # None})

\* It implies CompleteWhenSaved.
CompleteInv == LoopInv /\ PathInv /\ BodiesInv /\ CountInv

=============================================================================
