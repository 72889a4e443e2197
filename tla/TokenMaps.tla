----------------------------- MODULE TokenMaps -----------------------------
(***************************************************************************)
(* How the operands of a dumped body get their metadata tokens.            *)
(*                                                                         *)
(* The code of a protected module may hold tokens that only mean something *)
(* to the protector, which replaces a token by the real one on its way to  *)
(* the runtime.  The hook library watches both ends: imp_resolve_token     *)
(* sees the token in the code and the handle it leads to, and              *)
(* resolve_token_hook, which the former calls, sees the real token and the *)
(* handle.  resolve_token puts the two together for the dumper's operand   *)
(* resolver, long after the JIT resolved the token.                        *)
(*                                                                         *)
(* A compilation is reduced to the tokens it resolves.  All threads share  *)
(* the two maps.                                                           *)
(***************************************************************************)
EXTENDS Naturals

CONSTANTS
    Method,      \* methods of the target module
    Foreign,     \* methods of another module
    Token,       \* tokens, those of the code and the real ones
    Handle,      \* addresses of the runtime's classes, methods and fields
    Code,        \* [method -> SUBSET Token], the tokens of its instructions
    Live,        \* [method -> SUBSET Token], those the JIT reaches
    Decode,      \* [Module -> [Token -> Token]], the real token
    Resolved,    \* [Module -> [Token -> Reference]], what a real token denotes
    Unloadable,  \* real tokens of the target the runtime cannot resolve
    Target, Other,
    Main, Worker,
    MaxStray,    \* bound: compilations the runtime starts by itself
    None         \* the null handle and the token 0

Module == {Target, Other}
Thread == {Main} \cup Worker

\* CORINFO_RESOLVED_TOKEN: a class and, for a member of it, its description.
\* Instantiations of a generic class over references share the latter.
Reference == [hClass : Handle, hMethod : Handle \cup {None}, hField : Handle \cup {None}]

ASSUME TokenAssumption ==
    /\ None \notin Token \cup Handle \cup Module \cup Method \cup Foreign
    /\ Method \cap Foreign = {}
    /\ Main \notin Worker
    /\ Target # Other
    /\ Code \in [Method \cup Foreign -> SUBSET Token]
    /\ Live \in [Method \cup Foreign -> SUBSET Token]
    /\ \A m \in Method \cup Foreign : Live[m] \subseteq Code[m]
    /\ Decode \in [Module -> [Token -> Token]]
    /\ Resolved \in [Module -> [Token -> Reference]]
    /\ Unloadable \subseteq Token
    /\ MaxStray \in Nat

\* The thread's compilation: its method, whether compile_method started it,
\* the tokens still to be seen, and the one being resolved.
Task == [pc : {"idle", "import", "resolved", "read"}, meth : Method \cup Foreign \cup {None},
         dump : BOOLEAN, todo : SUBSET Token, token : Token \cup {None}]
NoTask == [pc |-> "idle", meth |-> None, dump |-> FALSE, todo |-> {}, token |-> None]

VARIABLES
    loadedModule,      \* callback::loaded_module
    tokensFromHandle,  \* callback::tokens_from_handle
    handlesFromToken,  \* callback::handles_from_token
    task,
    remaining,         \* methods compile_method has not been called for
    operand,           \* the tokens of the dumped instructions' operands
    strays

vars == <<loadedModule, tokensFromHandle, handlesFromToken, task, remaining, operand, strays>>

Init ==
    /\ loadedModule = None
    /\ tokensFromHandle = [h \in Handle \cup {None} |-> None]
    /\ handlesFromToken = [k \in Token |-> None]
    /\ task = [t \in Thread |-> NoTask]
    /\ remaining = Method
    /\ operand = [m \in Method |-> [k \in Token |-> None]]
    /\ strays = 0

ModuleOf(m) == IF m \in Method THEN Target ELSE Other

\* The most specific handle of a reference.
GetHandle(r) ==
    CASE r.hMethod # None -> r.hMethod
      [] r.hMethod = None /\ r.hField # None -> r.hField
      [] OTHER -> r.hClass

\* What a token in the code of the thread's method becomes and denotes.
Real(t, k) == Decode[ModuleOf(task[t].meth)][k]
HandleSeen(t, k) == GetHandle(Resolved[ModuleOf(task[t].meth)][Real(t, k)])

Start(t, m, dump) ==
    /\ task[t].pc = "idle"
    /\ task' = [task EXCEPT ![t] = [pc |-> "import", meth |-> m, dump |-> dump,
                                    todo |-> Live[m], token |-> None]]

----------------------------------------------------------------------------
\* compile_method: the first one tells which module is being dumped.
CompileMethod(m) ==
    /\ m \in remaining
    /\ remaining' = remaining \ {m}
    /\ loadedModule' = IF loadedModule = None THEN ModuleOf(m) ELSE loadedModule
    /\ Start(Main, m, TRUE)
    /\ UNCHANGED <<tokensFromHandle, handlesFromToken, operand, strays>>

\* The runtime compiles a method by itself.
StrayCompile(t, m) ==
    /\ strays < MaxStray
    /\ strays' = strays + 1
    /\ Start(t, m, FALSE)
    /\ UNCHANGED <<loadedModule, tokensFromHandle, handlesFromToken, remaining, operand>>

\* Mutant: the tokens of every module are recorded.
ResolveTokenHookAnyModule(t) ==
    /\ task[t].pc = "import"
    /\ \E k \in task[t].todo :
        /\ task[t].meth \in Method => Real(t, k) \notin Unloadable
        /\ tokensFromHandle' = [tokensFromHandle EXCEPT ![HandleSeen(t, k)] = Real(t, k)]
        /\ task' = [task EXCEPT ![t] = [@ EXCEPT !.pc = "resolved", !.token = k]]
    /\ UNCHANGED <<loadedModule, handlesFromToken, remaining, operand, strays>>

\* Mutant: the handle is stored where the token should be.
ResolveTokenHookHandle(t) ==
    /\ task[t].pc = "import"
    /\ \E k \in task[t].todo :
        /\ task[t].meth \in Method => Real(t, k) \notin Unloadable
        /\ tokensFromHandle' = IF loadedModule = ModuleOf(task[t].meth)
                               THEN [tokensFromHandle EXCEPT ![HandleSeen(t, k)] = HandleSeen(t, k)]
                               ELSE tokensFromHandle
        /\ task' = [task EXCEPT ![t] = [@ EXCEPT !.pc = "resolved", !.token = k]]
    /\ UNCHANGED <<loadedModule, handlesFromToken, remaining, operand, strays>>

\* The JIT resolves one more token: resolve_token_hook, after the original.
ResolveTokenHook(t) ==
    /\ task[t].pc = "import"
    /\ \E k \in task[t].todo :
        /\ task[t].meth \in Method => Real(t, k) \notin Unloadable
        /\ tokensFromHandle' = IF loadedModule = ModuleOf(task[t].meth)
                               THEN [tokensFromHandle EXCEPT ![HandleSeen(t, k)] = Real(t, k)]
                               ELSE tokensFromHandle
        /\ task' = [task EXCEPT ![t] = [@ EXCEPT !.pc = "resolved", !.token = k]]
    /\ UNCHANGED <<loadedModule, handlesFromToken, remaining, operand, strays>>

\* The original throws: the compilation is over and nothing is recorded.
ResolutionFails(t) ==
    /\ task[t].pc = "import"
    /\ task[t].meth \in Method
    /\ \E k \in task[t].todo : Real(t, k) \in Unloadable
    /\ task' = [task EXCEPT ![t] = NoTask]
    /\ UNCHANGED <<loadedModule, tokensFromHandle, handlesFromToken, remaining, operand, strays>>

\* imp_resolve_token, after the runtime has resolved the token.
ImpResolveToken(t) ==
    /\ task[t].pc = "resolved"
    /\ handlesFromToken' = IF loadedModule = ModuleOf(task[t].meth)
                           THEN [handlesFromToken EXCEPT ![task[t].token] =
                                    HandleSeen(t, task[t].token)]
                           ELSE handlesFromToken
    /\ task' = [task EXCEPT ![t] = [@ EXCEPT !.pc = "import", !.token = None,
                                              !.todo = task[t].todo \ {task[t].token}]]
    /\ UNCHANGED <<loadedModule, tokensFromHandle, remaining, operand, strays>>

\* The import is over; a compilation of compile_method's goes on to the
\* callback, which reads the instructions.
EndImport(t) ==
    /\ task[t].pc = "import"
    /\ task[t].todo = {}
    /\ task' = [task EXCEPT ![t] = IF task[t].dump
                                   THEN [@ EXCEPT !.pc = "read", !.todo = Code[task[t].meth]]
                                   ELSE NoTask]
    /\ UNCHANGED <<loadedModule, tokensFromHandle, handlesFromToken, remaining, operand, strays>>

\* resolve_token: a token that is in neither map leads to 0.
ResolveToken(k) == tokensFromHandle[handlesFromToken[k]]

\* CilOperandResolver.ResolveMember
ResolveMember(k) == IF ResolveToken(k) = None THEN k ELSE ResolveToken(k)

\* DumpedBodyReader.ReadInstructions, one operand after the other.
ReadOperand(t) ==
    /\ task[t].pc = "read"
    /\ \E k \in task[t].todo :
        /\ operand' = [operand EXCEPT ![task[t].meth][k] = ResolveMember(k)]
        /\ task' = [task EXCEPT ![t] = [@ EXCEPT !.todo = task[t].todo \ {k}]]
    /\ UNCHANGED <<loadedModule, tokensFromHandle, handlesFromToken, remaining, strays>>

EndRead(t) ==
    /\ task[t].pc = "read"
    /\ task[t].todo = {}
    /\ task' = [task EXCEPT ![t] = NoTask]
    /\ UNCHANGED <<loadedModule, tokensFromHandle, handlesFromToken, remaining, operand, strays>>

Done ==
    /\ remaining = {}
    /\ \A t \in Thread : task[t].pc = "idle"
    /\ UNCHANGED vars

Next ==
    \/ \E m \in Method : CompileMethod(m)
    \/ \E t \in Thread, m \in Method \cup Foreign : StrayCompile(t, m)
    \/ \E t \in Thread :
        \/ ResolveTokenHook(t) \/ ResolutionFails(t) \/ ImpResolveToken(t)
        \/ EndImport(t) \/ ReadOperand(t) \/ EndRead(t)
    \/ Done

Spec == Init /\ [][Next]_vars

----------------------------------------------------------------------------
TypeOK ==
    /\ loadedModule \in Module \cup {None}
    /\ tokensFromHandle \in [Handle \cup {None} -> Token \cup {None}]
    /\ handlesFromToken \in [Token -> Handle \cup {None}]
    /\ task \in [Thread -> Task]
    /\ remaining \in SUBSET Method
    /\ operand \in [Method -> [Token -> Token \cup {None}]]
    /\ strays \in 0..MaxStray

\* The class, member and field a token in the target's code stands for.
Denotes(k) == Resolved[Target][Decode[Target][k]]

\* Every operand of a dumped instruction denotes what it denotes to the
\* runtime, although the two maps are filled at different moments and the
\* threads of the target and the compilations of other modules, whose tokens
\* and handles overlap with the target's, go on meanwhile.  Only in code the
\* JIT does not reach is a token left as it is.
OperandDenotesSame ==
    \A m \in Method, k \in Token :
        operand[m][k] # None =>
            \/ operand[m][k] = k /\ k \notin Live[m]
            \/ Resolved[Target][operand[m][k]] = Denotes(k)

----------------------------------------------------------------------------
\* The inductive invariant the proof rests on.

\* The assumption under which the maps can be told apart by handles: real
\* tokens of the target that lead to one handle denote the same.
HandlesTell ==
    \A a, b \in Token :
        GetHandle(Resolved[Target][a]) = GetHandle(Resolved[Target][b]) =>
            Resolved[Target][a] = Resolved[Target][b]

\* What is in the maps comes from the target, and is right.
MapsInv ==
    /\ loadedModule \in {Target, None}
    /\ tokensFromHandle[None] = None
    /\ \A h \in Handle : tokensFromHandle[h] # None =>
            GetHandle(Resolved[Target][tokensFromHandle[h]]) = h
    /\ \A k \in Token : handlesFromToken[k] # None =>
            handlesFromToken[k] = GetHandle(Denotes(k))

\* A compilation of compile_method's has put what it has resolved so far in
\* both maps, and before it reads the operands it has resolved them all.
Seen(r) ==
    /\ r.pc = "idle" => ~r.dump
    /\ r.pc # "idle" => r.meth \in Method \cup Foreign
    /\ r.pc = "resolved" => r.token \in r.todo
    /\ r.pc = "read" => r.dump
    /\ r.dump =>
        /\ r.meth \in Method
        /\ loadedModule = Target
        /\ r.pc = "resolved" => tokensFromHandle[GetHandle(Denotes(r.token))] # None
        /\ \A k \in Live[r.meth] : r.pc = "read" \/ k \notin r.todo => ResolveToken(k) # None

SeenInv == \A t \in Thread : Seen(task[t])

OperandInv == TypeOK /\ MapsInv /\ SeenInv /\ OperandDenotesSame
=============================================================================
