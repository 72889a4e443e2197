-------------------------- MODULE TokenMapsProofs --------------------------
(***************************************************************************)
(* Theorems about TokenMaps, for every target, every set of threads and    *)
(* every way a protector may encode tokens.                                *)
(***************************************************************************)
EXTENDS TokenMaps, TLAPS

\* The handle of a reference is never null.
LEMMA HandleType ==
    ASSUME NEW r \in Reference
    PROVE  GetHandle(r) \in Handle
  BY DEF GetHandle, Reference

\* Tokens and references of a thread at work.
LEMMA SeenType ==
    ASSUME NEW t \in Thread, NEW k \in Token, TypeOK
    PROVE  /\ ModuleOf(task[t].meth) \in Module
           /\ Real(t, k) \in Token
           /\ HandleSeen(t, k) \in Handle
  <1>1. ModuleOf(task[t].meth) \in Module
    BY DEF ModuleOf, Module
  <1>2. Real(t, k) \in Token
    BY <1>1, TokenAssumption DEF Real
  <1>3. Resolved[ModuleOf(task[t].meth)][Real(t, k)] \in Reference
    BY <1>1, <1>2, TokenAssumption
  <1>. QED
    BY <1>1, <1>2, <1>3, HandleType DEF HandleSeen

\* A handle is null in neither map, and resolve_token returns a token or 0.
LEMMA ResolveType ==
    ASSUME TypeOK, NEW k \in Token
    PROVE  ResolveToken(k) \in Token \cup {None} /\ ResolveMember(k) \in Token
  BY DEF TypeOK, ResolveToken, ResolveMember

----------------------------------------------------------------------------
\* Type correctness.

LEMMA StartType ==
    ASSUME TypeOK, NEW t \in Thread, NEW m \in Method \cup Foreign, NEW d \in BOOLEAN,
           Start(t, m, d)
    PROVE  task' \in [Thread -> Task]
  <1>1. [pc |-> "import", meth |-> m, dump |-> d, todo |-> Live[m], token |-> None] \in Task
    BY TokenAssumption DEF Task
  <1>. QED
    BY <1>1 DEF Start, TypeOK

\* What a step makes of a task is a task.
LEMMA TaskType ==
    ASSUME NEW r \in Task
    PROVE  /\ r.todo \in SUBSET Token
           /\ \A k \in Token : [r EXCEPT !.pc = "resolved", !.token = k] \in Task
           /\ \A s \in SUBSET Token :
                /\ [r EXCEPT !.todo = s] \in Task
                /\ [r EXCEPT !.pc = "read", !.todo = s] \in Task
                /\ [r EXCEPT !.pc = "import", !.todo = s, !.token = None] \in Task
  <1>1. r.todo \in SUBSET Token
    BY DEF Task
  <1>2. ASSUME NEW k \in Token PROVE [r EXCEPT !.pc = "resolved", !.token = k] \in Task
    BY DEF Task
  <1>3. ASSUME NEW s \in SUBSET Token PROVE [r EXCEPT !.todo = s] \in Task
    BY DEF Task
  <1>4. ASSUME NEW s \in SUBSET Token PROVE [r EXCEPT !.pc = "read", !.todo = s] \in Task
    BY DEF Task
  <1>5. ASSUME NEW s \in SUBSET Token
        PROVE  [r EXCEPT !.pc = "import", !.todo = s, !.token = None] \in Task
    BY DEF Task
  <1>. QED
    BY <1>1, <1>2, <1>3, <1>4, <1>5

LEMMA TypeStep == TypeOK /\ SeenInv /\ [Next]_vars => TypeOK'
  <1> SUFFICES ASSUME TypeOK, SeenInv, [Next]_vars PROVE TypeOK'
    OBVIOUS
  <1>0. Main \in Thread /\ NoTask \in Task
    BY DEF Thread, NoTask, Task
  <1>1. ASSUME NEW m \in Method, CompileMethod(m) PROVE TypeOK'
    <2>1. task' \in [Thread -> Task]
      BY <1>0, <1>1, StartType DEF CompileMethod
    <2>. QED
      BY <1>1, <2>1 DEF CompileMethod, TypeOK, ModuleOf, Module
  <1>2. ASSUME NEW t \in Thread, NEW m \in Method \cup Foreign, StrayCompile(t, m)
        PROVE  TypeOK'
    <2>1. task' \in [Thread -> Task]
      BY <1>2, StartType DEF StrayCompile
    <2>2. strays' \in 0..MaxStray
      BY <1>2, TokenAssumption DEF StrayCompile, TypeOK
    <2>. QED
      BY <1>2, <2>1, <2>2 DEF StrayCompile, TypeOK
  <1>3. ASSUME NEW t \in Thread, ResolveTokenHook(t) PROVE TypeOK'
    <2>1. PICK k \in task[t].todo :
            /\ tokensFromHandle' \in
                 {tokensFromHandle, [tokensFromHandle EXCEPT ![HandleSeen(t, k)] = Real(t, k)]}
            /\ task' = [task EXCEPT ![t] = [task[t] EXCEPT !.pc = "resolved", !.token = k]]
      BY <1>3 DEF ResolveTokenHook
    <2>2. k \in Token
      BY DEF TypeOK, Task
    <2>3. Real(t, k) \in Token
      BY <2>2, SeenType
    <2>4. [task[t] EXCEPT !.pc = "resolved", !.token = k] \in Task
      BY <2>2, TaskType DEF TypeOK
    <2>5. task' \in [Thread -> Task]
      BY <2>1, <2>4 DEF TypeOK
    <2>6. tokensFromHandle' \in [Handle \cup {None} -> Token \cup {None}]
      BY <2>1, <2>3 DEF TypeOK
    <2>. QED
      BY <1>3, <2>5, <2>6 DEF ResolveTokenHook, TypeOK
  <1>4. ASSUME NEW t \in Thread, ResolutionFails(t) PROVE TypeOK'
    BY <1>0, <1>4 DEF ResolutionFails, TypeOK
  <1>5. ASSUME NEW t \in Thread, ImpResolveToken(t) PROVE TypeOK'
    <2>1. task[t].token \in Token
      BY <1>5 DEF ImpResolveToken, SeenInv, Seen, TypeOK, Task
    <2>2. HandleSeen(t, task[t].token) \in Handle
      BY <2>1, SeenType
    <2> DEFINE rest == task[t].todo \ {task[t].token}
    <2>3. task' = [task EXCEPT ![t] = [task[t] EXCEPT !.pc = "import", !.token = None,
                                                      !.todo = rest]]
      BY <1>5 DEF ImpResolveToken
    <2>6. task[t] \in Task
      BY DEF TypeOK
    <2>7. rest \subseteq Token
      BY <2>6, TaskType
    <2> HIDE DEF rest
    <2>4. task' \in [Thread -> Task]
      <3>1. [task[t] EXCEPT !.pc = "import", !.todo = rest, !.token = None] \in Task
        BY <2>6, <2>7, TaskType
      <3>. QED
        BY <2>3, <3>1 DEF TypeOK
    <2>5. handlesFromToken' \in [Token -> Handle \cup {None}]
      BY <1>5, <2>2 DEF ImpResolveToken, TypeOK
    <2>. QED
      BY <1>5, <2>4, <2>5 DEF ImpResolveToken, TypeOK
  <1>6. ASSUME NEW t \in Thread, EndImport(t) PROVE TypeOK'
    <2>1. CASE task[t].dump
      <3>1. Code[task[t].meth] \subseteq Token
        BY <2>1, TokenAssumption DEF SeenInv, Seen
      <3>2. [task[t] EXCEPT !.pc = "read", !.todo = Code[task[t].meth]] \in Task
        BY <3>1, TaskType DEF TypeOK
      <3>. QED
        BY <1>6, <2>1, <3>2 DEF EndImport, TypeOK
    <2>2. CASE ~task[t].dump
      BY <1>0, <1>6, <2>2 DEF EndImport, TypeOK
    <2>. QED
      BY <2>1, <2>2 DEF TypeOK
  <1>7. ASSUME NEW t \in Thread, ReadOperand(t) PROVE TypeOK'
    <2>1. PICK k \in task[t].todo :
            /\ task' = [task EXCEPT ![t] = [task[t] EXCEPT !.todo = task[t].todo \ {k}]]
            /\ operand' = [operand EXCEPT ![task[t].meth][k] = ResolveMember(k)]
      BY <1>7 DEF ReadOperand
    <2>2. k \in Token
      BY DEF TypeOK, Task
    <2>3. ResolveMember(k) \in Token
      BY <2>2, ResolveType
    <2> DEFINE rest == task[t].todo \ {k}
    <2>4. task' = [task EXCEPT ![t] = [task[t] EXCEPT !.todo = rest]]
      BY <2>1
    <2>7. task[t] \in Task
      BY DEF TypeOK
    <2>8. rest \subseteq Token
      BY <2>7, TaskType
    <2> HIDE DEF rest
    <2>5. task' \in [Thread -> Task]
      <3>1. [task[t] EXCEPT !.todo = rest] \in Task
        BY <2>7, <2>8, TaskType
      <3>. QED
        BY <2>4, <3>1 DEF TypeOK
    <2>6. operand' \in [Method -> [Token -> Token \cup {None}]]
      BY <2>1, <2>3 DEF TypeOK
    <2>. QED
      BY <1>7, <2>5, <2>6 DEF ReadOperand, TypeOK
  <1>8. ASSUME NEW t \in Thread, EndRead(t) PROVE TypeOK'
    BY <1>0, <1>8 DEF EndRead, TypeOK
  <1>9. CASE UNCHANGED vars
    BY <1>9 DEF vars, TypeOK
  <1>. QED
    BY <1>1, <1>2, <1>3, <1>4, <1>5, <1>6, <1>7, <1>8, <1>9 DEF Next, Done

----------------------------------------------------------------------------
\* The maps.

\* What a thread resolves in the target is what the token denotes.
LEMMA SeenDenotes ==
    ASSUME NEW t \in Thread, NEW k \in Token, TypeOK, ModuleOf(task[t].meth) = Target
    PROVE  /\ GetHandle(Resolved[Target][Real(t, k)]) = HandleSeen(t, k)
           /\ HandleSeen(t, k) = GetHandle(Denotes(k))
  BY DEF Real, HandleSeen, Denotes

LEMMA MapsStep == TypeOK /\ MapsInv /\ SeenInv /\ [Next]_vars => MapsInv'
  <1> SUFFICES ASSUME TypeOK, MapsInv, SeenInv, [Next]_vars PROVE MapsInv'
    OBVIOUS
  <1>1. ASSUME NEW m \in Method, CompileMethod(m) PROVE MapsInv'
    BY <1>1 DEF CompileMethod, MapsInv, ModuleOf
  <1>2. ASSUME NEW t \in Thread, ResolveTokenHook(t) PROVE MapsInv'
    <2>1. PICK k \in task[t].todo :
            tokensFromHandle' = IF loadedModule = ModuleOf(task[t].meth)
                                THEN [tokensFromHandle EXCEPT ![HandleSeen(t, k)] = Real(t, k)]
                                ELSE tokensFromHandle
      BY <1>2 DEF ResolveTokenHook
    <2>2. k \in Token
      BY DEF TypeOK, Task
    <2>3. UNCHANGED <<loadedModule, handlesFromToken>>
      BY <1>2 DEF ResolveTokenHook
    <2>4. CASE loadedModule = ModuleOf(task[t].meth)
      <3>1. ModuleOf(task[t].meth) = Target
        BY <2>2, <2>4, SeenType, TokenAssumption DEF MapsInv
      <3>2. HandleSeen(t, k) \in Handle /\ HandleSeen(t, k) # None
        BY <2>2, SeenType, TokenAssumption
      <3>. QED
        BY <2>1, <2>2, <2>3, <2>4, <3>1, <3>2, SeenDenotes DEF MapsInv, TypeOK
    <2>5. CASE loadedModule # ModuleOf(task[t].meth)
      BY <2>1, <2>3, <2>5 DEF MapsInv
    <2>. QED
      BY <2>4, <2>5
  <1>3. ASSUME NEW t \in Thread, ImpResolveToken(t) PROVE MapsInv'
    <2>1. task[t].token \in Token
      BY <1>3 DEF ImpResolveToken, SeenInv, Seen, TypeOK, Task
    <2>2. CASE loadedModule = ModuleOf(task[t].meth)
      <3>1. ModuleOf(task[t].meth) = Target
        BY <2>1, <2>2, SeenType, TokenAssumption DEF MapsInv
      <3>. QED
        BY <1>3, <2>1, <2>2, <3>1, SeenDenotes DEF ImpResolveToken, MapsInv, TypeOK
    <2>3. CASE loadedModule # ModuleOf(task[t].meth)
      BY <1>3, <2>3 DEF ImpResolveToken, MapsInv
    <2>. QED
      BY <2>2, <2>3
  <1>4. CASE UNCHANGED <<loadedModule, tokensFromHandle, handlesFromToken>>
    BY <1>4 DEF MapsInv
  <1>. QED
    BY <1>1, <1>2, <1>3, <1>4
       DEF Next, Done, StrayCompile, ResolutionFails, EndImport, ReadOperand, EndRead, vars

\* A token that has a handle keeps having one.
LEMMA HandleKept ==
    ASSUME TypeOK, SeenInv, [Next]_vars, NEW k \in Token, handlesFromToken[k] # None
    PROVE  handlesFromToken'[k] # None
  <1>1. ASSUME NEW t \in Thread, ImpResolveToken(t) PROVE handlesFromToken'[k] # None
    <2>1. task[t].token \in Token
      BY <1>1 DEF ImpResolveToken, SeenInv, Seen, TypeOK, Task
    <2>2. HandleSeen(t, task[t].token) # None
      BY <2>1, SeenType, TokenAssumption
    <2>. QED
      BY <1>1, <2>2 DEF ImpResolveToken, TypeOK
  <1>2. CASE UNCHANGED handlesFromToken
    BY <1>2
  <1>. QED
    BY <1>1, <1>2 DEF Next, Done, CompileMethod, StrayCompile, ResolveTokenHook,
       ResolutionFails, EndImport, ReadOperand, EndRead, vars

\* What is in the maps stays there, and the module is not changed.
LEMMA MapsGrow ==
    ASSUME TypeOK, MapsInv, SeenInv, [Next]_vars
    PROVE  /\ loadedModule = Target => loadedModule' = Target
           /\ \A h \in Handle : tokensFromHandle[h] # None => tokensFromHandle'[h] # None
           /\ \A k \in Token : ResolveToken(k) # None => ResolveToken(k)' # None
  <1>1. loadedModule = Target => loadedModule' = Target
    BY TokenAssumption DEF Next, Done, CompileMethod, StrayCompile, ResolveTokenHook,
       ResolutionFails, ImpResolveToken, EndImport, ReadOperand, EndRead, vars, Module
  <1>2. ASSUME NEW h \in Handle, tokensFromHandle[h] # None PROVE tokensFromHandle'[h] # None
    <2>1. ASSUME NEW t \in Thread, ResolveTokenHook(t) PROVE tokensFromHandle'[h] # None
      <3>1. PICK k \in task[t].todo :
                tokensFromHandle' = IF loadedModule = ModuleOf(task[t].meth)
                                    THEN [tokensFromHandle EXCEPT ![HandleSeen(t, k)] = Real(t, k)]
                                    ELSE tokensFromHandle
        BY <2>1 DEF ResolveTokenHook
      <3>2. k \in Token
        BY DEF TypeOK, Task
      <3>3. Real(t, k) # None
        BY <3>2, SeenType, TokenAssumption
      <3>. QED
        BY <1>2, <3>1, <3>3 DEF TypeOK
    <2>2. CASE UNCHANGED tokensFromHandle
      BY <1>2, <2>2
    <2>. QED
      BY <2>1, <2>2 DEF Next, Done, CompileMethod, StrayCompile,
         ResolutionFails, ImpResolveToken, EndImport, ReadOperand, EndRead, vars
  <1>3. ASSUME NEW k \in Token, ResolveToken(k) # None PROVE ResolveToken(k)' # None
    <2>1. handlesFromToken[k] \in Handle
      BY <1>3 DEF ResolveToken, MapsInv, TypeOK
    <2>2. handlesFromToken[k] # None /\ handlesFromToken[k] = GetHandle(Denotes(k))
      BY <2>1, TokenAssumption DEF MapsInv
    <2>3. handlesFromToken'[k] # None
      BY <2>2, HandleKept
    <2>4. MapsInv'
      BY MapsStep
    <2>5. handlesFromToken'[k] = handlesFromToken[k]
      BY <2>2, <2>3, <2>4 DEF MapsInv, Denotes
    <2>. QED
      BY <1>2, <1>3, <2>1, <2>5 DEF ResolveToken
  <1>. QED
    BY <1>1, <1>2, <1>3

----------------------------------------------------------------------------
\* The compilations.

\* What a reference of the target leads to.
LEMMA DenotesType ==
    ASSUME NEW k \in Token
    PROVE  Denotes(k) \in Reference /\ GetHandle(Denotes(k)) \in Handle
  <1>1. Denotes(k) \in Reference
    BY TokenAssumption DEF Denotes, Module
  <1>. QED
    BY <1>1, HandleType

\* A compilation that stays as it is has still been seen to.
LEMMA SeenKept ==
    ASSUME TypeOK, MapsInv, SeenInv, [Next]_vars, NEW r \in Task, Seen(r)
    PROVE  Seen(r)'
  <1>1. r.todo \subseteq Token
    BY TaskType
  <1>2. CASE ~r.dump
    BY <1>2 DEF Seen
  <1>3. CASE r.dump
    <2>1. Live[r.meth] \subseteq Token
      BY <1>3, TokenAssumption DEF Seen
    <2>2. loadedModule' = Target
      BY <1>3, MapsGrow DEF Seen
    <2>3. r.pc = "resolved" => tokensFromHandle'[GetHandle(Denotes(r.token))] # None
      <3>1. SUFFICES ASSUME r.pc = "resolved"
                     PROVE  tokensFromHandle'[GetHandle(Denotes(r.token))] # None
        OBVIOUS
      <3>2. r.token \in Token
        BY <1>1, <3>1 DEF Seen
      <3>. QED
        BY <1>3, <3>1, <3>2, DenotesType, MapsGrow DEF Seen
    <2>4. \A k \in Live[r.meth] :
                r.pc = "read" \/ k \notin r.todo => ResolveToken(k)' # None
      BY <1>3, <2>1, MapsGrow DEF Seen
    <2>. QED
      BY <1>3, <2>2, <2>3, <2>4 DEF Seen, Denotes
  <1>. QED
    BY <1>2, <1>3 DEF Task

\* A step that changes one compilation need only see to that one.
LEMMA SeenOne ==
    ASSUME TypeOK, MapsInv, SeenInv, [Next]_vars, NEW t \in Thread, NEW r \in Task,
           task' = [task EXCEPT ![t] = r], Seen(r)'
    PROVE  SeenInv'
  <1>1. ASSUME NEW u \in Thread PROVE Seen(task[u])'
    <2>1. CASE u = t
      BY <2>1 DEF TypeOK, Seen
    <2>2. CASE u # t
      <3>1. PICK q \in Task : q = task[u] /\ q = task'[u]
        BY <2>2 DEF TypeOK
      <3>2. Seen(q)'
        BY <3>1, SeenKept DEF SeenInv
      <3>. QED
        BY <3>1, <3>2 DEF Seen
    <2>. QED
      BY <2>1, <2>2
  <1>. QED
    BY <1>1 DEF SeenInv

\* The fields of a task after each kind of step.

\* A token has been resolved.
LEMMA TaskResolved ==
    ASSUME NEW r \in Task, NEW k \in Token
    PROVE  \E q \in Task :
                /\ q = [r EXCEPT !.pc = "resolved", !.token = k]
                /\ q.pc = "resolved" /\ q.token = k
                /\ q.meth = r.meth /\ q.dump = r.dump /\ q.todo = r.todo
  <1>1. r = [pc |-> r.pc, meth |-> r.meth, dump |-> r.dump, todo |-> r.todo, token |-> r.token]
    BY DEF Task
  <1>2. [r EXCEPT !.pc = "resolved", !.token = k] \in Task
    BY TaskType
  <1>. QED
    BY <1>1, <1>2

\* Its handle has been recorded.
LEMMA TaskImported ==
    ASSUME NEW r \in Task, NEW s \in SUBSET Token
    PROVE  \E q \in Task :
                /\ q = [r EXCEPT !.pc = "import", !.token = None, !.todo = s]
                /\ q.pc = "import" /\ q.todo = s
                /\ q.meth = r.meth /\ q.dump = r.dump
  <1>1. r = [pc |-> r.pc, meth |-> r.meth, dump |-> r.dump, todo |-> r.todo, token |-> r.token]
    BY DEF Task
  <1>2. [r EXCEPT !.pc = "import", !.token = None, !.todo = s] \in Task
    BY TaskType
  <1>. QED
    BY <1>1, <1>2

\* The operands are going to be read.
LEMMA TaskRead ==
    ASSUME NEW r \in Task, NEW s \in SUBSET Token
    PROVE  \E q \in Task :
                /\ q = [r EXCEPT !.pc = "read", !.todo = s]
                /\ q.pc = "read"
                /\ q.meth = r.meth /\ q.dump = r.dump
  <1>1. r = [pc |-> r.pc, meth |-> r.meth, dump |-> r.dump, todo |-> r.todo, token |-> r.token]
    BY DEF Task
  <1>2. [r EXCEPT !.pc = "read", !.todo = s] \in Task
    BY TaskType
  <1>. QED
    BY <1>1, <1>2

\* An operand has been read.
LEMMA TaskRest ==
    ASSUME NEW r \in Task, NEW s \in SUBSET Token
    PROVE  \E q \in Task :
                /\ q = [r EXCEPT !.todo = s]
                /\ q.pc = r.pc
                /\ q.meth = r.meth /\ q.dump = r.dump
  <1>1. r = [pc |-> r.pc, meth |-> r.meth, dump |-> r.dump, todo |-> r.todo, token |-> r.token]
    BY DEF Task
  <1>2. [r EXCEPT !.todo = s] \in Task
    BY TaskType
  <1>. QED
    BY <1>1, <1>2

LEMMA SeenStep == TypeOK /\ MapsInv /\ SeenInv /\ [Next]_vars => SeenInv'
  <1> SUFFICES ASSUME TypeOK, MapsInv, SeenInv, [Next]_vars PROVE SeenInv'
    OBVIOUS
  <1>0. Main \in Thread /\ NoTask \in Task /\ Seen(NoTask)'
    BY DEF Thread, NoTask, Task, Seen
  <1>1. ASSUME NEW m \in Method, CompileMethod(m) PROVE SeenInv'
    <2> DEFINE r == [pc |-> "import", meth |-> m, dump |-> TRUE, todo |-> Live[m],
                     token |-> None]
    <2>1. task' = [task EXCEPT ![Main] = r]
      BY <1>1 DEF CompileMethod, Start
    <2>2. r \in Task
      BY TokenAssumption DEF Task
    <2>3. loadedModule' = Target
      BY <1>1, TokenAssumption DEF CompileMethod, MapsInv, ModuleOf, Module
    <2>4. Seen(r)'
      BY <2>3 DEF Seen
    <2> HIDE DEF r
    <2>. QED
      BY <1>0, <2>1, <2>2, <2>4, SeenOne
  <1>2. ASSUME NEW t \in Thread, NEW m \in Method \cup Foreign, StrayCompile(t, m)
        PROVE  SeenInv'
    <2> DEFINE r == [pc |-> "import", meth |-> m, dump |-> FALSE, todo |-> Live[m],
                     token |-> None]
    <2>1. task' = [task EXCEPT ![t] = r]
      BY <1>2 DEF StrayCompile, Start
    <2>2. r \in Task
      BY TokenAssumption DEF Task
    <2>3. Seen(r)'
      BY DEF Seen
    <2> HIDE DEF r
    <2>. QED
      BY <2>1, <2>2, <2>3, SeenOne
  <1>3. ASSUME NEW t \in Thread, ResolveTokenHook(t) PROVE SeenInv'
    <2>1. PICK k \in task[t].todo :
            /\ tokensFromHandle' = IF loadedModule = ModuleOf(task[t].meth)
                                   THEN [tokensFromHandle EXCEPT ![HandleSeen(t, k)] = Real(t, k)]
                                   ELSE tokensFromHandle
            /\ task' = [task EXCEPT ![t] = [task[t] EXCEPT !.pc = "resolved", !.token = k]]
      BY <1>3 DEF ResolveTokenHook
    <2>2. k \in Token /\ task[t] \in Task
      BY TaskType DEF TypeOK
    <2>3. PICK r \in Task :
            /\ r = [task[t] EXCEPT !.pc = "resolved", !.token = k]
            /\ r.pc = "resolved" /\ r.token = k
            /\ r.meth = task[t].meth /\ r.dump = task[t].dump /\ r.todo = task[t].todo
      BY <2>2, TaskResolved
    <2>5. task[t].pc = "import" /\ Seen(task[t])
      BY <1>3 DEF ResolveTokenHook, SeenInv
    <2>6. ASSUME task[t].dump
          PROVE  tokensFromHandle'[GetHandle(Denotes(k))] # None
      <3>1. task[t].meth \in Method /\ loadedModule = ModuleOf(task[t].meth)
            /\ ModuleOf(task[t].meth) = Target
        BY <2>5, <2>6 DEF Seen, ModuleOf
      <3>2. HandleSeen(t, k) = GetHandle(Denotes(k)) /\ HandleSeen(t, k) \in Handle
        BY <2>2, <3>1, SeenDenotes, SeenType
      <3>3. Real(t, k) # None
        BY <2>2, SeenType, TokenAssumption
      <3>. QED
        BY <2>1, <3>1, <3>2, <3>3 DEF TypeOK
    <2>7. \A j \in Live[task[t].meth] : task[t].dump /\ j \notin task[t].todo =>
            ResolveToken(j)' # None
      <3>1. ASSUME task[t].dump PROVE Live[task[t].meth] \subseteq Token
        BY <2>5, <3>1, TokenAssumption DEF Seen
      <3>. QED
        BY <2>5, <3>1, MapsGrow DEF Seen
    <2>8. task[t].dump => loadedModule' = Target
      BY <2>5, MapsGrow DEF Seen
    <2>9. Seen(r)'
      BY <2>1, <2>3, <2>5, <2>6, <2>7, <2>8 DEF Seen, Denotes
    <2>. QED
      BY <2>1, <2>3, <2>9, SeenOne
  <1>4. ASSUME NEW t \in Thread, ResolutionFails(t) \/ EndRead(t) PROVE SeenInv'
    BY <1>0, <1>4, SeenOne DEF ResolutionFails, EndRead
  <1>5. ASSUME NEW t \in Thread, ImpResolveToken(t) PROVE SeenInv'
    <2>2. task[t] \in Task
      BY DEF TypeOK
    <2>4. task[t].pc = "resolved" /\ Seen(task[t])
      BY <1>5 DEF ImpResolveToken, SeenInv
    <2>5. PICK k \in Token : k = task[t].token
      BY <2>2, <2>4, TaskType DEF Seen
    <2>3. PICK rest \in SUBSET Token : rest = task[t].todo \ {k}
      BY <2>2, TaskType
    <2>1. task' = [task EXCEPT ![t] = [task[t] EXCEPT !.pc = "import", !.token = None,
                                                      !.todo = rest]]
      BY <1>5, <2>3, <2>5 DEF ImpResolveToken
    <2>6. ASSUME task[t].dump PROVE ResolveToken(k)' # None
      <3>1. task[t].meth \in Method /\ loadedModule = ModuleOf(task[t].meth)
            /\ ModuleOf(task[t].meth) = Target
        BY <2>4, <2>6 DEF Seen, ModuleOf
      <3>2. handlesFromToken'[k] = GetHandle(Denotes(k))
        BY <1>5, <2>5, <3>1, SeenDenotes DEF ImpResolveToken, TypeOK
      <3>3. tokensFromHandle'[GetHandle(Denotes(k))] # None
        BY <1>5, <2>4, <2>5, <2>6 DEF Seen, ImpResolveToken
      <3>. QED
        BY <3>2, <3>3 DEF ResolveToken
    <2>7. \A j \in Live[task[t].meth] : task[t].dump /\ j \notin task[t].todo =>
            ResolveToken(j)' # None
      <3>1. ASSUME task[t].dump PROVE Live[task[t].meth] \subseteq Token
        BY <2>4, <3>1, TokenAssumption DEF Seen
      <3>. QED
        BY <2>4, <3>1, MapsGrow DEF Seen
    <2>8. task[t].dump => loadedModule' = Target
      BY <2>4, MapsGrow DEF Seen
    <2>9. \A j : j \notin rest => j = k \/ j \notin task[t].todo
      BY <2>3
    <2>10. PICK r \in Task :
            /\ r = [task[t] EXCEPT !.pc = "import", !.token = None, !.todo = rest]
            /\ r.pc = "import" /\ r.todo = rest
            /\ r.meth = task[t].meth /\ r.dump = task[t].dump
      BY <2>2, TaskImported
    <2>11. Seen(r)'
      BY <2>4, <2>6, <2>7, <2>8, <2>9, <2>10 DEF Seen
    <2>. QED
      BY <2>1, <2>10, <2>11, SeenOne
  <1>6. ASSUME NEW t \in Thread, EndImport(t) PROVE SeenInv'
    <2>1. CASE ~task[t].dump
      BY <1>0, <1>6, <2>1, SeenOne DEF EndImport
    <2>2. CASE task[t].dump
      <3>2. /\ task[t] \in Task /\ Seen(task[t])
            /\ task[t].pc = "import" /\ task[t].todo = {}
        BY <1>6 DEF EndImport, SeenInv, TypeOK
      <3>3. Live[task[t].meth] \subseteq Token
        BY <2>2, <3>2, TokenAssumption DEF Seen
      <3>9. PICK s \in SUBSET Token : s = Code[task[t].meth]
        BY <2>2, <3>2, TokenAssumption DEF Seen
      <3>1. task' = [task EXCEPT ![t] = [task[t] EXCEPT !.pc = "read", !.todo = s]]
        BY <1>6, <2>2, <3>9 DEF EndImport
      <3>4. \A j \in Live[task[t].meth] : ResolveToken(j)' # None
        BY <2>2, <3>2, <3>3, MapsGrow DEF Seen
      <3>5. loadedModule' = Target
        BY <2>2, <3>2, MapsGrow DEF Seen
      <3>6. PICK r \in Task :
                /\ r = [task[t] EXCEPT !.pc = "read", !.todo = s]
                /\ r.pc = "read"
                /\ r.meth = task[t].meth /\ r.dump = task[t].dump
        BY <3>2, TaskRead
      <3>8. Seen(r)'
        BY <2>2, <3>2, <3>4, <3>5, <3>6 DEF Seen
      <3>. QED
        BY <3>1, <3>6, <3>8, SeenOne
    <2>. QED
      BY <2>1, <2>2
  <1>7. ASSUME NEW t \in Thread, ReadOperand(t) PROVE SeenInv'
    <2>1. PICK k \in task[t].todo :
            task' = [task EXCEPT ![t] = [task[t] EXCEPT !.todo = task[t].todo \ {k}]]
      BY <1>7 DEF ReadOperand
    <2>3. task[t] \in Task /\ Seen(task[t]) /\ task[t].pc = "read"
      BY <1>7 DEF ReadOperand, SeenInv, TypeOK
    <2>4. PICK rest \in SUBSET Token : rest = task[t].todo \ {k}
      BY <2>3, TaskType
    <2>6. PICK r \in Task :
            /\ r = [task[t] EXCEPT !.todo = rest]
            /\ r.pc = task[t].pc /\ r.meth = task[t].meth /\ r.dump = task[t].dump
      BY <2>3, TaskRest
    <2>7. task' = [task EXCEPT ![t] = r]
      BY <2>1, <2>4, <2>6
    <2>8. Live[task[t].meth] \subseteq Token /\ loadedModule' = Target
      BY <2>3, TokenAssumption, MapsGrow DEF Seen
    <2>9. \A j \in Live[task[t].meth] : ResolveToken(j)' # None
      BY <2>3, <2>8, MapsGrow DEF Seen
    <2>10. Seen(r)'
      BY <2>3, <2>6, <2>8, <2>9 DEF Seen
    <2>. QED
      BY <2>7, <2>10, SeenOne
  <1>8. CASE UNCHANGED vars
    <2>1. /\ UNCHANGED <<task, loadedModule, tokensFromHandle, handlesFromToken>>
      BY <1>8 DEF vars
    <2>. QED
      BY <2>1 DEF SeenInv, Seen, Denotes, ResolveToken
  <1>. QED
    BY <1>1, <1>2, <1>3, <1>4, <1>5, <1>6, <1>7, <1>8 DEF Next, Done

LEMMA InvInit == Init => TypeOK /\ MapsInv /\ SeenInv
  <1> SUFFICES ASSUME Init PROVE TypeOK /\ MapsInv /\ SeenInv
    OBVIOUS
  <1>1. TypeOK
    <2>1. NoTask \in Task
      BY DEF NoTask, Task
    <2>. QED
      BY <2>1, TokenAssumption DEF Init, TypeOK
  <1>2. MapsInv
    BY TokenAssumption DEF Init, MapsInv
  <1>3. SeenInv
    BY DEF Init, SeenInv, Seen, NoTask
  <1>. QED
    BY <1>1, <1>2, <1>3

----------------------------------------------------------------------------
\* The operands.

\* A token of the target that is in both maps is resolved to one that denotes
\* the same, if handles tell references apart.
LEMMA ResolveDenotes ==
    ASSUME HandlesTell, TypeOK, MapsInv, NEW k \in Token, ResolveToken(k) # None
    PROVE  ResolveToken(k) \in Token /\ Resolved[Target][ResolveToken(k)] = Denotes(k)
  <1>1. ResolveToken(k) \in Token
    BY ResolveType
  <1>2. handlesFromToken[k] \in Handle
    BY DEF TypeOK, MapsInv, ResolveToken
  <1>3. handlesFromToken[k] = GetHandle(Denotes(k))
    BY <1>2, TokenAssumption DEF MapsInv
  <1>4. GetHandle(Resolved[Target][ResolveToken(k)]) = GetHandle(Denotes(k))
    BY <1>2, <1>3 DEF MapsInv, ResolveToken
  <1>5. Decode[Target][k] \in Token
    BY TokenAssumption DEF Module
  <1>. QED
    BY <1>1, <1>4, <1>5 DEF HandlesTell, Denotes

LEMMA OperandStep ==
    ASSUME HandlesTell, TypeOK, MapsInv, SeenInv, OperandDenotesSame, [Next]_vars
    PROVE  OperandDenotesSame'
  <1>1. ASSUME NEW t \in Thread, ReadOperand(t) PROVE OperandDenotesSame'
    <2>1. PICK j \in task[t].todo :
            operand' = [operand EXCEPT ![task[t].meth][j] = ResolveMember(j)]
      BY <1>1 DEF ReadOperand
    <2>2. j \in Token /\ task[t].meth \in Method
      BY <1>1 DEF TypeOK, Task, ReadOperand, SeenInv, Seen
    <2>3. j \in Live[task[t].meth] => ResolveToken(j) # None
      BY <1>1 DEF ReadOperand, SeenInv, Seen
    <2>4. \/ ResolveMember(j) = j /\ j \notin Live[task[t].meth]
          \/ Resolved[Target][ResolveMember(j)] = Denotes(j)
      BY <2>2, <2>3, ResolveDenotes DEF ResolveMember
    <2>5. PICK m \in Method : m = task[t].meth
      BY <2>2
    <2>6. PICK v : v = ResolveMember(j)
      OBVIOUS
    <2>7. operand' = [operand EXCEPT ![m][j] = v]
      BY <2>1, <2>5, <2>6
    <2>8. ASSUME NEW n \in Method, NEW k \in Token
          PROVE  operand'[n][k] = IF n = m /\ k = j THEN v ELSE operand[n][k]
      BY <2>2, <2>7 DEF TypeOK
    <2>9. \/ v = j /\ j \notin Live[m]
          \/ Resolved[Target][v] = Denotes(j)
      BY <2>4, <2>5, <2>6
    <2>. QED
      BY <2>8, <2>9 DEF OperandDenotesSame, Denotes
  <1>2. CASE UNCHANGED operand
    BY <1>2 DEF OperandDenotesSame, Denotes
  <1>. QED
    BY <1>1, <1>2 DEF Next, Done, CompileMethod, StrayCompile, ResolveTokenHook,
       ResolutionFails, ImpResolveToken, EndImport, EndRead, vars

----------------------------------------------------------------------------
\* Whatever the order in which the threads' compilations go through
\* resolve_token_hook and imp_resolve_token, tokens_from_handle holds tokens
\* and handles_from_token handles, and an operand is only read for a method of
\* the target.
THEOREM TokenTypeCorrect == Spec => []TypeOK
  <1>1. TypeOK /\ MapsInv /\ SeenInv /\ [Next]_vars => (TypeOK /\ MapsInv /\ SeenInv)'
    BY TypeStep, MapsStep, SeenStep
  <1>. QED
    BY <1>1, InvInit, PTL DEF Spec

\* What is in the two maps is right: a handle is mapped to a real token of the
\* target that leads to it, a token of the code to the handle of what it
\* denotes, whatever the other module's tokens and handles are.
\* resolve_token_hook and imp_resolve_token both check the module.
THEOREM MapsRight == Spec => [](MapsInv /\ SeenInv)
  <1>1. TypeOK /\ MapsInv /\ SeenInv /\ [Next]_vars => (TypeOK /\ MapsInv /\ SeenInv)'
    BY TypeStep, MapsStep, SeenStep
  <1>. QED
    BY <1>1, InvInit, PTL DEF Spec

\* If the target's real tokens that lead to one handle denote the same, every
\* operand CilOperandResolver yields for an instruction the JIT has reached
\* denotes what the runtime made of it.
THEOREM OperandsRight == ASSUME HandlesTell PROVE Spec => []OperandDenotesSame
  <1>1. Init => OperandInv
    BY InvInit DEF OperandInv, Init, OperandDenotesSame
  <1>2. OperandInv /\ [Next]_vars => OperandInv'
    BY TypeStep, MapsStep, SeenStep, OperandStep DEF OperandInv
  <1>3. OperandInv => OperandDenotesSame
    BY DEF OperandInv
  <1>. QED
    BY <1>1, <1>2, <1>3, PTL DEF Spec
=============================================================================
