\* compile_method alone compiles the target's methods: the runtime and the
\* target's thread compile methods of other modules meanwhile.
SPECIFICATION Spec
CONSTANTS
    m1 = m1
    m2 = m2
    m3 = m3
    m4 = m4
    m5 = m5
    f1 = f1
    unboxing = unboxing
    instantiating = instantiating
    Method = {m1, m2, m3, m4, m5}
    Foreign = {f1}
    Useless = useless
    Stub = {unboxing, instantiating}
    InstantiatingStub = {instantiating}
    Unresolvable = {}
    Unjittable = {m4}
    Worker = {worker}
    Main = main
    Version = {4, 5, 6}
    Stray = {f1}
    MaxStray = 2
    MaxDepth = 2
    None = None
    Wrapped <- MCWrapped
    MethodHandle <- MCMethodHandle
    NumLocals <- MCNumLocals
    JitSize <- MCJitSize
    DiskSize <- MCDiskSize
INVARIANTS
    TypeOK
    CodeNeverNull
    ForeignCodeIntact
    OwnBody
    LocalsExact
    CompleteWhenSaved
PROPERTIES
    FakeCodeIsUseless
    ImplementsDumpRun
    Terminates
