\* The target runs: its methods are compiled by its own thread, and on the
\* main thread within other compilations.
SPECIFICATION Spec
CONSTANTS
    m1 = m1
    m2 = m2
    m3 = m3
    m4 = m4
    m5 = m5
    f1 = f1
    unboxing = unboxing
    instantiating = instantiating
    Method = {m1, m2, m3}
    Foreign = {f1}
    Useless = useless
    Stub = {unboxing, instantiating}
    InstantiatingStub = {instantiating}
    Unresolvable = {m3}
    Unjittable = {}
    Worker = {worker}
    Main = main
    Version = {5}
    Stray = {m1, m2, f1}
    MaxStray = 2
    MaxDepth = 2
    None = None
    Wrapped <- MCWrapped
    MethodHandle <- MCMethodHandle
    NumLocals <- MCNumLocals
    JitSize <- MCJitSize
    DiskSize <- MCDiskSize
INVARIANTS
    CodeNeverNull
    CallbackHasReader
    ForeignCodeIntact
PROPERTIES
    FakeCodeIsUseless
    Terminates
