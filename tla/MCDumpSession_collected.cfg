\* One thread and no compilation but the dumper's: the garbage collector takes
\* the delegate the hook library calls back through.
SPECIFICATION Spec
CONSTANTS
    m1 = m1
    m2 = m2
    m3 = m3
    m4 = m4
    m5 = m5
    f1 = f1
    unboxing = unboxing
    instantiating = instantiating
    Method = {m1, m2, m3}
    Foreign = {f1}
    Useless = useless
    Stub = {unboxing, instantiating}
    InstantiatingStub = {instantiating}
    Unresolvable = {}
    Unjittable = {}
    Worker = {}
    Main = main
    Version = {5}
    Stray = {}
    MaxStray = 0
    MaxDepth = 1
    None = None
    Wrapped <- MCWrapped
    MethodHandle <- MCMethodHandle
    NumLocals <- MCNumLocals
    JitSize <- MCJitSize
    DiskSize <- MCDiskSize
INVARIANT
    HookedRunSurvives
