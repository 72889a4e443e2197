\* A thread of the target calls a method for the first time while the dumper
\* compiles it: the two compilations share the reader of the main thread.
SPECIFICATION Spec
CONSTANTS
    m1 = m1
    m2 = m2
    m3 = m3
    m4 = m4
    m5 = m5
    f1 = f1
    unboxing = unboxing
    instantiating = instantiating
    Method = {m1, m2, m3}
    Foreign = {f1}
    Useless = useless
    Stub = {unboxing, instantiating}
    InstantiatingStub = {instantiating}
    Unresolvable = {}
    Unjittable = {}
    Worker = {worker}
    Main = main
    Version = {5}
    Stray = {m2}
    MaxStray = 1
    MaxDepth = 1
    None = None
    Wrapped <- MCWrapped
    MethodHandle <- MCMethodHandle
    NumLocals <- MCNumLocals
    JitSize <- MCJitSize
    DiskSize <- MCDiskSize
INVARIANT
    OwnBody
