CONSTANTS
    Null = Null
    Break = Break
    r1 = r1
    r2 = r2
    f1 = f1
    f2 = f2
    f3 = f3
    f4 = f4
    jump1 = jump1
    p1 = p1
    p2 = p2
    p3 = p3
    p4 = p4
    p5 = p5
    d1 = d1
    d2 = d2
    d3 = d3
    Region <- MCRegion
    Last = 3
    Function <- MCFunction
    Detour <- MCDetour
    Around <- MCAround
    Reach <- MCReach
    Client = {manager}
    Thread = {t1}
    Pointer <- MCPointer
    DetourOf <- MCDetourOf
    Start <- MCStart
    Address <- MCAddress
    Leads <- MCLeads
    Page = {1, 2}
    PageOf <- MCPageOf
    Instructions <- MCInstructions
    Padding <- MCPadding
    MaxTransactions = 3
SPECIFICATION Spec
INVARIANTS
    TypeOK
    CallsWell
    TrampolinesDistinct
    TrampolinesAccounted
    PagesProtected
    NoneLeftSuspended
PROPERTIES
    NeverFaults
    KeepsPlace
    ThreadsResume
    ImplementsHookSet
