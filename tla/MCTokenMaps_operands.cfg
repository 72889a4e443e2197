\* A protected module, a thread of the target and a module that shares
\* tokens and handles with it.
SPECIFICATION Spec
CONSTANTS
    m1 = m1
    m2 = m2
    m3 = m3
    f1 = f1
    e1 = e1
    e2 = e2
    e3 = e3
    e4 = e4
    r1 = r1
    r2 = r2
    r3 = r3
    r4 = r4
    list = list
    other = other
    add = add
    count = count
    Method = {m1, m2, m3}
    Foreign = {f1}
    Token = {e1, e2, e3, e4, r1, r2, r3, r4}
    Handle = {list, other, add, count}
    Code <- MCCode
    Live <- MCLive
    Decode <- MCDecode
    Resolved <- MCResolved
    Unloadable = {r4}
    Target = target
    Other = othermodule
    Main = main
    Worker = {worker}
    MaxStray = 2
    None = None
INVARIANTS
    TypeOK
    OperandDenotesSame
