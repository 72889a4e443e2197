\* One thread and one method, which calls the same method of two
\* instantiations of a generic class.
SPECIFICATION Spec
CONSTANTS
    m1 = m1
    m2 = m2
    m3 = m3
    f1 = f1
    e1 = e1
    e2 = e2
    e3 = e3
    e4 = e4
    r1 = r1
    r2 = r2
    r3 = r3
    r4 = r4
    list = list
    other = other
    add = add
    count = count
    Method = {m1}
    Foreign = {f1}
    Token = {e1, e2, e3, e4, r1, r2, r3, r4}
    Handle = {list, other, add, count}
    Code <- MCSharedCode
    Live <- MCSharedCode
    Decode <- MCDecode
    Resolved <- MCShared
    Unloadable = {}
    Target = target
    Other = othermodule
    Main = main
    Worker = {}
    MaxStray = 0
    None = None
INVARIANTS
    OperandDenotesSame
