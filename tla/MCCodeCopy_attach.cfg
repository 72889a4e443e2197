\* Every instruction of the tables, and functions in crowded address spaces.
SPECIFICATION Spec
CONSTANTS
    GB <- MCGB
    Slack <- MCSlack
    RegionSize <- MCRegionSize
    SystemLo <- MCSystemLo
    SystemHi <- MCSystemHi
    SystemStep <- MCSystemStep
    UserTop <- MCUserTop
    Space <- MCSpace
    Null = Null
    Function <- MCFunction
INVARIANTS
    TypeOK
    LengthRight
    CopyMeansSame
    CopyFits
    TargetReported
    FoundUsable
    MissesOnlySystem
    UnreachableOnlyAtEdges
PROPERTIES
    Terminates
