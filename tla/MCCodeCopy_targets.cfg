\* Functions with one of the branches there is no longer form of.
SPECIFICATION Spec
CONSTANTS
    GB <- MCGB
    Slack <- MCSlack
    RegionSize <- MCRegionSize
    SystemLo <- MCSystemLo
    SystemHi <- MCSystemHi
    SystemStep <- MCSystemStep
    UserTop <- MCUserTop
    Space <- MCSpace
    Null = Null
    Function <- Looping
INVARIANT
    CopyMeansSame
