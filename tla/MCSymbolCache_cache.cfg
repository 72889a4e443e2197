\* Runs one after the other or two at a time, killed or cut off at any point, of
\* each runtime.
SPECIFICATION Spec
CONSTANTS
    Dumper = {d1, d2}
    Runtime = {"Framework 4.8", "Core 2", "Core 3", "5"}
    Version <- MCVersion
    HasClr = {"Framework 4.8"}
    Blocks = 3
    FirstWrite = 1
INVARIANT
    TypeOK
PROPERTIES
    AcceptsWhole
    WholeKept
    CacheRecovers
