\* A download may be cut off before the first block of the file is written.
SPECIFICATION Spec
CONSTANTS
    Dumper = {d1}
    Runtime = {"Framework 4.8", "Core 2", "Core 3", "5"}
    Version <- MCVersion
    HasClr = {"Framework 4.8"}
    Blocks = 3
    FirstWrite = 0
PROPERTY
    CacheRecovers
