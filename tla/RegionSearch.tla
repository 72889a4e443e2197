---------------------------- MODULE RegionSearch ----------------------------
(***************************************************************************)
(* Where Detours puts a trampoline: the search for free memory within      *)
(* reach of a jump from the function (and, if the function begins with a   *)
(* jump, of what it jumps to), in up to six passes over the address space, *)
(* around the part of it that is left to system libraries.                 *)
(*                                                                         *)
(* Addresses keep their order and their distances, but distances of many   *)
(* bytes are scaled down: see the CONSTANTS.                               *)
(***************************************************************************)
EXTENDS Integers, Sequences, FiniteSetsExt

CONSTANTS
    GB,          \* 0x40000000
    Slack,       \* 0x80000: how much less than 2 GB "2 GB below" and "above" are
    RegionSize,  \* DETOUR_REGION_SIZE
    SystemLo,    \* s_pSystemRegionLowerBound
    SystemHi,    \* s_pSystemRegionUpperBound
    SystemStep,  \* 0x08000000
    UserTop,     \* [BOOLEAN -> Nat]: where VirtualQuery fails in the x64 and the x86 build
    Space,       \* [BOOLEAN -> Nat]: the size of an address space
    Null,
    Function     \* functions to detour: [x64, code, at, memory, failures]

ASSUME SearchAssumption ==
    /\ {GB, Slack, RegionSize, SystemLo, SystemHi, SystemStep} \subseteq Nat
    /\ GB > Slack /\ Slack > RegionSize /\ RegionSize > 0
    /\ \A a \in {GB, Slack, SystemLo, SystemHi, SystemStep} : a % RegionSize = 0
    /\ SystemLo >= SystemStep
    /\ Null \notin Int

\* Windows allocates whole regions, and neither in the first one of an address
\* space nor beyond what it lets a program query.
ASSUME MemoryAssumption ==
    /\ UserTop \in [BOOLEAN -> Nat] /\ Space \in [BOOLEAN -> Nat]
    /\ \A x64 \in BOOLEAN : UserTop[x64] % RegionSize = 0 /\ Space[x64] % RegionSize = 0
    /\ \A f \in Function :
        /\ f.x64 \in BOOLEAN /\ f.code \in Seq(Int) /\ f.failures \in Nat
        /\ RegionSize <= f.at /\ f.at < UserTop[f.x64] /\ f.at \in Nat
        /\ \A m \in f.memory : /\ m.base \in Nat /\ m.size \in Nat \ {0}
                              /\ m.base % RegionSize = 0 /\ m.base >= RegionSize

VARIABLES
    fn,        \* the function: the build, its first cells, its address, the allocations,
               \* and how often VirtualAlloc may fail
    pc,        \* "search", "found", "none", and what comes after
    pass,      \* index of the pass in Passes
    pbTry,
    pv,        \* the region, or Null
    refused    \* how often VirtualAlloc has failed

searchVars == <<fn, pc, pass, pbTry, pv, refused>>

----------------------------------------------------------------------------
RoundDown(a) == a - (a % RegionSize)
RoundUp(a) == RoundDown(a + RegionSize - 1)

\* Mutant: two gigabytes below are not cut off at the start of the address space.
Below2GBNegative(a) == a - (2 * GB - Slack)

\* detour_2gb_below.
Below2GB(a) == IF a > 2 * GB - Slack THEN a - (2 * GB - Slack) ELSE Slack

\* Mutant: two gigabytes above are taken exactly.
Above2GBExact(a) == a + 2 * GB

\* detour_2gb_above.
Above2GB(a) ==
    IF fn.x64 \/ a < 2 * GB THEN a + (2 * GB - Slack) ELSE Space[FALSE] - Slack

\* Code is read up to where int 3 fills the rest.
Cell(k) == IF k < Len(fn.code) THEN fn.code[k + 1] ELSE \hCC

\* Where a jump at the function's first byte leads: a jmp, or in the x64 build
\* the pointer of an indirect one.
FirstJump ==
    CASE Cell(0) = \hE9                               -> <<fn.at + 5 + Cell(1)>>
      [] fn.x64 /\ Cell(0) = \hFF /\ Cell(1) = \h25   -> <<fn.at + 6 + Cell(2)>>
      [] OTHER                                        -> <<>>

\* detour_find_jmp_bounds (x64).  The x86 build has no case for an indirect jump.
JumpBounds ==
    LET near == [lo |-> Below2GB(fn.at), hi |-> Above2GB(fn.at)]
        pbNew == FirstJump[1]
    IN  IF FirstJump = <<>> THEN near
        ELSE IF pbNew < fn.at THEN [near EXCEPT !.hi = Above2GB(pbNew)]
        ELSE [near EXCEPT !.lo = Below2GB(pbNew)]

FromHi(lo, hi) == [from |-> "hi", lo |-> lo, hi |-> hi]
FromLo(lo, hi) == [from |-> "lo", lo |-> lo, hi |-> hi]

\* Mutant: the third pass begins where the bounds are not looked at.
PassesTooLow ==
    LET t == RoundDown(fn.at)
        b == JumpBounds
    IN  (IF fn.x64 /\ t > 2 * GB THEN <<FromHi(b.lo, t - GB), FromLo(t - 2 * GB, t)>> ELSE <<>>)
        \o <<FromHi(b.lo, t), FromLo(t, b.hi)>>

\* detour_alloc_trampoline_allocate_new: the passes, of which a 32-bit build
\* makes the last two.
Passes ==
    LET t == RoundDown(fn.at)
        b == JumpBounds
        below == t > GB
    IN  (IF fn.x64 /\ below THEN <<FromHi(b.lo, t - GB)>> ELSE <<>>)
        \o (IF fn.x64 THEN <<FromLo(t + GB, b.hi)>> ELSE <<>>)
        \o (IF fn.x64 /\ below THEN <<FromLo(t - GB, t)>> ELSE <<>>)
        \o (IF fn.x64 THEN <<FromHi(t, t + GB)>> ELSE <<>>)
        \o <<FromHi(b.lo, t), FromLo(t, b.hi)>>

\* Where a pass begins.
FirstTry(p) == IF p.from = "hi" THEN RoundDown(p.hi - RegionSize) ELSE RoundUp(p.lo)

----------------------------------------------------------------------------
\* VirtualQuery: the allocation around an address, if there is one, and where
\* the next one begins.
Around(a) == {m \in fn.memory : m.base <= a /\ a < m.base + m.size}
NextBase(a) == Min({m.base : m \in {m \in fn.memory : m.base > a}} \cup {UserTop[fn.x64]})
Room(a) == Around(a) = {} /\ NextBase(a) - a >= RegionSize

Pass == Passes[pass]
Between == IF Pass.from = "hi" THEN pbTry > Pass.lo ELSE pbTry < Pass.hi
Searching == pc = "search" /\ Between
InSystem == SystemLo <= pbTry /\ pbTry <= SystemHi
Queried == ~InSystem /\ pbTry < UserTop[fn.x64]

\* The next pass, or the end of the search.
EndPass ==
    /\ pass' = pass + 1
    /\ IF pass < Len(Passes)
       THEN pc' = pc /\ pbTry' = FirstTry(Passes[pass + 1])
       ELSE pc' = "none" /\ pbTry' = Null

\* "Skip region reserved for system DLLs, but preserve address space entropy."
SkipSystem ==
    /\ Searching /\ InSystem
    /\ pbTry' = IF Pass.from = "hi" THEN pbTry - SystemStep ELSE pbTry + SystemStep
    /\ UNCHANGED <<fn, pc, pass, pv, refused>>

\* Mutant: the search goes on below the allocation, but a region is left out.
PassOverShort ==
    /\ Searching /\ Queried /\ ~Room(pbTry)
    /\ pbTry' = LET m == CHOOSE m \in Around(pbTry) : TRUE
                IN  IF Pass.from = "hi" THEN RoundDown(m.base - 2 * RegionSize) ELSE RoundUp(m.base + m.size)
    /\ UNCHANGED <<fn, pc, pass, pv, refused>>

\* Mutant: the search goes on below the allocation, but not by a region.
PassOverSame ==
    /\ Searching /\ Queried /\ ~Room(pbTry)
    /\ pbTry' = LET m == CHOOSE m \in Around(pbTry) : TRUE
                IN  IF Pass.from = "hi" THEN RoundDown(m.base) ELSE RoundUp(m.base + m.size)
    /\ UNCHANGED <<fn, pc, pass, pv, refused>>

\* An allocation is in the way.  Allocations begin at multiples of RegionSize,
\* so that a free address has room for a region.
PassOver ==
    /\ Searching /\ Queried /\ ~Room(pbTry)
    /\ pbTry' = LET m == CHOOSE m \in Around(pbTry) : TRUE
                IN  IF Pass.from = "hi" THEN RoundDown(m.base - RegionSize) ELSE RoundUp(m.base + m.size)
    /\ UNCHANGED <<fn, pc, pass, pv, refused>>

\* VirtualAlloc gives the region.
Allocate ==
    /\ Searching /\ Queried /\ Room(pbTry)
    /\ pv' = pbTry
    /\ pc' = "found"
    /\ UNCHANGED <<fn, pass, pbTry, refused>>

\* VirtualAlloc fails: the next region is tried.
Refuse ==
    /\ Searching /\ Queried /\ Room(pbTry)
    /\ refused < fn.failures
    /\ refused' = refused + 1
    /\ pbTry' = IF Pass.from = "hi" THEN pbTry - RegionSize ELSE pbTry + RegionSize
    /\ UNCHANGED <<fn, pc, pass, pv>>

\* It fails with ERROR_DYNAMIC_CODE_BLOCKED, which ends this pass but not the
\* ones after it.
Block ==
    /\ Searching /\ Queried /\ Room(pbTry)
    /\ refused < fn.failures
    /\ refused' = refused + 1
    /\ EndPass
    /\ UNCHANGED <<fn, pv>>

\* The pass is over, or has come to where nothing can be queried.
Exhaust ==
    /\ pc = "search"
    /\ ~Between \/ (~InSystem /\ ~Queried)
    /\ EndPass
    /\ UNCHANGED <<fn, pv, refused>>

SearchInit ==
    /\ fn \in Function
    /\ pc = "search"
    /\ pass = 1
    /\ pbTry = FirstTry(Passes[1])
    /\ pv = Null
    /\ refused = 0

Search == SkipSystem \/ PassOver \/ Allocate \/ Refuse \/ Block \/ Exhaust

----------------------------------------------------------------------------
\* A region is found where nothing is, out of the way of system libraries, and
\* where a jump reaches all of it from the function and back.  (Where it
\* begins with a jump to a far place, the third and the fourth pass look beyond
\* the bounds; that a region found there is not used is CodeCopy's matter.)
FoundUsable ==
    pv # Null =>
        /\ pv % RegionSize = 0
        /\ pv + RegionSize <= UserTop[fn.x64]
        /\ ~(SystemLo <= pv /\ pv <= SystemHi)
        /\ \A m \in fn.memory : m.base + m.size <= pv \/ pv + RegionSize <= m.base
        /\ fn.x64 => fn.at - pv < 2 * GB /\ pv + RegionSize - fn.at < 2 * GB

\* Regions that fit between two addresses, past what is allocated.
Fits(lo, hi) ==
    \E a \in {RoundUp(lo)} \cup {RoundUp(m.base + m.size) : m \in fn.memory} :
        lo <= a /\ a < hi /\ a < UserTop[fn.x64] /\ Room(a)

\* A search that was not refused memory and has found none misses no region
\* within the bounds but those less than a step from the system region.
MissesOnlySystem ==
    pc = "none" /\ pv = Null /\ refused = 0 =>
        /\ ~Fits(JumpBounds.lo + 1, Min({JumpBounds.hi, SystemLo - SystemStep + 1}))
        /\ ~Fits(Max({JumpBounds.lo + 1, SystemHi + SystemStep}), JumpBounds.hi)
=============================================================================
