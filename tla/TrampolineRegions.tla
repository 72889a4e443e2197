------------------------- MODULE TrampolineRegions -------------------------
(***************************************************************************)
(* The memory Detours takes its trampolines from: regions of 64 KB within  *)
(* reach of a jump, each an array of trampolines whose free ones are       *)
(* linked through pbRemain.  Detours tells a trampoline in use from a free *)
(* one by where pbRemain points: into the region, or out of it.            *)
(*                                                                         *)
(* An allocator's state is one record, so that an operation is a function  *)
(* from heaps to heaps (or to the set of its possible results).            *)
(***************************************************************************)
EXTENDS Integers, Sequences

CONSTANTS
    Region,    \* addresses where a region can be
    Last,      \* index of a region's last trampoline: DETOUR_TRAMPOLINES_PER_REGION - 1
    Function,  \* code that can be detoured
    Detour,    \* code it is detoured to
    Around,    \* [Function -> SUBSET Region]: where the search for memory may find some
    Reach,     \* [Function -> SUBSET Slot]: trampolines between pLo and pHi
    Null,
    Break      \* a pointer read from memory filled with 0xcc

\* Trampolines by region and index in pTrampoline[].
Slot == Region \X (0..Last)

ASSUME RegionAssumption ==
    /\ Last \in Nat
    /\ Around \in [Function -> SUBSET Region]
    /\ Reach \in [Function -> SUBSET Slot]
    /\ Null \notin Region \cup Slot \cup Function \cup Detour
    /\ Break \notin Slot \cup Function \cup Detour \cup {Null}
    /\ Function \cap Slot = {}

\* What an allocator has to know of a _DETOUR_TRAMPOLINE: pbRemain (here the
\* function it leads back into), pbDetour, and what rbRestore was copied from.
Trampoline == [remain  : Slot \cup Function \cup {Null, Break},
               detour  : Detour \cup {Null, Break},
               restore : Slot \cup {Null, Break}]
Filled(x) == [remain |-> x, detour |-> x, restore |-> x]

Heap == [regions  : Seq(Region),               \* s_pRegions, first to last
         default  : Region \cup {Null},        \* s_pRegion
         free     : [Region -> Slot \cup {Null}],   \* pFree of each region
         tramp    : [Slot -> Trampoline],
         writable : SUBSET Region]             \* PAGE_EXECUTE_READWRITE

Regions(h) == {h.regions[i] : i \in DOMAIN h.regions}

EmptyHeap == [regions |-> <<>>, default |-> Null, free |-> [r \in Region |-> Null],
              tramp |-> [s \in Slot |-> Filled(Null)], writable |-> {}]

----------------------------------------------------------------------------
\* detour_writable_trampoline_regions: VirtualProtect may fail at any region,
\* which leaves those after it as they are.
MakeWritable(h, n) == [h EXCEPT !.writable = @ \cup {h.regions[i] : i \in 1..n}]

\* detour_runnable_trampoline_regions.
MakeRunnable(h) == [h EXCEPT !.writable = @ \ Regions(h)]

\* The region's first free trampoline can be jumped to from f.
Usable(h, r, f) == h.free[r] # Null /\ h.free[r] \in Reach[f]

\* Mutant: the trampoline is filled before its pbRemain is read.
PopFilled(h, r) ==
    [h EXCEPT !.default = r,
              !.free[r] = Break,
              !.tramp[h.free[r]] = Filled(Break)]

\* found_region: the head of the free list, filled with 0xcc.
Pop(h, r) ==
    [h EXCEPT !.default = r,
              !.free[r] = h.tramp[h.free[r]].remain,
              !.tramp[h.free[r]] = Filled(Break)]

\* "Insure that there is a default region."
Default(h) == IF h.default = Null /\ h.regions # <<>> THEN Head(h.regions) ELSE h.default

\* The first region of the list with a free trampoline in reach, or Null.
FirstUsable(h, f) ==
    LET ok == {i \in DOMAIN h.regions : Usable(h, h.regions[i], f)}
    IN  IF ok = {} THEN Null
        ELSE h.regions[CHOOSE i \in ok : \A j \in ok : i <= j]

\* A new region at the head of the list.  The loop that links the trampolines
\* ends before index 1: neither 0 nor 1 is ever on the list.
NewRegion(h, r) ==
    [h EXCEPT !.regions  = <<r>> \o @,
              !.default  = r,
              !.writable = @ \cup {r},
              !.free[r]  = IF Last > 1 THEN <<r, 2>> ELSE Null,
              !.tramp    = [s \in Slot |->
                  IF s[1] # r THEN @[s]
                  ELSE IF s[2] > 1 /\ s[2] < Last THEN [Filled(Null) EXCEPT !.remain = <<r, s[2] + 1>>]
                  ELSE Filled(Null)]]

\* detour_alloc_trampoline: the heaps and trampolines (or Null) that may come
\* out.  Memory for a new region may be refused; a new region's trampolines
\* may turn out to be out of reach, in which case the region stays.
AllocTrampoline(h, f) ==
    LET d == Default(h)
        u == FirstUsable(h, f)
        none == [h EXCEPT !.default = Null]
    IN  IF d # Null /\ Usable(h, d, f) THEN {<<Pop(h, d), h.free[d]>>}
        ELSE IF u # Null THEN {<<Pop(h, u), h.free[u]>>}
        ELSE {<<none, Null>>} \cup
             {LET n == NewRegion(none, r)
              IN  IF Usable(n, r, f) THEN <<Pop(n, r), n.free[r]>> ELSE <<n, Null>>
                  : r \in Around[f] \ Regions(h)}

\* Mutant: the rest of the free list is lost.
FreeTrampolineAlone(h, s) ==
    [h EXCEPT !.tramp[s]   = Filled(Null),
              !.free[s[1]] = s]

\* detour_free_trampoline.
FreeTrampoline(h, s) ==
    [h EXCEPT !.tramp[s]   = [Filled(Null) EXCEPT !.remain = h.free[s[1]]],
              !.free[s[1]] = s]

\* Mutant: the last trampoline is not looked at.
IsRegionEmptyButLast(h, r) ==
    \A i \in 0..(Last - 1) : h.tramp[<<r, i>>].remain \in {Null} \cup ({r} \X (0..Last))

\* detour_is_region_empty: pbRemain of every trampoline is null or leads into
\* the region.
IsRegionEmpty(h, r) ==
    \A i \in 0..Last : h.tramp[<<r, i>>].remain \in {Null} \cup ({r} \X (0..Last))

\* What is left of the first n regions of the list when the empty ones are taken out.
Kept(h) ==
    LET keep[n \in 0..Len(h.regions)] ==
            IF n = 0 THEN <<>>
            ELSE IF IsRegionEmpty(h, h.regions[n]) THEN keep[n - 1]
            ELSE Append(keep[n - 1], h.regions[n])
    IN  keep

\* detour_free_unused_trampoline_regions.
FreeUnusedRegions(h) ==
    LET used(r) == ~IsRegionEmpty(h, r)
    IN  [h EXCEPT !.regions  = Kept(h)[Len(@)],
                  !.default  = IF \E r \in Regions(h) : ~used(r) THEN Null ELSE @,
                  !.free     = [r \in Region |-> IF used(r) THEN @[r] ELSE Null],
                  !.tramp    = [s \in Slot |-> IF used(s[1]) THEN @[s] ELSE Filled(Null)],
                  !.writable = {r \in @ : used(r)}]

----------------------------------------------------------------------------
\* The trampolines on a region's free list, in its order, and Null from its end on.
FreeList(h, r) ==
    LET walk[n \in 0..(Last + 1)] ==
            IF n = 0 THEN h.free[r]
            ELSE IF walk[n - 1] \in Slot THEN h.tramp[walk[n - 1]].remain
            ELSE Null
    IN  walk
OnFreeList(h, r) == {FreeList(h, r)[n] : n \in 0..(Last + 1)} \cap Slot
=============================================================================
