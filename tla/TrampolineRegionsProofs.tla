---------------------- MODULE TrampolineRegionsProofs ----------------------
(***************************************************************************)
(* Lemmas about the trampoline allocator, for any number of regions of any *)
(* size: what an operation on a heap leaves of it.                         *)
(***************************************************************************)
EXTENDS TrampolineRegions, NatSetInduction

\* A trampoline in use is one that leads back into a function.
Busy(h, s) == h.tramp[s].remain \in Function

DefaultListed(h) == h.default \in Regions(h) \cup {Null}

\* The head of a free list is a trampoline of the region that is not in use.
HeadsIdle(h) ==
    \A r \in Region : h.free[r] # Null =>
        r \in Regions(h) /\ h.free[r][1] = r /\ ~Busy(h, h.free[r])

\* A trampoline in use is in a region; any other leads to nothing, or to one
\* of its region that is not in use and not the head of the list.
LinksIdle(h) ==
    \A s \in Slot :
        /\ h.tramp[s].remain # Break
        /\ Busy(h, s) => s[1] \in Regions(h)
        /\ h.tramp[s].remain \in Slot =>
              /\ h.tramp[s].remain[1] = s[1]
              /\ ~Busy(h, h.tramp[s].remain)
              /\ h.tramp[s].remain # h.free[s[1]]

\* No two lead to the same.
LinksDistinct(h) ==
    \A s, t \in Slot : h.tramp[s].remain \in Slot /\ h.tramp[s].remain = h.tramp[t].remain
                       => s = t

HeapInv(h) ==
    h \in Heap /\ DefaultListed(h) /\ HeadsIdle(h) /\ LinksIdle(h) /\ LinksDistinct(h)

\* The trampolines in use in h are left as they are in g, and there are no others.
SameUse(g, h) ==
    /\ \A s \in Slot : Busy(h, s) => g.tramp[s] = h.tramp[s]
    /\ \A s \in Slot : Busy(g, s) => Busy(h, s)

----------------------------------------------------------------------------
LEMMA SlotParts ==
    /\ \A s \in Slot : s[1] \in Region /\ s[2] \in 0..Last /\ s = <<s[1], s[2]>>
    /\ \A r \in Region, i \in 0..Last : <<r, i>> \in Slot
    /\ Null \notin Slot \cup Function /\ Break \notin Slot \cup Function /\ Break # Null
    /\ Function \cap Slot = {}
  BY RegionAssumption DEF Slot

LEMMA RegionsType == ASSUME NEW h \in Heap PROVE Regions(h) \subseteq Region
  BY DEF Heap, Regions

LEMMA FilledType == ASSUME NEW x \in {Null, Break} PROVE Filled(x) \in Trampoline
  BY DEF Filled, Trampoline

\* The first heap.
LEMMA EmptyHeapInv == HeapInv(EmptyHeap) /\ Regions(EmptyHeap) = {}
  <1>1. EmptyHeap \in Heap
    BY FilledType DEF EmptyHeap, Heap
  <1>2. Regions(EmptyHeap) = {}
    BY DEF Regions, EmptyHeap
  <1>3. DefaultListed(EmptyHeap) /\ HeadsIdle(EmptyHeap)
    BY DEF EmptyHeap, DefaultListed, HeadsIdle
  <1>4. \A s \in Slot : EmptyHeap.tramp[s].remain = Null
    BY DEF EmptyHeap, Filled
  <1>5. LinksIdle(EmptyHeap) /\ LinksDistinct(EmptyHeap)
    BY <1>4, SlotParts DEF LinksIdle, LinksDistinct, Busy
  <1>. QED
    BY <1>1, <1>2, <1>3, <1>5 DEF HeapInv

\* Protecting regions changes nothing else.
LEMMA WritableInv ==
    ASSUME NEW h, HeapInv(h), NEW w \in SUBSET Region
    PROVE  LET g == [h EXCEPT !.writable = w]
           IN  HeapInv(g) /\ Regions(g) = Regions(h) /\ SameUse(g, h) /\ g.tramp = h.tramp
  <1> DEFINE g == [h EXCEPT !.writable = w]
  <1>1. g \in Heap
    BY DEF HeapInv, Heap
  <1>2. g.regions = h.regions /\ g.default = h.default /\ g.free = h.free /\ g.tramp = h.tramp
    BY DEF HeapInv, Heap
  <1> HIDE DEF g
  <1>3. Regions(g) = Regions(h)
    BY <1>2 DEF Regions
  <1>4. HeapInv(g)
    BY <1>1, <1>2, <1>3 DEF HeapInv, DefaultListed, HeadsIdle, LinksIdle, LinksDistinct, Busy
  <1>5. SameUse(g, h)
    BY <1>2 DEF SameUse, Busy
  <1>. QED
    BY <1>2, <1>3, <1>4, <1>5 DEF g

LEMMA MakeWritableInv ==
    ASSUME NEW h, HeapInv(h), NEW n \in 0..Len(h.regions)
    PROVE  LET g == MakeWritable(h, n)
           IN  /\ HeapInv(g) /\ Regions(g) = Regions(h) /\ SameUse(g, h) /\ g.tramp = h.tramp
               /\ n = Len(h.regions) => Regions(g) \subseteq g.writable
  <1> DEFINE w == h.writable \cup {h.regions[i] : i \in 1..n}
  <1>1. w \in SUBSET Region
    BY DEF HeapInv, Heap
  <1>2. MakeWritable(h, n) = [h EXCEPT !.writable = w] /\ [h EXCEPT !.writable = w].writable = w
    BY DEF MakeWritable, HeapInv, Heap
  <1>3. n = Len(h.regions) => Regions(h) \subseteq w
    BY DEF Regions, HeapInv, Heap
  <1> HIDE DEF w
  <1>. QED
    BY <1>1, <1>2, <1>3, WritableInv

LEMMA MakeRunnableInv ==
    ASSUME NEW h, HeapInv(h)
    PROVE  LET g == MakeRunnable(h)
           IN  HeapInv(g) /\ Regions(g) = Regions(h) /\ SameUse(g, h) /\ g.tramp = h.tramp
  <1>1. h.writable \ Regions(h) \in SUBSET Region
    BY DEF HeapInv, Heap
  <1>2. MakeRunnable(h) = [h EXCEPT !.writable = h.writable \ Regions(h)]
    BY DEF MakeRunnable, HeapInv, Heap
  <1>. QED
    BY <1>1, <1>2, WritableInv

\* Forgetting or changing the default region changes nothing else.
LEMMA DefaultInv ==
    ASSUME NEW h, HeapInv(h), NEW d \in Regions(h) \cup {Null}
    PROVE  LET g == [h EXCEPT !.default = d]
           IN  HeapInv(g) /\ Regions(g) = Regions(h) /\ SameUse(g, h) /\ g.tramp = h.tramp
               /\ g.writable = h.writable /\ g.free = h.free /\ g.regions = h.regions
  <1> DEFINE g == [h EXCEPT !.default = d]
  <1>1. g \in Heap
    BY RegionsType DEF HeapInv, Heap
  <1>2. /\ g.regions = h.regions /\ g.default = d /\ g.free = h.free /\ g.tramp = h.tramp
        /\ g.writable = h.writable
    BY DEF HeapInv, Heap
  <1> HIDE DEF g
  <1>3. Regions(g) = Regions(h)
    BY <1>2 DEF Regions
  <1>4. HeapInv(g)
    BY <1>1, <1>2, <1>3 DEF HeapInv, DefaultListed, HeadsIdle, LinksIdle, LinksDistinct, Busy
  <1>5. SameUse(g, h)
    BY <1>2 DEF SameUse, Busy
  <1>. QED
    BY <1>2, <1>3, <1>4, <1>5 DEF g

----------------------------------------------------------------------------
(* Taking a trampoline and giving it back.                                 *)

LEMMA HeadType ==
    ASSUME NEW h, HeapInv(h), NEW r \in Regions(h), h.free[r] # Null
    PROVE  h.free[r] \in Slot /\ h.free[r][1] = r /\ ~Busy(h, h.free[r]) /\ r \in Region
  BY RegionsType DEF HeapInv, HeadsIdle, Heap

\* found_region's record.
LEMMA PopParts ==
    ASSUME NEW h, HeapInv(h), NEW r \in Regions(h), h.free[r] # Null
    PROVE  LET p == Pop(h, r)
               s == h.free[r]
           IN  /\ p \in Heap
               /\ p.regions = h.regions /\ p.default = r /\ p.writable = h.writable
               /\ p.free = [h.free EXCEPT ![r] = h.tramp[s].remain]
               /\ p.tramp = [h.tramp EXCEPT ![s] = Filled(Break)]
  <1> DEFINE s == h.free[r]
             fr == [h.free EXCEPT ![r] = h.tramp[s].remain]
             tr == [h.tramp EXCEPT ![s] = Filled(Break)]
  <1>1. s \in Slot /\ r \in Region /\ h \in Heap
    BY HeadType DEF HeapInv
  <1>2. h.tramp[s].remain \in Slot \cup {Null}
    <2>1. h.tramp[s].remain \in Slot \cup Function \cup {Null, Break}
      BY <1>1 DEF Heap, Trampoline
    <2>. QED
      BY <1>1, <2>1, HeadType DEF HeapInv, LinksIdle, Busy
  <1>3. fr \in [Region -> Slot \cup {Null}]
    BY <1>1, <1>2 DEF Heap
  <1>4. tr \in [Slot -> Trampoline]
    BY <1>1, FilledType DEF Heap
  <1>5. Pop(h, r) = [h EXCEPT !.default = r, !.free = fr, !.tramp = tr]
    BY <1>1 DEF Pop, Heap
  <1> HIDE DEF fr, tr
  <1>6. [h EXCEPT !.default = r, !.free = fr, !.tramp = tr] \in Heap
    BY <1>1, <1>3, <1>4 DEF Heap
  <1>7. LET p == [h EXCEPT !.default = r, !.free = fr, !.tramp = tr]
        IN  /\ p.regions = h.regions /\ p.default = r /\ p.writable = h.writable
            /\ p.free = fr /\ p.tramp = tr
    BY <1>1 DEF Heap
  <1>. QED
    BY <1>5, <1>6, <1>7 DEF fr, tr

\* g is h without the first free trampoline of region r, which is filled with x.
Taken(g, h, r, x) ==
    /\ g \in Heap
    /\ g.regions = h.regions /\ g.default = r /\ g.writable = h.writable
    /\ g.free = [h.free EXCEPT ![r] = h.tramp[h.free[r]].remain]
    /\ g.tramp = [h.tramp EXCEPT ![h.free[r]] = x]

LEMMA PopTaken ==
    ASSUME NEW h, HeapInv(h), NEW r \in Regions(h), h.free[r] # Null
    PROVE  Taken(Pop(h, r), h, r, Filled(Break))
  BY PopParts DEF Taken

LEMMA FillTaken ==
    ASSUME NEW h, HeapInv(h), NEW r \in Regions(h), h.free[r] # Null,
           NEW p, NEW y, Taken(p, h, r, y), NEW x \in Trampoline,
           NEW g, g = [p EXCEPT !.tramp = [p.tramp EXCEPT ![h.free[r]] = x]]
    PROVE  Taken(g, h, r, x)
  <1> DEFINE s == h.free[r]
             tr == [h.tramp EXCEPT ![s] = x]
  <1>1. s \in Slot /\ h \in Heap
    BY HeadType DEF HeapInv
  <1>2. [p.tramp EXCEPT ![s] = x] = tr /\ tr \in [Slot -> Trampoline]
    BY <1>1 DEF Heap, Taken
  <1> HIDE DEF tr
  <1>3. g = [p EXCEPT !.tramp = tr]
    BY <1>2
  <1>4. /\ g \in Heap /\ g.tramp = tr
        /\ g.regions = p.regions /\ g.default = p.default /\ g.writable = p.writable
        /\ g.free = p.free
    BY <1>2, <1>3 DEF Heap, Taken
  <1>. QED
    BY <1>4 DEF Taken, tr

\* A trampoline that is taken and filled for a function is in use; the free
\* list goes on behind it.
LEMMA TakeInv ==
    ASSUME NEW h, HeapInv(h), NEW r \in Regions(h), h.free[r] # Null,
           NEW x \in Trampoline, x.remain \in Function, NEW g, Taken(g, h, r, x)
    PROVE  HeapInv(g) /\ Regions(g) = Regions(h)
  <1> DEFINE s == h.free[r]
             tr == [h.tramp EXCEPT ![s] = x]
  <1>1. s \in Slot /\ s[1] = r /\ ~Busy(h, s) /\ r \in Region /\ h \in Heap
    BY HeadType DEF HeapInv
  <1>4. /\ g \in Heap
        /\ g.regions = h.regions /\ g.default = r /\ g.writable = h.writable
        /\ g.free = [h.free EXCEPT ![r] = h.tramp[s].remain]
        /\ g.tramp = tr
    BY DEF Taken
  <1>5. Regions(g) = Regions(h)
    BY <1>4 DEF Regions
  <1>6. DefaultListed(g)
    BY <1>4, <1>5 DEF DefaultListed
  <1>7. \A t \in Slot : /\ t # s => g.tramp[t] = h.tramp[t]
                        /\ g.tramp[s] = x
    BY <1>1, <1>4 DEF Heap
  <1>8. \A q \in Region : g.free[q] = IF q = r THEN h.tramp[s].remain ELSE h.free[q]
    BY <1>1, <1>4 DEF Heap
  <1>9. h.tramp[s].remain # s
    BY <1>1, SlotParts DEF HeapInv, LinksIdle
  <1>10. HeadsIdle(g)
    <2> SUFFICES ASSUME NEW q \in Region, g.free[q] # Null
                 PROVE  q \in Regions(g) /\ g.free[q][1] = q /\ ~Busy(g, g.free[q])
      BY DEF HeadsIdle
    <2>1. CASE q = r
      <3>1. h.tramp[s].remain \in Slot
        <4>1. h.tramp[s].remain \in Slot \cup Function \cup {Null, Break}
          BY <1>1 DEF Heap, Trampoline
        <4>. QED
          BY <1>1, <1>8, <2>1, <4>1 DEF HeapInv, LinksIdle, Busy
      <3>. QED
        BY <1>1, <1>5, <1>7, <1>8, <1>9, <2>1, <3>1 DEF HeapInv, LinksIdle, Busy
    <2>2. CASE q # r
      <3>1. h.free[q] \in Slot /\ h.free[q] # s
        BY <1>1, <1>8, <2>2 DEF HeapInv, HeadsIdle, Heap
      <3>. QED
        BY <1>5, <1>7, <1>8, <2>2, <3>1 DEF HeapInv, HeadsIdle, Busy
    <2>. QED
      BY <2>1, <2>2
  <1>11. LinksIdle(g)
    <2> SUFFICES ASSUME NEW t \in Slot
                 PROVE  /\ g.tramp[t].remain # Break
                        /\ Busy(g, t) => t[1] \in Regions(g)
                        /\ g.tramp[t].remain \in Slot =>
                              /\ g.tramp[t].remain[1] = t[1]
                              /\ ~Busy(g, g.tramp[t].remain)
                              /\ g.tramp[t].remain # g.free[t[1]]
      BY DEF LinksIdle
    <2>1. CASE t = s
      BY <1>1, <1>5, <1>7, <2>1, SlotParts DEF Busy
    <2>2. CASE t # s
      <3>1. g.tramp[t].remain = h.tramp[t].remain
        BY <1>7, <2>2
      <3>2. ASSUME h.tramp[t].remain \in Slot
            PROVE  /\ h.tramp[t].remain[1] = t[1] /\ h.tramp[t].remain # s
                   /\ ~Busy(g, h.tramp[t].remain)
        BY <1>1, <1>7, <3>2 DEF HeapInv, LinksIdle, Busy
      <3>3. ASSUME h.tramp[t].remain \in Slot
            PROVE  h.tramp[t].remain # g.free[t[1]]
        <4>1. t[1] \in Region
          BY SlotParts
        <4>2. CASE t[1] = r
          BY <1>1, <1>8, <2>2, <3>3, <4>1, <4>2 DEF HeapInv, LinksDistinct
        <4>3. CASE t[1] # r
          BY <1>8, <3>3, <4>1, <4>3 DEF HeapInv, LinksIdle
        <4>. QED
          BY <4>2, <4>3
      <3>. QED
        BY <1>5, <3>1, <3>2, <3>3 DEF HeapInv, LinksIdle, Busy
    <2>. QED
      BY <2>1, <2>2
  <1>12. LinksDistinct(g)
    BY <1>1, <1>7, SlotParts DEF HeapInv, LinksDistinct
  <1>13. HeapInv(g)
    BY <1>4, <1>6, <1>10, <1>11, <1>12 DEF HeapInv
  <1>. QED
    BY <1>5, <1>13

\* A trampoline that is taken and given back leaves the free list as it was.
LEMMA ReturnInv ==
    ASSUME NEW h, HeapInv(h), NEW r \in Regions(h), h.free[r] # Null,
           NEW x \in Trampoline, NEW p, Taken(p, h, r, x),
           NEW g, g = FreeTrampoline(p, h.free[r])
    PROVE  /\ HeapInv(g) /\ Regions(g) = Regions(h) /\ g.writable = h.writable
           /\ g.free = h.free /\ \A t \in Slot : g.tramp[t].remain = h.tramp[t].remain
           /\ SameUse(g, h)
  <1> DEFINE s == h.free[r]
             y == [Filled(Null) EXCEPT !.remain = h.tramp[s].remain]
  <1>1. s \in Slot /\ s[1] = r /\ ~Busy(h, s) /\ r \in Region /\ h \in Heap
    BY HeadType DEF HeapInv
  <1>2. y \in Trampoline /\ y.remain = h.tramp[s].remain
    BY <1>1 DEF Filled, Trampoline, Heap
  <1>0. /\ p \in Heap /\ p.regions = h.regions /\ p.default = r /\ p.writable = h.writable
        /\ p.free = [h.free EXCEPT ![r] = h.tramp[s].remain]
        /\ p.tramp = [h.tramp EXCEPT ![s] = x]
    BY DEF Taken
  <1>3. p.free[r] = h.tramp[s].remain
    BY <1>0, <1>1 DEF Heap
  <1>4. g = [p EXCEPT !.tramp = [p.tramp EXCEPT ![s] = y], !.free = [p.free EXCEPT ![r] = s]]
    BY <1>0, <1>1, <1>3 DEF FreeTrampoline, Heap
  <1>5. [p.tramp EXCEPT ![s] = y] = [h.tramp EXCEPT ![s] = y]
    BY <1>0, <1>1 DEF Heap
  <1>6. [p.free EXCEPT ![r] = s] = h.free
    BY <1>0, <1>1 DEF Heap
  <1>7. /\ g \in Heap /\ g.regions = h.regions /\ g.default = r /\ g.writable = h.writable
        /\ g.free = h.free /\ g.tramp = [h.tramp EXCEPT ![s] = y]
    <2> DEFINE tr == [h.tramp EXCEPT ![s] = y]
    <2>1. tr \in [Slot -> Trampoline]
      BY <1>1, <1>2 DEF Heap
    <2>2. g = [p EXCEPT !.tramp = tr, !.free = h.free]
      BY <1>4, <1>5, <1>6
    <2> HIDE DEF y, tr
    <2>3. /\ g \in Heap /\ g.regions = p.regions /\ g.default = p.default
          /\ g.writable = p.writable /\ g.free = h.free /\ g.tramp = tr
      BY <1>0, <1>1, <2>1, <2>2 DEF Heap
    <2>. QED
      BY <1>0, <2>3 DEF tr
  <1> HIDE DEF y
  <1>8. Regions(g) = Regions(h)
    BY <1>7 DEF Regions
  <1>9. \A t \in Slot : g.tramp[t].remain = h.tramp[t].remain /\ (t # s => g.tramp[t] = h.tramp[t])
    BY <1>1, <1>2, <1>7 DEF Heap
  <1>10. SameUse(g, h)
    BY <1>1, <1>9 DEF SameUse, Busy
  <1>11. DefaultListed(g)
    BY <1>7, <1>8 DEF DefaultListed
  <1>12. HeadsIdle(g)
    <2>1. \A q \in Region : h.free[q] # Null => h.free[q] \in Slot
      BY <1>1 DEF Heap
    <2>. QED
      BY <1>7, <1>8, <1>9, <2>1 DEF HeapInv, HeadsIdle, Busy
  <1>13. LinksIdle(g) /\ LinksDistinct(g)
    BY <1>7, <1>8, <1>9 DEF HeapInv, LinksIdle, LinksDistinct, Busy
  <1>. QED
    BY <1>7, <1>8, <1>9, <1>10, <1>11, <1>12, <1>13 DEF HeapInv

\* detour_free_trampoline of a trampoline in use.
LEMMA FreeInv ==
    ASSUME NEW h, HeapInv(h), NEW s \in Slot, Busy(h, s)
    PROVE  LET g == FreeTrampoline(h, s)
           IN  /\ HeapInv(g) /\ Regions(g) = Regions(h) /\ g.writable = h.writable
               /\ \A t \in Slot : t # s => g.tramp[t] = h.tramp[t]
               /\ ~Busy(g, s)
               /\ g.free = [h.free EXCEPT ![s[1]] = s]
               /\ g.tramp[s].remain = h.free[s[1]]
  <1> DEFINE r == s[1]
             g == FreeTrampoline(h, s)
             y == [Filled(Null) EXCEPT !.remain = h.free[r]]
  <1>1. r \in Region /\ h \in Heap /\ r \in Regions(h)
    BY SlotParts DEF HeapInv, LinksIdle
  <1>2. y \in Trampoline /\ y.remain = h.free[r] /\ h.free[r] \in Slot \cup {Null}
    BY <1>1 DEF Filled, Trampoline, Heap
  <1>3. g = [h EXCEPT !.tramp = [h.tramp EXCEPT ![s] = y], !.free = [h.free EXCEPT ![r] = s]]
    BY <1>1 DEF FreeTrampoline, Heap
  <1>4. /\ g \in Heap /\ g.regions = h.regions /\ g.default = h.default /\ g.writable = h.writable
        /\ g.free = [h.free EXCEPT ![r] = s] /\ g.tramp = [h.tramp EXCEPT ![s] = y]
    <2>1. [h.tramp EXCEPT ![s] = y] \in [Slot -> Trampoline]
      BY <1>1, <1>2 DEF Heap
    <2>2. [h.free EXCEPT ![r] = s] \in [Region -> Slot \cup {Null}]
      BY <1>1, <1>2 DEF Heap
    <2> HIDE DEF y, g
    <2>. QED
      BY <1>1, <1>3, <2>1, <2>2 DEF Heap
  <1> HIDE DEF g, y
  <1>5. Regions(g) = Regions(h)
    BY <1>4 DEF Regions
  <1>6. /\ \A t \in Slot : t # s => g.tramp[t] = h.tramp[t]
        /\ g.tramp[s].remain = h.free[r]
        /\ \A q \in Region : g.free[q] = IF q = r THEN s ELSE h.free[q]
    BY <1>1, <1>2, <1>4 DEF Heap
  <1>7. ~Busy(g, s)
    BY <1>2, <1>6, SlotParts DEF Busy
  <1>8. \A q \in Region : h.free[q] \in Slot => h.free[q] # s /\ ~Busy(g, h.free[q])
    BY <1>6, SlotParts DEF HeapInv, HeadsIdle, Busy
  <1>9. \A t \in Slot : h.tramp[t].remain # s
    BY SlotParts DEF HeapInv, LinksIdle
  <1>10. DefaultListed(g)
    BY <1>4, <1>5 DEF DefaultListed, HeapInv
  <1>11. HeadsIdle(g)
    <2>1. \A q \in Region : h.free[q] \in Slot \cup {Null}
      BY <1>1 DEF Heap
    <2>. QED
      BY <1>1, <1>5, <1>6, <1>7, <1>8, <2>1 DEF HeapInv, HeadsIdle
  <1>12. LinksIdle(g)
    <2> SUFFICES ASSUME NEW t \in Slot
                 PROVE  /\ g.tramp[t].remain # Break
                        /\ Busy(g, t) => t[1] \in Regions(g)
                        /\ g.tramp[t].remain \in Slot =>
                              /\ g.tramp[t].remain[1] = t[1]
                              /\ ~Busy(g, g.tramp[t].remain)
                              /\ g.tramp[t].remain # g.free[t[1]]
      BY DEF LinksIdle
    <2>1. CASE t = s
      BY <1>1, <1>2, <1>6, <1>7, <1>8, <2>1, SlotParts DEF HeapInv, HeadsIdle
    <2>2. CASE t # s
      <3>1. g.tramp[t].remain = h.tramp[t].remain /\ t[1] \in Region
        BY <1>6, <2>2, SlotParts
      <3>2. ASSUME h.tramp[t].remain \in Slot
            PROVE  /\ h.tramp[t].remain[1] = t[1]
                   /\ ~Busy(g, h.tramp[t].remain)
                   /\ h.tramp[t].remain # g.free[t[1]]
        BY <1>6, <1>9, <3>1, <3>2 DEF HeapInv, LinksIdle, Busy
      <3>. QED
        BY <1>5, <3>1, <3>2 DEF HeapInv, LinksIdle, Busy
    <2>. QED
      BY <2>1, <2>2
  <1>13. LinksDistinct(g)
    <2> SUFFICES ASSUME NEW t \in Slot, NEW u \in Slot, g.tramp[t].remain \in Slot,
                        g.tramp[t].remain = g.tramp[u].remain, t # u
                 PROVE  FALSE
      BY DEF LinksDistinct
    <2>1. ASSUME NEW v \in Slot, h.free[r] \in Slot PROVE h.tramp[v].remain # h.free[r]
      <3>1. h.free[r][1] = r
        BY <1>1, <2>1, SlotParts DEF HeapInv, HeadsIdle
      <3>. QED
        BY <1>1, <2>1, <3>1 DEF HeapInv, LinksIdle
    <2>2. CASE t = s
      BY <1>6, <2>1, <2>2
    <2>3. CASE u = s
      BY <1>6, <2>1, <2>3
    <2>4. CASE t # s /\ u # s
      BY <1>6, <2>4 DEF HeapInv, LinksDistinct
    <2>. QED
      BY <2>2, <2>3, <2>4
  <1>. QED
    BY <1>4, <1>5, <1>6, <1>7, <1>10, <1>11, <1>12, <1>13 DEF g, HeapInv
----------------------------------------------------------------------------
(* Regions come and go.                                                    *)

\* A new region is linked up and not in use.
LEMMA NewRegionInv ==
    ASSUME NEW h, HeapInv(h), NEW r \in Region, r \notin Regions(h)
    PROVE  LET g == NewRegion(h, r)
           IN  /\ HeapInv(g) /\ SameUse(g, h)
               /\ Regions(g) = Regions(h) \cup {r} /\ g.writable = h.writable \cup {r}
               /\ \A t \in Slot : t[1] # r => g.tramp[t] = h.tramp[t]
               /\ \A t \in Slot : t[1] = r => ~Busy(g, t) /\ g.tramp[t].remain =
                     IF t[2] > 1 /\ t[2] < Last THEN <<r, t[2] + 1>> ELSE Null
               /\ \A q \in Region : g.free[q] =
                     IF q = r THEN (IF Last > 1 THEN <<r, 2>> ELSE Null) ELSE h.free[q]
  <1> DEFINE g == NewRegion(h, r)
             y(s) == [Filled(Null) EXCEPT !.remain = <<r, s[2] + 1>>]
             tr == [s \in Slot |-> IF s[1] # r THEN h.tramp[s]
                                   ELSE IF s[2] > 1 /\ s[2] < Last THEN y(s) ELSE Filled(Null)]
             fr == [h.free EXCEPT ![r] = IF Last > 1 THEN <<r, 2>> ELSE Null]
  <1>1. h \in Heap /\ Last \in Nat
    BY RegionAssumption DEF HeapInv
  <1>2. \A s \in Slot : s[1] = r /\ s[2] > 1 /\ s[2] < Last =>
           y(s) \in Trampoline /\ y(s).remain = <<r, s[2] + 1>> /\ <<r, s[2] + 1>> \in Slot
    <2> SUFFICES ASSUME NEW s \in Slot, s[1] = r, s[2] > 1, s[2] < Last
                 PROVE  y(s) \in Trampoline /\ y(s).remain = <<r, s[2] + 1>> /\ <<r, s[2] + 1>> \in Slot
      OBVIOUS
    <2>1. s[2] + 1 \in 0..Last
      BY <1>1, SlotParts
    <2>2. <<r, s[2] + 1>> \in Slot
      BY <2>1, SlotParts
    <2>. QED
      BY <2>2 DEF Filled, Trampoline
  <1>3. tr \in [Slot -> Trampoline]
    BY <1>1, <1>2, FilledType DEF Heap
  <1>4. fr \in [Region -> Slot \cup {Null}]
    <2>1. Last > 1 => <<r, 2>> \in Slot
      BY <1>1, SlotParts
    <2>. QED
      BY <1>1, <2>1 DEF Heap
  <1>5. <<r>> \o h.regions \in Seq(Region)
    BY <1>1 DEF Heap
  <1>6. g = [h EXCEPT !.regions = <<r>> \o h.regions, !.default = r,
                      !.writable = h.writable \cup {r}, !.free = fr, !.tramp = tr]
    BY <1>1 DEF NewRegion, Heap
  <1>7. /\ g \in Heap /\ g.regions = <<r>> \o h.regions /\ g.default = r
        /\ g.writable = h.writable \cup {r} /\ g.free = fr /\ g.tramp = tr
    <2>1. h.writable \cup {r} \in SUBSET Region
      BY <1>1 DEF Heap
    <2> HIDE DEF g, fr, tr
    <2>. QED
      BY <1>1, <1>3, <1>4, <1>5, <1>6, <2>1 DEF Heap
  <1> HIDE DEF g
  <1>8. Regions(g) = Regions(h) \cup {r}
    <2> DEFINE z == <<r>> \o h.regions
    <2>1. /\ h.regions \in Seq(Region) /\ Len(z) = Len(h.regions) + 1
          /\ z[1] = r /\ \A i \in 1..Len(h.regions) : z[i + 1] = h.regions[i]
      BY <1>1 DEF Heap
    <2>2. \A i \in 1..Len(z) : i = 1 \/ (i - 1 \in 1..Len(h.regions) /\ z[i] = h.regions[i - 1])
      BY <2>1
    <2>3. Len(h.regions) \in Nat /\ DOMAIN h.regions = 1..Len(h.regions) /\ DOMAIN z = 1..Len(z)
      BY <1>5, <2>1
    <2> HIDE DEF z
    <2>4. \A i \in 1..Len(h.regions) : i + 1 \in 1..Len(z)
      BY <2>1, <2>3
    <2>5. 1 \in 1..Len(z)
      BY <2>1, <2>3
    <2>. QED
      BY <1>7, <2>1, <2>2, <2>3, <2>4, <2>5 DEF Regions, z
  <1>9. \A t \in Slot : t[1] # r => g.tramp[t] = h.tramp[t]
    BY <1>7
  <1>10. \A t \in Slot : t[1] = r => /\ ~Busy(h, t) /\ ~Busy(g, t)
                                     /\ \/ g.tramp[t].remain = Null
                                        \/ t[2] > 1 /\ t[2] < Last /\ g.tramp[t].remain = <<r, t[2] + 1>>
    <2> SUFFICES ASSUME NEW t \in Slot, t[1] = r
                 PROVE  /\ ~Busy(h, t) /\ ~Busy(g, t)
                        /\ \/ g.tramp[t].remain = Null
                           \/ t[2] > 1 /\ t[2] < Last /\ g.tramp[t].remain = <<r, t[2] + 1>>
      OBVIOUS
    <2>1. ~Busy(h, t)
      BY DEF HeapInv, LinksIdle
    <2>2. CASE t[2] > 1 /\ t[2] < Last
      <3>1. g.tramp[t] = y(t)
        BY <1>7, <2>2
      <3>. QED
        BY <1>2, <2>1, <2>2, <3>1, SlotParts DEF Busy
    <2>3. CASE ~(t[2] > 1 /\ t[2] < Last)
      BY <1>7, <2>1, <2>3, SlotParts DEF Busy, Filled
    <2>. QED
      BY <2>2, <2>3
  <1>11. \A q \in Region : g.free[q] = IF q = r THEN (IF Last > 1 THEN <<r, 2>> ELSE Null) ELSE h.free[q]
    BY <1>1, <1>7 DEF Heap
  <1>12. SameUse(g, h)
    BY <1>9, <1>10 DEF SameUse, Busy
  <1>13. DefaultListed(g)
    BY <1>7, <1>8 DEF DefaultListed
  <1>14. HeadsIdle(g)
    <2> SUFFICES ASSUME NEW q \in Region, g.free[q] # Null
                 PROVE  q \in Regions(g) /\ g.free[q][1] = q /\ ~Busy(g, g.free[q])
      BY DEF HeadsIdle
    <2>1. CASE q = r
      BY <1>1, <1>8, <1>10, <1>11, <2>1, SlotParts
    <2>2. CASE q # r
      <3>1. h.free[q] \in Slot
        BY <1>1, <1>11, <2>2 DEF Heap
      <3>. QED
        BY <1>8, <1>9, <1>11, <2>2, <3>1 DEF HeapInv, HeadsIdle, Busy
    <2>. QED
      BY <2>1, <2>2
  <1>15. LinksIdle(g)
    <2> SUFFICES ASSUME NEW t \in Slot
                 PROVE  /\ g.tramp[t].remain # Break
                        /\ Busy(g, t) => t[1] \in Regions(g)
                        /\ g.tramp[t].remain \in Slot =>
                              /\ g.tramp[t].remain[1] = t[1]
                              /\ ~Busy(g, g.tramp[t].remain)
                              /\ g.tramp[t].remain # g.free[t[1]]
      BY DEF LinksIdle
    <2>1. CASE t[1] = r
      <3>1. CASE g.tramp[t].remain = Null
        BY <1>10, <2>1, <3>1, SlotParts
      <3>2. CASE t[2] > 1 /\ t[2] < Last /\ g.tramp[t].remain = <<r, t[2] + 1>>
        <4>1. <<r, t[2] + 1>> \in Slot /\ <<r, t[2] + 1>>[1] = r
          BY <1>2, <2>1, <3>2
        <4>2. t[2] \in Int /\ <<r, t[2] + 1>> # <<r, 2>>
          BY <3>2, SlotParts
        <4>. QED
          BY <1>10, <1>11, <2>1, <3>2, <4>1, <4>2, SlotParts
      <3>. QED
        BY <1>10, <2>1, <3>1, <3>2
    <2>2. CASE t[1] # r
      <3>1. g.tramp[t] = h.tramp[t] /\ t[1] \in Region /\ g.free[t[1]] = h.free[t[1]]
        BY <1>9, <1>11, <2>2, SlotParts
      <3>2. ASSUME h.tramp[t].remain \in Slot
            PROVE  h.tramp[t].remain[1] = t[1] /\ ~Busy(h, h.tramp[t].remain)
        BY <3>2 DEF HeapInv, LinksIdle
      <3>. QED
        BY <1>8, <1>9, <2>2, <3>1, <3>2 DEF HeapInv, LinksIdle, Busy
    <2>. QED
      BY <2>1, <2>2
  <1>16. LinksDistinct(g)
    <2> SUFFICES ASSUME NEW t \in Slot, NEW u \in Slot, g.tramp[t].remain \in Slot,
                        g.tramp[t].remain = g.tramp[u].remain
                 PROVE  t = u
      BY DEF LinksDistinct
    <2>1. t[1] = u[1]
      BY <1>15 DEF LinksIdle
    <2>2. CASE t[1] = r
      <3>1. t[2] \in Int /\ u[2] \in Int /\ t = <<t[1], t[2]>> /\ u = <<u[1], u[2]>>
        BY <1>1, SlotParts
      <3>2. <<r, t[2] + 1>> = <<r, u[2] + 1>>
        BY <1>10, <2>1, <2>2, SlotParts
      <3>. QED
        BY <2>1, <3>1, <3>2
    <2>3. CASE t[1] # r
      BY <1>9, <2>1, <2>3 DEF HeapInv, LinksDistinct
    <2>. QED
      BY <2>2, <2>3
  <1>17. \A t \in Slot : t[1] = r => g.tramp[t].remain =
                              IF t[2] > 1 /\ t[2] < Last THEN <<r, t[2] + 1>> ELSE Null
    <2>1. \A t \in Slot : t[1] = r /\ t[2] > 1 /\ t[2] < Last => g.tramp[t] = y(t)
      BY <1>7
    <2>2. \A t \in Slot : t[1] = r /\ ~(t[2] > 1 /\ t[2] < Last) => g.tramp[t].remain = Null
      BY <1>7 DEF Filled
    <2> HIDE DEF y
    <2>. QED
      BY <1>2, <2>1, <2>2
  <1>. QED
    BY <1>7, <1>8, <1>9, <1>10, <1>11, <1>12, <1>13, <1>14, <1>15, <1>16, <1>17 DEF g, HeapInv

\* The list without its empty regions.
LEMMA KeptRegions ==
    ASSUME NEW h \in Heap
    PROVE  LET k == Kept(h)[Len(h.regions)]
           IN  /\ k \in Seq(Region)
               /\ {k[i] : i \in DOMAIN k} = {r \in Regions(h) : ~IsRegionEmpty(h, r)}
  <1> DEFINE N == Len(h.regions)
             A == Seq(Region)
             step == [x \in (1..N) \X A |-> IF IsRegionEmpty(h, h.regions[x[1]]) THEN x[2]
                                           ELSE Append(x[2], h.regions[x[1]])]
             K == Kept(h)
             Def(f) == f = [n \in 0..N |-> IF n = 0 THEN <<>>
                                          ELSE IF IsRegionEmpty(h, h.regions[n]) THEN f[n - 1]
                                          ELSE Append(f[n - 1], h.regions[n])]
             In(n) == {h.regions[i] : i \in {j \in 1..n : ~IsRegionEmpty(h, h.regions[j])}}
  <1>1. N \in Nat /\ <<>> \in A /\ \A n \in 1..N : h.regions[n] \in Region
    BY DEF Heap
  <1>2. step \in [(1..N) \X A -> A]
    <2>1. ASSUME NEW x \in (1..N) \X A PROVE step[x] \in A
      <3>1. x[1] \in 1..N /\ x[2] \in A
        OBVIOUS
      <3>. QED
        BY <1>1, <3>1
    <2>. QED
      BY <2>1
  <1> HIDE DEF N, A
  <1>3. PICK f \in [0..N -> A] : f[0] = <<>> /\ \A n \in 1..N : f[n] = step[<<n, f[n - 1]>>]
    <2> HIDE DEF step
    <2>1. \E g : Iterates(g, N, A, <<>>, step)
      BY <1>1, <1>2, Iteration
    <2>. QED
      BY <2>1 DEF Iterates
  <1>4. \A n \in 1..N : f[n] = IF IsRegionEmpty(h, h.regions[n]) THEN f[n - 1]
                                ELSE Append(f[n - 1], h.regions[n])
    <2> SUFFICES ASSUME NEW n \in 1..N
                 PROVE  step[<<n, f[n - 1]>>] = IF IsRegionEmpty(h, h.regions[n]) THEN f[n - 1]
                                               ELSE Append(f[n - 1], h.regions[n])
      BY <1>3
    <2>1. n - 1 \in 0..N
      BY <1>1
    <2>2. <<n, f[n - 1]>> \in (1..N) \X A
      BY <1>3, <2>1
    <2>. QED
      BY <2>2
  <1>5. Def(f)
    <2> DEFINE v(n) == IF n = 0 THEN <<>>
                       ELSE IF IsRegionEmpty(h, h.regions[n]) THEN f[n - 1]
                       ELSE Append(f[n - 1], h.regions[n])
    <2>1. \A n \in 0..N : f[n] = v(n)
      <3>1. \A n \in 0..N : n = 0 \/ n \in 1..N
        BY <1>1
      <3>2. f[0] = v(0)
        BY <1>3
      <3>3. \A n \in 1..N : f[n] = v(n)
        BY <1>1, <1>4
      <3> HIDE DEF v
      <3>. QED
        BY <3>1, <3>2, <3>3
    <2> HIDE DEF v
    <2>2. f = [n \in 0..N |-> v(n)]
      BY <1>3, <2>1
    <2>. QED
      BY <2>2 DEF v
  <1>6. K = CHOOSE g : Def(g)
    BY Zenon DEF Kept, N
  <1>7. Def(K)
    <2>1. \E g : Def(g)
      BY <1>5
    <2> HIDE DEF Def
    <2>. QED
      BY <1>6, <2>1, Zenon
  <1> HIDE DEF K, step
  <1> DEFINE Good(n) == K[n] \in A /\ {K[n][i] : i \in DOMAIN K[n]} = In(n)
             S == {n \in Nat : n <= N => Good(n)}
  <1>8. 0 \in S
    <2>1. K[0] = <<>>
      BY <1>1, <1>7
    <2>2. {K[0][i] : i \in DOMAIN K[0]} = {} /\ In(0) = {}
      BY <2>1
    <2>. QED
      BY <1>1, <2>1, <2>2
  <1>9. \A n \in Nat : n \in S => n + 1 \in S
    <2> SUFFICES ASSUME NEW n \in Nat, Good(n), n + 1 <= N PROVE Good(n + 1)
      <3>1. \A n \in Nat : n + 1 <= N => n <= N
        BY <1>1
      <3> HIDE DEF Good
      <3>. QED
        BY <3>1
    <2> DEFINE r == h.regions[n + 1]
    <2>1. r \in Region /\ n + 1 \in 1..N /\ n + 1 - 1 = n /\ n + 1 # 0 /\ n + 1 \in 0..N
      BY <1>1
    <2>2. K[n + 1] = IF IsRegionEmpty(h, r) THEN K[n] ELSE Append(K[n], r)
      <3>1. K[n + 1] = IF n + 1 = 0 THEN <<>>
                       ELSE IF IsRegionEmpty(h, h.regions[n + 1]) THEN K[n + 1 - 1]
                       ELSE Append(K[n + 1 - 1], h.regions[n + 1])
        <4> DEFINE v(k) == IF k = 0 THEN <<>>
                           ELSE IF IsRegionEmpty(h, h.regions[k]) THEN K[k - 1]
                           ELSE Append(K[k - 1], h.regions[k])
        <4>1. K = [k \in 0..N |-> v(k)]
          BY <1>7
        <4> HIDE DEF v
        <4>2. K[n + 1] = v(n + 1)
          BY <2>1, <4>1
        <4>. QED
          BY <4>2 DEF v
      <3>. QED
        BY <2>1, <3>1
    <2>3. \A j \in 1..(n + 1) : j \in 1..n \/ j = n + 1
      OBVIOUS
    <2>4. CASE IsRegionEmpty(h, r)
      <3>1. In(n + 1) = In(n)
        BY <2>3, <2>4
      <3>. QED
        BY <2>2, <2>4, <3>1
    <2>5. CASE ~IsRegionEmpty(h, r)
      <3>1. In(n + 1) = In(n) \cup {r}
        BY <2>1, <2>3, <2>5
      <3>2. K[n + 1] = Append(K[n], r) /\ K[n] \in Seq(Region)
        BY <2>2, <2>5 DEF A
      <3>3. K[n + 1] \in Seq(Region) /\ Len(K[n + 1]) = Len(K[n]) + 1 /\ Len(K[n]) \in Nat
        BY <2>1, <3>2
      <3>4. K[n + 1][Len(K[n]) + 1] = r /\ \A i \in 1..Len(K[n]) : K[n + 1][i] = K[n][i]
        BY <2>1, <3>2
      <3>5. DOMAIN K[n + 1] = 1..(Len(K[n]) + 1) /\ DOMAIN K[n] = 1..Len(K[n])
        BY <3>2, <3>3
      <3>6. {K[n + 1][i] : i \in DOMAIN K[n + 1]} = {K[n][i] : i \in DOMAIN K[n]} \cup {r}
        <4> HIDE DEF r
        <4>1. \A i \in 1..(Len(K[n]) + 1) : i \in 1..Len(K[n]) \/ i = Len(K[n]) + 1
          BY <3>3
        <4>2. \A i \in 1..Len(K[n]) : i \in 1..(Len(K[n]) + 1)
          BY <3>3
        <4>3. Len(K[n]) + 1 \in 1..(Len(K[n]) + 1)
          BY <3>3
        <4>. QED
          BY <3>4, <3>5, <4>1, <4>2, <4>3
      <3>. QED
        BY <3>1, <3>3, <3>6 DEF A
    <2>. QED
      BY <2>4, <2>5
  <1>10. Nat \subseteq S
    <2> HIDE DEF S
    <2>. QED
      BY <1>8, <1>9, SetInduction
  <1>11. Good(N)
    <2> HIDE DEF Good
    <2>. QED
      BY <1>1, <1>10
  <1>12. In(N) = {r \in Regions(h) : ~IsRegionEmpty(h, r)}
    <2>1. DOMAIN h.regions = 1..N
      BY DEF N, Heap
    <2>. QED
      BY <2>1 DEF Regions
  <1>. QED
    BY <1>11, <1>12 DEF A, K, N
\* A region with a trampoline in use is not empty.
LEMMA BusyRegion ==
    ASSUME NEW h, NEW s \in Slot, Busy(h, s)
    PROVE  ~IsRegionEmpty(h, s[1])
  <1>1. s = <<s[1], s[2]>> /\ s[1] \in Region /\ s[2] \in 0..Last
    BY SlotParts
  <1>2. h.tramp[<<s[1], s[2]>>].remain \notin {Null} \cup ({s[1]} \X (0..Last))
    <2>1. {s[1]} \X (0..Last) \subseteq Slot
      BY <1>1 DEF Slot
    <2>2. h.tramp[<<s[1], s[2]>>].remain \in Function
      BY <1>1 DEF Busy
    <2>. QED
      BY <2>1, <2>2, SlotParts
  <1>. QED
    BY <1>1, <1>2 DEF IsRegionEmpty

\* Empty regions go, and nothing that is in use goes with them.
LEMMA FreeUnusedInv ==
    ASSUME NEW h, HeapInv(h)
    PROVE  LET g == FreeUnusedRegions(h)
           IN  /\ HeapInv(g) /\ SameUse(g, h)
               /\ Regions(g) = {r \in Regions(h) : ~IsRegionEmpty(h, r)}
               /\ \A t \in Slot : t[1] \in Regions(g) => g.tramp[t] = h.tramp[t]
               /\ \A r \in Regions(g) : g.free[r] = h.free[r]
  <1> DEFINE g == FreeUnusedRegions(h)
             k == Kept(h)[Len(h.regions)]
             d == IF \E r \in Regions(h) : IsRegionEmpty(h, r) THEN Null ELSE h.default
             fr == [r \in Region |-> IF ~IsRegionEmpty(h, r) THEN h.free[r] ELSE Null]
             tr == [s \in Slot |-> IF ~IsRegionEmpty(h, s[1]) THEN h.tramp[s] ELSE Filled(Null)]
             w == {r \in h.writable : ~IsRegionEmpty(h, r)}
  <1>1. h \in Heap
    BY DEF HeapInv
  <1>2. g = [h EXCEPT !.regions = k, !.default = d, !.free = fr, !.tramp = tr, !.writable = w]
    BY <1>1 DEF FreeUnusedRegions, Heap
  <1>3. k \in Seq(Region) /\ {k[i] : i \in DOMAIN k} = {r \in Regions(h) : ~IsRegionEmpty(h, r)}
    BY <1>1, KeptRegions
  <1>4. fr \in [Region -> Slot \cup {Null}]
    BY <1>1 DEF Heap
  <1>5. tr \in [Slot -> Trampoline]
    BY <1>1, FilledType DEF Heap
  <1>6. d \in Region \cup {Null} /\ w \in SUBSET Region
    BY <1>1 DEF Heap
  <1>7. /\ g \in Heap /\ g.regions = k /\ g.default = d /\ g.free = fr /\ g.tramp = tr
        /\ g.writable = w
    <2> HIDE DEF g, k, d, fr, tr, w
    <2>. QED
      BY <1>1, <1>2, <1>3, <1>4, <1>5, <1>6 DEF Heap
  <1>8. Regions(g) = {r \in Regions(h) : ~IsRegionEmpty(h, r)}
    <2> HIDE DEF g, k
    <2>. QED
      BY <1>3, <1>7 DEF Regions
  <1> HIDE DEF g, k
  <1>9. \A t \in Slot :
           \/ ~IsRegionEmpty(h, t[1]) /\ g.tramp[t] = h.tramp[t]
           \/ IsRegionEmpty(h, t[1]) /\ g.tramp[t].remain = Null
    BY <1>7 DEF Filled
  <1>10. \A r \in Region : g.free[r] = IF ~IsRegionEmpty(h, r) THEN h.free[r] ELSE Null
    BY <1>7
  <1>11. SameUse(g, h)
    <2>1. \A s \in Slot : Busy(h, s) => ~IsRegionEmpty(h, s[1])
      BY BusyRegion
    <2>. QED
      BY <1>9, <2>1, SlotParts DEF SameUse, Busy
  <1>12. DefaultListed(g)
    <2>1. g.default = d
      BY <1>7
    <2>. QED
      BY <1>8, <2>1 DEF HeapInv, DefaultListed
  <1>13. HeadsIdle(g)
    <2> SUFFICES ASSUME NEW q \in Region, g.free[q] # Null
                 PROVE  q \in Regions(g) /\ g.free[q][1] = q /\ ~Busy(g, g.free[q])
      BY DEF HeadsIdle
    <2>1. ~IsRegionEmpty(h, q) /\ g.free[q] = h.free[q] /\ h.free[q] \in Slot
      BY <1>1, <1>10 DEF Heap
    <2>2. q \in Regions(h) /\ h.free[q][1] = q /\ ~Busy(h, h.free[q])
      BY <2>1 DEF HeapInv, HeadsIdle
    <2>. QED
      BY <1>8, <1>11, <2>1, <2>2 DEF SameUse
  <1>14. LinksIdle(g)
    <2> SUFFICES ASSUME NEW t \in Slot
                 PROVE  /\ g.tramp[t].remain # Break
                        /\ Busy(g, t) => t[1] \in Regions(g)
                        /\ g.tramp[t].remain \in Slot =>
                              /\ g.tramp[t].remain[1] = t[1]
                              /\ ~Busy(g, g.tramp[t].remain)
                              /\ g.tramp[t].remain # g.free[t[1]]
      BY DEF LinksIdle
    <2>1. CASE IsRegionEmpty(h, t[1])
      BY <1>9, <2>1, SlotParts DEF Busy
    <2>2. CASE ~IsRegionEmpty(h, t[1])
      <3>1. g.tramp[t] = h.tramp[t] /\ t[1] \in Region /\ g.free[t[1]] = h.free[t[1]]
        BY <1>9, <1>10, <2>2, SlotParts
      <3>2. ASSUME h.tramp[t].remain \in Slot
            PROVE  /\ h.tramp[t].remain[1] = t[1] /\ ~Busy(h, h.tramp[t].remain)
                   /\ h.tramp[t].remain # h.free[t[1]]
        BY <3>2 DEF HeapInv, LinksIdle
      <3>3. Busy(h, t) => t[1] \in Regions(h)
        BY DEF HeapInv, LinksIdle
      <3>4. h.tramp[t].remain # Break
        BY DEF HeapInv, LinksIdle
      <3>. QED
        BY <1>8, <1>11, <2>2, <3>1, <3>2, <3>3, <3>4 DEF SameUse
    <2>. QED
      BY <2>1, <2>2
  <1>15. LinksDistinct(g)
    BY <1>9, SlotParts DEF HeapInv, LinksDistinct
  <1>16. \A t \in Slot : t[1] \in Regions(g) => g.tramp[t] = h.tramp[t]
    BY <1>8, <1>9
  <1>17. \A r \in Regions(g) : g.free[r] = h.free[r]
    BY <1>8, <1>10, <1>7, RegionsType
  <1>. QED
    BY <1>7, <1>8, <1>11, <1>12, <1>13, <1>14, <1>15, <1>16, <1>17 DEF g, HeapInv

----------------------------------------------------------------------------
(* Free lists.                                                             *)

\* The i-th of a list of trampolines, or Null behind its end.
Item(q, i) == IF i \in 1..Len(q) THEN q[i] ELSE Null

\* q is the free list of region r: linked through pbRemain, without a
\* repetition, and of all trampolines of the region that are not in use, but
\* the first two.
Chain(h, r, q) ==
    /\ q \in Seq(Slot)
    /\ h.free[r] = Item(q, 1)
    /\ \A i \in 1..Len(q) : h.tramp[q[i]].remain = Item(q, i + 1)
    /\ \A i, j \in 1..Len(q) : q[i] = q[j] => i = j
    /\ \A i \in 1..Len(q) : q[i][1] = r /\ q[i][2] >= 2 /\ ~Busy(h, q[i])
    /\ \A s \in Slot : s[1] = r /\ s[2] >= 2 /\ ~Busy(h, s) => \E i \in 1..Len(q) : q[i] = s

\* Every region has such a list, and its first two trampolines are never used.
ListInv(h) ==
    /\ \A r \in Regions(h) : \E q : Chain(h, r, q)
    /\ \A s \in Slot : Busy(h, s) => s[2] >= 2

LEMMA EmptyList == ListInv(EmptyHeap)
  <1>1. \A s \in Slot : EmptyHeap.tramp[s].remain = Null
    BY DEF EmptyHeap, Filled
  <1>. QED
    BY <1>1, EmptyHeapInv, SlotParts DEF ListInv, Busy

\* What leaves the links of the regions as they are leaves the lists.
LEMMA SameList ==
    ASSUME NEW h, ListInv(h), NEW g, Regions(g) \subseteq Regions(h), SameUse(g, h),
           \A r \in Regions(g) : g.free[r] = h.free[r],
           \A t \in Slot : t[1] \in Regions(g) => g.tramp[t].remain = h.tramp[t].remain
    PROVE  ListInv(g)
  <1>1. ASSUME NEW r \in Regions(g) PROVE \E q : Chain(g, r, q)
    <2>1. PICK q : Chain(h, r, q)
      BY DEF ListInv
    <2>2. \A t \in Slot : t[1] = r => (Busy(g, t) <=> Busy(h, t))
      BY DEF Busy
    <2>3. \A i \in 1..Len(q) : q[i] \in Slot
      BY <2>1 DEF Chain
    <2>4. Chain(g, r, q)
      BY <2>1, <2>2, <2>3 DEF Chain
    <2>. QED
      BY <2>4
  <1>2. \A s \in Slot : Busy(g, s) => s[2] >= 2
    BY DEF ListInv, SameUse
  <1>. QED
    BY <1>1, <1>2 DEF ListInv

\* found_region takes the head of a list.
LEMMA TakeList ==
    ASSUME NEW h, HeapInv(h), ListInv(h), NEW r \in Regions(h), h.free[r] # Null,
           NEW x \in Trampoline, x.remain \in Function, NEW g, Taken(g, h, r, x)
    PROVE  ListInv(g)
  <1> DEFINE s == h.free[r]
  <1>1. s \in Slot /\ s[1] = r /\ ~Busy(h, s) /\ r \in Region /\ h \in Heap
    BY HeadType DEF HeapInv
  <1>2. Regions(g) = Regions(h) /\ Regions(h) \subseteq Region
    BY <1>1, TakeInv, RegionsType
  <1>3. /\ \A t \in Slot : t # s => g.tramp[t] = h.tramp[t]
        /\ g.tramp[s] = x
    BY <1>1 DEF Taken, Heap
  <1>4. /\ \A t \in Slot : t # s => (Busy(g, t) <=> Busy(h, t))
        /\ Busy(g, s)
    BY <1>3 DEF Busy
  <1>5. \A p \in Region : g.free[p] = IF p = r THEN h.tramp[s].remain ELSE h.free[p]
    BY <1>1 DEF Taken, Heap
  <1>6. PICK q : Chain(h, r, q)
    BY DEF ListInv
  <1>7. q \in Seq(Slot) /\ q # <<>> /\ q[1] = s
    <2>1. 1 \in 1..Len(q) /\ q[1] = s
      BY <1>6 DEF Chain, Item
    <2>. QED
      BY <1>6, <2>1 DEF Chain
  <1>8. PICK z : z = Tail(q)
    OBVIOUS
  <1>9. /\ z \in Seq(Slot) /\ Len(q) \in Nat \ {0} /\ Len(z) = Len(q) - 1
        /\ \A i \in 1..Len(z) : i + 1 \in 1..Len(q) /\ z[i] = q[i + 1]
        /\ \A i \in 1..Len(q) : i # 1 => i - 1 \in 1..Len(z) /\ z[i - 1] = q[i]
    BY <1>7, <1>8
  <1>10. \A i \in 1..Len(z) : z[i] # s /\ z[i] \in Slot
    BY <1>6, <1>7, <1>9 DEF Chain
  <1>11. \A i \in 0..Len(z) : Item(z, i + 1) = Item(q, i + 2)
    BY <1>9 DEF Item
  <1>12. Chain(g, r, z)
    <2>1. g.free[r] = Item(z, 1)
      <3>1. h.tramp[q[1]].remain = Item(q, 2)
        BY <1>6, <1>9 DEF Chain
      <3>2. 0 \in 0..Len(z) /\ 0 + 1 = 1 /\ 0 + 2 = 2
        BY <1>9
      <3>3. Item(z, 1) = Item(q, 2)
        BY <1>11, <3>2
      <3>. QED
        BY <1>1, <1>5, <1>7, <3>1, <3>3
    <2>2. ASSUME NEW i \in 1..Len(z) PROVE g.tramp[z[i]].remain = Item(z, i + 1)
      <3>1. i + 1 \in 1..Len(q) /\ z[i] = q[i + 1] /\ i \in 0..Len(z) /\ (i + 1) + 1 = i + 2
        BY <1>9
      <3>2. h.tramp[q[i + 1]].remain = Item(q, (i + 1) + 1)
        BY <1>6, <3>1 DEF Chain
      <3>. QED
        BY <1>3, <1>10, <1>11, <3>1, <3>2
    <2>3. ASSUME NEW i \in 1..Len(z), NEW j \in 1..Len(z), z[i] = z[j] PROVE i = j
      <3>1. i + 1 = j + 1
        BY <1>6, <1>9, <2>3 DEF Chain
      <3>. QED
        BY <1>9, <3>1
    <2>4. \A i \in 1..Len(z) : z[i][1] = r /\ z[i][2] >= 2 /\ ~Busy(g, z[i])
      BY <1>4, <1>6, <1>9, <1>10 DEF Chain
    <2>5. ASSUME NEW t \in Slot, t[1] = r, t[2] >= 2, ~Busy(g, t) PROVE \E i \in 1..Len(z) : z[i] = t
      <3>1. t # s /\ ~Busy(h, t)
        BY <1>4, <2>5
      <3>2. PICK i \in 1..Len(q) : q[i] = t
        BY <1>6, <2>5, <3>1 DEF Chain
      <3>3. i # 1
        BY <1>7, <3>1, <3>2
      <3>. QED
        BY <1>9, <3>2, <3>3
    <2>. QED
      BY <1>9, <2>1, <2>2, <2>3, <2>4, <2>5 DEF Chain
  <1>13. ASSUME NEW p \in Regions(g), p # r PROVE \E y : Chain(g, p, y)
    <2>1. PICK y : Chain(h, p, y)
      BY <1>2 DEF ListInv
    <2>2. \A t \in Slot : t[1] = p => t # s
      BY <1>1, <1>13
    <2>3. \A i \in 1..Len(y) : y[i] \in Slot
      BY <2>1 DEF Chain
    <2>4. g.free[p] = h.free[p]
      BY <1>2, <1>5, <1>13
    <2>5. Chain(g, p, y)
      BY <1>3, <1>4, <2>1, <2>2, <2>3, <2>4 DEF Chain
    <2>. QED
      BY <2>5
  <1>14. \A t \in Slot : Busy(g, t) => t[2] >= 2
    <2>1. s[2] >= 2
      BY <1>6, <1>7, <1>9 DEF Chain
    <2>. QED
      BY <1>4, <2>1 DEF ListInv
  <1>. QED
    BY <1>12, <1>13, <1>14 DEF ListInv

\* detour_free_trampoline puts a trampoline in use before the head.
LEMMA FreedList ==
    ASSUME NEW h, HeapInv(h), ListInv(h), NEW s \in Slot, Busy(h, s),
           NEW g, g = FreeTrampoline(h, s)
    PROVE  ListInv(g)
  <1> DEFINE r == s[1]
  <1>1. r \in Region /\ r \in Regions(h) /\ s[2] >= 2
    BY SlotParts DEF HeapInv, LinksIdle, ListInv
  <1>2. /\ HeapInv(g) /\ Regions(g) = Regions(h)
        /\ \A t \in Slot : t # s => g.tramp[t] = h.tramp[t]
        /\ ~Busy(g, s) /\ g.free = [h.free EXCEPT ![r] = s] /\ g.tramp[s].remain = h.free[r]
    BY FreeInv
  <1>3. \A p \in Region : g.free[p] = IF p = r THEN s ELSE h.free[p]
    BY <1>1, <1>2 DEF HeapInv, Heap
  <1>4. \A t \in Slot : t # s => (Busy(g, t) <=> Busy(h, t))
    BY <1>2 DEF Busy
  <1>5. Regions(h) \subseteq Region
    BY RegionsType DEF HeapInv
  <1>6. PICK q : Chain(h, r, q)
    BY <1>1 DEF ListInv
  <1>7. PICK z : z = <<s>> \o q
    OBVIOUS
  <1>8. /\ z \in Seq(Slot) /\ Len(q) \in Nat /\ Len(z) = Len(q) + 1 /\ z[1] = s
        /\ \A i \in 1..Len(q) : i + 1 \in 1..Len(z) /\ z[i + 1] = q[i]
        /\ \A i \in 1..Len(z) : i # 1 => i - 1 \in 1..Len(q) /\ z[i] = q[i - 1]
    BY <1>6, <1>7 DEF Chain
  <1>9. \A i \in 1..Len(q) : q[i] # s /\ q[i] \in Slot
    BY <1>6 DEF Chain
  <1>10. \A i \in 1..Len(z) : Item(z, i + 1) = Item(q, i)
    BY <1>8 DEF Item
  <1>11. Chain(g, r, z)
    <2>1. g.free[r] = Item(z, 1)
      BY <1>1, <1>3, <1>8 DEF Item
    <2>2. ASSUME NEW i \in 1..Len(z) PROVE g.tramp[z[i]].remain = Item(z, i + 1)
      <3>1. CASE i = 1
        BY <1>2, <1>6, <1>8, <1>10, <3>1 DEF Chain
      <3>2. CASE i # 1
        <4>1. i - 1 \in 1..Len(q) /\ z[i] = q[i - 1] /\ (i - 1) + 1 = i
          BY <1>8, <3>2
        <4>2. h.tramp[q[i - 1]].remain = Item(q, (i - 1) + 1)
          BY <1>6, <4>1 DEF Chain
        <4>. QED
          BY <1>2, <1>9, <1>10, <4>1, <4>2
      <3>. QED
        BY <3>1, <3>2
    <2>3. ASSUME NEW i \in 1..Len(z), NEW j \in 1..Len(z), z[i] = z[j] PROVE i = j
      <3>1. CASE i = 1 \/ j = 1
        BY <1>8, <1>9, <2>3, <3>1
      <3>2. CASE i # 1 /\ j # 1
        <4>1. i - 1 = j - 1
          BY <1>6, <1>8, <2>3, <3>2 DEF Chain
        <4>. QED
          BY <1>8, <4>1
      <3>. QED
        BY <3>1, <3>2
    <2>4. ASSUME NEW i \in 1..Len(z) PROVE z[i][1] = r /\ z[i][2] >= 2 /\ ~Busy(g, z[i])
      <3>1. CASE i = 1
        BY <1>1, <1>2, <1>8, <3>1
      <3>2. CASE i # 1
        BY <1>4, <1>6, <1>8, <1>9, <3>2 DEF Chain
      <3>. QED
        BY <3>1, <3>2
    <2>5. ASSUME NEW t \in Slot, t[1] = r, t[2] >= 2, ~Busy(g, t) PROVE \E i \in 1..Len(z) : z[i] = t
      <3>1. CASE t = s
        BY <1>8, <3>1
      <3>2. CASE t # s
        <4>1. PICK i \in 1..Len(q) : q[i] = t
          BY <1>4, <1>6, <2>5, <3>2 DEF Chain
        <4>. QED
          BY <1>8, <4>1
      <3>. QED
        BY <3>1, <3>2
    <2>. QED
      BY <1>8, <2>1, <2>2, <2>3, <2>4, <2>5 DEF Chain
  <1>12. ASSUME NEW p \in Regions(g), p # r PROVE \E y : Chain(g, p, y)
    <2>1. PICK y : Chain(h, p, y)
      BY <1>2 DEF ListInv
    <2>2. \A t \in Slot : t[1] = p => t # s
      BY <1>12
    <2>3. \A i \in 1..Len(y) : y[i] \in Slot
      BY <2>1 DEF Chain
    <2>4. g.free[p] = h.free[p]
      BY <1>2, <1>3, <1>5, <1>12
    <2>5. Chain(g, p, y)
      BY <1>2, <1>4, <2>1, <2>2, <2>3, <2>4 DEF Chain
    <2>. QED
      BY <2>5
  <1>13. \A t \in Slot : Busy(g, t) => t[2] >= 2
    BY <1>2, <1>4 DEF ListInv
  <1>. QED
    BY <1>11, <1>12, <1>13 DEF ListInv

\* A new region's list has all of its trampolines but two.
LEMMA NewRegionList ==
    ASSUME NEW h, HeapInv(h), ListInv(h), NEW r \in Region, r \notin Regions(h),
           NEW g, g = NewRegion(h, r)
    PROVE  ListInv(g)
  <1>1. /\ SameUse(g, h) /\ Regions(g) = Regions(h) \cup {r}
        /\ \A t \in Slot : t[1] # r => g.tramp[t] = h.tramp[t]
        /\ \A t \in Slot : t[1] = r => ~Busy(g, t) /\ g.tramp[t].remain =
              IF t[2] > 1 /\ t[2] < Last THEN <<r, t[2] + 1>> ELSE Null
        /\ \A q \in Region : g.free[q] =
              IF q = r THEN (IF Last > 1 THEN <<r, 2>> ELSE Null) ELSE h.free[q]
    BY NewRegionInv
  <1>2. Regions(h) \subseteq Region /\ Last \in Nat
    BY RegionsType, RegionAssumption DEF HeapInv
  <1> DEFINE n == IF Last > 1 THEN Last - 1 ELSE 0
  <1>3. PICK z : z = [i \in 1..n |-> <<r, i + 1>>]
    OBVIOUS
  <1>4. /\ z \in Seq(Slot) /\ Len(z) = n /\ n \in Nat /\ \A i \in 1..n : z[i] = <<r, i + 1>>
    <2>1. n \in Nat /\ \A i \in 1..n : i + 1 \in 0..Last
      BY <1>2
    <2>2. \A i \in 1..n : <<r, i + 1>> \in Slot
      BY <2>1, SlotParts
    <2> HIDE DEF n
    <2>. QED
      BY <1>3, <2>1, <2>2
  <1>5. Chain(g, r, z)
    <2>1. g.free[r] = Item(z, 1)
      BY <1>1, <1>2, <1>4 DEF Item
    <2>2. ASSUME NEW i \in 1..Len(z)
          PROVE  /\ g.tramp[z[i]].remain = Item(z, i + 1)
                 /\ z[i][1] = r /\ z[i][2] >= 2 /\ ~Busy(g, z[i])
      <3>1. z[i] \in Slot /\ z[i] = <<r, i + 1>> /\ z[i][1] = r /\ z[i][2] = i + 1 /\ Last > 1
        BY <1>4
      <3>2. g.tramp[z[i]].remain = IF i + 1 < Last THEN <<r, (i + 1) + 1>> ELSE Null
        BY <1>1, <1>4, <3>1
      <3>3. Item(z, i + 1) = IF i + 1 < Last THEN <<r, (i + 1) + 1>> ELSE Null
        <4>1. Len(z) = Last - 1 /\ i + 1 \in Nat
          BY <1>4, <3>1
        <4>2. i + 1 < Last <=> i + 1 \in 1..Len(z)
          BY <1>2, <4>1
        <4>3. i + 1 \in 1..Len(z) => z[i + 1] = <<r, (i + 1) + 1>>
          BY <1>4
        <4>. QED
          BY <4>2, <4>3 DEF Item
      <3>4. z[i][2] >= 2
        BY <1>4, <3>1
      <3>5. ~Busy(g, z[i])
        BY <1>1, <3>1
      <3>. QED
        BY <3>1, <3>2, <3>3, <3>4, <3>5
    <2>3. ASSUME NEW i \in 1..Len(z), NEW j \in 1..Len(z), z[i] = z[j] PROVE i = j
      <3>1. <<r, i + 1>> = <<r, j + 1>>
        BY <1>4, <2>3
      <3>. QED
        BY <1>4, <3>1
    <2>4. ASSUME NEW t \in Slot, t[1] = r, t[2] >= 2 PROVE \E i \in 1..Len(z) : z[i] = t
      <3>1. t = <<r, t[2]>> /\ t[2] \in 0..Last
        BY <2>4, SlotParts
      <3>2. t[2] - 1 \in 1..Len(z) /\ (t[2] - 1) + 1 = t[2]
        BY <1>2, <1>4, <2>4, <3>1
      <3>3. z[t[2] - 1] = <<r, (t[2] - 1) + 1>>
        BY <1>4, <3>2
      <3>. QED
        BY <3>1, <3>2, <3>3
    <2>. QED
      BY <1>4, <2>1, <2>2, <2>3, <2>4 DEF Chain
  <1>6. ASSUME NEW p \in Regions(g), p # r PROVE \E y : Chain(g, p, y)
    <2>1. PICK y : Chain(h, p, y)
      BY <1>1, <1>6 DEF ListInv
    <2>2. \A i \in 1..Len(y) : y[i] \in Slot
      BY <2>1 DEF Chain
    <2>3. g.free[p] = h.free[p]
      BY <1>1, <1>2, <1>6
    <2>4. \A t \in Slot : t[1] = p => g.tramp[t] = h.tramp[t] /\ (Busy(g, t) <=> Busy(h, t))
      BY <1>1, <1>6 DEF Busy
    <2>5. Chain(g, p, y)
      BY <2>1, <2>2, <2>3, <2>4 DEF Chain
    <2>. QED
      BY <2>5
  <1>7. \A t \in Slot : Busy(g, t) => t[2] >= 2
    BY <1>1 DEF ListInv, SameUse
  <1>. QED
    BY <1>1, <1>5, <1>6, <1>7 DEF ListInv

\* FreeList satisfies its recursion.
LEMMA FreeListSteps ==
    ASSUME NEW h \in Heap, NEW r \in Region
    PROVE  /\ FreeList(h, r)[0] = h.free[r]
           /\ \A n \in 1..(Last + 1) : FreeList(h, r)[n] =
                 IF FreeList(h, r)[n - 1] \in Slot THEN h.tramp[FreeList(h, r)[n - 1]].remain
                 ELSE Null
  <1> DEFINE N == Last + 1
             A == Slot \cup Function \cup {Null, Break}
             step == [x \in (1..N) \X A |-> IF x[2] \in Slot THEN h.tramp[x[2]].remain ELSE Null]
             W == FreeList(h, r)
             Def(f) == f = [n \in 0..N |-> IF n = 0 THEN h.free[r]
                                          ELSE IF f[n - 1] \in Slot THEN h.tramp[f[n - 1]].remain
                                          ELSE Null]
  <1>1. N \in Nat /\ h.free[r] \in A /\ \A s \in Slot : h.tramp[s].remain \in A
    BY RegionAssumption DEF Heap, Trampoline
  <1>2. step \in [(1..N) \X A -> A]
    <2>1. ASSUME NEW x \in (1..N) \X A PROVE step[x] \in A
      <3>1. x[2] \in A /\ Null \in A
        OBVIOUS
      <3> HIDE DEF A
      <3>. QED
        BY <1>1, <3>1
    <2>. QED
      BY <2>1
  <1> HIDE DEF N, A
  <1>3. PICK f \in [0..N -> A] : f[0] = h.free[r] /\ \A n \in 1..N : f[n] = step[<<n, f[n - 1]>>]
    <2> HIDE DEF step
    <2>1. \E g : Iterates(g, N, A, h.free[r], step)
      BY <1>1, <1>2, Iteration
    <2>. QED
      BY <2>1 DEF Iterates
  <1>4. \A n \in 1..N : f[n] = IF f[n - 1] \in Slot THEN h.tramp[f[n - 1]].remain ELSE Null
    <2> SUFFICES ASSUME NEW n \in 1..N
                 PROVE  step[<<n, f[n - 1]>>] =
                            IF f[n - 1] \in Slot THEN h.tramp[f[n - 1]].remain ELSE Null
      BY <1>3
    <2>1. n - 1 \in 0..N
      BY <1>1
    <2>2. <<n, f[n - 1]>> \in (1..N) \X A
      BY <1>3, <2>1
    <2>. QED
      BY <2>2
  <1>5. Def(f)
    <2> DEFINE v(n) == IF n = 0 THEN h.free[r]
                       ELSE IF f[n - 1] \in Slot THEN h.tramp[f[n - 1]].remain ELSE Null
    <2>1. \A n \in 0..N : f[n] = v(n)
      <3>1. \A n \in 0..N : n = 0 \/ n \in 1..N
        BY <1>1
      <3>2. f[0] = v(0)
        BY <1>3
      <3>3. \A n \in 1..N : f[n] = v(n)
        BY <1>1, <1>4
      <3> HIDE DEF v
      <3>. QED
        BY <3>1, <3>2, <3>3
    <2> HIDE DEF v
    <2>2. f = [n \in 0..N |-> v(n)]
      BY <1>3, <2>1
    <2>. QED
      BY <2>2 DEF v
  <1>6. W = CHOOSE g : Def(g)
    BY Zenon DEF FreeList, N
  <1>7. Def(W)
    <2>1. \E g : Def(g)
      BY <1>5
    <2> HIDE DEF Def
    <2>. QED
      BY <1>6, <2>1, Zenon
  <1> HIDE DEF W, step
  <1>8. W[0] = h.free[r]
    BY <1>1, <1>7
  <1>9. \A n \in 1..N : W[n] = IF W[n - 1] \in Slot THEN h.tramp[W[n - 1]].remain ELSE Null
    BY <1>1, <1>7
  <1>. QED
    BY <1>8, <1>9 DEF W, N

\* A list without repetition has no more entries than its region trampolines.
LEMMA ChainShort ==
    ASSUME NEW h, NEW r, NEW q, Chain(h, r, q)
    PROVE  Len(q) <= Last + 1
  <1> SUFFICES ASSUME ~(Len(q) <= Last + 1) PROVE FALSE
    OBVIOUS
  <1>1. q \in Seq(Slot) /\ Len(q) \in Nat /\ Last \in Nat
    BY RegionAssumption DEF Chain
  <1> DEFINE f == [i \in 1..Len(q) |-> q[i][2]]
  <1>2. f \in [1..Len(q) -> 0..Last]
    BY <1>1, SlotParts
  <1>3. /\ IsFiniteSet(1..Len(q)) /\ Cardinality(1..Len(q)) = Len(q)
        /\ IsFiniteSet(0..Last) /\ Cardinality(0..Last) = Last + 1
    <2>1. /\ IsFiniteSet(1..Len(q))
          /\ Cardinality(1..Len(q)) = IF 1 > Len(q) THEN 0 ELSE Len(q) - 1 + 1
      BY <1>1, FS_Interval
    <2>2. /\ IsFiniteSet(0..Last)
          /\ Cardinality(0..Last) = IF 0 > Last THEN 0 ELSE Last - 0 + 1
      <3>1. 0 \in Int /\ Last \in Int
        BY <1>1
      <3>. QED
        BY <3>1, FS_Interval, Zenon
    <2>. QED
      BY <1>1, <2>1, <2>2
  <1>4. Cardinality(0..Last) < Cardinality(1..Len(q))
    BY <1>1, <1>3
  <1> HIDE DEF f
  <1>5. \E i, j \in 1..Len(q) : i # j /\ f[i] = f[j]
    BY <1>2, <1>3, <1>4, FS_PigeonHole
  <1>6. PICK i \in 1..Len(q), j \in 1..Len(q) : i # j /\ q[i][2] = q[j][2]
    BY <1>5 DEF f
  <1>7. q[i] \in Slot /\ q[j] \in Slot /\ q[i][1] = r /\ q[j][1] = r
    BY <1>1 DEF Chain
  <1>8. q[i] = q[j]
    BY <1>6, <1>7, SlotParts
  <1>. QED
    BY <1>6, <1>8 DEF Chain

\* Walking a region's free list comes to its end, having met exactly the
\* trampolines that are not in use.
LEMMA FreeListMeets ==
    ASSUME NEW h, HeapInv(h), ListInv(h), NEW r \in Regions(h)
    PROVE  /\ FreeList(h, r)[Last + 1] = Null
           /\ OnFreeList(h, r) = {s \in Slot : s[1] = r /\ s[2] >= 2 /\ ~Busy(h, s)}
  <1> DEFINE W == FreeList(h, r)
  <1>1. r \in Region /\ h \in Heap /\ Last \in Nat
    BY RegionsType, RegionAssumption DEF HeapInv
  <1>2. PICK q : Chain(h, r, q)
    BY DEF ListInv
  <1> DEFINE T == {n \in Nat : n <= Last + 1 => W[n] = Item(q, n + 1)}
  <1>3. /\ W[0] = h.free[r]
        /\ \A n \in 1..(Last + 1) : W[n] = IF W[n - 1] \in Slot THEN h.tramp[W[n - 1]].remain ELSE Null
    BY <1>1, FreeListSteps
  <1>4. q \in Seq(Slot) /\ Len(q) \in Nat /\ Len(q) <= Last + 1 /\ \A i \in 1..Len(q) : q[i] \in Slot
    <2>1. q \in Seq(Slot)
      BY <1>2 DEF Chain
    <2>2. Len(q) <= Last + 1
      BY <1>2, ChainShort
    <2>. QED
      BY <2>1, <2>2
  <1> HIDE DEF W
  <1>5. 0 \in T
    BY <1>2, <1>3 DEF Chain
  <1>6. \A n \in Nat : n \in T => n + 1 \in T
    <2> SUFFICES ASSUME NEW n \in Nat, n \in T, n + 1 <= Last + 1
                 PROVE  W[n + 1] = Item(q, (n + 1) + 1)
      OBVIOUS
    <2>1. W[n] = Item(q, n + 1)
      BY <1>1
    <2>2. W[n + 1] = IF W[n] \in Slot THEN h.tramp[W[n]].remain ELSE Null
      <3>1. n + 1 \in 1..(Last + 1) /\ (n + 1) - 1 = n
        BY <1>1
      <3>. QED
        BY <1>3, <3>1
    <2>3. CASE n + 1 \in 1..Len(q)
      <3>1. W[n] = q[n + 1] /\ q[n + 1] \in Slot
        BY <1>4, <2>1, <2>3 DEF Item
      <3>2. h.tramp[q[n + 1]].remain = Item(q, (n + 1) + 1)
        BY <1>2, <2>3 DEF Chain
      <3>. QED
        BY <2>2, <3>1, <3>2
    <2>4. CASE n + 1 \notin 1..Len(q)
      <3>1. W[n] = Null /\ Item(q, (n + 1) + 1) = Null
        BY <1>4, <2>1, <2>4 DEF Item
      <3>. QED
        BY <2>2, <3>1, SlotParts
    <2>. QED
      BY <2>3, <2>4
  <1> HIDE DEF T
  <1>7. Nat \subseteq T
    BY <1>5, <1>6, SetInduction
  <1>8. \A n \in 0..(Last + 1) : W[n] = Item(q, n + 1)
    BY <1>1, <1>7 DEF T
  <1>9. W[Last + 1] = Null
    <2>1. Last + 1 \in 0..(Last + 1) /\ (Last + 1) + 1 \notin 1..Len(q)
      BY <1>1, <1>4
    <2>. QED
      BY <1>8, <2>1 DEF Item
  <1>10. OnFreeList(h, r) = {s \in Slot : \E n \in 0..(Last + 1) : W[n] = s}
    BY DEF OnFreeList, W
  <1>11. ASSUME NEW s \in Slot
         PROVE  (\E n \in 0..(Last + 1) : W[n] = s) <=> (s[1] = r /\ s[2] >= 2 /\ ~Busy(h, s))
    <2>1. ASSUME NEW n \in 0..(Last + 1), W[n] = s PROVE s[1] = r /\ s[2] >= 2 /\ ~Busy(h, s)
      <3>1. Item(q, n + 1) = s
        BY <1>8, <2>1
      <3>2. n + 1 \in 1..Len(q) /\ q[n + 1] = s
        BY <3>1, SlotParts DEF Item
      <3>. QED
        BY <1>2, <3>2 DEF Chain
    <2>2. ASSUME s[1] = r, s[2] >= 2, ~Busy(h, s) PROVE \E n \in 0..(Last + 1) : W[n] = s
      <3>1. PICK i \in 1..Len(q) : q[i] = s
        BY <1>2, <2>2 DEF Chain
      <3>2. i - 1 \in 0..(Last + 1) /\ (i - 1) + 1 = i
        BY <1>1, <1>4
      <3>3. W[i - 1] = s
        BY <1>8, <3>1, <3>2 DEF Item
      <3>. QED
        BY <3>2, <3>3
    <2>. QED
      BY <2>1, <2>2
  <1>. QED
    BY <1>9, <1>10, <1>11 DEF W

----------------------------------------------------------------------------
(* detour_alloc_trampoline.                                                *)

\* g is h with regions added, which can be written.
Grown(g, h) ==
    /\ HeapInv(g) /\ SameUse(g, h)
    /\ Regions(h) \subseteq Regions(g)
    /\ h.writable \subseteq g.writable
    /\ Regions(g) \ Regions(h) \subseteq g.writable
    /\ \A t \in Slot : t[1] \in Regions(h) => g.tramp[t] = h.tramp[t]
    /\ ListInv(h) => ListInv(g)

LEMMA FirstUsableListed ==
    ASSUME NEW h \in Heap, NEW f, FirstUsable(h, f) # Null
    PROVE  FirstUsable(h, f) \in Regions(h) /\ Usable(h, FirstUsable(h, f), f)
  <1> DEFINE ok == {i \in DOMAIN h.regions : Usable(h, h.regions[i], f)}
  <1>1. ok # {} /\ ok \in SUBSET Nat
    BY DEF FirstUsable, Heap
  <1>2. \E i \in ok : \A j \in ok : i <= j
    BY <1>1, LeastElement
  <1>3. FirstUsable(h, f) = h.regions[CHOOSE i \in ok : \A j \in ok : i <= j]
    BY <1>1 DEF FirstUsable
  <1>4. \E i \in ok : FirstUsable(h, f) = h.regions[i]
    BY <1>2, <1>3
  <1>. QED
    BY <1>4 DEF Regions

\* What an allocation results in: no trampoline, or the head of a free list,
\* taken from a heap that may have a region more.
LEMMA AllocInv ==
    ASSUME NEW h, HeapInv(h), NEW f \in Function, NEW res \in AllocTrampoline(h, f)
    PROVE  \/ res[2] = Null /\ Grown(res[1], h)
           \/ \E g : /\ Grown(g, h)
                    /\ \E r \in Regions(g) :
                          g.free[r] # Null /\ res = <<Pop(g, r), g.free[r]>>
  <1> DEFINE d == Default(h)
             u == FirstUsable(h, f)
             none == [h EXCEPT !.default = Null]
             new(r) == NewRegion(none, r)
  <1>1. h \in Heap
    BY DEF HeapInv
  <1>2. Grown(h, h)
    BY DEF Grown, SameUse
  <1>3. d # Null => d \in Regions(h)
    <2>1. h.regions # <<>> => Head(h.regions) = h.regions[1] /\ 1 \in DOMAIN h.regions
      BY <1>1 DEF Heap
    <2>. QED
      BY <2>1 DEF Default, HeapInv, DefaultListed, Regions
  <1>4. CASE d # Null /\ Usable(h, d, f)
    <2>1. res = <<Pop(h, d), h.free[d]>> /\ h.free[d] # Null
      BY <1>4 DEF AllocTrampoline, Usable
    <2>. QED
      BY <1>2, <1>3, <1>4, <2>1
  <1>5. CASE ~(d # Null /\ Usable(h, d, f)) /\ u # Null
    <2>1. u \in Regions(h) /\ h.free[u] # Null
      BY <1>1, <1>5, FirstUsableListed DEF Usable
    <2>2. res = <<Pop(h, u), h.free[u]>>
      BY <1>5 DEF AllocTrampoline
    <2>. QED
      BY <1>2, <2>1, <2>2
  <1>6. CASE ~(d # Null /\ Usable(h, d, f)) /\ u = Null
    <2>1. /\ HeapInv(none) /\ Regions(none) = Regions(h) /\ SameUse(none, h)
          /\ none.tramp = h.tramp /\ none.writable = h.writable /\ none.free = h.free
      BY DefaultInv
    <2>5. ListInv(h) => ListInv(none)
      <3> HIDE DEF none
      <3>. QED
        BY <2>1, SameList
    <2>2. CASE res = <<none, Null>>
      BY <2>1, <2>2, <2>5 DEF Grown
    <2>3. ASSUME NEW r \in Around[f] \ Regions(h),
                 res = IF Usable(new(r), r, f) THEN <<Pop(new(r), r), new(r).free[r]>>
                       ELSE <<new(r), Null>>
          PROVE  \/ res[2] = Null /\ Grown(res[1], h)
                 \/ \E g : /\ Grown(g, h)
                          /\ \E q \in Regions(g) :
                                g.free[q] # Null /\ res = <<Pop(g, q), g.free[q]>>
      <3>1. r \in Region
        BY RegionAssumption
      <3> HIDE DEF none
      <3>2. /\ HeapInv(new(r)) /\ SameUse(new(r), none)
            /\ Regions(new(r)) = Regions(none) \cup {r} /\ new(r).writable = none.writable \cup {r}
            /\ \A t \in Slot : t[1] # r => new(r).tramp[t] = none.tramp[t]
        <4>1. HeapInv(none) /\ r \in Region /\ r \notin Regions(none)
          BY <2>1, <3>1
        <4>. QED
          BY <4>1, NewRegionInv, ZenonT(30)
      <3>6. ListInv(h) => ListInv(new(r))
        BY <2>1, <2>5, <3>1, NewRegionList
      <3>3. Grown(new(r), h)
        BY <2>1, <3>2, <3>6 DEF Grown, SameUse, Busy
      <3> HIDE DEF new
      <3>4. CASE Usable(new(r), r, f)
        BY <2>3, <3>2, <3>3, <3>4 DEF Usable
      <3>5. CASE ~Usable(new(r), r, f)
        BY <2>3, <3>3, <3>5
      <3>. QED
        BY <3>4, <3>5
    <2>4. \/ res = <<none, Null>>
          \/ \E r \in Around[f] \ Regions(h) :
               res = IF Usable(new(r), r, f) THEN <<Pop(new(r), r), new(r).free[r]>>
                     ELSE <<new(r), Null>>
      <3> HIDE DEF none, d, u
      <3>. QED
        BY <1>6 DEF AllocTrampoline, none, d, u
    <2>. QED
      BY <2>2, <2>3, <2>4
  <1>. QED
    BY <1>4, <1>5, <1>6
=============================================================================
