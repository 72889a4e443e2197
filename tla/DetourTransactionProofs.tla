---------------------- MODULE DetourTransactionProofs ----------------------
(***************************************************************************)
(* Proofs about Detours transactions, for any number of clients, pointers, *)
(* functions and regions.                                                  *)
(***************************************************************************)
EXTENDS DetourTransaction, TrampolineRegionsProofs

\* A commit has written the code and not yet ended its operations.
Committed == \E c \in Client : pc[c] = "ops" /\ closing[c] = "commit"

\* The transaction belongs to the client that is in it, and what it holds is
\* gone when it is over.  Threads are suspended because they belong to it, or
\* because they could not be resumed.
OwnerInv ==
    /\ \A c \in Client : pc[c] \in {"open", "ops"} <=> owner = c
    /\ owner = Null => threads = {} /\ ops = <<>>
    /\ suspended = threads \cup stuck
    /\ unmoved # {} => \E c \in Client : pc[c] = "ops"

\* An operation names a trampoline that leads to the function of its pointer.
\* The pointer is attached unless the operation has yet to attach it, has
\* detached it, or is one of a transaction that was aborted.
OpGood(o) ==
    /\ Start[o.p] # Null
    /\ o.target = FunctionOf(o.p)
    /\ heap.tramp[o.slot] = [remain |-> o.target, detour |-> DetourOf[o.p], restore |-> Null]
    /\ IF o.remove <=> Committed THEN Clear(o.p) ELSE Hooked(o.p) /\ pointer[o.p] = o.slot

OpsInv ==
    /\ \A i \in DOMAIN ops : OpGood(ops[i])
    /\ \A i, j \in DOMAIN ops : ops[i].p = ops[j].p => i = j

PointerGood(p) == IF Start[p] = Null THEN pointer[p] = Null ELSE Hooked(p) \/ Clear(p)
PointersInv == \A p \in Pointer : PointerGood(p)

\* No trampoline is in use but by a pointer or an operation.
UseInv == \A s \in Slot : Busy(heap, s) => s \in InUse

\* An operation found its page as the operations before it had left it, or
\* those of a transaction whose page could not be protected again.
Found(i) ==
    IF \/ \E j \in DOMAIN ops : i < j /\ PageOf[ops[j].target] = PageOf[ops[i].target]
       \/ PageOf[ops[i].target] \in unrestored
    THEN "writable" ELSE "code"
ProtInv == PagesProtected /\ \A i \in DOMAIN ops : ops[i].perm = Found(i)

\* Trampolines are only written when all regions could be made writable.
WriteInv == owner # Null /\ (~failed \/ ops # <<>>) => Regions(heap) \subseteq heap.writable

Inv ==
    /\ TypeOK /\ HeapInv(heap) /\ OwnerInv /\ OpsInv /\ PointersInv
    /\ UseInv /\ ProtInv /\ WriteInv

\* What a step may write (NeverFaults).
WritesWell ==
    /\ \A s \in Slot : heap'.tramp[s] # heap.tramp[s] /\ s[1] \in Regions(heap) \cap Regions(heap)'
                       => s[1] \in heap.writable
    /\ \A f \in Function : entry'[f] # entry[f] => prot[PageOf[f]] = "writable"

----------------------------------------------------------------------------
(* Functions, pointers and operations.                                     *)

\* Every pointer that is not null stands for a function of its own.
LEMMA FunctionsDistinct ==
    /\ \A p \in Pointer : Start[p] # Null => FunctionOf(p) \in Function
    /\ \A p, q \in Pointer : Start[p] # Null /\ Start[q] # Null /\ FunctionOf(p) = FunctionOf(q)
                             => p = q
  BY DetourAssumption DEF FunctionOf

\* A function leads to itself and is no trampoline.
LEMMA FunctionLeads ==
    /\ \A f \in Function : f \in Address /\ Leads[f] = f
    /\ \A a \in Address : a \notin Slot /\ a # Null /\ Leads[a] \in Function
    /\ \A f \in Function : f # Null /\ f \notin Slot
  BY DetourAssumption, RegionAssumption

\* The operation of an index.
LEMMA OpType ==
    ASSUME TypeOK, OpsInv, NEW i \in DOMAIN ops
    PROVE  /\ ops[i] \in Operation /\ ops[i].p \in Pointer /\ ops[i].slot \in Slot
           /\ ops[i].target \in Function /\ ops[i].remove \in BOOLEAN
           /\ ops[i].perm \in {"code", "writable"}
           /\ OpGood(ops[i]) /\ Busy(heap, ops[i].slot)
  <1>1. ops[i] \in Operation
    BY DEF TypeOK
  <1>2. OpGood(ops[i])
    BY DEF OpsInv
  <1>3. heap.tramp[ops[i].slot].remain = ops[i].target
    BY <1>2 DEF OpGood
  <1>. QED
    BY <1>1, <1>2, <1>3 DEF Operation, Busy

\* The pointer of a trampoline in use by a pointer.
LEMMA PointerSlot ==
    ASSUME PointersInv, NEW p \in Pointer, pointer[p] \in Slot
    PROVE  /\ Start[p] # Null /\ Hooked(p) /\ ~Clear(p)
           /\ heap.tramp[pointer[p]].remain = FunctionOf(p) /\ Busy(heap, pointer[p])
  <1>1. pointer[p] # Null /\ pointer[p] \notin Address
    BY FunctionLeads, SlotParts
  <1>2. Start[p] # Null /\ Hooked(p) /\ ~Clear(p)
    BY <1>1 DEF PointersInv, PointerGood, Clear
  <1>3. heap.tramp[pointer[p]].remain = FunctionOf(p)
    BY <1>2 DEF Hooked
  <1>. QED
    BY <1>2, <1>3, FunctionsDistinct DEF Busy

\* A trampoline belongs to one operation only.
LEMMA OpSlots ==
    ASSUME TypeOK, OpsInv, NEW i \in DOMAIN ops, NEW j \in DOMAIN ops,
           ops[i].slot = ops[j].slot \/ ops[i].target = ops[j].target
    PROVE  i = j
  <1>1. OpGood(ops[i]) /\ OpGood(ops[j]) /\ ops[i].p \in Pointer /\ ops[j].p \in Pointer
    BY OpType
  <1>2. FunctionOf(ops[i].p) = FunctionOf(ops[j].p)
    BY <1>1 DEF OpGood
  <1>3. ops[i].p = ops[j].p
    BY <1>1, <1>2, FunctionsDistinct DEF OpGood
  <1>. QED
    BY <1>3 DEF OpsInv

\* A step that neither changes trampolines in use nor takes new ones, and
\* leaves the operations and the code alone, keeps what is said of them.
LEMMA Frame ==
    ASSUME TypeOK, OpsInv, PointersInv, UseInv, SameUse(heap', heap),
           UNCHANGED <<ops, pointer, entry>>, (Committed' <=> Committed) \/ ops = <<>>
    PROVE  OpsInv' /\ PointersInv' /\ UseInv'
  <1>1. ASSUME NEW p \in Pointer PROVE (Clear(p)' = Clear(p)) /\ (Hooked(p) => Hooked(p)')
    <2>1. Clear(p)' = Clear(p)
      BY DEF Clear, CodeFromPointer
    <2>2. ASSUME Hooked(p), Start[p] # Null PROVE Hooked(p)'
      <3>1. Busy(heap, pointer[p]) /\ pointer[p] \in Slot
        BY <2>2, FunctionsDistinct DEF Hooked, Busy
      <3>2. heap'.tramp[pointer[p]] = heap.tramp[pointer[p]]
        BY <3>1 DEF SameUse
      <3>. QED
        BY <2>2, <3>2 DEF Hooked
    <2>3. Hooked(p) => Start[p] # Null
      <3>1. Start[p] = Null => pointer[p] \notin Slot
        BY SlotParts DEF PointersInv, PointerGood
      <3>. QED
        BY <3>1 DEF Hooked
    <2>. QED
      BY <2>1, <2>2, <2>3
  <1>2. ASSUME NEW i \in DOMAIN ops PROVE OpGood(ops[i])'
    <2>1. OpGood(ops[i]) /\ ops[i].p \in Pointer /\ ops[i].slot \in Slot /\ Busy(heap, ops[i].slot)
      BY OpType
    <2>2. heap'.tramp[ops[i].slot] = heap.tramp[ops[i].slot]
      BY <2>1 DEF SameUse
    <2>3. (Committed' <=> Committed) /\ ops'[i] = ops[i]
      BY <1>2
    <2>. QED
      BY <2>1, <2>2, <2>3, <1>1 DEF OpGood
  <1>3. OpsInv'
    BY <1>2 DEF OpsInv
  <1>4. PointersInv'
    BY <1>1 DEF PointersInv, PointerGood
  <1>5. InUse' = InUse
    BY DEF InUse
  <1>6. UseInv'
    BY <1>5 DEF UseInv, SameUse
  <1>. QED
    BY <1>3, <1>4, <1>6

\* Nobody else is in the transaction of its owner.
LEMMA OwnerAlone ==
    ASSUME TypeOK, OwnerInv, NEW c \in Client, pc[c] \in {"open", "ops"}
    PROVE  /\ owner = c /\ owner # Null
           /\ \A d \in Client : pc[d] \in {"open", "ops"} => d = c
           /\ Committed <=> pc[c] = "ops" /\ closing[c] = "commit"
  <1>1. owner = c /\ owner # Null
    BY DetourAssumption DEF OwnerInv
  <1>2. \A d \in Client : pc[d] \in {"open", "ops"} => d = c
    BY <1>1 DEF OwnerInv
  <1>. QED
    BY <1>1, <1>2 DEF Committed

LEMMA SameHeapUse == SameUse(heap, heap)
  BY DEF SameUse

LEMMA SameProt ==
    ASSUME ProtInv, UNCHANGED <<ops, prot, unrestored>>
    PROVE  ProtInv'
  BY DEF ProtInv, PagesProtected, Found

----------------------------------------------------------------------------
(* The initial state and the steps that only the transaction's mode, its   *)
(* threads and its owner know of.                                          *)

LEMMA InitInv == Init => Inv
  <1> SUFFICES ASSUME Init PROVE Inv
    OBVIOUS
  <1>1. HeapInv(heap) /\ Regions(heap) = {}
    BY EmptyHeapInv DEF Init
  <1>2. TypeOK
    <2>1. heap \in Heap
      BY <1>1 DEF HeapInv
    <2>2. DOMAIN eip = Thread /\ \A t \in Thread : eip[t].at = Null
      BY DEF Init, Nowhere
    <2>3. /\ failed \in BOOLEAN /\ freed \in BOOLEAN
          /\ ignoreTooSmall \in BOOLEAN /\ retainRegions \in BOOLEAN
      BY DEF Init
    <2>6. transactions \in 0..MaxTransactions
      BY DetourAssumption DEF Init
    <2>5. /\ owner \in Client \cup {Null}
          /\ threads \subseteq Thread /\ suspended \subseteq Thread
          /\ stuck \subseteq Thread /\ unmoved \subseteq Thread /\ unrestored \subseteq Page
          /\ ops \in Seq(Operation)
      BY DEF Init
    <2>4. /\ pointer \in [Pointer -> Address \cup Slot \cup {Null}]
          /\ entry \in [Function -> Slot \cup {Null, Break}]
          /\ prot \in [Page -> {"code", "writable"}]
          /\ pc \in [Client -> {"idle", "open", "ops", "return"}]
          /\ closing \in [Client -> {"none", "commit", "abort", "drop"}]
          /\ answer \in [Client -> {"none", "success", "error", "dropped"}]
      BY DetourAssumption DEF Init
    <2>. QED
      BY <2>1, <2>2, <2>3, <2>4, <2>5, <2>6 DEF TypeOK
  <1>3. OwnerInv
    BY DetourAssumption DEF Init, OwnerInv
  <1>4. OpsInv
    BY DEF Init, OpsInv
  <1>5. PointersInv
    <2> SUFFICES ASSUME NEW p \in Pointer, Start[p] # Null PROVE Clear(p)
      BY DEF PointersInv, PointerGood, Init
    <2>1. pointer[p] = Start[p] /\ Start[p] \in Address /\ FunctionOf(p) \in Function
      BY DetourAssumption, FunctionsDistinct DEF Init
    <2>. QED
      BY <2>1 DEF Clear, CodeFromPointer, FunctionOf, Init
  <1>6. UseInv
    <2>1. \A s \in Slot : heap.tramp[s].remain = Null
      BY DEF Init, EmptyHeap, Filled
    <2>. QED
      BY <2>1, SlotParts DEF UseInv, Busy
  <1>7. ProtInv
    BY DEF Init, ProtInv, PagesProtected
  <1>8. WriteInv
    BY DEF Init, WriteInv
  <1>. QED
    BY <1>1, <1>2, <1>3, <1>4, <1>5, <1>6, <1>7, <1>8 DEF Inv

LEMMA ModesInv ==
    ASSUME Inv, NEW c \in Client, SetIgnoreTooSmall(c) \/ SetRetainRegions(c)
    PROVE  Inv' /\ WritesWell
  <1>1. UNCHANGED <<heap, own, code, held, refused, ctrl>>
    BY DEF SetIgnoreTooSmall, SetRetainRegions
  <1>2. UNCHANGED <<heap, owner, failed, threads, ops, pointer, entry, prot, suspended, eip, stuck,
                    unmoved, unrestored, pc, closing, answer, freed, transactions>>
    BY <1>1 DEF own, code, held, refused, ctrl
  <1>3. ignoreTooSmall' \in BOOLEAN /\ retainRegions' \in BOOLEAN
    BY DEF SetIgnoreTooSmall, SetRetainRegions, Inv, TypeOK
  <1>4. TypeOK'
    BY <1>2, <1>3 DEF Inv, TypeOK
  <1>5. Committed' <=> Committed
    BY <1>2 DEF Committed
  <1>6. OpsInv' /\ PointersInv' /\ UseInv'
    BY <1>2, <1>5, SameHeapUse, Frame DEF Inv
  <1>7. OwnerInv' /\ HeapInv(heap') /\ WriteInv' /\ ProtInv'
    BY <1>2, SameProt DEF Inv, OwnerInv, WriteInv
  <1>. QED
    BY <1>2, <1>4, <1>6, <1>7 DEF Inv, WritesWell

LEMMA BeginInv ==
    ASSUME Inv, NEW c \in Client, Begin(c)
    PROVE  Inv' /\ WritesWell
  <1>1. PICK n \in 0..Len(heap.regions) : heap' = MakeWritable(heap, n) /\ failed' = (n < Len(heap.regions))
    BY DEF Begin
  <1>2. /\ owner = Null /\ owner' = c /\ threads' = {} /\ ops' = <<>>
        /\ pc[c] = "idle" /\ pc' = [pc EXCEPT ![c] = "open"]
        /\ transactions < MaxTransactions /\ transactions' = transactions + 1
        /\ UNCHANGED <<pointer, entry, prot, suspended, eip, stuck, unmoved, unrestored,
                       ignoreTooSmall, retainRegions, closing, answer, freed>>
    BY DEF Begin, code, held, refused, modes
  <1>3. ops = <<>> /\ threads = {} /\ ops' = ops /\ threads' = threads
    BY <1>2 DEF Inv, OwnerInv
  <1>4. /\ HeapInv(heap') /\ Regions(heap') = Regions(heap) /\ SameUse(heap', heap)
        /\ heap'.tramp = heap.tramp /\ (n = Len(heap.regions) => Regions(heap') \subseteq heap'.writable)
    BY <1>1, MakeWritableInv DEF Inv
  <1>5. TypeOK'
    <2>1. heap' \in Heap /\ Len(heap.regions) \in Nat
      BY <1>4 DEF HeapInv, Inv, Heap
    <2>2. failed' \in BOOLEAN /\ transactions' \in 0..MaxTransactions
      BY <1>1, <1>2, <2>1, DetourAssumption DEF Inv, TypeOK
    <2>. QED
      BY <1>2, <1>3, <2>1, <2>2 DEF Inv, TypeOK
  <1>6. OwnerInv'
    BY <1>2, <1>3, DetourAssumption DEF Inv, OwnerInv, TypeOK
  <1>7. OpsInv' /\ PointersInv' /\ UseInv'
    BY <1>2, <1>3, <1>4, Frame DEF Inv
  <1>8. ProtInv'
    BY <1>2, <1>3, SameProt DEF Inv
  <1>9. WriteInv'
    <2>1. Len(heap.regions) \in Nat
      BY DEF Inv, TypeOK, Heap
    <2>3. ~failed' => ~(n < Len(heap.regions))
      BY <1>1, Zenon
    <2>2. ~failed' => n = Len(heap.regions)
      BY <2>1, <2>3
    <2>. QED
      BY <1>2, <1>4, <2>2 DEF WriteInv
  <1>. QED
    BY <1>2, <1>4, <1>5, <1>6, <1>7, <1>8, <1>9 DEF Inv, WritesWell

LEMMA PlacesType ==
    ASSUME NEW e \in Places
    PROVE  e.at \in Function \cup Slot \cup {Null}
  <1> DEFINE F == {g \in Function : entry[g] = Null}
             S == {u \in Slot : Attached(u)}
             A(f) == {[at |-> f, off |-> Offset[f][n]] : n \in 0..Copied[f]}
             B(s) == {[at |-> s, off |-> CopyOffset[heap.tramp[s].remain][n]]
                       : n \in 0..Copied[heap.tramp[s].remain]} \cup {[at |-> s, off |-> RbCodeIn]}
  <1>1. CASE e = Nowhere
    BY <1>1 DEF Nowhere
  <1>2. CASE \E f \in F : e \in A(f)
    BY <1>2
  <1>3. CASE \E s \in S : e \in B(s)
    BY <1>3
  <1>4. e = Nowhere \/ (\E f \in F : e \in A(f)) \/ (\E s \in S : e \in B(s))
    BY DEF Places
  <1>. QED
    BY <1>1, <1>2, <1>3, <1>4

LEMMA UpdateThreadInv ==
    ASSUME Inv, NEW c \in Client, NEW t \in Thread, UpdateThread(c, t)
    PROVE  Inv' /\ WritesWell
  <1>1. /\ pc[c] = "open" /\ ~failed
        /\ UNCHANGED <<heap, owner, ops, pointer, entry, prot, stuck, unmoved, unrestored,
                       ignoreTooSmall, retainRegions, pc, closing, answer, freed, transactions>>
    BY DEF UpdateThread, code, refused, modes, ctrl
  <1>2. owner = c /\ owner # Null
    BY <1>1, OwnerAlone DEF Inv
  <1>3. /\ failed' \in BOOLEAN /\ threads' \subseteq Thread /\ suspended' = threads' \cup stuck
    BY DEF UpdateThread, held, Inv, OwnerInv, TypeOK
  <1>4. DOMAIN eip' = Thread /\ \A u \in Thread : eip'[u].at \in Function \cup Slot \cup {Null}
    <2>1. CASE \E e \in Places : eip' = [eip EXCEPT ![t] = e]
      BY <2>1, PlacesType DEF Inv, TypeOK
    <2>2. CASE eip' = eip
      BY <2>2 DEF Inv, TypeOK
    <2>. QED
      BY <2>1, <2>2 DEF UpdateThread, held
  <1>5. TypeOK'
    BY <1>1, <1>3, <1>4 DEF Inv, TypeOK
  <1>6. Committed' <=> Committed
    BY <1>1 DEF Committed
  <1>7. OpsInv' /\ PointersInv' /\ UseInv'
    BY <1>1, <1>6, SameHeapUse, Frame DEF Inv
  <1>8. OwnerInv' /\ ProtInv' /\ WriteInv'
    BY <1>1, <1>2, <1>3, SameProt DEF Inv, OwnerInv, WriteInv
  <1>. QED
    BY <1>1, <1>5, <1>7, <1>8 DEF Inv, WritesWell

----------------------------------------------------------------------------
(* Collecting operations.                                                  *)

\* A call that fails, or is ignored, gives back what it took.
LEMMA FailInv ==
    ASSUME Inv, NEW c \in Client, pc[c] = "open", ~failed, NEW b \in BOOLEAN, Fail(b),
           HeapInv(heap'), SameUse(heap', heap), Regions(heap') \subseteq heap'.writable
    PROVE  Inv'
  <1>1. /\ failed' = ~b
        /\ UNCHANGED <<owner, threads, ops, pointer, entry, prot, suspended, eip, stuck, unmoved,
                       unrestored, ignoreTooSmall, retainRegions, pc, closing, answer, freed,
                       transactions>>
    BY DEF Fail, code, held, refused, modes, ctrl
  <1>2. heap' \in Heap
    BY DEF HeapInv
  <1>3. failed' \in BOOLEAN
    BY <1>1
  <1>4. TypeOK'
    BY <1>1, <1>2, <1>3 DEF Inv, TypeOK
  <1>5. Committed' <=> Committed
    BY <1>1 DEF Committed
  <1>6. OpsInv' /\ PointersInv' /\ UseInv'
    BY <1>1, <1>5, Frame DEF Inv
  <1>7. OwnerInv' /\ ProtInv' /\ WriteInv'
    BY <1>1, SameProt DEF Inv, OwnerInv, WriteInv
  <1>. QED
    BY <1>4, <1>6, <1>7 DEF Inv

\* The list of operations with one more at its head.
LEMMA PushSeq ==
    ASSUME NEW S, NEW q \in Seq(S), NEW o \in S
    PROVE  LET z == <<o>> \o q
           IN  /\ z \in Seq(S)
               /\ DOMAIN z = 1..(Len(q) + 1) /\ DOMAIN q = 1..Len(q) /\ Len(q) \in Nat
               /\ z[1] = o /\ \A i \in 1..Len(q) : z[i + 1] = q[i]
               /\ \A i \in DOMAIN z : i = 1 \/ (i - 1 \in DOMAIN q /\ z[i] = q[i - 1])
  OBVIOUS

\* A new operation, for a pointer that has none, of which all is true that the
\* invariant says of operations.
LEMMA PushInv ==
    ASSUME Inv, NEW c \in Client, pc[c] = "open", ~failed,
           NEW o \in Operation, Push(o), o.p \notin Wanted,
           HeapInv(heap'), \A s \in Slot : Busy(heap, s) => heap'.tramp[s] = heap.tramp[s],
           \A s \in Slot : Busy(heap', s) => Busy(heap, s) \/ s = o.slot,
           Regions(heap') \subseteq heap'.writable,
           Start[o.p] # Null, o.target = FunctionOf(o.p),
           heap'.tramp[o.slot] = [remain |-> o.target, detour |-> DetourOf[o.p], restore |-> Null],
           IF o.remove THEN Hooked(o.p) /\ pointer[o.p] = o.slot ELSE Clear(o.p)
    PROVE  Inv'
  <1> DEFINE g == PageOf[o.target]
  <1>0. /\ o.p \in Pointer /\ o.target \in Function /\ o.slot \in Slot /\ o.remove \in BOOLEAN
        /\ g \in Page /\ prot[g] \in {"code", "writable"} /\ ops \in Seq(Operation)
    BY DetourAssumption DEF Operation, Inv, TypeOK
  <1>a. PICK x : x = [o EXCEPT !.perm = prot[g]]
    OBVIOUS
  <1>1. /\ x \in Operation /\ x.p = o.p /\ x.target = o.target /\ x.slot = o.slot
        /\ x.remove = o.remove /\ x.perm = prot[g]
    BY <1>0, <1>a DEF Operation
  <1>2. /\ ops' = <<x>> \o ops /\ prot' = [prot EXCEPT ![g] = "writable"]
        /\ UNCHANGED <<owner, failed, threads, pointer, entry, suspended, eip, stuck, unmoved,
                       unrestored, ignoreTooSmall, retainRegions, pc, closing, answer, freed,
                       transactions>>
    BY <1>a DEF Push, held, refused, modes, ctrl
  <1> HIDE DEF g
  <1>3. /\ ops' \in Seq(Operation)
        /\ DOMAIN ops' = 1..(Len(ops) + 1) /\ DOMAIN ops = 1..Len(ops) /\ Len(ops) \in Nat
        /\ ops'[1] = x /\ \A i \in 1..Len(ops) : ops'[i + 1] = ops[i]
        /\ \A i \in DOMAIN ops' : i = 1 \/ (i - 1 \in DOMAIN ops /\ ops'[i] = ops[i - 1])
    BY <1>0, <1>1, <1>2, PushSeq
  <1>4. TypeOK'
    <2>1. heap' \in Heap
      BY DEF HeapInv
    <2>2. prot' \in [Page -> {"code", "writable"}]
      BY <1>2 DEF Inv, TypeOK
    <2>. QED
      BY <1>2, <1>3, <2>1, <2>2 DEF Inv, TypeOK
  <1>5. owner # Null /\ ~Committed /\ ~Committed'
    <2>1. owner # Null /\ ~Committed
      BY OwnerAlone DEF Inv
    <2>. QED
      BY <1>2, <2>1 DEF Committed
  <1>6. OwnerInv'
    BY <1>2, <1>5 DEF Inv, OwnerInv
  <1>7. ASSUME NEW p \in Pointer PROVE Clear(p)' = Clear(p) /\ (Hooked(p) /\ Start[p] # Null => Hooked(p)')
    <2>1. Clear(p)' = Clear(p)
      BY <1>2 DEF Clear, CodeFromPointer
    <2>2. ASSUME Hooked(p), Start[p] # Null PROVE Hooked(p)'
      <3>1. Busy(heap, pointer[p]) /\ pointer[p] \in Slot
        BY <2>2, FunctionsDistinct DEF Hooked, Busy
      <3>2. heap'.tramp[pointer[p]] = heap.tramp[pointer[p]]
        BY <3>1
      <3>. QED
        BY <1>2, <2>2, <3>2 DEF Hooked
    <2>. QED
      BY <2>1, <2>2
  <1>8. OpGood(x)'
    <2>1. IF x.remove THEN Hooked(x.p)' /\ pointer'[x.p] = x.slot ELSE Clear(x.p)'
      BY <1>0, <1>1, <1>2, <1>7
    <2>2. heap'.tramp[x.slot] = [remain |-> x.target, detour |-> DetourOf[x.p], restore |-> Null]
      BY <1>1
    <2>3. (x.remove <=> Committed') <=> ~x.remove
      BY <1>5
    <2>. QED
      BY <1>1, <2>1, <2>2, <2>3 DEF OpGood
  <1>9. ASSUME NEW i \in DOMAIN ops, NEW y, y = ops[i] PROVE OpGood(y)'
    <2>1. OpGood(y) /\ y.p \in Pointer /\ y.slot \in Slot /\ Busy(heap, y.slot)
      BY <1>9, OpType DEF Inv
    <2>2. heap'.tramp[y.slot] = heap.tramp[y.slot]
      BY <2>1
    <2>. QED
      BY <1>2, <1>5, <1>7, <2>1, <2>2 DEF OpGood
  <1>10. OpsInv'
    <2>1. ASSUME NEW i \in DOMAIN ops', NEW y, y = ops'[i] PROVE OpGood(y)'
      <3>1. CASE i = 1
        BY <1>3, <1>8, <2>1, <3>1
      <3>2. CASE i - 1 \in DOMAIN ops /\ ops'[i] = ops[i - 1]
        BY <1>9, <2>1, <3>2
      <3>. QED
        BY <1>3, <3>1, <3>2
    <2>2. \A i \in DOMAIN ops : ops[i].p # x.p
      BY <1>1 DEF Wanted
    <2>3. ASSUME NEW i \in DOMAIN ops', NEW j \in DOMAIN ops', ops'[i].p = ops'[j].p PROVE i = j
      <3>1. CASE i = 1 /\ j - 1 \in DOMAIN ops /\ ops'[j] = ops[j - 1]
        BY <1>3, <2>2, <2>3, <3>1
      <3>2. CASE j = 1 /\ i - 1 \in DOMAIN ops /\ ops'[i] = ops[i - 1]
        BY <1>3, <2>2, <2>3, <3>2
      <3>3. CASE /\ i - 1 \in DOMAIN ops /\ ops'[i] = ops[i - 1]
                 /\ j - 1 \in DOMAIN ops /\ ops'[j] = ops[j - 1]
        <4>1. i - 1 = j - 1
          BY <2>3, <3>3 DEF Inv, OpsInv
        <4>. QED
          BY <1>3, <4>1
      <3>. QED
        BY <1>3, <3>1, <3>2, <3>3
    <2>. QED
      BY <2>1, <2>3 DEF OpsInv, OpGood
  <1>11. PointersInv'
    BY <1>2, <1>7 DEF Inv, PointersInv, PointerGood
  <1>12. UseInv'
    <2> SUFFICES ASSUME NEW s \in Slot, Busy(heap', s) PROVE s \in InUse'
      BY DEF UseInv
    <2>1. CASE s = o.slot
      <3>1. 1 \in DOMAIN ops' /\ ops'[1].slot = s
        BY <1>1, <1>3, <2>1
      <3>. QED
        BY <3>1 DEF InUse
    <2>2. CASE Busy(heap, s)
      <3>1. s \in InUse
        BY <2>2 DEF Inv, UseInv
      <3>2. CASE \E i \in DOMAIN ops : s = ops[i].slot
        <4>1. PICK i \in DOMAIN ops : s = ops[i].slot
          BY <3>2
        <4>2. i + 1 \in DOMAIN ops' /\ ops'[i + 1].slot = s
          BY <1>3, <4>1
        <4>. QED
          BY <4>2 DEF InUse
      <3>3. CASE \E p \in Pointer : pointer[p] = s
        BY <1>2, <3>3 DEF InUse
      <3>. QED
        BY <3>1, <3>2, <3>3 DEF InUse
    <2>. QED
      BY <2>1, <2>2
  <1>13. ProtInv'
    <2>1. \A i \in DOMAIN ops : i + 1 \in DOMAIN ops' /\ ops'[i + 1] = ops[i]
      BY <1>3
    <2>2. PagesProtected'
      <3> SUFFICES ASSUME NEW w \in Page
                   PROVE  prot'[w] = IF \/ \E i \in DOMAIN ops' : PageOf[ops'[i].target] = w
                                        \/ w \in unrestored'
                                     THEN "writable" ELSE "code"
        BY DEF PagesProtected
      <3>1. CASE w = g
        <4>1. 1 \in DOMAIN ops' /\ PageOf[ops'[1].target] = w
          BY <1>1, <1>3, <3>1 DEF g
        <4>2. prot'[w] = "writable"
          BY <1>2, <3>1 DEF Inv, TypeOK
        <4>. QED
          BY <4>1, <4>2
      <3>2. CASE w # g
        <4>1. PageOf[ops'[1].target] # w
          BY <1>1, <1>3, <3>2 DEF g
        <4>2. (\E i \in DOMAIN ops' : PageOf[ops'[i].target] = w)
                <=> \E i \in DOMAIN ops : PageOf[ops[i].target] = w
          BY <1>3, <2>1, <4>1
        <4>3. prot'[w] = prot[w]
          BY <1>2, <3>2 DEF Inv, TypeOK
        <4>. QED
          BY <1>2, <4>2, <4>3 DEF Inv, ProtInv, PagesProtected
      <3>. QED
        BY <3>1, <3>2
    <2>3. ASSUME NEW i \in DOMAIN ops' PROVE ops'[i].perm = Found(i)'
      <3>1. CASE i = 1
        <4>1. (\E j \in DOMAIN ops' : 1 < j /\ PageOf[ops'[j].target] = PageOf[ops'[1].target])
                <=> \E j \in DOMAIN ops : PageOf[ops[j].target] = g
          <5>1. PageOf[ops'[1].target] = g
            BY <1>1, <1>3 DEF g
          <5>2. ASSUME NEW j \in DOMAIN ops PROVE 1 < j + 1 /\ j + 1 \in DOMAIN ops' /\ ops'[j + 1] = ops[j]
            BY <1>3
          <5>3. ASSUME NEW j \in DOMAIN ops', 1 < j PROVE j - 1 \in DOMAIN ops /\ ops'[j] = ops[j - 1]
            BY <1>3, <5>3
          <5>. QED
            BY <5>1, <5>2, <5>3
        <4>2. prot[g] = IF (\E j \in DOMAIN ops : PageOf[ops[j].target] = g) \/ g \in unrestored
                        THEN "writable" ELSE "code"
          BY <1>0 DEF Inv, ProtInv, PagesProtected
        <4>3. ops'[1].perm = prot[g] /\ PageOf[ops'[1].target] = g /\ unrestored' = unrestored
          BY <1>1, <1>2, <1>3 DEF g
        <4>. QED
          BY <3>1, <4>1, <4>2, <4>3 DEF Found
      <3>2. CASE i - 1 \in DOMAIN ops /\ ops'[i] = ops[i - 1]
        <4>1. ops[i - 1].perm = Found(i - 1)
          BY <3>2 DEF Inv, ProtInv
        <4>2. (\E j \in DOMAIN ops' : i < j /\ PageOf[ops'[j].target] = PageOf[ops'[i].target])
                <=> \E j \in DOMAIN ops : i - 1 < j /\ PageOf[ops[j].target] = PageOf[ops[i - 1].target]
          <5>1. ASSUME NEW j \in DOMAIN ops', i < j PROVE j - 1 \in DOMAIN ops /\ ops'[j] = ops[j - 1] /\ i - 1 < j - 1
            BY <1>3, <5>1, <3>2
          <5>2. ASSUME NEW j \in DOMAIN ops, i - 1 < j PROVE i < j + 1
            BY <1>3, <5>2, <3>2
          <5>. QED
            BY <2>1, <3>2, <5>1, <5>2
        <4>. QED
          BY <1>2, <3>2, <4>1, <4>2 DEF Found
      <3>. QED
        BY <1>3, <3>1, <3>2
    <2>. QED
      BY <2>2, <2>3 DEF ProtInv
  <1>14. WriteInv'
    BY DEF WriteInv
  <1>. QED
    BY <1>4, <1>6, <1>10, <1>11, <1>12, <1>13, <1>14 DEF Inv

LEMMA SameUseTransitive ==
    ASSUME NEW f, NEW g, NEW h, SameUse(f, g), SameUse(g, h)
    PROVE  SameUse(f, h)
  BY DEF SameUse, Busy

\* Collecting an operation writes no code, and trampolines that can be written.
LEMMA CollectWrites ==
    ASSUME Inv, NEW c \in Client, pc[c] = "open", ~failed, entry' = entry
    PROVE  WritesWell /\ Regions(heap) \subseteq heap.writable
  <1>1. Regions(heap) \subseteq heap.writable
    BY OwnerAlone DEF Inv, WriteInv
  <1>. QED
    BY <1>1 DEF WritesWell

LEMMA AttachInv ==
    ASSUME Inv, NEW c \in Client, NEW p \in Pointer, Attach(c, p)
    PROVE  Inv' /\ WritesWell
  <1>1. /\ pc[c] = "open" /\ p \notin Wanted /\ pointer[p] \notin Slot /\ ~failed
        /\ entry' = entry
    BY DEF Attach, Fail, Push, code
  <1>2. WritesWell /\ Regions(heap) \subseteq heap.writable
    BY <1>1, CollectWrites
  <1>3. ignoreTooSmall \in BOOLEAN /\ HeapInv(heap)
    BY DEF Inv, TypeOK
  <1>4. CASE Fail(FALSE) /\ UNCHANGED heap
    <2>1. HeapInv(heap') /\ SameUse(heap', heap) /\ Regions(heap') \subseteq heap'.writable
      BY <1>2, <1>3, <1>4, SameHeapUse
    <2>. QED
      BY <1>1, <1>2, <1>4, <2>1, FailInv
  <1>5. ASSUME pointer[p] # Null,
               NEW f, f = CodeFromPointer(pointer[p]),
               NEW res \in AllocTrampoline(heap, f), NEW h, h = res[1], NEW s, s = res[2],
               NEW full, full = [h EXCEPT !.tramp[s] = [remain |-> f, detour |-> DetourOf[p],
                                                       restore |-> entry[f]]],
               \/ s = Null /\ heap' = h /\ Fail(FALSE)
               \/ s # Null /\ TooSmall(f) /\ heap' = FreeTrampoline(h, s) /\ Fail(ignoreTooSmall)
               \/ s # Null /\ ~TooSmall(f) /\ heap' = FreeTrampoline(full, s) /\ Fail(FALSE)
               \/ /\ s # Null /\ ~TooSmall(f) /\ heap' = full
                  /\ Push([remove |-> FALSE, p |-> p, target |-> f, slot |-> s, perm |-> "code"])
        PROVE  Inv'
    <2>1. Clear(p) /\ Start[p] # Null
      <3>1. Start[p] # Null
        BY <1>5 DEF Inv, PointersInv, PointerGood
      <3>. QED
        BY <1>1, <3>1 DEF Inv, PointersInv, PointerGood, Hooked
    <2>2. f = FunctionOf(p) /\ f \in Function /\ entry[f] = Null
      BY <1>5, <2>1, FunctionsDistinct DEF Clear
    <2> DEFINE x == [remain |-> f, detour |-> DetourOf[p], restore |-> Null]
    <2>3. x \in Trampoline /\ x.remain \in Function /\ Filled(Break) \in Trampoline
      BY <2>2, FilledType, DetourAssumption DEF Trampoline
    <2>4. full = [h EXCEPT !.tramp[s] = x]
      BY <1>5, <2>2
    <2> HIDE DEF x
    <2>5. \/ s = Null /\ Grown(h, heap)
          \/ \E g : /\ Grown(g, heap)
                    /\ \E r \in Regions(g) : g.free[r] # Null /\ res = <<Pop(g, r), g.free[r]>>
      BY <1>3, <1>5, <2>2, AllocInv
    <2>6. CASE s = Null
      <3>1. Grown(h, heap)
        <4>1. ASSUME NEW g, Grown(g, heap), NEW r \in Regions(g), g.free[r] # Null,
                     res = <<Pop(g, r), g.free[r]>>
              PROVE  FALSE
          BY <1>5, <2>6, <4>1
        <4>. QED
          BY <2>5, <4>1
      <3>2. HeapInv(h) /\ SameUse(h, heap) /\ Regions(h) \subseteq h.writable
        BY <1>2, <3>1 DEF Grown
      <3>3. heap' = h /\ Fail(FALSE)
        BY <1>5, <2>6
      <3>. QED
        BY <1>1, <3>2, <3>3, FailInv
    <2>7. CASE s # Null
      <3>1. PICK g : /\ Grown(g, heap)
                     /\ \E r \in Regions(g) : g.free[r] # Null /\ res = <<Pop(g, r), g.free[r]>>
        BY <2>5, <2>7
      <3>2. PICK r \in Regions(g) : g.free[r] # Null /\ res = <<Pop(g, r), g.free[r]>>
        BY <3>1
      <3>3. h = Pop(g, r) /\ s = g.free[r]
        BY <1>5, <3>2
      <3>4. HeapInv(g) /\ SameUse(g, heap) /\ Regions(g) \subseteq g.writable
        BY <1>2, <3>1 DEF Grown
      <3>5. s \in Slot /\ s[1] = r /\ ~Busy(g, s) /\ r \in Region /\ g \in Heap
        BY <3>2, <3>3, <3>4, HeadType DEF HeapInv
      <3>6. Taken(h, g, r, Filled(Break))
        BY <3>2, <3>3, <3>4, PopTaken
      <3>7. Taken(full, g, r, x)
        <4>1. full = [h EXCEPT !.tramp = [h.tramp EXCEPT ![g.free[r]] = x]]
          BY <2>4, <3>3
        <4>. QED
          BY <2>3, <3>2, <3>4, <3>6, <4>1, FillTaken
      <3>8. full.tramp = [g.tramp EXCEPT ![s] = x]
        BY <3>3, <3>7 DEF Taken
      <3>9. ASSUME NEW y, NEW z \in Trampoline, Taken(y, g, r, z)
            PROVE  /\ HeapInv(FreeTrampoline(y, s)) /\ SameUse(FreeTrampoline(y, s), heap)
                   /\ Regions(FreeTrampoline(y, s)) \subseteq FreeTrampoline(y, s).writable
        <4>1. PICK k : k = FreeTrampoline(y, g.free[r])
          OBVIOUS
        <4>2. /\ HeapInv(k) /\ Regions(k) = Regions(g) /\ k.writable = g.writable
              /\ SameUse(k, g)
          BY <3>2, <3>4, <3>9, <4>1, ReturnInv
        <4>. QED
          BY <3>3, <3>4, <4>1, <4>2, SameUseTransitive
      <3>10. CASE heap' = FreeTrampoline(h, s) /\ Fail(ignoreTooSmall)
        BY <1>1, <1>3, <2>3, <3>6, <3>9, <3>10, FailInv
      <3>11. CASE heap' = FreeTrampoline(full, s) /\ Fail(FALSE)
        BY <1>1, <2>3, <3>7, <3>9, <3>11, FailInv
      <3>12. CASE /\ heap' = full
                  /\ Push([remove |-> FALSE, p |-> p, target |-> f, slot |-> s, perm |-> "code"])
        <4>2. HeapInv(full) /\ Regions(full) = Regions(g) /\ full.writable = g.writable
          <5>1. HeapInv(full) /\ Regions(full) = Regions(g)
            BY <2>3, <3>2, <3>4, <3>7, TakeInv
          <5>. QED
            BY <3>7, <5>1 DEF Taken
        <4> DEFINE o == [remove |-> FALSE, p |-> p, target |-> f, slot |-> s, perm |-> "code"]
        <4>3. /\ o \in Operation /\ o.p = p /\ o.target = f /\ o.slot = s /\ o.remove = FALSE
          BY <2>2, <3>5 DEF Operation
        <4>4. Push(o)
          BY <3>12
        <4> HIDE DEF o
        <4>5. full.tramp[s] = x
          BY <3>5, <3>8 DEF Heap
        <4>6. ASSUME NEW t \in Slot, Busy(heap, t) PROVE full.tramp[t] = heap.tramp[t]
          <5>1. g.tramp[t] = heap.tramp[t]
            BY <3>4, <4>6 DEF SameUse
          <5>2. Busy(g, t)
            BY <4>6, <5>1 DEF Busy
          <5>3. t # s
            BY <3>5, <5>2
          <5>. QED
            BY <3>5, <3>8, <5>1, <5>3 DEF Heap
        <4>7. ASSUME NEW t \in Slot, Busy(full, t), t # s PROVE Busy(heap, t)
          <5>1. full.tramp[t] = g.tramp[t]
            BY <3>5, <3>8, <4>7 DEF Heap
          <5>2. Busy(g, t)
            BY <4>7, <5>1 DEF Busy
          <5>. QED
            BY <3>4, <5>2 DEF SameUse
        <4>8. full.tramp[o.slot] = [remain |-> o.target, detour |-> DetourOf[o.p], restore |-> Null]
          BY <4>3, <4>5 DEF x
        <4>9. heap' = full /\ Regions(full) \subseteq full.writable
          BY <3>4, <3>12, <4>2
        <4>. QED
          BY <1>1, <2>1, <2>2, <4>2, <4>3, <4>4, <4>6, <4>7, <4>8, <4>9, PushInv
      <3>. QED
        BY <1>5, <2>7, <3>10, <3>11, <3>12
    <2>. QED
      BY <2>6, <2>7
  <1>6. CASE Fail(TRUE) /\ UNCHANGED heap
    <2>1. HeapInv(heap') /\ SameUse(heap', heap) /\ Regions(heap') \subseteq heap'.writable
      BY <1>2, <1>3, <1>6, SameHeapUse
    <2>. QED
      BY <1>1, <1>2, <1>6, <2>1, FailInv
  <1>. QED
    BY <1>2, <1>4, <1>5, <1>6 DEF Attach

LEMMA DetachInv ==
    ASSUME Inv, NEW c \in Client, NEW p \in Pointer, Detach(c, p)
    PROVE  Inv' /\ WritesWell
  <1>1. pc[c] = "open" /\ p \notin Wanted /\ ~failed /\ entry' = entry /\ heap' = heap
    BY DEF Detach, Fail, Push, code
  <1>2. WritesWell /\ Regions(heap) \subseteq heap.writable
    BY <1>1, CollectWrites
  <1>3. /\ ignoreTooSmall \in BOOLEAN /\ HeapInv(heap') /\ SameUse(heap', heap)
        /\ Regions(heap') \subseteq heap'.writable
    BY <1>1, <1>2, SameHeapUse DEF Inv, TypeOK
  <1>4. CASE Fail(FALSE)
    BY <1>1, <1>2, <1>3, <1>4, FailInv
  <1>5. CASE Fail(ignoreTooSmall)
    BY <1>1, <1>2, <1>3, <1>5, FailInv
  <1>6. ASSUME pointer[p] # Null, InPlace(p),
               NEW s, s = CodeFromPointer(pointer[p]),
               NEW o, o = [remove |-> TRUE, p |-> p, target |-> heap.tramp[s].remain, slot |-> s,
                           perm |-> "code"],
               Push(o)
        PROVE  Inv'
    <2>1. s \in Slot /\ heap.tramp[s].remain \in Function
      BY <1>6 DEF InPlace
    <2>2. s = pointer[p]
      <3>1. pointer[p] \notin Address
        BY <1>6, <2>1, FunctionLeads DEF CodeFromPointer
      <3>. QED
        BY <1>6, <3>1 DEF CodeFromPointer
    <2>3. /\ Start[p] # Null /\ Hooked(p) /\ heap.tramp[s].remain = FunctionOf(p)
      BY <2>1, <2>2, PointerSlot DEF Inv
    <2>4. heap.tramp[s] = [remain |-> FunctionOf(p), detour |-> DetourOf[p], restore |-> Null]
      BY <2>2, <2>3 DEF Hooked
    <2>5. /\ o \in Operation /\ o.p = p /\ o.target = FunctionOf(p) /\ o.slot = s
          /\ o.remove = TRUE
      BY <1>6, <2>1, <2>3 DEF Operation
    <2>. QED
      BY <1>1, <1>3, <1>6, <2>2, <2>3, <2>4, <2>5, PushInv
  <1>. QED
    BY <1>2, <1>4, <1>5, <1>6 DEF Detach

----------------------------------------------------------------------------
(* Ending the transaction.                                                 *)

\* CommitEx finds a function's or a pointer's operation.
LEMMA OpOf ==
    ASSUME TypeOK, OpsInv, NEW i \in DOMAIN ops
    PROVE  OpFor(ops[i].p) = ops[i] /\ OpOn(ops[i].target) = ops[i]
  <1>1. \A j \in DOMAIN ops : ops[j].p = ops[i].p => j = i
    BY DEF OpsInv
  <1>2. \A j \in DOMAIN ops : ops[j].target = ops[i].target => j = i
    BY OpSlots
  <1>. QED
    BY <1>1, <1>2, Zenon DEF OpFor, OpOn

LEMMA MovedType ==
    ASSUME TypeOK, OpsInv, NEW e, e.at \in Function \cup Slot \cup {Null}
    PROVE  Moved(e).at \in Function \cup Slot \cup {Null}
  <1> DEFINE covers(o) == IF o.remove THEN e.at = o.slot /\ e.off < PointerSize
                          ELSE e.at = o.target /\ e.off < CbTarget[o.target]
             by == {i \in DOMAIN ops : covers(ops[i])}
             o == ops[First(by)]
  <1>1. CASE by = {}
    BY <1>1 DEF Moved
  <1>2. CASE by # {}
    <2>1. DOMAIN ops \subseteq Nat
      BY DEF TypeOK
    <2>2. \E i \in by : \A j \in by : i <= j
      BY <1>2, <2>1, LeastElement
    <2>3. First(by) \in by
      BY <2>2 DEF First
    <2>4. First(by) \in DOMAIN ops
      BY <2>3
    <2>5. o.slot \in Slot /\ o.target \in Function /\ o.remove \in BOOLEAN
      BY <2>4, OpType
    <2>6. Moved(e) = IF o.remove
                     THEN [at |-> o.target, off |-> AlignFromTrampoline(o.target, e.off)]
                     ELSE [at |-> o.slot, off |-> AlignFromTarget(o.target, e.off)]
      BY <1>2 DEF Moved
    <2> HIDE DEF o
    <2>. QED
      BY <2>5, <2>6
  <1>. QED
    BY <1>1, <1>2

\* What WriteCode leaves of the function and the pointer of an operation and of
\* those that have none.
LEMMA CodeWritten ==
    ASSUME Inv, WriteCode
    PROVE  /\ \A i \in DOMAIN ops :
                 LET o == ops[i]
                 IN  IF o.remove THEN entry'[o.target] = Null /\ pointer'[o.p] = o.target
                     ELSE entry'[o.target] = o.slot /\ pointer'[o.p] = o.slot
           /\ \A p \in Pointer : p \notin Wanted => pointer'[p] = pointer[p]
           /\ \A f \in Function : (\A i \in DOMAIN ops : ops[i].target # f) => entry'[f] = entry[f]
           /\ pointer' \in [Pointer -> Address \cup Slot \cup {Null}]
           /\ entry' \in [Function -> Slot \cup {Null, Break}]
  <1>1. ASSUME NEW i \in DOMAIN ops, NEW o, o = ops[i]
        PROVE  /\ IF o.remove THEN entry'[o.target] = Null /\ pointer'[o.p] = o.target
                  ELSE entry'[o.target] = o.slot /\ pointer'[o.p] = o.slot
    <2>a. o.p \in Pointer /\ o.target \in Function /\ OpGood(o)
      BY <1>1, OpType DEF Inv
    <2>b. heap.tramp[o.slot].restore = Null
      BY <2>a DEF OpGood
    <2>c. o.p \in Wanted
      BY <1>1 DEF Wanted
    <2>1. /\ o.p \in Pointer /\ o.p \in Wanted /\ o.target \in Function
          /\ heap.tramp[o.slot].restore = Null
      BY <2>a, <2>b, <2>c
    <2>2. OpFor(o.p) = o /\ OpOn(o.target) = o
      BY <1>1, OpOf DEF Inv
    <2>3. entry'[o.target] = IF o.remove THEN heap.tramp[o.slot].restore ELSE o.slot
      BY <1>1, <2>1, <2>2 DEF WriteCode
    <2>4. pointer'[o.p] = IF o.remove THEN o.target ELSE o.slot
      BY <2>1, <2>2 DEF WriteCode
    <2>. QED
      BY <2>1, <2>3, <2>4
  <1>2. \A p \in Pointer : p \notin Wanted => pointer'[p] = pointer[p]
    BY DEF WriteCode
  <1>3. \A f \in Function : (\A i \in DOMAIN ops : ops[i].target # f) => entry'[f] = entry[f]
    BY DEF WriteCode
  <1>4. pointer' \in [Pointer -> Address \cup Slot \cup {Null}]
    <2>1. DOMAIN pointer' = Pointer /\ pointer' = [p \in Pointer |-> pointer'[p]]
      BY DEF WriteCode
    <2>2. ASSUME NEW p \in Pointer PROVE pointer'[p] \in Address \cup Slot \cup {Null}
      <3>1. CASE p \notin Wanted
        BY <1>2, <3>1 DEF Inv, TypeOK
      <3>2. CASE p \in Wanted
        <4>1. PICK i \in DOMAIN ops : ops[i].p = p
          BY <3>2 DEF Wanted
        <4>2. pointer'[p] \in {ops[i].target, ops[i].slot}
          BY <1>1, <4>1
        <4>. QED
          BY <4>2, OpType, FunctionLeads DEF Inv
      <3>. QED
        BY <3>1, <3>2
    <2>. QED
      BY <2>1, <2>2
  <1>5. entry' \in [Function -> Slot \cup {Null, Break}]
    <2>1. DOMAIN entry' = Function /\ entry' = [f \in Function |-> entry'[f]]
      BY DEF WriteCode
    <2>2. ASSUME NEW f \in Function PROVE entry'[f] \in Slot \cup {Null, Break}
      <3>1. CASE \A i \in DOMAIN ops : ops[i].target # f
        BY <1>3, <3>1 DEF Inv, TypeOK
      <3>2. ASSUME NEW i \in DOMAIN ops, ops[i].target = f PROVE entry'[f] \in Slot \cup {Null}
        BY <1>1, <3>2, OpType DEF Inv
      <3>. QED
        BY <3>1, <3>2
    <2>. QED
      BY <2>1, <2>2
  <1>. QED
    BY <1>1, <1>2, <1>3, <1>4, <1>5

LEMMA CommitInv ==
    ASSUME Inv, NEW c \in Client, Commit(c)
    PROVE  Inv' /\ WritesWell
  <1>1. /\ pc[c] = "open" /\ owner = c /\ owner # Null /\ ~Committed
        /\ pc' = [pc EXCEPT ![c] = "ops"] /\ freed' = FALSE
        /\ closing' = [closing EXCEPT ![c] = IF failed THEN "abort" ELSE "commit"]
        /\ UNCHANGED <<heap, owner, failed, threads, ops, prot, suspended, stuck, unrestored,
                       ignoreTooSmall, retainRegions, answer, transactions>>
    BY OwnerAlone DEF Commit, own, modes, code, Inv
  <1>2. OwnerInv' /\ HeapInv(heap') /\ WriteInv' /\ ProtInv'
    BY <1>1, SameProt DEF Inv, OwnerInv, TypeOK, WriteInv
  <1>3. /\ pc' \in [Client -> {"idle", "open", "ops", "return"}]
        /\ closing' \in [Client -> {"none", "commit", "abort", "drop"}]
        /\ freed' \in BOOLEAN
    BY <1>1 DEF Inv, TypeOK
  <1>4. CASE failed
    <2>1. UNCHANGED <<pointer, entry, eip, unmoved>>
      BY <1>4 DEF Commit, code
    <2>2. TypeOK'
      BY <1>1, <1>3, <2>1 DEF Inv, TypeOK
    <2>3. ~Committed'
      <3>1. closing'[c] = "abort"
        BY <1>1, <1>4 DEF Inv, TypeOK
      <3>2. \A d \in Client : pc'[d] = "ops" => d = c
        BY <1>1, OwnerAlone DEF Inv, TypeOK
      <3>. QED
        BY <3>1, <3>2 DEF Committed
    <2>6. SameUse(heap', heap)
      BY <1>1 DEF SameUse
    <2>7. Committed' <=> Committed
      BY <1>1, <2>3, Zenon
    <2>4. OpsInv' /\ PointersInv' /\ UseInv'
      BY <1>1, <2>1, <2>6, <2>7, Frame DEF Inv
    <2>5. WritesWell
      BY <1>1, <2>1 DEF WritesWell
    <2>. QED
      BY <1>2, <2>2, <2>4, <2>5 DEF Inv
  <1>5. CASE ~failed
    <2>1. WriteCode
      BY <1>5 DEF Commit
    <2>2. /\ \A i \in DOMAIN ops :
                 LET o == ops[i]
                 IN  IF o.remove THEN entry'[o.target] = Null /\ pointer'[o.p] = o.target
                     ELSE entry'[o.target] = o.slot /\ pointer'[o.p] = o.slot
          /\ \A p \in Pointer : p \notin Wanted => pointer'[p] = pointer[p]
          /\ \A f \in Function : (\A i \in DOMAIN ops : ops[i].target # f) => entry'[f] = entry[f]
          /\ pointer' \in [Pointer -> Address \cup Slot \cup {Null}]
          /\ entry' \in [Function -> Slot \cup {Null, Break}]
      BY <2>1, CodeWritten
    <2>3. TypeOK'
      <3>1. DOMAIN eip' = Thread /\ \A t \in Thread : eip'[t].at \in Function \cup Slot \cup {Null}
        <4>1. eip' = [t \in Thread |-> IF t \in threads \ unmoved' THEN Moved(eip[t]) ELSE eip[t]]
          BY <2>1 DEF WriteCode
        <4>2. \A t \in Thread : eip[t].at \in Function \cup Slot \cup {Null}
          BY DEF Inv, TypeOK
        <4>3. \A t \in Thread : Moved(eip[t]).at \in Function \cup Slot \cup {Null}
          BY <4>2, MovedType DEF Inv
        <4>. QED
          BY <4>1, <4>2, <4>3
      <3>2. unmoved' \subseteq Thread
        BY <2>1 DEF WriteCode, Inv, TypeOK
      <3>. QED
        BY <1>1, <1>3, <2>2, <3>1, <3>2 DEF Inv, TypeOK
    <2>4. Committed'
      <3>1. pc'[c] = "ops" /\ closing'[c] = "commit"
        BY <1>1, <1>5 DEF Inv, TypeOK
      <3>. QED
        BY <3>1 DEF Committed
    <2>5. ASSUME NEW i \in DOMAIN ops, NEW o, o = ops[i]
          PROVE  OpGood(o)' /\ (Hooked(o.p) \/ Clear(o.p))'
      <3>1. /\ OpGood(o) /\ o.p \in Pointer /\ o.slot \in Slot /\ o.target \in Function
            /\ o.remove \in BOOLEAN
        BY <2>5, OpType DEF Inv
      <3>2. o.target = FunctionOf(o.p) /\ Start[o.p] # Null
        BY <3>1 DEF OpGood
      <3>3. IF o.remove THEN entry'[o.target] = Null /\ pointer'[o.p] = o.target
            ELSE entry'[o.target] = o.slot /\ pointer'[o.p] = o.slot
        BY <2>2, <2>5
      <3>4. heap'.tramp[o.slot] = [remain |-> o.target, detour |-> DetourOf[o.p], restore |-> Null]
        BY <1>1, <3>1 DEF OpGood
      <3>5. CASE o.remove
        <4>1. Clear(o.p)'
          BY <3>1, <3>2, <3>3, <3>5, FunctionLeads DEF Clear, CodeFromPointer
        <4>. QED
          BY <2>4, <3>2, <3>4, <3>5, <4>1 DEF OpGood
      <3>6. CASE ~o.remove
        <4>1. Hooked(o.p)' /\ pointer'[o.p] = o.slot
          BY <3>1, <3>2, <3>3, <3>4, <3>6 DEF Hooked
        <4>. QED
          BY <2>4, <3>2, <3>4, <3>6, <4>1 DEF OpGood
      <3>. QED
        BY <3>5, <3>6
    <2>6. OpsInv'
      BY <1>1, <2>5 DEF Inv, OpsInv, OpGood
    <2>7. PointersInv'
      <3> SUFFICES ASSUME NEW p \in Pointer PROVE PointerGood(p)'
        BY DEF PointersInv
      <3>1. CASE p \in Wanted
        <4>1. PICK i \in DOMAIN ops : ops[i].p = p
          BY <3>1 DEF Wanted
        <4>2. Hooked(p)' \/ Clear(p)'
          BY <2>5, <4>1
        <4>3. Start[p] # Null
          BY <4>1, OpType DEF Inv, OpGood
        <4>. QED
          BY <4>2, <4>3 DEF PointerGood
      <3>2. CASE p \notin Wanted
        <4>1. pointer'[p] = pointer[p] /\ PointerGood(p)
          BY <2>2, <3>2 DEF Inv, PointersInv
        <4>2. CASE Start[p] = Null
          BY <4>1, <4>2 DEF PointerGood
        <4>3. CASE Start[p] # Null
          <5>1. \A i \in DOMAIN ops : ops[i].target # FunctionOf(p)
            <6> SUFFICES ASSUME NEW i \in DOMAIN ops, ops[i].target = FunctionOf(p) PROVE FALSE
              OBVIOUS
            <6>1. ops[i].p \in Pointer /\ Start[ops[i].p] # Null /\ FunctionOf(ops[i].p) = FunctionOf(p)
              BY OpType DEF Inv, OpGood
            <6>2. ops[i].p = p
              BY <4>3, <6>1, FunctionsDistinct
            <6>. QED
              BY <3>2, <6>2 DEF Wanted
          <5>2. entry'[FunctionOf(p)] = entry[FunctionOf(p)]
            BY <2>2, <4>3, <5>1, FunctionsDistinct
          <5>3. (Hooked(p) => Hooked(p)') /\ (Clear(p) => Clear(p)')
            BY <1>1, <4>1, <5>2 DEF Hooked, Clear, CodeFromPointer
          <5>. QED
            BY <4>1, <4>3, <5>3 DEF PointerGood
        <4>. QED
          BY <4>2, <4>3
      <3>. QED
        BY <3>1, <3>2
    <2>8. UseInv'
      <3> SUFFICES ASSUME NEW s \in Slot, Busy(heap, s) PROVE s \in InUse'
        BY <1>1 DEF UseInv
      <3>1. s \in InUse
        BY DEF Inv, UseInv
      <3>2. CASE \E i \in DOMAIN ops : ops[i].slot = s
        BY <1>1, <3>2 DEF InUse
      <3>3. CASE \E p \in Pointer : pointer[p] = s
        <4>1. PICK p \in Pointer : pointer[p] = s
          BY <3>3
        <4>2. CASE p \in Wanted
          <5>1. PICK i \in DOMAIN ops : ops[i].p = p
            BY <4>2 DEF Wanted
          <5>2. Hooked(p) /\ ~Clear(p)
            BY <4>1, PointerSlot DEF Inv
          <5>3. ops[i].slot = s
            BY <4>1, <5>1, <5>2, OpType DEF Inv, OpGood
          <5>. QED
            BY <3>2, <5>3
        <4>3. CASE p \notin Wanted
          <5>1. pointer'[p] = s
            BY <2>2, <4>1, <4>3
          <5>. QED
            BY <5>1 DEF InUse
        <4>. QED
          BY <4>2, <4>3
      <3>. QED
        BY <3>1, <3>2, <3>3 DEF InUse
    <2>9. WritesWell
      <3> SUFFICES ASSUME NEW f \in Function, entry'[f] # entry[f] PROVE prot[PageOf[f]] = "writable"
        BY <1>1 DEF WritesWell
      <3>1. PICK i \in DOMAIN ops : ops[i].target = f
        BY <2>2
      <3>2. PageOf[f] \in Page
        BY DetourAssumption
      <3>. QED
        BY <3>1, <3>2 DEF Inv, ProtInv, PagesProtected
    <2>. QED
      BY <1>2, <2>3, <2>6, <2>7, <2>8, <2>9 DEF Inv
  <1>. QED
    BY <1>4, <1>5

LEMMA AbortInv ==
    ASSUME Inv, NEW c \in Client, Abort(c)
    PROVE  Inv' /\ WritesWell
  <1>1. /\ pc[c] = "open" /\ owner = c /\ owner # Null /\ ~Committed
        /\ pc' = [pc EXCEPT ![c] = "ops"] /\ closing' = [closing EXCEPT ![c] = "drop"]
        /\ UNCHANGED <<heap, owner, failed, threads, ops, pointer, entry, prot, suspended, eip,
                       stuck, unmoved, unrestored, ignoreTooSmall, retainRegions, answer, freed,
                       transactions>>
    BY OwnerAlone DEF Abort, own, modes, code, held, refused, Inv
  <1>2. OwnerInv' /\ HeapInv(heap') /\ WriteInv' /\ ProtInv'
    BY <1>1, SameProt DEF Inv, OwnerInv, TypeOK, WriteInv
  <1>3. /\ pc' \in [Client -> {"idle", "open", "ops", "return"}]
        /\ closing' \in [Client -> {"none", "commit", "abort", "drop"}]
    BY <1>1 DEF Inv, TypeOK
  <1>4. TypeOK'
    BY <1>1, <1>3 DEF Inv, TypeOK
  <1>5. ~Committed'
    <2>1. closing'[c] = "drop"
      BY <1>1 DEF Inv, TypeOK
    <2>2. \A d \in Client : pc'[d] = "ops" => d = c
      BY <1>1, OwnerAlone DEF Inv, TypeOK
    <2>. QED
      BY <2>1, <2>2 DEF Committed
  <1>6. SameUse(heap', heap)
    BY <1>1 DEF SameUse
  <1>7. OpsInv' /\ PointersInv' /\ UseInv'
    BY <1>1, <1>5, <1>6, Frame DEF Inv
  <1>8. WritesWell
    BY <1>1 DEF WritesWell
  <1>. QED
    BY <1>2, <1>4, <1>7, <1>8 DEF Inv

\* The list of operations without its head.
LEMMA TailSeq ==
    ASSUME NEW S, NEW q \in Seq(S), q # <<>>
    PROVE  /\ Tail(q) \in Seq(S) /\ Head(q) = q[1] /\ 1 \in DOMAIN q
           /\ DOMAIN Tail(q) = 1..(Len(q) - 1) /\ DOMAIN q = 1..Len(q) /\ Len(q) \in Nat \ {0}
           /\ \A i \in 1..(Len(q) - 1) : Tail(q)[i] = q[i + 1]
           /\ \A i \in DOMAIN Tail(q) : i + 1 \in DOMAIN q /\ Tail(q)[i] = q[i + 1]
           /\ \A i \in DOMAIN q : i # 1 => i - 1 \in DOMAIN Tail(q) /\ Tail(q)[i - 1] = q[i]
  OBVIOUS

LEMMA EndOperationInv ==
    ASSUME Inv, NEW c \in Client, EndOperation(c)
    PROVE  Inv' /\ WritesWell
  <1>1. PICK o : o = Head(ops)
    OBVIOUS
  <1>2. /\ pc[c] = "ops" /\ ops # <<>> /\ ops \in Seq(Operation)
        /\ ops' = Tail(ops) /\ Restore(o)
        /\ freed' = (freed \/ (closing[c] = "commit" /\ o.remove))
        /\ UNCHANGED <<owner, failed, threads, pointer, entry, suspended, eip, stuck, unmoved,
                       ignoreTooSmall, retainRegions, pc, closing, answer, transactions>>
    BY <1>1 DEF EndOperation, held, modes, Inv, TypeOK
  <1>3. /\ o = ops[1] /\ 1 \in DOMAIN ops /\ ops' \in Seq(Operation)
        /\ DOMAIN ops' = 1..(Len(ops) - 1) /\ DOMAIN ops = 1..Len(ops) /\ Len(ops) \in Nat \ {0}
        /\ \A i \in DOMAIN ops' : i + 1 \in DOMAIN ops /\ ops'[i] = ops[i + 1]
        /\ \A i \in DOMAIN ops : i # 1 => i - 1 \in DOMAIN ops' /\ ops'[i - 1] = ops[i]
    BY <1>1, <1>2, TailSeq
  <1>4. /\ o \in Operation /\ o.p \in Pointer /\ o.slot \in Slot /\ o.target \in Function
        /\ o.remove \in BOOLEAN /\ o.perm \in {"code", "writable"}
        /\ OpGood(o) /\ Busy(heap, o.slot) /\ PageOf[o.target] \in Page
    BY <1>3, OpType, DetourAssumption DEF Inv
  <1>5. /\ owner # Null /\ (Committed <=> closing[c] = "commit") /\ (Committed' <=> Committed)
    <2>1. owner # Null /\ (Committed <=> closing[c] = "commit")
      BY <1>2, OwnerAlone DEF Inv
    <2>2. Committed' <=> Committed
      BY <1>2 DEF Committed
    <2>. QED
      BY <2>1, <2>2
  <1>6. Regions(heap) \subseteq heap.writable
    BY <1>2, <1>5 DEF Inv, WriteInv
  <1>7. /\ Clear(o.p) /\ heap' = FreeTrampoline(heap, o.slot)
        \/ /\ Hooked(o.p) /\ pointer[o.p] = o.slot /\ heap' = heap
    <2>1. heap' = IF IF closing[c] = "commit" THEN o.remove ELSE ~o.remove
                  THEN FreeTrampoline(heap, o.slot) ELSE heap
      BY <1>1 DEF EndOperation
    <2>2. IF o.remove <=> closing[c] = "commit" THEN Clear(o.p)
          ELSE Hooked(o.p) /\ pointer[o.p] = o.slot
      BY <1>4, <1>5 DEF OpGood
    <2>. QED
      BY <1>4, <2>1, <2>2
  <1>8. /\ HeapInv(heap') /\ Regions(heap') = Regions(heap) /\ heap'.writable = heap.writable
        /\ \A s \in Slot : s # o.slot => heap'.tramp[s] = heap.tramp[s]
        /\ Busy(heap', o.slot) => pointer[o.p] = o.slot
    <2>1. CASE heap' = heap /\ pointer[o.p] = o.slot
      BY <2>1 DEF Inv
    <2>2. CASE heap' = FreeTrampoline(heap, o.slot)
      <3> DEFINE k == FreeTrampoline(heap, o.slot)
      <3>1. /\ HeapInv(k) /\ Regions(k) = Regions(heap) /\ k.writable = heap.writable
            /\ \A t \in Slot : t # o.slot => k.tramp[t] = heap.tramp[t]
            /\ ~Busy(k, o.slot)
        <4>1. HeapInv(heap) /\ o.slot \in Slot /\ Busy(heap, o.slot)
          BY <1>4 DEF Inv
        <4>. QED
          BY <4>1, FreeInv
      <3> HIDE DEF k
      <3>2. heap' = k
        BY <2>2 DEF k
      <3>. QED
        BY <3>1, <3>2
    <2>. QED
      BY <1>7, <2>1, <2>2
  <1>9. ASSUME NEW i \in DOMAIN ops, i # 1 PROVE ops[i].p # o.p /\ ops[i].slot # o.slot
    BY <1>3, <1>9, OpSlots DEF Inv, OpsInv
  <1>10. ASSUME NEW p \in Pointer PROVE (Clear(p) => Clear(p)') /\ (Start[p] # Null /\ Hooked(p) => Hooked(p)')
    <2>1. Clear(p) => Clear(p)'
      BY <1>2 DEF Clear, CodeFromPointer
    <2>2. ASSUME Start[p] # Null, Hooked(p) PROVE Hooked(p)'
      <3>1. CASE heap' = heap
        BY <1>2, <2>2, <3>1 DEF Hooked
      <3>2. CASE Clear(o.p)
        <4>1. pointer[p] # o.slot
          <5> SUFFICES ASSUME pointer[p] = o.slot PROVE FALSE
            OBVIOUS
          <5>1. FunctionOf(p) = o.target
            BY <1>4, <2>2 DEF Hooked, OpGood
          <5>2. p = o.p
            BY <1>4, <2>2, <5>1, FunctionsDistinct DEF OpGood
          <5>3. pointer[p] \in Address
            BY <3>2, <5>2 DEF Clear
          <5>. QED
            BY <1>4, <5>3, FunctionLeads
        <4>2. pointer[p] \in Slot
          BY <2>2 DEF Hooked
        <4>. QED
          BY <1>2, <1>8, <2>2, <4>1, <4>2 DEF Hooked
      <3>. QED
        BY <1>7, <3>1, <3>2
    <2>. QED
      BY <2>1, <2>2
  <1>11. TypeOK'
    <2>1. heap' \in Heap
      BY <1>8 DEF HeapInv
    <2>2. /\ prot' \in [Page -> {"code", "writable"}] /\ unrestored' \subseteq Page
          /\ freed' \in BOOLEAN
      BY <1>2, <1>4 DEF Restore, Inv, TypeOK
    <2>. QED
      BY <1>2, <1>3, <2>1, <2>2 DEF Inv, TypeOK
  <1>12. OwnerInv' /\ WriteInv'
    BY <1>2, <1>5, <1>6, <1>8 DEF Inv, OwnerInv, WriteInv
  <1>13. OpsInv'
    <2>1. ASSUME NEW i \in DOMAIN ops', NEW y, y = ops'[i] PROVE OpGood(y)'
      <3>1. i + 1 \in DOMAIN ops /\ y = ops[i + 1] /\ i + 1 # 1
        BY <1>3, <2>1
      <3>2. /\ OpGood(y) /\ y.p \in Pointer /\ y.slot \in Slot
        BY <3>1, OpType DEF Inv
      <3>3. heap'.tramp[y.slot] = heap.tramp[y.slot]
        BY <1>8, <1>9, <3>1, <3>2
      <3>. QED
        BY <1>2, <1>5, <1>10, <3>2, <3>3 DEF OpGood
    <2>2. ASSUME NEW i \in DOMAIN ops', NEW j \in DOMAIN ops', ops'[i].p = ops'[j].p PROVE i = j
      <3>1. i + 1 = j + 1
        BY <1>3, <2>2 DEF Inv, OpsInv
      <3>. QED
        BY <1>3, <3>1
    <2>. QED
      BY <2>1, <2>2 DEF OpsInv, OpGood
  <1>14. PointersInv'
    BY <1>2, <1>10 DEF Inv, PointersInv, PointerGood
  <1>15. UseInv'
    <2> SUFFICES ASSUME NEW s \in Slot, Busy(heap', s) PROVE s \in InUse'
      BY DEF UseInv
    <2>1. CASE s = o.slot
      <3>1. pointer'[o.p] = s
        BY <1>2, <1>8, <2>1
      <3>. QED
        BY <1>4, <3>1 DEF InUse
    <2>2. CASE s # o.slot
      <3>1. Busy(heap, s)
        BY <1>8, <2>2 DEF Busy
      <3>2. s \in InUse
        BY <3>1 DEF Inv, UseInv
      <3>3. CASE \E i \in DOMAIN ops : ops[i].slot = s
        <4>1. PICK i \in DOMAIN ops : ops[i].slot = s
          BY <3>3
        <4>2. i # 1
          BY <1>3, <2>2, <4>1
        <4>3. i - 1 \in DOMAIN ops' /\ ops'[i - 1].slot = s
          BY <1>3, <4>1, <4>2
        <4>. QED
          BY <4>3 DEF InUse
      <3>4. CASE \E p \in Pointer : pointer[p] = s
        BY <1>2, <3>4 DEF InUse
      <3>. QED
        BY <3>2, <3>3, <3>4 DEF InUse
    <2>. QED
      BY <2>1, <2>2
  <1>16. ProtInv'
    <2> DEFINE g == PageOf[o.target]
          Others == \E j \in DOMAIN ops : 1 < j /\ PageOf[ops[j].target] = g
    <2>1. o.perm = IF Others \/ g \in unrestored THEN "writable" ELSE "code"
      BY <1>3 DEF Inv, ProtInv, Found
    <2>4. prot[g] = "writable" /\ prot \in [Page -> {"code", "writable"}] /\ g \in Page
      BY <1>3, <1>4 DEF Inv, ProtInv, PagesProtected, TypeOK
    <2>5. /\ prot'[g] = IF Others \/ g \in unrestored' THEN "writable" ELSE "code"
          /\ \A w \in Page : w # g => prot'[w] = prot[w] /\ (w \in unrestored' <=> w \in unrestored)
          /\ Others => unrestored' = unrestored
      <3> HIDE DEF Others
      <3>1. CASE prot' = [prot EXCEPT ![g] = o.perm] /\ unrestored' = unrestored
        BY <2>1, <2>4, <3>1
      <3>2. CASE /\ prot' = prot
                 /\ unrestored' = IF o.perm = "code" THEN unrestored \cup {g} ELSE unrestored
        BY <2>1, <2>4, <3>2
      <3>. QED
        BY <1>2, <3>1, <3>2 DEF Restore
    <2>2. PagesProtected'
      <3> SUFFICES ASSUME NEW w \in Page
                   PROVE  prot'[w] = IF \/ \E i \in DOMAIN ops' : PageOf[ops'[i].target] = w
                                        \/ w \in unrestored'
                                     THEN "writable" ELSE "code"
        BY DEF PagesProtected
      <3>1. ASSUME NEW i \in DOMAIN ops' PROVE i + 1 \in DOMAIN ops /\ 1 < i + 1 /\ ops'[i] = ops[i + 1]
        BY <1>3
      <3>2. ASSUME NEW j \in DOMAIN ops, 1 < j PROVE j - 1 \in DOMAIN ops' /\ ops'[j - 1] = ops[j]
        BY <1>3, <3>2
      <3>3. (\E i \in DOMAIN ops' : PageOf[ops'[i].target] = w)
              <=> \E j \in DOMAIN ops : 1 < j /\ PageOf[ops[j].target] = w
        BY <3>1, <3>2
      <3>4. CASE w = g
        BY <2>5, <3>3, <3>4
      <3>5. CASE w # g
        <4>1. prot'[w] = prot[w] /\ (w \in unrestored' <=> w \in unrestored)
          BY <2>5, <3>5
        <4>2. (\E j \in DOMAIN ops : 1 < j /\ PageOf[ops[j].target] = w)
                <=> \E j \in DOMAIN ops : PageOf[ops[j].target] = w
          BY <1>3, <3>5
        <4>3. prot[w] = IF \/ \E j \in DOMAIN ops : PageOf[ops[j].target] = w
                           \/ w \in unrestored
                        THEN "writable" ELSE "code"
          BY DEF Inv, ProtInv, PagesProtected
        <4>. QED
          BY <3>3, <4>1, <4>2, <4>3
      <3>. QED
        BY <3>4, <3>5
    <2>3. ASSUME NEW i \in DOMAIN ops' PROVE ops'[i].perm = Found(i)'
      <3>1. i + 1 \in DOMAIN ops /\ ops'[i] = ops[i + 1]
        BY <1>3
      <3>2. ops[i + 1].perm = Found(i + 1)
        BY <3>1 DEF Inv, ProtInv
      <3>3. ASSUME NEW j \in DOMAIN ops', i < j
            PROVE  j + 1 \in DOMAIN ops /\ ops'[j] = ops[j + 1] /\ i + 1 < j + 1
        BY <1>3, <3>3
      <3>4. ASSUME NEW j \in DOMAIN ops, i + 1 < j
            PROVE  j - 1 \in DOMAIN ops' /\ ops'[j - 1] = ops[j] /\ i < j - 1
        BY <1>3, <3>4
      <3>5. (\E j \in DOMAIN ops' : i < j /\ PageOf[ops'[j].target] = PageOf[ops'[i].target])
              <=> \E j \in DOMAIN ops : i + 1 < j /\ PageOf[ops[j].target] = PageOf[ops[i + 1].target]
        BY <3>1, <3>3, <3>4
      <3>6. PageOf[ops'[i].target] \in unrestored' <=> PageOf[ops[i + 1].target] \in unrestored
        <4>1. CASE PageOf[ops[i + 1].target] = g
          <5>1. 1 < i + 1
            BY <1>3
          <5>. QED
            BY <2>5, <3>1, <4>1, <5>1
        <4>2. CASE PageOf[ops[i + 1].target] # g
          <5>1. PageOf[ops[i + 1].target] \in Page
            BY <3>1, OpType, DetourAssumption DEF Inv
          <5>. QED
            BY <2>5, <3>1, <4>2, <5>1
        <4>. QED
          BY <4>1, <4>2
      <3>. QED
        BY <3>1, <3>2, <3>5, <3>6 DEF Found
    <2>. QED
      BY <2>2, <2>3 DEF ProtInv
  <1>17. WritesWell
    BY <1>2, <1>6 DEF WritesWell
  <1>. QED
    BY <1>8, <1>11, <1>12, <1>13, <1>14, <1>15, <1>16, <1>17 DEF Inv

LEMMA ReleaseInv ==
    ASSUME Inv, NEW c \in Client, Release(c)
    PROVE  Inv' /\ WritesWell
  <1>1. PICK h : /\ h = heap \/ h = FreeUnusedRegions(heap)
                 /\ heap' = MakeRunnable(h)
    BY DEF Release
  <1>2. /\ pc[c] = "ops" /\ ops = <<>> /\ pc' = [pc EXCEPT ![c] = "return"]
        /\ suspended' = suspended \ (threads \ stuck') /\ threads' = {} /\ owner' = Null
        /\ eip' = [t \in Thread |-> IF t \in threads THEN Nowhere ELSE eip[t]] /\ unmoved' = {}
        /\ UNCHANGED <<failed, ops, pointer, entry, prot, unrestored, ignoreTooSmall,
                       retainRegions, closing, answer, freed, transactions>>
        /\ stuck' \subseteq stuck \cup threads /\ stuck \subseteq stuck'
    BY DEF Release, code, modes
  <1>3. /\ HeapInv(h) /\ SameUse(h, heap)
        /\ \A t \in Slot : t[1] \in Regions(h) => h.tramp[t] = heap.tramp[t]
    <2>1. CASE h = heap
      BY <2>1, SameHeapUse DEF Inv
    <2>2. CASE h = FreeUnusedRegions(heap)
      BY <2>2, FreeUnusedInv DEF Inv
    <2>. QED
      BY <1>1, <2>1, <2>2
  <1>4. HeapInv(heap') /\ Regions(heap') = Regions(h) /\ SameUse(heap', h) /\ heap'.tramp = h.tramp
    BY <1>1, <1>3, MakeRunnableInv
  <1>5. SameUse(heap', heap)
    BY <1>3, <1>4, SameUseTransitive
  <1>6. TypeOK'
    <2>1. heap' \in Heap
      BY <1>4 DEF HeapInv
    <2>2. DOMAIN eip' = Thread /\ \A t \in Thread : eip'[t].at \in Function \cup Slot \cup {Null}
      BY <1>2 DEF Inv, TypeOK, Nowhere
    <2>3. pc' \in [Client -> {"idle", "open", "ops", "return"}]
      BY <1>2 DEF Inv, TypeOK
    <2>. QED
      BY <1>2, <2>1, <2>2, <2>3 DEF Inv, TypeOK
  <1>7. OwnerInv'
    <2>1. \A d \in Client : pc'[d] \notin {"open", "ops"}
      BY <1>2, OwnerAlone DEF Inv, TypeOK
    <2>2. suspended' = threads' \cup stuck' /\ ops' = <<>>
      BY <1>2 DEF Inv, OwnerInv
    <2>. QED
      BY <1>2, <2>1, <2>2, DetourAssumption DEF OwnerInv
  <1>8. OpsInv' /\ PointersInv' /\ UseInv'
    BY <1>2, <1>5, Frame DEF Inv
  <1>9. ProtInv' /\ WriteInv'
    BY <1>2, SameProt DEF Inv, WriteInv
  <1>10. WritesWell
    BY <1>2, <1>3, <1>4 DEF WritesWell
  <1>. QED
    BY <1>4, <1>6, <1>7, <1>8, <1>9, <1>10 DEF Inv

LEMMA ReturnsInv ==
    ASSUME Inv, NEW c \in Client, Return(c)
    PROVE  Inv' /\ WritesWell
  <1>1. /\ pc[c] = "return" /\ pc' = [pc EXCEPT ![c] = "idle"]
        /\ closing' = [closing EXCEPT ![c] = "none"]
        /\ UNCHANGED <<heap, owner, failed, threads, ops, pointer, entry, prot, suspended, eip,
                       stuck, unmoved, unrestored, ignoreTooSmall, retainRegions, freed,
                       transactions>>
    BY DEF Return, own, modes, code, held, refused
  <1>2. /\ pc' \in [Client -> {"idle", "open", "ops", "return"}]
        /\ closing' \in [Client -> {"none", "commit", "abort", "drop"}]
        /\ answer' \in [Client -> {"none", "success", "error", "dropped"}]
    BY <1>1 DEF Inv, TypeOK, Return
  <1>3. TypeOK'
    BY <1>1, <1>2 DEF Inv, TypeOK
  <1>4. Committed' <=> Committed
    BY <1>1 DEF Committed, Inv, TypeOK
  <1>5. SameUse(heap', heap)
    BY <1>1 DEF SameUse
  <1>6. OpsInv' /\ PointersInv' /\ UseInv'
    BY <1>1, <1>4, <1>5, Frame DEF Inv
  <1>7. OwnerInv' /\ HeapInv(heap') /\ WriteInv' /\ ProtInv'
    BY <1>1, SameProt DEF Inv, OwnerInv, TypeOK, WriteInv
  <1>8. WritesWell
    BY <1>1 DEF WritesWell
  <1>. QED
    BY <1>3, <1>6, <1>7, <1>8 DEF Inv

----------------------------------------------------------------------------
(* The free lists, which only these steps change.                          *)

LEMMA AttachList ==
    ASSUME Inv, ListInv(heap), NEW c \in Client, NEW p \in Pointer, Attach(c, p)
    PROVE  ListInv(heap')
  <1>1. CASE heap' = heap
    BY <1>1
  <1>2. ASSUME pointer[p] # Null, pointer[p] \notin Slot,
               NEW f, f = CodeFromPointer(pointer[p]),
               NEW res \in AllocTrampoline(heap, f), NEW h, h = res[1], NEW s, s = res[2],
               NEW full, full = [h EXCEPT !.tramp[s] = [remain |-> f, detour |-> DetourOf[p],
                                                       restore |-> entry[f]]],
               \/ s = Null /\ heap' = h
               \/ s # Null /\ heap' = FreeTrampoline(h, s)
               \/ s # Null /\ heap' = FreeTrampoline(full, s)
               \/ s # Null /\ heap' = full
        PROVE  ListInv(heap')
    <2>1. f \in Function
      <3>1. pointer[p] \in Address
        BY <1>2 DEF Inv, TypeOK
      <3>. QED
        BY <1>2, <3>1, FunctionLeads DEF CodeFromPointer
    <2> DEFINE x == [remain |-> f, detour |-> DetourOf[p], restore |-> entry[f]]
    <2>2. x \in Trampoline /\ x.remain \in Function /\ Filled(Break) \in Trampoline
      <3>1. entry[f] \in Slot \cup {Null, Break} /\ DetourOf[p] \in Detour
        BY <2>1, DetourAssumption DEF Inv, TypeOK
      <3>. QED
        BY <2>1, <3>1, FilledType DEF Trampoline
    <2>3. full = [h EXCEPT !.tramp[s] = x]
      BY <1>2
    <2> HIDE DEF x
    <2>4. \/ s = Null /\ Grown(h, heap)
          \/ \E g : /\ Grown(g, heap)
                    /\ \E r \in Regions(g) : g.free[r] # Null /\ res = <<Pop(g, r), g.free[r]>>
      BY <1>2, <2>1, AllocInv DEF Inv
    <2>5. CASE s = Null
      <3>1. Grown(h, heap)
        <4>1. ASSUME NEW g, Grown(g, heap), NEW r \in Regions(g), g.free[r] # Null,
                     res = <<Pop(g, r), g.free[r]>>
              PROVE  FALSE
          BY <1>2, <2>5, <4>1
        <4>. QED
          BY <2>4, <4>1
      <3>. QED
        BY <1>2, <2>5, <3>1 DEF Grown
    <2>6. CASE s # Null
      <3>1. PICK g : /\ Grown(g, heap)
                     /\ \E r \in Regions(g) : g.free[r] # Null /\ res = <<Pop(g, r), g.free[r]>>
        BY <2>4, <2>6
      <3>2. PICK r \in Regions(g) : g.free[r] # Null /\ res = <<Pop(g, r), g.free[r]>>
        BY <3>1
      <3>3. h = Pop(g, r) /\ s = g.free[r]
        BY <1>2, <3>2
      <3>4. HeapInv(g) /\ ListInv(g)
        BY <3>1 DEF Grown
      <3>5. Taken(h, g, r, Filled(Break))
        BY <3>2, <3>3, <3>4, PopTaken
      <3>6. Taken(full, g, r, x)
        <4>1. full = [h EXCEPT !.tramp = [h.tramp EXCEPT ![g.free[r]] = x]]
          BY <2>3, <3>3
        <4>. QED
          BY <2>2, <3>2, <3>4, <3>5, <4>1, FillTaken
      <3>7. ListInv(full)
        BY <2>2, <3>2, <3>4, <3>6, TakeList
      <3>8. ASSUME NEW y, NEW z \in Trampoline, Taken(y, g, r, z)
            PROVE  ListInv(FreeTrampoline(y, s))
        <4>1. PICK k : k = FreeTrampoline(y, g.free[r])
          OBVIOUS
        <4>2. /\ Regions(k) = Regions(g) /\ k.free = g.free /\ SameUse(k, g)
              /\ \A t \in Slot : k.tramp[t].remain = g.tramp[t].remain
          BY <3>2, <3>4, <3>8, <4>1, ReturnInv
        <4>3. ListInv(k)
          BY <3>4, <4>2, SameList
        <4>. QED
          BY <3>3, <4>1, <4>3
      <3>. QED
        BY <1>2, <2>2, <2>6, <3>5, <3>6, <3>7, <3>8
    <2>. QED
      BY <2>5, <2>6
  <1>. QED
    BY <1>1, <1>2 DEF Attach

LEMMA EndOperationList ==
    ASSUME Inv, ListInv(heap), NEW c \in Client, EndOperation(c)
    PROVE  ListInv(heap')
  <1>1. PICK o : o = Head(ops)
    OBVIOUS
  <1>2. heap' = FreeTrampoline(heap, o.slot) \/ heap' = heap
    BY <1>1 DEF EndOperation
  <1>3. o = ops[1] /\ 1 \in DOMAIN ops
    BY <1>1, TailSeq DEF EndOperation, Inv, TypeOK
  <1>4. o.slot \in Slot /\ Busy(heap, o.slot)
    BY <1>3, OpType DEF Inv
  <1>5. PICK k : k = FreeTrampoline(heap, o.slot)
    OBVIOUS
  <1>6. ListInv(k)
    BY <1>4, <1>5, FreedList DEF Inv
  <1>. QED
    BY <1>2, <1>5, <1>6

LEMMA ReleaseList ==
    ASSUME Inv, ListInv(heap), NEW c \in Client, Release(c)
    PROVE  ListInv(heap')
  <1>1. PICK h : /\ h = heap \/ h = FreeUnusedRegions(heap)
                 /\ heap' = MakeRunnable(h)
    BY DEF Release
  <1>2. HeapInv(h) /\ ListInv(h)
    <2>1. CASE h = heap
      BY <2>1 DEF Inv
    <2>2. CASE h = FreeUnusedRegions(heap)
      <3>1. /\ HeapInv(h) /\ SameUse(h, heap) /\ Regions(h) \subseteq Regions(heap)
            /\ \A t \in Slot : t[1] \in Regions(h) => h.tramp[t] = heap.tramp[t]
            /\ \A r \in Regions(h) : h.free[r] = heap.free[r]
        BY <2>2, FreeUnusedInv DEF Inv
      <3>. QED
        BY <3>1, SameList
    <2>. QED
      BY <1>1, <2>1, <2>2
  <1>3. PICK k : k = MakeRunnable(h)
    OBVIOUS
  <1>4. Regions(k) = Regions(h) /\ SameUse(k, h) /\ k.tramp = h.tramp
    BY <1>2, <1>3, MakeRunnableInv
  <1>5. k.free = h.free
    BY <1>2, <1>3 DEF MakeRunnable, HeapInv, Heap
  <1>6. ListInv(k)
    BY <1>2, <1>4, <1>5, SameList
  <1>. QED
    BY <1>1, <1>3, <1>6

LEMMA BeginList ==
    ASSUME Inv, ListInv(heap), NEW c \in Client, Begin(c)
    PROVE  ListInv(heap')
  <1>1. PICK n \in 0..Len(heap.regions) : heap' = MakeWritable(heap, n)
    BY DEF Begin
  <1>3. PICK k : k = MakeWritable(heap, n)
    OBVIOUS
  <1>4. Regions(k) = Regions(heap) /\ SameUse(k, heap) /\ k.tramp = heap.tramp
    BY <1>3, MakeWritableInv DEF Inv
  <1>5. k.free = heap.free
    BY <1>3 DEF MakeWritable, Inv, HeapInv, Heap
  <1>6. ListInv(k)
    BY <1>4, <1>5, SameList
  <1>. QED
    BY <1>1, <1>3, <1>6

LEMMA StepList == Inv /\ ListInv(heap) /\ [Next]_vars => ListInv(heap')
  <1> SUFFICES ASSUME Inv, ListInv(heap), [Next]_vars PROVE ListInv(heap')
    OBVIOUS
  <1>1. ASSUME NEW c \in Client,
               \/ SetIgnoreTooSmall(c) \/ SetRetainRegions(c) \/ Abort(c) \/ Commit(c) \/ Return(c)
               \/ \E t \in Thread : UpdateThread(c, t)
               \/ \E p \in Pointer : Detach(c, p)
        PROVE  heap' = heap
    BY <1>1 DEF SetIgnoreTooSmall, SetRetainRegions, Abort, Commit, Return, UpdateThread, Detach
  <1>2. UNCHANGED vars => heap' = heap
    BY DEF vars
  <1>. QED
    BY <1>1, <1>2, BeginList, EndOperationList, ReleaseList, AttachList DEF Next, Finish

----------------------------------------------------------------------------
(* The theorems.                                                           *)

LEMMA StepInv == Inv /\ [Next]_vars => Inv' /\ (WritesWell \/ UNCHANGED vars)
  <1> SUFFICES ASSUME Inv, [Next]_vars PROVE Inv' /\ (WritesWell \/ UNCHANGED vars)
    OBVIOUS
  <1>1. CASE UNCHANGED vars
    <2>1. UNCHANGED <<heap, owner, failed, threads, ops, pointer, entry, prot, suspended, eip,
                      stuck, unmoved, unrestored, ignoreTooSmall, retainRegions, pc, closing,
                      answer, freed, transactions>>
      BY <1>1 DEF vars, own, code, held, refused, modes, ctrl
    <2>2. TypeOK' /\ HeapInv(heap') /\ OwnerInv' /\ ProtInv' /\ WriteInv'
      BY <2>1, SameProt DEF Inv, TypeOK, OwnerInv, WriteInv
    <2>3. SameUse(heap', heap) /\ (Committed' <=> Committed)
      BY <2>1 DEF SameUse, Committed
    <2>4. OpsInv' /\ PointersInv' /\ UseInv'
      BY <2>1, <2>3, Frame DEF Inv
    <2>. QED
      BY <1>1, <2>2, <2>4 DEF Inv
  <1>2. ASSUME NEW c \in Client,
               \/ SetIgnoreTooSmall(c) \/ SetRetainRegions(c)
               \/ Begin(c) \/ Abort(c) \/ Finish(c)
               \/ \E t \in Thread : UpdateThread(c, t)
               \/ \E p \in Pointer : Attach(c, p) \/ Detach(c, p)
        PROVE  Inv' /\ WritesWell
    <2>1. CASE SetIgnoreTooSmall(c) \/ SetRetainRegions(c)
      BY <2>1, ModesInv
    <2>2. CASE Begin(c)
      BY <2>2, BeginInv
    <2>3. CASE Abort(c)
      BY <2>3, AbortInv
    <2>4. CASE Commit(c)
      BY <2>4, CommitInv
    <2>5. CASE EndOperation(c)
      BY <2>5, EndOperationInv
    <2>6. CASE Release(c)
      BY <2>6, ReleaseInv
    <2>7. CASE Return(c)
      BY <2>7, ReturnsInv
    <2>8. CASE \E t \in Thread : UpdateThread(c, t)
      BY <2>8, UpdateThreadInv
    <2>9. CASE \E p \in Pointer : Attach(c, p)
      BY <2>9, AttachInv
    <2>10. CASE \E p \in Pointer : Detach(c, p)
      BY <2>10, DetachInv
    <2>. QED
      BY <1>2, <2>1, <2>2, <2>3, <2>4, <2>5, <2>6, <2>7, <2>8, <2>9, <2>10 DEF Finish
  <1>. QED
    BY <1>1, <1>2 DEF Next

LEMMA SpecInv == Spec => []Inv
  <1>1. Inv /\ [Next]_vars => Inv'
    BY StepInv
  <1>. QED
    BY InitInv, <1>1, PTL DEF Spec

\* Everything the transaction keeps has the form its code relies on, whatever
\* the calls are and however they fail.
THEOREM TransactionTypes == Spec => []TypeOK
  <1>1. Inv => TypeOK
    BY DEF Inv
  <1>. QED
    BY SpecInv, <1>1, PTL

\* DetourTransactionCommitEx and DetourTransactionAbort leave every pointer in
\* one of two states: hooked, with a trampoline that leads back to the
\* function, or clear; so does every step between them.
THEOREM TransactionCallsWell == Spec => []CallsWell
  <1>1. Inv => CallsWell
    BY DEF Inv, PointersInv, PointerGood, CallsWell
  <1>. QED
    BY SpecInv, <1>1, PTL

\* What a pointer or an operation uses is a trampoline in use.
LEMMA InUseBusy ==
    ASSUME Inv, NEW s \in InUse
    PROVE  s \in Slot /\ Busy(heap, s)
  <1>1. CASE \E i \in DOMAIN ops : ops[i].slot = s
    BY <1>1, OpType DEF Inv
  <1>2. CASE s \in Slot /\ \E p \in Pointer : pointer[p] = s
    BY <1>2, PointerSlot DEF Inv
  <1>. QED
    BY <1>1, <1>2 DEF InUse

\* detour_alloc_trampoline never hands out a trampoline that is in use, and
\* detour_free_unused_trampoline_regions never gives back its region.
THEOREM TransactionTrampolines == Spec => []TrampolinesDistinct
  <1>1. ASSUME Inv PROVE TrampolinesDistinct
    <2>1. ASSUME NEW s \in InUse PROVE s \in Slot /\ Busy(heap, s)
      BY <1>1, InUseBusy
    <2>2. \A s \in InUse : s[1] \in Regions(heap) /\ heap.tramp[s].remain \in Function
      BY <1>1, <2>1 DEF Inv, HeapInv, LinksIdle, Busy
    <2>3. \A r \in Region : heap.free[r] \notin InUse
      <3> SUFFICES ASSUME NEW r \in Region, heap.free[r] \in InUse PROVE FALSE
        OBVIOUS
      <3>1. heap.free[r] # Null
        BY <2>1, SlotParts
      <3>. QED
        BY <1>1, <2>1, <3>1 DEF Inv, HeapInv, HeadsIdle
    <2>4. ASSUME NEW p \in Pointer, NEW q \in Pointer, pointer[p] \in Slot, pointer[p] = pointer[q]
          PROVE  p = q
      <3>1. /\ FunctionOf(p) = heap.tramp[pointer[p]].remain /\ Start[p] # Null
            /\ FunctionOf(q) = heap.tramp[pointer[q]].remain /\ Start[q] # Null
        BY <1>1, <2>4, PointerSlot DEF Inv
      <3>. QED
        BY <2>4, <3>1, FunctionsDistinct
    <2>5. \A i, j \in DOMAIN ops : i # j => ops[i].slot # ops[j].slot
      BY <1>1, OpSlots DEF Inv
    <2>. QED
      BY <2>2, <2>3, <2>4, <2>5 DEF TrampolinesDistinct
  <1>2. Inv => TrampolinesDistinct
    BY <1>1
  <1>. QED
    BY SpecInv, <1>2, PTL

\* The free list of every region ends and has every trampoline that is not in
\* use, but the two that are never listed, whatever allocations, failures,
\* detachments and aborts came before.
THEOREM TransactionAccounts == Spec => []TrampolinesAccounted
  <1>1. Init => ListInv(heap)
    BY EmptyList DEF Init
  <1>2. Inv /\ ListInv(heap) /\ [Next]_vars => ListInv(heap)'
    BY StepList
  <1>3. ASSUME Inv, ListInv(heap) PROVE TrampolinesAccounted
    <2> SUFFICES ASSUME NEW r \in Regions(heap)
                 PROVE  /\ FreeList(heap, r)[Last + 1] = Null
                        /\ OnFreeList(heap, r) \cap InUse = {}
                        /\ {r} \X (2..Last) \subseteq OnFreeList(heap, r) \cup InUse
      BY DEF TrampolinesAccounted
    <2>1. /\ FreeList(heap, r)[Last + 1] = Null
          /\ OnFreeList(heap, r) = {s \in Slot : s[1] = r /\ s[2] >= 2 /\ ~Busy(heap, s)}
      BY <1>3, FreeListMeets DEF Inv
    <2>2. \A s \in Slot : Busy(heap, s) <=> s \in InUse
      BY <1>3, InUseBusy DEF Inv, UseInv
    <2>3. ASSUME NEW s \in {r} \X (2..Last) PROVE s \in Slot /\ s[1] = r /\ s[2] >= 2
      <3>1. r \in Region /\ Last \in Nat
        BY <1>3, RegionsType, RegionAssumption DEF Inv, HeapInv
      <3>2. s[2] \in 0..Last /\ s = <<r, s[2]>> /\ s[2] >= 2
        BY <3>1
      <3>. QED
        BY <3>1, <3>2, SlotParts
    <2>4. OnFreeList(heap, r) \cap InUse = {}
      BY <2>1, <2>2
    <2>5. {r} \X (2..Last) \subseteq OnFreeList(heap, r) \cup InUse
      BY <2>1, <2>2, <2>3
    <2>. QED
      BY <2>1, <2>4, <2>5
  <1>4. Inv /\ ListInv(heap) => TrampolinesAccounted
    BY <1>3
  <1>. QED
    BY SpecInv, <1>1, <1>2, <1>4, PTL DEF Spec

\* The operations' list is kept in the order in which protections have to be
\* restored, so that pages shared by functions end as they began: the only ones
\* left writable are those whose own protection VirtualProtect once refused to
\* give back, which EndOperation ignores as the code does.
THEOREM TransactionProtection == Spec => []PagesProtected
  <1>1. Inv => PagesProtected
    BY DEF Inv, ProtInv
  <1>. QED
    BY SpecInv, <1>1, PTL

\* Every way out of a transaction resumes what DetourUpdateThread suspended, but
\* for the threads that ResumeThread failed for, then or before.
THEOREM TransactionResumes == Spec => []NoneLeftSuspended
  <1>1. Inv => NoneLeftSuspended
    BY DEF Inv, OwnerInv, NoneLeftSuspended
  <1>. QED
    BY SpecInv, <1>1, PTL

\* No call writes to a trampoline or a function that is not writable: an error
\* of DetourTransactionBegin keeps the calls after it from writing.
THEOREM TransactionWrites == Spec => NeverFaults
  <1>1. WritesWell \/ UNCHANGED vars =>
          [/\ \A s \in Slot : heap'.tramp[s] # heap.tramp[s] /\ s[1] \in Regions(heap) \cap Regions(heap)'
                              => s[1] \in heap.writable
           /\ \A f \in Function : entry'[f] # entry[f] => prot[PageOf[f]] = "writable"]_vars
    BY DEF WritesWell, Regions
  <1>2. Inv /\ [Next]_vars => WritesWell \/ UNCHANGED vars
    BY StepInv
  <1>. QED
    BY SpecInv, <1>1, <1>2, PTL DEF Spec, NeverFaults

----------------------------------------------------------------------------
(* Where instructions end.  Offset and CopyOffset are running sums, which   *)
(* the provers have to be shown to exist before they can be unfolded.       *)

\* The sums of d from the first term on.
Sums(g, N, d) == g = [n \in 0..N |-> IF n = 0 THEN 0 ELSE g[n - 1] + d[n]]

LEMMA SumExists ==
    ASSUME NEW N \in Nat, NEW d \in [1..N -> Int]
    PROVE  \E g : Sums(g, N, d)
  <1> DEFINE step == [x \in (1..N) \X Int |-> x[2] + d[x[1]]]
             A == Int
  <1>1. step \in [(1..N) \X A -> A] /\ 0 \in A
    OBVIOUS
  <1>2. PICK g \in [0..N -> Int] : g[0] = 0 /\ \A n \in 1..N : g[n] = step[<<n, g[n - 1]>>]
    <2> HIDE DEF step, A
    <2>1. \E g : Iterates(g, N, A, 0, step)
      BY <1>1, Iteration
    <2> USE DEF A
    <2>. QED
      BY <2>1 DEF Iterates
  <1>3. \A n \in 1..N : g[n] = g[n - 1] + d[n]
    <2> SUFFICES ASSUME NEW n \in 1..N PROVE step[<<n, g[n - 1]>>] = g[n - 1] + d[n]
      BY <1>2
    <2>1. <<n, g[n - 1]>> \in (1..N) \X Int
      BY <1>2
    <2>. QED
      BY <2>1
  <1> DEFINE v(n) == IF n = 0 THEN 0 ELSE g[n - 1] + d[n]
  <1>4. \A n \in 0..N : g[n] = v(n)
    BY <1>2, <1>3
  <1> HIDE DEF v
  <1>5. g = [n \in 0..N |-> v(n)]
    BY <1>2, <1>4
  <1>. QED
    BY <1>5 DEF Sums, v

LEMMA SumSteps ==
    ASSUME NEW N \in Nat, NEW d \in [1..N -> Int], NEW g, Sums(g, N, d)
    PROVE  g \in [0..N -> Int] /\ g[0] = 0 /\ \A n \in 1..N : g[n] = g[n - 1] + d[n]
  <1>1. g[0] = 0 /\ \A n \in 1..N : g[n] = g[n - 1] + d[n]
    BY DEF Sums
  <1> DEFINE S == {n \in Nat : n <= N => g[n] \in Int}
  <1>2. 0 \in S
    BY <1>1
  <1>3. \A n \in Nat : n \in S => n + 1 \in S
    <2> SUFFICES ASSUME NEW n \in Nat, n \in S, n + 1 <= N PROVE g[n + 1] \in Int
      OBVIOUS
    <2>1. n + 1 \in 1..N /\ n <= N
      OBVIOUS
    <2>. QED
      BY <1>1, <2>1
  <1> HIDE DEF S
  <1>4. Nat \subseteq S
    BY <1>2, <1>3, SetInduction
  <1>5. \A n \in 0..N : g[n] \in Int
    BY <1>4 DEF S
  <1>. QED
    BY <1>1, <1>5 DEF Sums

\* A sum of positive terms grows.
LEMMA Grows ==
    ASSUME NEW N \in Nat, NEW g \in [0..N -> Int], \A n \in 1..N : g[n - 1] < g[n]
    PROVE  \A i, j \in 0..N : i < j => g[i] < g[j]
  <1> SUFFICES ASSUME NEW i \in 0..N PROVE \A j \in 0..N : i < j => g[i] < g[j]
    OBVIOUS
  <1> DEFINE S == {n \in Nat : i < n /\ n <= N => g[i] < g[n]}
  <1>1. 0 \in S
    OBVIOUS
  <1>2. \A n \in Nat : n \in S => n + 1 \in S
    <2> SUFFICES ASSUME NEW n \in Nat, n \in S, i < n + 1, n + 1 <= N PROVE g[i] < g[n + 1]
      OBVIOUS
    <2>1. n + 1 \in 1..N /\ n \in 0..N
      OBVIOUS
    <2>2. g[n] < g[n + 1] /\ g[i] \in Int /\ g[n] \in Int /\ g[n + 1] \in Int
      BY <2>1
    <2>3. i = n \/ g[i] < g[n]
      BY <2>1
    <2>. QED
      BY <2>2, <2>3
  <1> HIDE DEF S
  <1>3. Nat \subseteq S
    BY <1>1, <1>2, SetInduction
  <1>. QED
    BY <1>3 DEF S

LEMMA InstructionType ==
    ASSUME NEW f \in Function
    PROVE  /\ Len(Instructions[f]) \in Nat
           /\ \A n \in 1..Len(Instructions[f]) :
                Instructions[f][n].len \in 1..15 /\ Instructions[f][n].extra \in Int
  <1>1. Instructions[f] \in Seq(Instruction)
    BY DetourAssumption
  <1>2. \A x \in Instruction : x.len \in 1..15 /\ x.extra \in Int
    <2>1. {-3, 0, 3, 4} \subseteq Int
      OBVIOUS
    <2>. QED
      BY <2>1 DEF Instruction
  <1>3. Len(Instructions[f]) \in Nat /\ \A n \in 1..Len(Instructions[f]) : Instructions[f][n] \in Instruction
    BY <1>1
  <1>. QED
    BY <1>2, <1>3

LEMMA OffsetSteps ==
    ASSUME NEW f \in Function
    PROVE  LET N == Len(Instructions[f])
           IN  /\ N \in Nat /\ Offset[f] \in [0..N -> Int] /\ Offset[f][0] = 0
               /\ \A i, j \in 0..N : i < j => Offset[f][i] < Offset[f][j]
  <1> DEFINE N == Len(Instructions[f])
             d == [n \in 1..N |-> Instructions[f][n].len]
             W == Offset[f]
             Def(g) == g = [n \in 0..N |-> IF n = 0 THEN 0 ELSE g[n - 1] + Instructions[f][n].len]
  <1>1. N \in Nat /\ \A n \in 1..N : Instructions[f][n].len \in 1..15
    BY InstructionType
  <1>2. d \in [1..N -> Int]
    BY <1>1
  <1>3. ASSUME NEW g PROVE Def(g) <=> Sums(g, N, d)
    <2>1. \A n \in 0..N : n # 0 => d[n] = Instructions[f][n].len
      BY <1>1
    <2> HIDE DEF d
    <2>2. \A n \in 0..N : (IF n = 0 THEN 0 ELSE g[n - 1] + Instructions[f][n].len)
                          = (IF n = 0 THEN 0 ELSE g[n - 1] + d[n])
      BY <2>1
    <2>. QED
      BY <2>2 DEF Sums
  <1>4. W = CHOOSE g : Def(g)
    BY Zenon DEF Offset
  <1>5. Def(W)
    <2> HIDE DEF d, N
    <2>1. \E g : Sums(g, N, d)
      BY <1>1, <1>2, SumExists
    <2>2. \E g : Def(g)
      BY <1>3, <2>1
    <2> HIDE DEF Def
    <2>. QED
      BY <1>4, <2>2, Zenon
  <1> HIDE DEF W, Def
  <1>6. Sums(W, N, d)
    BY <1>3, <1>5
  <1>7. W \in [0..N -> Int] /\ W[0] = 0 /\ \A n \in 1..N : W[n] = W[n - 1] + d[n]
    <2> HIDE DEF d, N
    <2>. QED
      BY <1>1, <1>2, <1>6, SumSteps
  <1>8. \A n \in 1..N : W[n - 1] < W[n]
    <2> SUFFICES ASSUME NEW n \in 1..N PROVE W[n - 1] < W[n]
      OBVIOUS
    <2>1. d[n] \in 1..15 /\ n - 1 \in 0..N
      BY <1>1
    <2>2. W[n - 1] \in Int /\ W[n] = W[n - 1] + d[n]
      BY <1>7, <2>1
    <2> HIDE DEF d
    <2>. QED
      BY <2>1, <2>2
  <1>9. \A i, j \in 0..N : i < j => W[i] < W[j]
    BY <1>1, <1>7, <1>8, Grows
  <1>. QED
    BY <1>1, <1>7, <1>9 DEF W

LEMMA CopyOffsetSteps ==
    ASSUME NEW f \in Function
    PROVE  LET N == Len(Instructions[f])
           IN  CopyOffset[f] \in [0..N -> Int] /\ CopyOffset[f][0] = 0
  <1> DEFINE N == Len(Instructions[f])
             x(n) == Instructions[f][n].len + Instructions[f][n].extra
             d == [n \in 1..N |-> x(n)]
             W == CopyOffset[f]
             Def(g) == g = [n \in 0..N |-> IF n = 0 THEN 0
                            ELSE g[n - 1] + Instructions[f][n].len + Instructions[f][n].extra]
  <1>1. N \in Nat /\ \A n \in 1..N : Instructions[f][n].len \in Int /\ Instructions[f][n].extra \in Int
    BY InstructionType
  <1>2. d \in [1..N -> Int]
    BY <1>1
  <1>3. ASSUME NEW g PROVE Sums(g, N, d) => Def(g)
    <2> SUFFICES ASSUME Sums(g, N, d) PROVE Def(g)
      OBVIOUS
    <2>1. g \in [0..N -> Int]
      <3> HIDE DEF d, N
      <3>. QED
        BY <1>1, <1>2, SumSteps
    <2> DEFINE v(n) == g[n - 1] + Instructions[f][n].len + Instructions[f][n].extra
    <2>2. ASSUME NEW n \in 1..N PROVE v(n) = g[n - 1] + d[n]
      <3>1. d[n] = x(n)
        OBVIOUS
      <3>2. g[n - 1] \in Int
        <4>1. n - 1 \in 0..N
          BY <1>1
        <4> HIDE DEF N
        <4>. QED
          BY <2>1, <4>1
      <3>3. Instructions[f][n].len \in Int /\ Instructions[f][n].extra \in Int
        BY <1>1
      <3> HIDE DEF d
      <3>. QED
        BY <3>1, <3>2, <3>3
    <2>3. \A n \in 0..N : n # 0 => n \in 1..N
      BY <1>1
    <2> HIDE DEF v, d, N
    <2>4. \A n \in 0..N : (IF n = 0 THEN 0 ELSE v(n)) = (IF n = 0 THEN 0 ELSE g[n - 1] + d[n])
      BY <2>2, <2>3
    <2>5. g = [n \in 0..N |-> IF n = 0 THEN 0 ELSE v(n)]
      BY <2>4 DEF Sums
    <2>. QED
      BY <2>5 DEF v, N
  <1>4. W = CHOOSE g : Def(g)
    BY Zenon DEF CopyOffset
  <1>5. Def(W)
    <2> HIDE DEF d, N
    <2>1. \E g : Sums(g, N, d)
      BY <1>1, <1>2, SumExists
    <2>2. \E g : Def(g)
      BY <1>3, <2>1
    <2> HIDE DEF Def
    <2>. QED
      BY <1>4, <2>2, Zenon
  <1> HIDE DEF W
  <1>6. W[0] = 0 /\ DOMAIN W = 0..N
    BY <1>1, <1>5
  <1>7. \A n \in 1..N : W[n] = W[n - 1] + Instructions[f][n].len + Instructions[f][n].extra
    <2> SUFFICES ASSUME NEW n \in 1..N
                 PROVE  W[n] = W[n - 1] + Instructions[f][n].len + Instructions[f][n].extra
      OBVIOUS
    <2>1. n \in 0..N /\ n # 0
      BY <1>1
    <2> HIDE DEF N
    <2>. QED
      BY <1>5, <2>1
  <1> DEFINE S == {n \in Nat : n <= N => W[n] \in Int}
  <1>8. 0 \in S
    BY <1>6
  <1>9. \A n \in Nat : n \in S => n + 1 \in S
    <2> SUFFICES ASSUME NEW n \in Nat, n \in S, n + 1 <= N PROVE W[n + 1] \in Int
      OBVIOUS
    <2>1. n + 1 \in 1..N /\ n <= N /\ n + 1 - 1 = n
      BY <1>1
    <2>2. /\ Instructions[f][n + 1].len \in Int /\ Instructions[f][n + 1].extra \in Int
          /\ W[n] \in Int
      BY <1>1, <2>1
    <2>. QED
      BY <1>7, <2>1, <2>2
  <1> HIDE DEF S
  <1>10. Nat \subseteq S
    BY <1>8, <1>9, SetInduction
  <1>11. \A n \in 0..N : W[n] \in Int
    BY <1>1, <1>10 DEF S
  <1>12. W = [n \in 0..N |-> W[n]]
    BY <1>1, <1>5
  <1>. QED
    BY <1>6, <1>11, <1>12 DEF W

LEMMA FirstIs ==
    ASSUME NEW S \in SUBSET Nat, NEW n \in S, \A m \in S : n <= m
    PROVE  First(S) = n
  <1>1. \A k \in S : (\A m \in S : k <= m) => k = n
    OBVIOUS
  <1>. QED
    BY <1>1 DEF First

\* The loop of DetourAttachEx that copies instructions ends, and leaves no more
\* of them than the table rAlign has rows.
LEMMA CopiedType ==
    ASSUME NEW f \in Function
    PROVE  Copied[f] \in 0..Len(Instructions[f]) /\ Copied[f] <= 8 /\ CbTarget[f] \in Int
  <1> DEFINE N == Len(Instructions[f])
             Ends(n) == \/ Offset[f][n] >= SizeOfJmp \/ n = 8 \/ n = N
                        \/ n > 0 /\ Instructions[f][n].ends
             Goes(n) == \A k \in 1..(n - 1) :
                            Offset[f][k] < SizeOfJmp /\ k < 8 /\ ~Instructions[f][k].ends
             T == {n \in 0..N : Ends(n)}
  <1>1. N \in Nat /\ Offset[f] \in [0..N -> Int] /\ SizeOfJmp \in Int
    BY OffsetSteps DEF SizeOfJmp
  <1>2. PICK n \in T : \A m \in T : n <= m
    <2>1. T \in SUBSET Nat /\ N \in T
      BY <1>1
    <2> HIDE DEF T
    <2>. QED
      BY <2>1, LeastElement
  <1>3. n <= 8
    <2> SUFFICES ASSUME 8 < n PROVE FALSE
      BY <1>1, <1>2
    <2>1. 8 \in T
      BY <1>1, <1>2
    <2>. QED
      BY <1>1, <1>2, <2>1
  <1>4. Goes(n)
    <2> SUFFICES ASSUME NEW k \in 1..(n - 1)
                 PROVE  Offset[f][k] < SizeOfJmp /\ k < 8 /\ ~Instructions[f][k].ends
      OBVIOUS
    <2>1. k \in 0..N /\ k < n /\ k > 0 /\ k < 8
      BY <1>1, <1>2, <1>3
    <2>2. k \notin T
      BY <1>1, <1>2, <2>1
    <2>3. ~Ends(k)
      BY <2>1, <2>2
    <2>4. Offset[f][k] \in Int
      BY <1>1, <2>1
    <2>. QED
      BY <1>1, <2>1, <2>3, <2>4
  <1>5. Copied[f] = CHOOSE k \in 0..N : Ends(k) /\ Goes(k)
    BY Zenon DEF Copied
  <1>6. n \in 0..N /\ Ends(n)
    BY <1>2
  <1>7. Copied[f] \in 0..N /\ Goes(Copied[f])
    <2> HIDE DEF Ends, Goes, N
    <2>. QED
      BY <1>4, <1>5, <1>6, Zenon
  <1>8. Copied[f] <= 8
    <2> SUFFICES ASSUME 8 < Copied[f] PROVE FALSE
      BY <1>1, <1>7
    <2>1. 8 \in 1..(Copied[f] - 1)
      BY <1>1, <1>7
    <2>. QED
      BY <1>7, <2>1
  <1>9. CbTarget[f] \in Int
    <2>1. Offset[f][Copied[f]] \in Int /\ Padding[f] \in Int
      BY <1>1, <1>7, DetourAssumption
    <2>. QED
      BY <1>1, <2>1 DEF CbTarget
  <1>. QED
    BY <1>7, <1>8, <1>9

\* For a function that is Short the table rAlign leads from each copied
\* instruction to its copy and back.
LEMMA AlignRight ==
    ASSUME NEW f \in Function, Short(f), NEW n \in 0..Copied[f]
    PROVE  /\ n \in Nat /\ Offset[f][n] \in 0..7 /\ CopyOffset[f][n] \in 0..7
           /\ AlignFromTarget(f, Offset[f][n]) = CopyOffset[f][n]
           /\ AlignFromTrampoline(f, CopyOffset[f][n]) = Offset[f][n]
  <1> DEFINE N == Len(Instructions[f])
             O(k) == Offset[f][k]
             C(k) == CopyOffset[f][k]
  <1>1. /\ N \in Nat /\ Offset[f] \in [0..N -> Int] /\ CopyOffset[f] \in [0..N -> Int]
        /\ O(0) = 0 /\ C(0) = 0 /\ Copied[f] \in 0..N /\ Copied[f] <= 8
        /\ \A i, j \in 0..N : i < j => O(i) < O(j)
    BY OffsetSteps, CopyOffsetSteps, CopiedType
  <1>2. \A k \in 0..Copied[f] : k \in 0..N /\ O(k) \in Int /\ C(k) \in Int
    BY <1>1
  <1>3. \A i, j \in 0..Copied[f] : i < j => O(i) < O(j) /\ C(i) < C(j)
    <2> SUFFICES ASSUME NEW i \in 0..Copied[f], NEW j \in 0..Copied[f], i < j
                 PROVE  O(i) < O(j) /\ C(i) < C(j)
      OBVIOUS
    <2>1. i \in 0..(j - 1)
      BY <1>1
    <2>. QED
      BY <1>1, <1>2, <2>1 DEF Short
  <1>4. \A k \in 0..Copied[f] : O(k) \in 0..7 /\ C(k) \in 0..7
    <2> SUFFICES ASSUME NEW k \in 0..Copied[f] PROVE O(k) \in 0..7 /\ C(k) \in 0..7
      OBVIOUS
    <2>1. O(k) < 8 /\ C(k) < 8
      BY DEF Short, PointerSize
    <2>2. k = 0 \/ (0 < k /\ 0 \in 0..Copied[f])
      BY <1>1
    <2>3. 0 <= O(k) /\ 0 <= C(k)
      BY <1>1, <1>2, <1>3, <2>2
    <2>4. O(k) \in Int /\ C(k) \in Int
      BY <1>2
    <2> HIDE DEF O, C
    <2>. QED
      BY <2>1, <2>3, <2>4
  <1>5. \A i, j \in 0..Copied[f] : (O(i) = O(j) \/ C(i) = C(j)) => i = j
    BY <1>1, <1>2, <1>3
  <1>6. \A k \in 1..8 : /\ k <= Copied[f] => Align[f][k].target = O(k) /\ Align[f][k].copy = C(k)
                        /\ ~(k <= Copied[f]) => Align[f][k].target = 0 /\ Align[f][k].copy = 0
    <2> SUFFICES ASSUME NEW k \in 1..8
                 PROVE  /\ k <= Copied[f] => Align[f][k].target = O(k) /\ Align[f][k].copy = C(k)
                        /\ ~(k <= Copied[f]) => Align[f][k].target = 0 /\ Align[f][k].copy = 0
      OBVIOUS
    <2>1. Align[f][k] = IF k <= Copied[f] THEN [target |-> O(k) % 8, copy |-> C(k) % 32]
                        ELSE [target |-> 0, copy |-> 0]
      BY DEF Align
    <2>2. k <= Copied[f] => O(k) \in 0..7 /\ C(k) \in 0..7
      <3>1. Copied[f] \in Nat
        BY CopiedType
      <3>2. k <= Copied[f] => k \in 0..Copied[f]
        BY <3>1
      <3> HIDE DEF O, C
      <3>. QED
        BY <1>4, <3>2
    <2>3. \A x \in 0..7 : x % 8 = x /\ x % 32 = x
      OBVIOUS
    <2>. QED
      BY <2>1, <2>2, <2>3
  <1> HIDE DEF O, C
  <1> DEFINE A == {k \in 1..8 : Align[f][k].target = O(n)}
             B == {k \in 1..8 : Align[f][k].copy = C(n)}
  <1>7. n \in Nat /\ Copied[f] \in Nat
    BY <1>1
  <1>8. CASE n = 0
    <2>1. \A k \in A : Align[f][k].copy = 0
      <3> SUFFICES ASSUME NEW k \in A PROVE Align[f][k].copy = 0
        OBVIOUS
      <3>1. ~(k <= Copied[f])
        <4> SUFFICES ASSUME k <= Copied[f] PROVE FALSE
          OBVIOUS
        <4>1. O(k) = O(0) /\ k \in 0..Copied[f] /\ 0 \in 0..Copied[f]
          BY <1>6, <1>7, <1>8
        <4>. QED
          BY <1>5, <4>1
      <3>. QED
        BY <1>6, <3>1
    <2>2. \A k \in B : Align[f][k].target = 0
      <3> SUFFICES ASSUME NEW k \in B PROVE Align[f][k].target = 0
        OBVIOUS
      <3>1. ~(k <= Copied[f])
        <4> SUFFICES ASSUME k <= Copied[f] PROVE FALSE
          OBVIOUS
        <4>1. C(k) = C(0) /\ k \in 0..Copied[f] /\ 0 \in 0..Copied[f]
          BY <1>6, <1>7, <1>8
        <4>. QED
          BY <1>5, <4>1
      <3>. QED
        BY <1>6, <3>1
    <2>3. \A S \in SUBSET Nat : S # {} => First(S) \in S
      <3> SUFFICES ASSUME NEW S \in SUBSET Nat, S # {} PROVE First(S) \in S
        OBVIOUS
      <3>1. PICK m \in S : \A k \in S : m <= k
        BY LeastElement
      <3>. QED
        BY <3>1, FirstIs
    <2>4. A \in SUBSET Nat /\ B \in SUBSET Nat
      OBVIOUS
    <2>5. AlignFromTarget(f, O(n)) = IF A = {} THEN 0 ELSE Align[f][First(A)].copy
      BY DEF AlignFromTarget
    <2>6. AlignFromTrampoline(f, C(n)) = IF B = {} THEN 0 ELSE Align[f][First(B)].target
      BY DEF AlignFromTrampoline
    <2> HIDE DEF A, B
    <2>. QED
      BY <1>1, <1>4, <1>7, <1>8, <2>1, <2>2, <2>3, <2>4, <2>5, <2>6 DEF O, C
  <1>9. CASE n # 0
    <2>1. n \in 1..8 /\ n <= Copied[f]
      BY <1>1, <1>7, <1>9
    <2>2. O(n) # 0 /\ C(n) # 0
      BY <1>1, <1>5, <1>7, <1>9 DEF O, C
    <2>3. \A k \in 1..8 : k <= Copied[f] => k \in 0..Copied[f]
      BY <1>7
    <2>4. A = {n}
      <3>1. n \in A
        BY <1>6, <2>1
      <3>2. \A k \in A : k = n
        BY <1>5, <1>6, <2>2, <2>3
      <3>. QED
        BY <3>1, <3>2
    <2>5. B = {n}
      <3>1. n \in B
        BY <1>6, <2>1
      <3>2. \A k \in B : k = n
        BY <1>5, <1>6, <2>2, <2>3
      <3>. QED
        BY <3>1, <3>2
    <2>6. First({n}) = n
      BY <1>7, FirstIs
    <2>7. AlignFromTarget(f, O(n)) = Align[f][n].copy
      BY <2>4, <2>6 DEF AlignFromTarget
    <2>8. AlignFromTrampoline(f, C(n)) = Align[f][n].target
      BY <2>5, <2>6 DEF AlignFromTrampoline
    <2>. QED
      BY <1>4, <1>6, <1>7, <2>1, <2>7, <2>8 DEF O, C
  <1>. QED
    BY <1>8, <1>9

----------------------------------------------------------------------------
(* Suspended threads.                                                      *)

\* The function whose first instructions, or a copy of them, e is in, and the
\* places a property is stated of.
PlaceOf(e) == IF e.at \in Slot THEN heap.tramp[e.at].remain ELSE e.at
Counted(e) ==
    /\ PlaceOf(e) \in Function /\ Short(PlaceOf(e))
    /\ e.at \in Slot => e.off # RbCodeIn

\* e is between two of the first instructions of f, after the n-th: in a copy
\* that a pointer still leads to, or in the function, out of the way of a jump.
Stands(e, f, n) ==
    /\ f \in Function /\ Short(f) /\ n \in 0..Copied[f]
    /\ \/ /\ e.at \in Slot /\ heap.tramp[e.at].remain = f /\ Attached(e.at)
          /\ e.off = CopyOffset[f][n]
       \/ /\ e.at = f /\ (entry[f] = Null \/ e.off >= CbTarget[f])
          /\ e.off = Offset[f][n]

\* The threads of the transaction that go on when it is over, but for those
\* whose contexts the system did not let be read or set.
Followed == threads \ (stuck \cup unmoved)

\* Every such thread stands somewhere; as long as operations are collected it
\* is in no trampoline that could be handed out.
Open == \E c \in Client : pc[c] = "open"
PlaceGood(t) ==
    /\ Counted(eip[t]) => \E n \in Nat : Stands(eip[t], PlaceOf(eip[t]), n)
    /\ Open /\ eip[t].at \in Slot => Attached(eip[t].at)
PlaceInv == \A t \in Followed : PlaceGood(t)

\* A thread that stands after the n-th instruction goes on with the one after it.
LEMMA StandsMeans ==
    ASSUME NEW h, NEW jump, NEW e, NEW f \in Function, Short(f), NEW n \in 0..Copied[f],
           \/ e.at \in Slot /\ h.tramp[e.at].remain = f /\ e.off = CopyOffset[f][n]
           \/ e.at = f /\ (jump[f] = Null \/ e.off >= CbTarget[f]) /\ e.off = Offset[f][n]
    PROVE  Meaning(h, jump, e) = <<f, Offset[f][n]>>
  <1> DEFINE S == {k \in 0..Len(Instructions[f]) : CopyOffset[f][k] = e.off}
  <1>2. CASE e.at \in Slot /\ h.tramp[e.at].remain = f /\ e.off = CopyOffset[f][n]
    <2>1. e.at \notin Function
      BY <1>2, SlotParts
    <2>2. n \in S /\ S \in SUBSET Nat
      BY <1>2, InstructionType, CopiedType
    <2>3. \A k \in S : n <= k
      <3> SUFFICES ASSUME NEW k \in S, ~(n <= k) PROVE FALSE
        OBVIOUS
      <3>1. k \in 0..(n - 1)
        BY CopiedType
      <3>2. CopyOffset[f][k] < CopyOffset[f][n] /\ CopyOffset[f][n] \in 0..7
        BY <3>1, AlignRight DEF Short
      <3>3. CopyOffset[f][k] = CopyOffset[f][n]
        BY <1>2
      <3>. QED
        BY <3>2, <3>3
    <2>4. First(S) = n /\ S # {}
      <3> HIDE DEF S
      <3>. QED
        BY <2>2, <2>3, FirstIs
    <2>5. Meaning(h, jump, e) = IF f \notin Function \/ S = {} THEN Null ELSE <<f, Offset[f][First(S)]>>
      BY <1>2, <2>1, Zenon DEF Meaning
    <2> HIDE DEF S
    <2>. QED
      BY <2>4, <2>5
  <1>3. CASE e.at = f /\ (jump[f] = Null \/ e.off >= CbTarget[f]) /\ e.off = Offset[f][n]
    <2>1. ~(e.off >= CbTarget[f] /\ e.off < CbTarget[f])
      BY <1>3, AlignRight, CopiedType
    <2>2. ~(jump[e.at] # Null /\ e.off > 0 /\ e.off < CbTarget[e.at])
      BY <1>3, <2>1
    <2>3. Meaning(h, jump, e) = <<e.at, e.off>>
      BY <1>3, <2>2 DEF Meaning
    <2>. QED
      BY <1>3, <2>3
  <1>. QED
    BY <1>2, <1>3

\* A pointer's trampoline is filled the same way as long as it is attached.
Filling ==
    \A p \in Pointer : pointer[p] \in Slot =>
        heap.tramp[pointer[p]] = [remain |-> FunctionOf(p), detour |-> DetourOf[p], restore |-> Null]

LEMMA AttachedFilling == Inv => Filling
  BY PointerSlot DEF Inv, Filling, Hooked

LEMMA AttachedFillingNext == Inv' => Filling'
  BY AttachedFilling, PTL

LEMMA AttachedKept ==
    ASSUME Inv, Inv', pointer' = pointer, NEW s \in Slot, Attached(s)
    PROVE  heap'.tramp[s] = heap.tramp[s] /\ Attached(s)'
  <1>1. PICK p \in Pointer : pointer[p] = s
    BY DEF Attached
  <1>. QED
    BY <1>1, AttachedFilling, AttachedFillingNext DEF Filling, Attached

\* What a step must not do to thread t.
Keeps(t) ==
    /\ \A f \in Function, n \in Nat : Stands(eip[t], f, n) => Stands(eip[t], f, n)'
    /\ ~Counted(eip[t]) => ~Counted(eip[t])'

\* A step that writes no code and fills no trampoline a thread is in moves none.
LEMMA NotMoved ==
    ASSUME Inv, Inv', UNCHANGED <<pointer, entry>>, NEW t \in Thread, eip'[t] = eip[t],
           eip[t].at \in Slot =>
               \/ heap'.tramp[eip[t].at] = heap.tramp[eip[t].at]
               \/ ~Busy(heap', eip[t].at)
    PROVE  Keeps(t) /\ (eip[t].at \in Slot /\ Attached(eip[t].at) => Attached(eip[t].at)')
  <1> DEFINE e == eip[t]
  <1>1. e.at \in Slot /\ Attached(e.at) => heap'.tramp[e.at] = heap.tramp[e.at] /\ Attached(e.at)'
    BY AttachedKept
  <1>2. ASSUME NEW f \in Function, NEW n \in Nat, Stands(e, f, n) PROVE Stands(e, f, n)'
    BY <1>1, <1>2 DEF Stands
  <1>3. ASSUME Counted(e)' PROVE Counted(e)
    <2>1. CASE e.at \notin Slot
      BY <1>3, <2>1 DEF Counted, PlaceOf
    <2>2. CASE e.at \in Slot
      <3>1. Busy(heap', e.at)
        BY <1>3, <2>2 DEF Counted, PlaceOf, Busy
      <3>2. heap'.tramp[e.at] = heap.tramp[e.at]
        BY <2>2, <3>1
      <3>. QED
        BY <1>3, <2>2, <3>2 DEF Counted, PlaceOf
    <2>. QED
      BY <2>1, <2>2
  <1>. QED
    BY <1>1, <1>2, <1>3 DEF Keeps

\* What an operation covers is moved to the same instruction on its other side.
LEMMA MovedBy ==
    ASSUME TypeOK, OpsInv, NEW e
    PROVE  \/ /\ Moved(e) = e
              /\ \A i \in DOMAIN ops :
                    IF ops[i].remove THEN ~(e.at = ops[i].slot /\ e.off < PointerSize)
                    ELSE ~(e.at = ops[i].target /\ e.off < CbTarget[ops[i].target])
           \/ \E i \in DOMAIN ops :
                /\ ops[i].remove /\ e.at = ops[i].slot /\ e.off < PointerSize
                /\ Moved(e) = [at |-> ops[i].target, off |-> AlignFromTrampoline(ops[i].target, e.off)]
           \/ \E i \in DOMAIN ops :
                /\ ~ops[i].remove /\ e.at = ops[i].target
                /\ Moved(e) = [at |-> ops[i].slot, off |-> AlignFromTarget(ops[i].target, e.off)]
  <1> DEFINE covers(o) == IF o.remove THEN e.at = o.slot /\ e.off < PointerSize
                          ELSE e.at = o.target /\ e.off < CbTarget[o.target]
             by == {i \in DOMAIN ops : covers(ops[i])}
  <1>1. CASE by = {}
    <2>1. Moved(e) = e
      BY <1>1 DEF Moved
    <2>2. \A i \in DOMAIN ops : ~covers(ops[i])
      BY <1>1
    <2>. QED
      BY <2>1, <2>2
  <1>2. CASE by # {}
    <2>1. by \in SUBSET Nat
      BY DEF TypeOK
    <2>2. PICK i \in by : \A j \in by : i <= j
      <3> HIDE DEF by
      <3>. QED
        BY <1>2, <2>1, LeastElement
    <2>3. First(by) = i
      <3> HIDE DEF by
      <3>. QED
        BY <2>1, <2>2, FirstIs
    <2>4. i \in DOMAIN ops /\ covers(ops[i])
      BY <2>2
    <2>5. Moved(e) = IF ops[i].remove
                     THEN [at |-> ops[i].target, off |-> AlignFromTrampoline(ops[i].target, e.off)]
                     ELSE [at |-> ops[i].slot, off |-> AlignFromTarget(ops[i].target, e.off)]
      BY <1>2, <2>3 DEF Moved
    <2>. QED
      BY <2>4, <2>5
  <1>. QED
    BY <1>1, <1>2

\* CommitEx moves a thread that stands at an instruction it rewrites or frees
\* to that instruction, and leaves every other where it stands.
LEMMA CommitKeeps ==
    ASSUME Inv, Inv', NEW c \in Client, pc[c] = "open", WriteCode, heap' = heap,
           NEW t \in threads, t \in Thread, t \notin unmoved'
    PROVE  Keeps(t)
  <1> DEFINE e == eip[t]
  <1>0. eip'[t] = Moved(e) /\ ~Committed
    BY OwnerAlone DEF WriteCode, Inv
  <1>1. ASSUME NEW i \in DOMAIN ops
        PROVE  LET o == ops[i]
               IN  /\ o.p \in Pointer /\ o.slot \in Slot /\ o.slot \notin Function
                   /\ o.target \in Function /\ o.target \notin Slot
                   /\ o.remove \in BOOLEAN /\ heap.tramp[o.slot].remain = o.target
                   /\ IF o.remove THEN entry'[o.target] = Null /\ pointer[o.p] = o.slot
                      ELSE /\ entry'[o.target] = o.slot /\ pointer[o.p] \notin Slot
                           /\ pointer'[o.p] = o.slot
    <2>1. /\ ops[i].p \in Pointer /\ ops[i].slot \in Slot /\ ops[i].target \in Function
          /\ ops[i].remove \in BOOLEAN /\ OpGood(ops[i])
      BY OpType DEF Inv
    <2>2. heap.tramp[ops[i].slot].remain = ops[i].target
      BY <2>1 DEF OpGood
    <2>3. IF ops[i].remove THEN pointer[ops[i].p] = ops[i].slot ELSE pointer[ops[i].p] \notin Slot
      BY <1>0, <2>1, FunctionLeads DEF OpGood, Clear
    <2>. QED
      BY <2>1, <2>2, <2>3, CodeWritten, SlotParts
  <1>2. CASE /\ Moved(e) = e
             /\ \A i \in DOMAIN ops :
                    IF ops[i].remove THEN ~(e.at = ops[i].slot /\ e.off < PointerSize)
                    ELSE ~(e.at = ops[i].target /\ e.off < CbTarget[ops[i].target])
    <2>1. Counted(e)' = Counted(e)
      BY <1>0, <1>2 DEF Counted, PlaceOf
    <2>2. ASSUME NEW f \in Function, NEW n \in Nat, Stands(e, f, n) PROVE Stands(e, f, n)'
      <3>1. Short(f) /\ n \in 0..Copied[f] /\ Offset[f][n] \in 0..7 /\ CopyOffset[f][n] \in 0..7
        BY <2>2, AlignRight DEF Stands
      <3>2. CASE e.at \in Slot /\ heap.tramp[e.at].remain = f /\ Attached(e.at) /\ e.off = CopyOffset[f][n]
        <4>1. PICK p \in Pointer : pointer[p] = e.at
          BY <3>2 DEF Attached
        <4>2. e.off < PointerSize
          BY <3>1, <3>2 DEF PointerSize
        <4>3. p \notin Wanted
          <5> SUFFICES ASSUME NEW i \in DOMAIN ops, ops[i].p = p PROVE FALSE
            BY DEF Wanted
          <5>1. ops[i].remove /\ pointer[p] = ops[i].slot
            BY <1>1, <3>2, <4>1
          <5>. QED
            BY <1>2, <4>1, <4>2, <5>1
        <4>4. pointer'[p] = e.at
          BY <4>1, <4>3, CodeWritten
        <4>. QED
          BY <1>0, <1>2, <3>1, <3>2, <4>4 DEF Stands, Attached
      <3>3. CASE e.at = f /\ (entry[f] = Null \/ e.off >= CbTarget[f]) /\ e.off = Offset[f][n]
        <4>1. entry'[f] = Null \/ e.off >= CbTarget[f]
          <5>1. CASE \A i \in DOMAIN ops : ops[i].target # f
            BY <3>3, <5>1, CodeWritten
          <5>2. ASSUME NEW i \in DOMAIN ops, ops[i].target = f, ~ops[i].remove
                PROVE  e.off >= CbTarget[f]
            <6>1. ~(e.off < CbTarget[f])
              BY <1>2, <3>3, <5>2
            <6>2. e.off \in Int /\ CbTarget[f] \in Int
              BY <3>1, <3>3, CopiedType
            <6>. QED
              BY <6>1, <6>2
          <5>3. ASSUME NEW i \in DOMAIN ops, ops[i].target = f, ops[i].remove
                PROVE  entry'[f] = Null
            BY <1>1, <5>3
          <5>. QED
            BY <5>1, <5>2, <5>3
        <4>. QED
          BY <1>0, <1>2, <3>1, <3>3, <4>1 DEF Stands
      <3>. QED
        BY <2>2, <3>2, <3>3 DEF Stands
    <2>. QED
      BY <2>1, <2>2 DEF Keeps
  <1>3. ASSUME NEW i \in DOMAIN ops, ops[i].remove, e.at = ops[i].slot, e.off < PointerSize,
               Moved(e) = [at |-> ops[i].target, off |-> AlignFromTrampoline(ops[i].target, e.off)]
        PROVE  Keeps(t)
    <2> DEFINE g == ops[i].target
    <2>1. /\ e.at \in Slot /\ e.at \notin Function /\ g \in Function /\ g \notin Slot
          /\ heap.tramp[e.at].remain = g /\ entry'[g] = Null
      BY <1>1, <1>3
    <2>2. eip'[t].at = g /\ eip'[t].off = AlignFromTrampoline(g, e.off)
      BY <1>0, <1>3
    <2>3. Counted(e)' <=> Counted(e)
      <3>1. e.off # RbCodeIn
        BY <1>3 DEF RbCodeIn, PointerSize
      <3>. QED
        BY <2>1, <2>2, <3>1 DEF Counted, PlaceOf
    <2>4. ASSUME NEW f \in Function, NEW n \in Nat, Stands(e, f, n) PROVE Stands(e, f, n)'
      <3>1. f = g /\ Short(f) /\ n \in 0..Copied[f] /\ e.off = CopyOffset[f][n]
        BY <2>1, <2>4 DEF Stands
      <3>2. AlignFromTrampoline(f, e.off) = Offset[f][n]
        BY <3>1, AlignRight
      <3>. QED
        BY <2>1, <2>2, <3>1, <3>2 DEF Stands
    <2>. QED
      BY <2>3, <2>4 DEF Keeps
  <1>4. ASSUME NEW i \in DOMAIN ops, ~ops[i].remove, e.at = ops[i].target,
               Moved(e) = [at |-> ops[i].slot, off |-> AlignFromTarget(ops[i].target, e.off)]
        PROVE  Keeps(t)
    <2> DEFINE g == ops[i].target
               s == ops[i].slot
    <2>1. /\ e.at = g /\ g \in Function /\ g \notin Slot /\ s \in Slot
          /\ heap.tramp[s].remain = g /\ ops[i].p \in Pointer /\ pointer'[ops[i].p] = s
      BY <1>1, <1>4
    <2>2. eip'[t].at = s /\ eip'[t].off = AlignFromTarget(g, e.off)
      BY <1>0, <1>4
    <2>3. Counted(e)' => Counted(e)
      BY <2>1, <2>2 DEF Counted, PlaceOf
    <2>4. ASSUME NEW f \in Function, NEW n \in Nat, Stands(e, f, n) PROVE Stands(e, f, n)'
      <3>1. f = g /\ Short(f) /\ n \in 0..Copied[f] /\ e.off = Offset[f][n]
        BY <2>1, <2>4 DEF Stands
      <3>2. AlignFromTarget(f, e.off) = CopyOffset[f][n]
        BY <3>1, AlignRight
      <3>3. /\ eip'[t].at \in Slot /\ heap.tramp[eip'[t].at].remain = f
            /\ \E p \in Pointer : pointer'[p] = eip'[t].at
        BY <2>1, <2>2, <3>1
      <3>4. eip'[t].off = CopyOffset[f][n]
        BY <2>2, <3>1, <3>2
      <3>. QED
        BY <3>1, <3>3, <3>4 DEF Stands, Attached
    <2>. QED
      BY <2>3, <2>4 DEF Keeps
  <1>. QED
    BY <1>2, <1>3, <1>4, MovedBy DEF Inv

\* Where a thread can be suspended.
LEMMA PlacesStand ==
    ASSUME NEW e \in Places
    PROVE  /\ Counted(e) => \E n \in Nat : Stands(e, PlaceOf(e), n)
           /\ e.at \in Slot => Attached(e.at)
  <1> DEFINE F == {g \in Function : entry[g] = Null}
             S == {u \in Slot : Attached(u)}
             R(s) == heap.tramp[s].remain
             A(f) == {[at |-> f, off |-> Offset[f][n]] : n \in 0..Copied[f]}
             B(s) == {[at |-> s, off |-> CopyOffset[R(s)][n]] : n \in 0..Copied[R(s)]}
                     \cup {[at |-> s, off |-> RbCodeIn]}
  <1>1. CASE e = Nowhere
    BY <1>1, SlotParts DEF Nowhere, Counted, PlaceOf
  <1>2. ASSUME NEW f \in F, e \in A(f)
        PROVE  (Counted(e) => \E n \in Nat : Stands(e, PlaceOf(e), n)) /\ e.at \notin Slot
    <2>1. PICK n \in 0..Copied[f] : e = [at |-> f, off |-> Offset[f][n]]
      BY <1>2
    <2>2. f \in Function /\ f \notin Slot /\ e.at = f /\ e.off = Offset[f][n] /\ entry[f] = Null
      BY <2>1, SlotParts
    <2>3. n \in Nat
      BY <2>2, CopiedType
    <2>. QED
      BY <2>2, <2>3 DEF Counted, PlaceOf, Stands
  <1>3. ASSUME NEW s \in S, e \in B(s)
        PROVE  (Counted(e) => \E n \in Nat : Stands(e, PlaceOf(e), n)) /\ Attached(e.at)
    <2>1. CASE e = [at |-> s, off |-> RbCodeIn]
      BY <2>1 DEF Counted
    <2>2. ASSUME NEW n \in 0..Copied[R(s)], e = [at |-> s, off |-> CopyOffset[R(s)][n]], Counted(e)
          PROVE  \E m \in Nat : Stands(e, PlaceOf(e), m)
      <3>1. e.at = s /\ s \in Slot /\ Attached(s) /\ e.off = CopyOffset[R(s)][n]
        BY <2>2
      <3>2. PlaceOf(e) = R(s) /\ R(s) \in Function /\ Short(R(s))
        BY <2>2, <3>1 DEF Counted, PlaceOf
      <3>3. n \in Nat
        BY <3>2, CopiedType
      <3> HIDE DEF R
      <3>4. Stands(e, PlaceOf(e), n)
        BY <3>1, <3>2 DEF Stands, R
      <3>. QED
        BY <3>3, <3>4
    <2>3. e.at = s
      BY <1>3
    <2>. QED
      BY <1>3, <2>1, <2>2, <2>3
  <1>4. e = Nowhere \/ (\E f \in F : e \in A(f)) \/ (\E s \in S : e \in B(s))
    BY DEF Places
  <1>5. Nowhere.at \notin Slot
    BY SlotParts DEF Nowhere
  <1> HIDE DEF F, S, A, B
  <1>. QED
    BY <1>1, <1>2, <1>3, <1>4, <1>5

LEMMA PlacesStandAll ==
    \A e \in Places : /\ Counted(e) => \E n \in Nat : Stands(e, PlaceOf(e), n)
                      /\ e.at \in Slot => Attached(e.at)
  BY PlacesStand

\* A thread that stays in the transaction keeps its place, and stays out of
\* trampolines that could be handed out as long as operations are collected.
KeepsOpen(t) == Open' /\ eip'[t].at \in Slot => Attached(eip[t].at)'

LEMMA StepKeeps ==
    ASSUME Inv, Inv', PlaceInv, NEW c \in Client, NEW t \in Followed, t \in Followed',
           \/ SetIgnoreTooSmall(c) \/ SetRetainRegions(c)
           \/ Begin(c) \/ Abort(c) \/ Finish(c)
           \/ \E u \in Thread : UpdateThread(c, u)
           \/ \E p \in Pointer : Attach(c, p) \/ Detach(c, p)
    PROVE  Keeps(t) /\ KeepsOpen(t)
  <1>0. /\ t \in Thread /\ t \in threads /\ t \in threads' /\ t \notin unmoved' /\ owner # Null
        /\ Open /\ eip[t].at \in Slot => Attached(eip[t].at)
    BY DEF Inv, TypeOK, OwnerInv, PlaceInv, PlaceGood, Followed
  <1>1. CASE Begin(c) \/ Release(c)
    BY <1>0, <1>1 DEF Begin, Release, Inv, OwnerInv
  <1>2. CASE \/ SetIgnoreTooSmall(c) \/ SetRetainRegions(c) \/ Abort(c) \/ Return(c)
             \/ \E u \in Thread : UpdateThread(c, u)
             \/ \E p \in Pointer : Detach(c, p)
    <2>1. UNCHANGED <<heap, pointer, entry>>
      BY <1>2 DEF SetIgnoreTooSmall, SetRetainRegions, Abort, Return, UpdateThread, Detach, Fail, Push, code
    <2>2. eip'[t] = eip[t]
      <3>1. CASE \E u \in Thread : UpdateThread(c, u)
        BY <1>0, <3>1 DEF UpdateThread, held, Inv, TypeOK
      <3>2. CASE ~\E u \in Thread : UpdateThread(c, u)
        BY <1>2, <3>2 DEF SetIgnoreTooSmall, SetRetainRegions, Abort, Return, Detach, Fail, Push, held
      <3>. QED
        BY <3>1, <3>2
    <2>3. pc' = pc \/ pc' = [pc EXCEPT ![c] = "ops"] \/ pc' = [pc EXCEPT ![c] = "idle"]
      BY <1>2 DEF SetIgnoreTooSmall, SetRetainRegions, Abort, Return, UpdateThread, Detach, Fail, Push, ctrl
    <2>4. \A d \in Client : pc'[d] = "open" => pc[d] = "open"
      <3>1. DOMAIN pc = Client
        BY DEF Inv, TypeOK
      <3>. QED
        BY <2>3, <3>1
    <2>5. Open' => Open
      BY <2>4 DEF Open
    <2>. QED
      BY <1>0, <2>1, <2>2, <2>5, NotMoved DEF KeepsOpen
  <1>3. ASSUME NEW p \in Pointer, Attach(c, p) PROVE Keeps(t) /\ KeepsOpen(t)
    <2>1. UNCHANGED <<pointer, entry, eip, pc>> /\ Open
      BY <1>3 DEF Attach, Fail, Push, code, held, ctrl, Open
    <2>2. eip[t].at \in Slot => heap'.tramp[eip[t].at] = heap.tramp[eip[t].at] /\ Attached(eip[t].at)
      BY <1>0, <2>1, AttachedKept
    <2>. QED
      BY <1>0, <2>1, <2>2, NotMoved DEF KeepsOpen
  <1>4. CASE EndOperation(c)
    <2>1. /\ UNCHANGED <<pointer, entry, eip, pc>> /\ ops # <<>> /\ pc[c] = "ops"
          /\ heap' = heap \/ heap' = FreeTrampoline(heap, Head(ops).slot)
      BY <1>4 DEF EndOperation, held
    <2>2. ~Open'
      BY <2>1, OwnerAlone DEF Open, Inv
    <2>3. Head(ops).slot \in Slot
      <3>1. Head(ops) = ops[1] /\ 1 \in DOMAIN ops
        BY <2>1, TailSeq DEF Inv, TypeOK
      <3>. QED
        BY <3>1, OpType DEF Inv
    <2>4. ASSUME heap' = FreeTrampoline(heap, Head(ops).slot), NEW s \in Slot
          PROVE  heap'.tramp[s] = heap.tramp[s] \/ ~Busy(heap', s)
      <3>1. heap.tramp \in [Slot -> Trampoline] /\ heap.free \in [Region -> Slot \cup {Null}]
        BY DEF Inv, HeapInv, Heap
      <3>2. heap'.tramp = [heap.tramp EXCEPT ![Head(ops).slot] =
                              [Filled(Null) EXCEPT !.remain = heap.free[Head(ops).slot[1]]]]
        BY <2>4 DEF FreeTrampoline, Inv, HeapInv, Heap
      <3>3. heap.free[Head(ops).slot[1]] \in Slot \cup {Null}
        BY <2>3, <3>1, SlotParts
      <3>. QED
        BY <2>3, <3>1, <3>2, <3>3, SlotParts DEF Busy, Filled
    <2>. QED
      BY <1>0, <2>1, <2>2, <2>4, NotMoved DEF KeepsOpen
  <1>5. CASE Commit(c)
    <2>1. heap' = heap /\ pc[c] = "open" /\ pc' = [pc EXCEPT ![c] = "ops"]
      BY <1>5 DEF Commit
    <2>2. ~Open'
      BY <2>1, OwnerAlone DEF Open, Inv, TypeOK
    <2>3. Keeps(t)
      <3>1. CASE failed
        BY <1>0, <1>5, <2>1, <3>1, NotMoved DEF Commit, code, own
      <3>2. CASE ~failed
        BY <1>0, <1>5, <2>1, <3>2, CommitKeeps DEF Commit
      <3>. QED
        BY <3>1, <3>2
    <2>. QED
      BY <2>2, <2>3 DEF KeepsOpen
  <1>. QED
    BY <1>1, <1>2, <1>3, <1>4, <1>5 DEF Finish

\* A thread that comes into the transaction was running, and is suspended at a
\* place like any other.
LEMMA NewPlace ==
    ASSUME Inv, NEW c \in Client, NEW t \in Followed', t \notin Followed,
           \/ SetIgnoreTooSmall(c) \/ SetRetainRegions(c)
           \/ Begin(c) \/ Abort(c) \/ Finish(c)
           \/ \E u \in Thread : UpdateThread(c, u)
           \/ \E p \in Pointer : Attach(c, p) \/ Detach(c, p)
    PROVE  PlaceGood(t)'
  <1>1. ASSUME NEW u \in Thread, UpdateThread(c, u) PROVE PlaceGood(t)'
    <2>0. t = u /\ t \notin suspended
      BY <1>1 DEF UpdateThread, held, refused, Followed, Inv, OwnerInv
    <2>1. PICK e \in Places : eip' = [eip EXCEPT ![u] = e]
      <3>1. threads' # threads
        BY <1>1, <2>0 DEF UpdateThread, refused, Followed
      <3>. QED
        BY <1>1, <2>0, <3>1 DEF UpdateThread
    <2>2. UNCHANGED <<heap, pointer, entry>> /\ eip'[t] = e
      BY <1>1, <2>0, <2>1 DEF UpdateThread, code, Inv, TypeOK
    <2>3. /\ Counted(e) => \E n \in Nat : Stands(e, PlaceOf(e), n)
          /\ e.at \in Slot => Attached(e.at)
      BY PlacesStandAll
    <2>4. Counted(eip[t])' = Counted(e) /\ PlaceOf(eip[t])' = PlaceOf(e)
      BY <2>2 DEF Counted, PlaceOf
    <2>5. \A f, n : Stands(eip[t], f, n)' = Stands(e, f, n)
      BY <2>2 DEF Stands, Attached
    <2>6. Attached(eip[t].at)' = Attached(e.at)
      BY <2>2 DEF Attached
    <2>. QED
      BY <2>2, <2>3, <2>4, <2>5, <2>6 DEF PlaceGood
  <1>2. CASE Commit(c)
    <2>1. pc[c] = "open" /\ threads' = threads /\ stuck' = stuck
      BY <1>2 DEF Commit, own
    <2>2. unmoved = {}
      BY <2>1, OwnerAlone DEF Inv, OwnerInv
    <2>. QED
      BY <2>1, <2>2 DEF Followed
  <1>3. CASE Begin(c) \/ Release(c)
    BY <1>3 DEF Begin, Release, Followed
  <1>4. CASE \/ SetIgnoreTooSmall(c) \/ SetRetainRegions(c) \/ Abort(c) \/ EndOperation(c)
             \/ Return(c) \/ \E p \in Pointer : Attach(c, p) \/ Detach(c, p)
    <2>1. UNCHANGED <<threads, stuck, unmoved>>
      BY <1>4 DEF SetIgnoreTooSmall, SetRetainRegions, Abort, EndOperation, Return, Attach, Detach,
                  Fail, Push, own, refused
    <2>. QED
      BY <2>1 DEF Followed
  <1>. QED
    BY <1>1, <1>2, <1>3, <1>4 DEF Finish

LEMMA StepPlace ==
    ASSUME Inv, Inv', PlaceInv, [Next]_vars
    PROVE  PlaceInv' /\ \A t \in Followed \cap Followed' : Keeps(t)
  <1>1. CASE UNCHANGED vars
    <2>1. UNCHANGED <<heap, pointer, entry, threads, eip, stuck, unmoved, pc>>
      BY <1>1 DEF vars, own, code, held, refused, ctrl
    <2>2. PlaceInv'
      BY <2>1 DEF PlaceInv, PlaceGood, Followed, Counted, PlaceOf, Stands, Attached, Open
    <2>3. \A t \in Thread : Keeps(t)
      BY <2>1, NotMoved
    <2>. QED
      BY <2>2, <2>3 DEF Inv, TypeOK, Followed
  <1>2. ASSUME NEW c \in Client,
               \/ SetIgnoreTooSmall(c) \/ SetRetainRegions(c)
               \/ Begin(c) \/ Abort(c) \/ Finish(c)
               \/ \E u \in Thread : UpdateThread(c, u)
               \/ \E p \in Pointer : Attach(c, p) \/ Detach(c, p)
        PROVE  PlaceInv' /\ \A t \in Followed \cap Followed' : Keeps(t)
    <2>1. \A t \in Followed : t \in Followed' => Keeps(t) /\ KeepsOpen(t)
      BY <1>2, StepKeeps
    <2>2. \A t \in Followed' : t \notin Followed => PlaceGood(t)'
      BY <1>2, NewPlace
    <2>3. ASSUME NEW t \in Followed, t \in Followed' PROVE PlaceGood(t)'
      <3>1. Keeps(t) /\ KeepsOpen(t)
        BY <2>1, <2>3
      <3>2. ASSUME Counted(eip[t])' PROVE \E n \in Nat : Stands(eip[t], PlaceOf(eip[t]), n)'
        <4>1. Counted(eip[t]) /\ PlaceOf(eip[t]) \in Function
          BY <3>1, <3>2 DEF Keeps, Counted
        <4>2. PICK n \in Nat : Stands(eip[t], PlaceOf(eip[t]), n)
          BY <4>1 DEF PlaceInv, PlaceGood
        <4>3. PICK f \in Function : f = PlaceOf(eip[t])
          BY <4>1
        <4>4. Stands(eip[t], f, n)'
          BY <3>1, <4>2, <4>3 DEF Keeps
        <4>5. PlaceOf(eip[t])' = f
          BY <4>4, SlotParts DEF Stands, PlaceOf
        <4>. QED
          BY <4>4, <4>5
      <3>. QED
        BY <3>1, <3>2 DEF PlaceGood, KeepsOpen
    <2>4. PlaceInv'
      BY <2>2, <2>3 DEF PlaceInv
    <2>. QED
      BY <2>1, <2>4
  <1>. QED
    BY <1>1, <1>2 DEF Next

\* Whatever DetourTransactionCommitEx writes and moves, and whatever happens to
\* the trampolines before, a thread that DetourUpdateThread suspended goes on
\* with the instruction it would have gone on with, if the first instructions
\* of the function it is in are short, and unless its context could not be read
\* or set, or it had not been resumed after a former transaction.
THEOREM TransactionKeepsPlace == Spec => KeepsPlace
  <1>1. Init => PlaceInv
    BY DEF Init, PlaceInv, Followed
  <1> DEFINE Stays(t) ==
        LET f == IF eip[t].at \in Slot THEN heap.tramp[eip[t].at].remain ELSE eip[t].at
            e == IF t \in threads' THEN eip'[t] ELSE eip[t]
        IN  f \in Function /\ Short(f) /\ eip[t].off # RbCodeIn
            => Meaning(heap', entry', e) = Meaning(heap, entry, eip[t])
  <1>2. ASSUME Inv, Inv', PlaceInv, [Next]_vars, ~UNCHANGED vars
        PROVE  \A t \in threads \ (stuck \cup unmoved \cup unmoved') : Stays(t)
    <2> SUFFICES ASSUME NEW t \in threads \ (stuck \cup unmoved \cup unmoved'),
                        PlaceOf(eip[t]) \in Function, Short(PlaceOf(eip[t])), eip[t].off # RbCodeIn
                 PROVE  LET e == IF t \in threads' THEN eip'[t] ELSE eip[t]
                        IN  Meaning(heap', entry', e) = Meaning(heap, entry, eip[t])
      BY DEF PlaceOf
    <2>1. t \in Thread /\ t \in Followed /\ Counted(eip[t]) /\ owner # Null
      BY <1>2 DEF Counted, Followed, Inv, TypeOK, OwnerInv
    <2>2. PICK n \in Nat : Stands(eip[t], PlaceOf(eip[t]), n)
      BY <1>2, <2>1 DEF PlaceInv, PlaceGood
    <2>3. PICK f \in Function : f = PlaceOf(eip[t])
      OBVIOUS
    <2>4. Short(f) /\ n \in 0..Copied[f] /\ Stands(eip[t], f, n)
      BY <2>2, <2>3 DEF Stands
    <2>5. Meaning(heap, entry, eip[t]) = <<f, Offset[f][n]>>
      BY <2>4, StandsMeans DEF Stands
    <2>6. \/ threads' = {} /\ UNCHANGED <<pointer, entry>>
          \/ stuck' = stuck /\ threads \subseteq threads'
      <3>1. ASSUME NEW c \in Client, Release(c) PROVE threads' = {} /\ UNCHANGED <<pointer, entry>>
        BY <3>1 DEF Release, code
      <3>2. ASSUME NEW c \in Client,
                   \/ SetIgnoreTooSmall(c) \/ SetRetainRegions(c) \/ Begin(c) \/ Abort(c)
                   \/ Commit(c) \/ EndOperation(c) \/ Return(c)
                   \/ \E u \in Thread : UpdateThread(c, u)
                   \/ \E p \in Pointer : Attach(c, p) \/ Detach(c, p)
            PROVE  stuck' = stuck /\ threads \subseteq threads'
        BY <2>1, <3>2 DEF SetIgnoreTooSmall, SetRetainRegions, Begin, Abort, Commit, EndOperation, Return,
                    UpdateThread, Attach, Detach, Fail, Push, own, refused
      <3>. QED
        BY <1>2, <3>1, <3>2 DEF Next, Finish
    <2>7. CASE t \in threads'
      <3>1. t \in Followed'
        BY <2>1, <2>6, <2>7 DEF Followed
      <3>2. Stands(eip[t], f, n)'
        BY <1>2, <2>1, <2>4, <3>1, StepPlace DEF Keeps
      <3>3. Meaning(heap', entry', eip'[t]) = <<f, Offset[f][n]>>
        BY <2>4, <3>2, StandsMeans DEF Stands
      <3>. QED
        BY <2>5, <2>7, <3>3
    <2>8. CASE t \notin threads'
      <3>1. UNCHANGED <<pointer, entry>>
        BY <2>6, <2>8
      <3>2. eip[t].at \in Slot /\ Attached(eip[t].at) => heap'.tramp[eip[t].at] = heap.tramp[eip[t].at]
        BY <1>2, <3>1, AttachedKept
      <3>3. Meaning(heap', entry', eip[t]) = <<f, Offset[f][n]>>
        BY <2>4, <3>1, <3>2, StandsMeans DEF Stands
      <3>. QED
        BY <2>5, <2>8, <3>3
    <2>. QED
      BY <2>7, <2>8
  <1>3. Inv /\ Inv' /\ PlaceInv /\ [Next]_vars => PlaceInv'
    BY StepPlace
  <1>4. Inv /\ Inv' /\ PlaceInv /\ [Next]_vars =>
          [\A t \in threads \ (stuck \cup unmoved \cup unmoved') : Stays(t)]_vars
    BY <1>2
  <1>. QED
    BY SpecInv, <1>1, <1>3, <1>4, PTL DEF Spec, KeepsPlace

----------------------------------------------------------------------------
(* A transaction implements HookSet, for a program with one client.  With  *)
(* more of them it does not: Return reads s_nPendingError when another     *)
(* client's transaction may already have failed or begun.                  *)

OneClient == \A c, d \in Client : c = d

\* What is decided while a transaction is brought to its end.
AnswerInv ==
    \A c \in Client : pc[c] \in {"ops", "return"} =>
        /\ closing[c] \in {"commit", "abort", "drop"}
        /\ closing[c] = "commit" => ~failed
        /\ closing[c] = "abort" => failed

\* How a transaction will answer stays as it was decided.
LEMMA AnswerStep ==
    ASSUME Inv, AnswerInv, OneClient, [Next]_vars
    PROVE  AnswerInv'
  <1>1. CASE UNCHANGED vars
    BY <1>1 DEF vars, own, ctrl, AnswerInv
  <1>2. ASSUME NEW c \in Client,
               \/ SetIgnoreTooSmall(c) \/ SetRetainRegions(c)
               \/ \E t \in Thread : UpdateThread(c, t)
               \/ \E p \in Pointer : Attach(c, p) \/ Detach(c, p)
        PROVE  AnswerInv'
    <2>1. UNCHANGED <<pc, closing>>
      BY <1>2 DEF SetIgnoreTooSmall, SetRetainRegions, UpdateThread, Attach, Detach, Fail, Push, ctrl
    <2>2. failed' = failed \/ pc[c] = "open"
      BY <1>2 DEF SetIgnoreTooSmall, SetRetainRegions, UpdateThread, Attach, Detach, own
    <2>. QED
      BY <2>1, <2>2 DEF AnswerInv, OneClient
  <1>3. ASSUME NEW c \in Client, Begin(c) PROVE AnswerInv'
    <2>1. pc'[c] = "open"
      BY <1>3 DEF Begin, Inv, TypeOK
    <2>. QED
      BY <2>1 DEF AnswerInv, OneClient
  <1>4. ASSUME NEW c \in Client, Abort(c) PROVE AnswerInv'
    <2>1. closing'[c] = "drop"
      BY <1>4 DEF Abort, Inv, TypeOK
    <2>. QED
      BY <2>1 DEF AnswerInv, OneClient
  <1>5. ASSUME NEW c \in Client, Commit(c) PROVE AnswerInv'
    <2>1. closing'[c] = (IF failed THEN "abort" ELSE "commit") /\ failed' = failed
      BY <1>5 DEF Commit, Inv, TypeOK, own
    <2>. QED
      BY <2>1 DEF AnswerInv, OneClient
  <1>6. ASSUME NEW c \in Client, EndOperation(c) \/ Release(c) PROVE AnswerInv'
    <2>1. closing' = closing /\ failed' = failed /\ pc[c] = "ops"
      BY <1>6 DEF EndOperation, Release
    <2>. QED
      BY <2>1 DEF AnswerInv, OneClient
  <1>7. ASSUME NEW c \in Client, Return(c) PROVE AnswerInv'
    <2>1. pc'[c] = "idle"
      BY <1>7 DEF Return, Inv, TypeOK
    <2>. QED
      BY <2>1 DEF AnswerInv, OneClient
  <1>. QED
    BY <1>1, <1>2, <1>3, <1>4, <1>5, <1>6, <1>7 DEF Next, Finish

\* The pointers that are attached are those that lead to a trampoline.
HookedAreSlots == HookedPointers = {p \in Pointer : pointer[p] \in Slot}

LEMMA HookedSlots == Inv => HookedAreSlots
  <1> SUFFICES ASSUME Inv, NEW p \in Pointer
               PROVE  Start[p] # Null /\ Hooked(p) <=> pointer[p] \in Slot
    BY DEF HookedPointers, HookedAreSlots
  <1>1. Hooked(p) => pointer[p] \in Slot
    BY DEF Hooked
  <1>2. pointer[p] \in Slot => Start[p] # Null /\ Hooked(p)
    BY PointerSlot DEF Inv
  <1>. QED
    BY <1>1, <1>2

LEMMA HookedSlotsNext == Inv' => HookedAreSlots'
  BY HookedSlots, PTL

\* What the owner of the open transaction has asked for.
LEMMA AskedWanted ==
    ASSUME NEW c \in Client, OneClient
    PROVE  /\ pc[c] = "open" => AskedPointers = Wanted
           /\ pc[c] # "open" => AskedPointers = {}
           /\ pc'[c] = "open" => AskedPointers' = Wanted'
           /\ pc'[c] # "open" => AskedPointers' = {}
  <1>1. /\ pc[c] = "open" => AskedPointers = Wanted
        /\ pc[c] # "open" => AskedPointers = {}
    BY DEF AskedPointers, OneClient
  <1>2. /\ pc'[c] = "open" => AskedPointers' = Wanted'
        /\ pc'[c] # "open" => AskedPointers' = {}
    BY DEF AskedPointers, OneClient
  <1>. QED
    BY <1>1, <1>2

\* Steps that HookSet does not see.
LEMMA StutterStep ==
    ASSUME Inv, Inv', OneClient, UNCHANGED <<pointer, pc, closing, answer>>,
           ops' = ops \/ \A c \in Client : pc[c] # "open"
    PROVE  UNCHANGED <<HookedPointers, AskedPointers, Phase, answer>>
  <1>1. HookedPointers' = HookedPointers
    BY HookedSlots, HookedSlotsNext DEF HookedAreSlots
  <1>2. AskedPointers' = AskedPointers
    BY DEF AskedPointers, Wanted
  <1>3. Phase' = Phase
    BY DEF Phase
  <1>. QED
    BY <1>1, <1>2, <1>3

\* An operation is put on the list.
LEMMA PushStep ==
    ASSUME Inv, Inv', OneClient, NEW c \in Client, pc[c] = "open", NEW p \in Pointer,
           NEW o, o.p = p, UNCHANGED <<pointer, pc, closing, answer>>,
           ops' = <<[o EXCEPT !.perm = prot[PageOf[o.target]]]>> \o ops,
           DOMAIN o = {"remove", "p", "target", "slot", "perm"}
    PROVE  Abstract!Ask(c, p)
  <1>1. HookedPointers' = HookedPointers
    BY HookedSlots, HookedSlotsNext DEF HookedAreSlots
  <1>2. Wanted' = Wanted \cup {p}
    <2> DEFINE x == [o EXCEPT !.perm = prot[PageOf[o.target]]]
    <2>1. x.p = p
      OBVIOUS
    <2> HIDE DEF x
    <2>2. ops' = <<x>> \o ops
      BY DEF x
    <2>3. ops \in Seq(Operation \cup {x})
      BY DEF Inv, TypeOK
    <2>4. PICK z : z = <<x>> \o ops
      OBVIOUS
    <2>5. /\ DOMAIN z = 1..(Len(ops) + 1) /\ DOMAIN ops = 1..Len(ops) /\ Len(ops) \in Nat
          /\ z[1] = x /\ \A i \in 1..Len(ops) : z[i + 1] = ops[i]
          /\ \A i \in DOMAIN z : i = 1 \/ (i - 1 \in DOMAIN ops /\ z[i] = ops[i - 1])
      BY <2>3, <2>4, PushSeq
    <2>6. ops' = z
      BY <2>2, <2>4
    <2>7. \A i \in DOMAIN ops : i + 1 \in DOMAIN z /\ z[i + 1] = ops[i]
      BY <2>5
    <2>. QED
      BY <2>1, <2>5, <2>6, <2>7 DEF Wanted
  <1>3. AskedPointers' = AskedPointers \cup {p}
    BY <1>2, AskedWanted
  <1>4. Phase' = Phase /\ Phase[c] = "open"
    BY DEF Phase
  <1>. QED
    BY <1>1, <1>3, <1>4 DEF Abstract!Ask

LEMMA OpenStep ==
    ASSUME Inv, Inv', OneClient, NEW c \in Client, Begin(c)
    PROVE  Abstract!Open(c)
  <1>1. /\ pc[c] = "idle" /\ pc' = [pc EXCEPT ![c] = "open"] /\ ops' = <<>>
        /\ UNCHANGED <<pointer, closing, answer>>
    BY DEF Begin, code
  <1>2. HookedPointers' = HookedPointers
    BY <1>1, HookedSlots, HookedSlotsNext DEF HookedAreSlots
  <1>3. pc'[c] = "open"
    BY <1>1 DEF Inv, TypeOK
  <1>4. AskedPointers' = {}
    BY <1>1, <1>3, AskedWanted DEF Wanted
  <1>5. Phase[c] = "idle" /\ \A d \in Client : Phase[d] # "open"
    BY <1>1 DEF Phase, OneClient
  <1>6. Phase' = [Phase EXCEPT ![c] = "open"]
    BY <1>1, <1>3 DEF Phase, OneClient
  <1>. QED
    BY <1>1, <1>2, <1>4, <1>5, <1>6 DEF Abstract!Open

\* CommitEx without an error: what was detached leads to its function, what was
\* attached to its trampoline.
LEMMA CommitHooked ==
    ASSUME Inv, Inv', NEW c \in Client, pc[c] = "open", WriteCode
    PROVE  HookedPointers' = (HookedPointers \ Wanted) \cup (Wanted \ HookedPointers)
  <1>1. ~Committed
    BY OwnerAlone DEF Inv
  <1>2. HookedPointers = {p \in Pointer : pointer[p] \in Slot}
        /\ HookedPointers' = {p \in Pointer : pointer'[p] \in Slot}
    BY HookedSlots, HookedSlotsNext DEF HookedAreSlots
  <1>3. Wanted \subseteq Pointer
    BY OpType DEF Wanted, Inv
  <1>4. ASSUME NEW p \in Wanted PROVE pointer'[p] \in Slot <=> pointer[p] \notin Slot
    <2>1. PICK i \in DOMAIN ops : ops[i].p = p
      BY DEF Wanted
    <2>2. PICK o : o = ops[i]
      OBVIOUS
    <2>3. /\ OpGood(o) /\ o.p = p /\ o.slot \in Slot /\ o.target \in Function
          /\ o.remove \in BOOLEAN
      BY <2>1, <2>2, OpType DEF Inv
    <2>4. IF o.remove THEN pointer'[p] = o.target ELSE pointer'[p] = o.slot
      BY <2>1, <2>2, CodeWritten
    <2>5. IF o.remove THEN pointer[p] \in Slot ELSE pointer[p] \in Address
      BY <1>1, <2>3 DEF OpGood, Hooked, Clear
    <2>. QED
      BY <2>3, <2>4, <2>5, FunctionLeads
  <1>5. \A p \in Pointer : p \notin Wanted => pointer'[p] = pointer[p]
    BY CodeWritten
  <1>. QED
    BY <1>2, <1>3, <1>4, <1>5

LEMMA CommitStep ==
    ASSUME Inv, Inv', OneClient, NEW c \in Client, Commit(c)
    PROVE  Abstract!Commit(c) \/ Abstract!Abort(c)
  <1>1. /\ pc[c] = "open" /\ pc' = [pc EXCEPT ![c] = "ops"] /\ answer' = answer
        /\ closing' = [closing EXCEPT ![c] = IF failed THEN "abort" ELSE "commit"]
    BY DEF Commit
  <1>2. pc'[c] = "ops" /\ closing'[c] = IF failed THEN "abort" ELSE "commit"
    BY <1>1 DEF Inv, TypeOK
  <1>3. AskedPointers' = {} /\ AskedPointers = Wanted
    BY <1>1, <1>2, AskedWanted
  <1>4. Phase[c] = "open" /\ Phase' = [Phase EXCEPT ![c] = IF failed THEN "abort" ELSE "commit"]
    BY <1>1, <1>2 DEF Phase, OneClient
  <1>5. CASE failed
    <2>1. pointer' = pointer
      BY <1>5 DEF Commit, code
    <2>2. HookedPointers' = HookedPointers
      BY <2>1, HookedSlots, HookedSlotsNext DEF HookedAreSlots
    <2>. QED
      BY <1>1, <1>3, <1>4, <1>5, <2>2 DEF Abstract!Abort
  <1>6. CASE ~failed
    <2>1. WriteCode
      BY <1>6 DEF Commit
    <2>2. HookedPointers' = (HookedPointers \ Wanted) \cup (Wanted \ HookedPointers)
      BY <1>1, <2>1, CommitHooked
    <2>. QED
      BY <1>1, <1>3, <1>4, <1>6, <2>2 DEF Abstract!Commit
  <1>. QED
    BY <1>5, <1>6

LEMMA AbortStep ==
    ASSUME Inv, Inv', OneClient, NEW c \in Client, Abort(c)
    PROVE  Abstract!Abort(c)
  <1>1. /\ pc[c] = "open" /\ pc' = [pc EXCEPT ![c] = "ops"]
        /\ closing' = [closing EXCEPT ![c] = "drop"]
        /\ UNCHANGED <<pointer, answer>>
    BY DEF Abort, code
  <1>2. pc'[c] = "ops" /\ closing'[c] = "drop"
    BY <1>1 DEF Inv, TypeOK
  <1>3. AskedPointers' = {}
    BY <1>2, AskedWanted
  <1>4. HookedPointers' = HookedPointers
    BY <1>1, HookedSlots, HookedSlotsNext DEF HookedAreSlots
  <1>5. Phase[c] = "open" /\ Phase' = [Phase EXCEPT ![c] = "drop"]
    BY <1>1, <1>2 DEF Phase, OneClient
  <1>. QED
    BY <1>1, <1>3, <1>4, <1>5 DEF Abstract!Abort

LEMMA AnswersStep ==
    ASSUME Inv, Inv', AnswerInv, OneClient, NEW c \in Client, Return(c)
    PROVE  Abstract!Answer(c)
  <1>1. /\ pc[c] = "return" /\ pc' = [pc EXCEPT ![c] = "idle"] /\ pointer' = pointer
        /\ answer' = [answer EXCEPT ![c] = IF closing[c] = "drop" THEN "dropped"
                                           ELSE IF failed THEN "error" ELSE "success"]
    BY DEF Return, code
  <1>2. pc'[c] = "idle"
    BY <1>1 DEF Inv, TypeOK
  <1>3. AskedPointers' = {} /\ AskedPointers = {}
    BY <1>1, <1>2, AskedWanted
  <1>4. HookedPointers' = HookedPointers
    BY <1>1, HookedSlots, HookedSlotsNext DEF HookedAreSlots
  <1>5. /\ closing[c] \in {"commit", "abort", "drop"} /\ Phase[c] = closing[c]
        /\ Phase' = [Phase EXCEPT ![c] = "idle"]
    BY <1>1, <1>2 DEF Phase, OneClient, AnswerInv
  <1>6. (IF closing[c] = "drop" THEN "dropped" ELSE IF failed THEN "error" ELSE "success")
          = CASE Phase[c] = "commit" -> "success"
              [] Phase[c] = "abort" -> "error"
              [] OTHER -> "dropped"
    BY <1>1, <1>5 DEF AnswerInv
  <1>. QED
    BY <1>1, <1>3, <1>4, <1>5, <1>6 DEF Abstract!Answer

\* A call to attach or to detach a pointer fails or puts an operation for it on
\* the list.
LEMMA CallOutcome ==
    ASSUME NEW c \in Client, NEW p \in Pointer, Attach(c, p) \/ Detach(c, p)
    PROVE  /\ pc[c] = "open"
           /\ \/ \E i : Fail(i)
              \/ \E r, f, s : Push([remove |-> r, p |-> p, target |-> f, slot |-> s, perm |-> "code"])
  <1>1. CASE Attach(c, p)
    BY <1>1, ZenonT(30) DEF Attach
  <1>2. CASE Detach(c, p)
    BY <1>2, ZenonT(30) DEF Detach
  <1>. QED
    BY <1>1, <1>2

LEMMA StepImplements ==
    ASSUME Inv, Inv', AnswerInv, OneClient, [Next]_vars
    PROVE  [Abstract!Next]_(Abstract!absVars)
  <1> DEFINE same == UNCHANGED <<HookedPointers, AskedPointers, Phase, answer>>
             step(c) == \/ Abstract!Open(c) \/ Abstract!Commit(c) \/ Abstract!Abort(c)
                        \/ Abstract!Answer(c) \/ \E p \in Pointer : Abstract!Ask(c, p)
  <1>1. CASE UNCHANGED vars
    <2>1. UNCHANGED <<pointer, pc, closing, answer, ops>>
      BY <1>1 DEF vars, own, code, ctrl
    <2>. QED
      BY <2>1, StutterStep DEF Abstract!absVars
  <1>2. ASSUME NEW c \in Client,
               \/ SetIgnoreTooSmall(c) \/ SetRetainRegions(c)
               \/ EndOperation(c) \/ Release(c)
               \/ \E t \in Thread : UpdateThread(c, t)
        PROVE  same \/ step(c)
    <2>1. CASE SetIgnoreTooSmall(c) \/ SetRetainRegions(c) \/ \E t \in Thread : UpdateThread(c, t)
      <3>1. UNCHANGED <<pointer, pc, closing, answer, ops>>
        BY <2>1 DEF SetIgnoreTooSmall, SetRetainRegions, UpdateThread, own, code, ctrl
      <3>. QED
        BY <3>1, StutterStep
    <2>2. CASE EndOperation(c)
      <3>1. UNCHANGED <<pointer, pc, closing, answer>> /\ pc[c] = "ops"
        BY <2>2 DEF EndOperation
      <3>2. \A d \in Client : pc[d] # "open"
        BY <3>1 DEF OneClient
      <3>. QED
        BY <3>1, <3>2, StutterStep
    <2>3. CASE Release(c)
      <3>1. /\ UNCHANGED <<pointer, closing, answer>> /\ pc[c] = "ops"
            /\ pc' = [pc EXCEPT ![c] = "return"]
        BY <2>3 DEF Release, code
      <3>2. pc'[c] = "return"
        BY <3>1 DEF Inv, TypeOK
      <3>3. AskedPointers' = AskedPointers
        BY <3>1, <3>2, AskedWanted
      <3>4. HookedPointers' = HookedPointers
        BY <3>1, HookedSlots, HookedSlotsNext DEF HookedAreSlots
      <3>5. Phase' = Phase
        BY <3>1, <3>2 DEF Phase, OneClient
      <3>. QED
        BY <3>1, <3>3, <3>4, <3>5
    <2>. QED
      BY <1>2, <2>1, <2>2, <2>3
  <1>3. ASSUME NEW c \in Client, Begin(c) \/ Abort(c) \/ Commit(c) \/ Return(c) PROVE step(c)
    BY <1>3, OpenStep, CommitStep, AbortStep, AnswersStep
  <1>4. ASSUME NEW c \in Client, NEW p \in Pointer, Attach(c, p) \/ Detach(c, p)
        PROVE  same \/ step(c)
    <2>1. /\ pc[c] = "open"
          /\ \/ \E i : Fail(i)
             \/ \E r, f, s : Push([remove |-> r, p |-> p, target |-> f, slot |-> s, perm |-> "code"])
      BY <1>4, CallOutcome
    <2>2. ASSUME NEW i, Fail(i) PROVE UNCHANGED <<pointer, pc, closing, answer, ops>>
      BY <2>2 DEF Fail, code, ctrl
    <2>3. ASSUME NEW r, NEW f, NEW s, NEW o,
                 o = [remove |-> r, p |-> p, target |-> f, slot |-> s, perm |-> "code"], Push(o)
          PROVE  step(c)
      <3>1. /\ UNCHANGED <<pointer, pc, closing, answer>>
            /\ ops' = <<[o EXCEPT !.perm = prot[PageOf[o.target]]]>> \o ops
        BY <2>3 DEF Push, ctrl
      <3>2. o.p = p /\ DOMAIN o = {"remove", "p", "target", "slot", "perm"}
        BY <2>3
      <3>. QED
        BY <2>1, <3>1, <3>2, PushStep
    <2>. QED
      BY <2>1, <2>2, <2>3, StutterStep
  <1>. QED
    BY <1>1, <1>2, <1>3, <1>4 DEF Next, Finish, Abstract!Next, Abstract!absVars

LEMMA InitImplements == Init => Abstract!Init
  <1> SUFFICES ASSUME Init PROVE Abstract!Init
    OBVIOUS
  <1>1. HookedPointers = {}
    <2>1. \A p \in Pointer : pointer[p] \notin Slot
      BY DetourAssumption, FunctionLeads, SlotParts DEF Init
    <2>. QED
      BY <2>1, HookedSlots, InitInv DEF HookedAreSlots
  <1>2. AskedPointers = {} /\ Phase = [c \in Client |-> "idle"]
        /\ answer = [c \in Client |-> "none"]
    BY DEF Init, AskedPointers, Phase
  <1>. QED
    BY <1>1, <1>2 DEF Abstract!Init

\* A program with one client, as the hook manager is: whatever its calls do and
\* however they fail, DetourTransactionCommitEx attaches and detaches all that
\* was asked for since DetourTransactionBegin, in one step, or nothing, and its
\* result tells which.
THEOREM TransactionImplementsHookSet == OneClient /\ Spec => ImplementsHookSet
  <1>1. Init => AnswerInv
    BY DEF Init, AnswerInv
  <1>2. Inv /\ AnswerInv /\ OneClient /\ [Next]_vars => AnswerInv'
    BY AnswerStep
  <1>3. Inv /\ Inv' /\ AnswerInv /\ OneClient /\ [Next]_vars => [Abstract!Next]_(Abstract!absVars)
    BY StepImplements
  <1>4. OneClient => OneClient'
    BY DEF OneClient
  <1>. QED
    BY SpecInv, InitImplements, <1>1, <1>2, <1>3, <1>4, PTL DEF Spec, ImplementsHookSet, Abstract!Spec
=============================================================================
