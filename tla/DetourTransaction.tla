------------------------- MODULE DetourTransaction -------------------------
(***************************************************************************)
(* Detours, as the hook manager uses it: a transaction collects functions  *)
(* to attach to their detours and to detach, and threads to suspend, and   *)
(* is then committed or aborted.  Committing rewrites the first bytes of   *)
(* the functions, moves suspended threads that stand in the bytes it       *)
(* rewrites, and gives back trampolines that are no longer needed.         *)
(*                                                                         *)
(* Every call can fail.  An error is remembered; the calls after it do     *)
(* nothing and Commit turns into Abort, which is why the hook manager does *)
(* not look at the result of any call but the last.  What the system       *)
(* refuses while a transaction ends is not remembered: a page stays        *)
(* writable, a thread is not moved, or not resumed.                        *)
(*                                                                         *)
(* A client that owns the transaction names no pointer twice in it and     *)
(* does not attach one that is attached; different pointers lead to        *)
(* different functions.  So does the hook manager.                         *)
(***************************************************************************)
EXTENDS TrampolineRegions

CONSTANTS
    Client,           \* threads that use transactions
    Thread,           \* threads that they may suspend
    Pointer,          \* the pointers whose functions are to be detoured
    DetourOf,         \* [Pointer -> Detour], jumps to it followed
    Start,            \* [Pointer -> Address]: what a pointer holds at first
    Address,          \* of functions, and of jumps to them
    Leads,            \* [Address -> Function]: what a jump leads to
    Page, PageOf,     \* [Function -> Page]
    Instructions,     \* [Function -> Seq(instruction)]: its first ones
    Padding,          \* [Function -> Nat]: filler after them
    MaxTransactions   \* bound

\* A movable instruction: its length, how much longer its copy is, and
\* whether the function ends with it.
Instruction == [len : 1..15, extra : {-3, 0, 3, 4}, ends : BOOLEAN]

SizeOfJmp == 5   \* SIZE_OF_JMP

ASSUME DetourAssumption ==
    /\ DetourOf \in [Pointer -> Detour]
    /\ Start \in [Pointer -> Address \cup {Null}]
    /\ Null \notin Address
    /\ Address \cap Slot = {}
    /\ Function \subseteq Address
    /\ Leads \in [Address -> Function]
    /\ \A f \in Function : Leads[f] = f
    /\ \A p, q \in Pointer : Start[p] # Null /\ Start[q] # Null /\ p # q
                             => Leads[Start[p]] # Leads[Start[q]]
    /\ PageOf \in [Function -> Page]
    /\ Instructions \in [Function -> Seq(Instruction)]
    /\ Padding \in [Function -> Nat]
    /\ Null \notin Client \cup Page
    /\ MaxTransactions \in Nat

VARIABLES
    heap,         \* s_pRegions, s_pRegion and what is in the regions
    owner,        \* s_nPendingThreadId
    failed,       \* s_nPendingError # NO_ERROR
    threads,      \* s_pPendingThreads
    ops,          \* s_pPendingOperations, first to last
    pointer,      \* *ppbPointer of each pointer
    entry,        \* what a function begins with: Null for its own code, or a jump
    prot,         \* the protection of a page: "code" or "writable"
    suspended,    \* threads that do not run
    eip,          \* where those in s_pPendingThreads stand
    stuck,        \* those that ResumeThread failed for: they never run again
    unmoved,      \* those in s_pPendingThreads left in code that was rewritten
    unrestored,   \* pages that VirtualProtect failed to protect again
    ignoreTooSmall, retainRegions,  \* s_fIgnoreTooSmall, s_fRetainRegions
    pc, closing, answer,            \* of each client
    freed,        \* the local variable of CommitEx
    transactions  \* how many have begun

own == <<owner, failed, threads, ops>>
code == <<pointer, entry, prot>>
held == <<suspended, eip>>
refused == <<stuck, unmoved, unrestored>>
modes == <<ignoreTooSmall, retainRegions>>
ctrl == <<pc, closing, answer, freed, transactions>>
vars == <<heap, own, code, held, refused, modes, ctrl>>

Operation == [remove : BOOLEAN, p : Pointer, target : Function, slot : Slot,
              perm : {"code", "writable"}]
Nowhere == [at |-> Null, off |-> 0]

----------------------------------------------------------------------------
(* Copying the first instructions of a function (DetourAttachEx).          *)

\* Where the n-th instruction ends, in the function and in the copy.
Offset == [f \in Function |->
    LET sum[n \in 0..Len(Instructions[f])] ==
            IF n = 0 THEN 0 ELSE sum[n - 1] + Instructions[f][n].len
    IN  sum]
CopyOffset == [f \in Function |->
    LET sum[n \in 0..Len(Instructions[f])] ==
            IF n = 0 THEN 0
            ELSE sum[n - 1] + Instructions[f][n].len + Instructions[f][n].extra
    IN  sum]

\* How many are copied: until a jump fits, the table rAlign is full, or the
\* function ends.
Copied == [f \in Function |->
    CHOOSE n \in 0..Len(Instructions[f]) :
        /\ \/ Offset[f][n] >= SizeOfJmp \/ n = 8 \/ n = Len(Instructions[f])
           \/ n > 0 /\ Instructions[f][n].ends
        /\ \A k \in 1..(n - 1) :
             Offset[f][k] < SizeOfJmp /\ k < 8 /\ ~Instructions[f][k].ends]

\* cbTarget: padding is used up one byte at a time when there is no room.
CbTarget == [f \in Function |->
    LET cb == Offset[f][Copied[f]]
    IN  IF cb >= SizeOfJmp THEN cb
        ELSE IF cb + Padding[f] >= SizeOfJmp THEN SizeOfJmp ELSE cb + Padding[f]]
\* It is never too large: less than a jump and one instruction are 19 bytes at most.
TooSmall(f) == CbTarget[f] < SizeOfJmp

\* Mutant: the offset in the copy is noted before the instruction is copied.
AlignEarly == [f \in Function |->
    [n \in 1..8 |-> IF n <= Copied[f]
                    THEN [target |-> Offset[f][n] % 8, copy |-> CopyOffset[f][n - 1] % 32]
                    ELSE [target |-> 0, copy |-> 0]]]

\* rAlign: three bits for an offset in the function, five for one in the copy.
Align == [f \in Function |->
    [n \in 1..8 |-> IF n <= Copied[f]
                    THEN [target |-> Offset[f][n] % 8, copy |-> CopyOffset[f][n] % 32]
                    ELSE [target |-> 0, copy |-> 0]]]

First(S) == CHOOSE n \in S : \A m \in S : n <= m

\* detour_align_from_target and detour_align_from_trampoline.
AlignFromTarget(f, ob) ==
    LET n == {k \in 1..8 : Align[f][k].target = ob}
    IN  IF n = {} THEN 0 ELSE Align[f][First(n)].copy
AlignFromTrampoline(f, ob) ==
    LET n == {k \in 1..8 : Align[f][k].copy = ob}
    IN  IF n = {} THEN 0 ELSE Align[f][First(n)].target

----------------------------------------------------------------------------
(* Pointers and places.                                                    *)

\* DetourCodeFromPointer: the trampolines' own code is no jump.
CodeFromPointer(a) == IF a \in Address THEN Leads[a] ELSE a

\* The function a pointer stands for.
FunctionOf(p) == Leads[Start[p]]

\* Where a thread can be when it is suspended.  rbCodeIn is at 88 in a trampoline.
RbCodeIn == 88
Attached(s) == \E p \in Pointer : pointer[p] = s
Places ==
    {Nowhere}
    \cup (UNION {{[at |-> f, off |-> Offset[f][n]] : n \in 0..Copied[f]}
                 : f \in {g \in Function : entry[g] = Null}})
    \cup (UNION {{[at |-> s, off |-> CopyOffset[heap.tramp[s].remain][n]]
                  : n \in 0..Copied[heap.tramp[s].remain]} \cup {[at |-> s, off |-> RbCodeIn]}
                 : s \in {t \in Slot : Attached(t)}})

\* The instruction of the original code a thread at place e goes on with, in a
\* heap h and with functions that begin with what jump says.
Meaning(h, jump, e) ==
    IF e.at \in Function
    THEN IF jump[e.at] # Null /\ e.off > 0 /\ e.off < CbTarget[e.at] THEN Null
         ELSE <<e.at, e.off>>
    ELSE IF e.at \in Slot
    THEN LET f == h.tramp[e.at].remain
             n == {k \in 0..Len(Instructions[f]) : CopyOffset[f][k] = e.off}
         IN  IF f \notin Function \/ n = {} THEN Null ELSE <<f, Offset[f][First(n)]>>
    ELSE e

----------------------------------------------------------------------------
Init ==
    /\ heap = EmptyHeap
    /\ owner = Null /\ failed = FALSE /\ threads = {} /\ ops = <<>>
    /\ pointer = Start
    /\ entry = [f \in Function |-> Null]
    /\ prot = [g \in Page |-> "code"]
    /\ suspended = {}
    /\ eip = [t \in Thread |-> Nowhere]
    /\ stuck = {} /\ unmoved = {} /\ unrestored = {}
    /\ ignoreTooSmall = FALSE /\ retainRegions = FALSE
    /\ pc = [c \in Client |-> "idle"]
    /\ closing = [c \in Client |-> "none"]
    /\ answer = [c \in Client |-> "none"]
    /\ freed = FALSE
    /\ transactions = 0

SetIgnoreTooSmall(c) ==
    /\ pc[c] = "idle"
    /\ ignoreTooSmall' = ~ignoreTooSmall
    /\ UNCHANGED <<heap, own, code, held, refused, retainRegions, ctrl>>

SetRetainRegions(c) ==
    /\ pc[c] = "idle"
    /\ retainRegions' = ~retainRegions
    /\ UNCHANGED <<heap, own, code, held, refused, ignoreTooSmall, ctrl>>

\* Mutant: an error in making the regions writable is not remembered.
BeginForgets(c) ==
    /\ pc[c] = "idle"
    /\ transactions < MaxTransactions
    /\ owner = Null
    /\ owner' = c /\ threads' = {} /\ ops' = <<>>
    /\ \E n \in 0..Len(heap.regions) : heap' = MakeWritable(heap, n)
    /\ failed' = FALSE
    /\ pc' = [pc EXCEPT ![c] = "open"]
    /\ transactions' = transactions + 1
    /\ UNCHANGED <<code, held, refused, modes, closing, answer, freed>>

\* DetourTransactionBegin: only one transaction at a time.  It has begun even
\* if the regions could not all be made writable.
Begin(c) ==
    /\ pc[c] = "idle"
    /\ transactions < MaxTransactions
    /\ owner = Null
    /\ owner' = c /\ threads' = {} /\ ops' = <<>>
    /\ \E n \in 0..Len(heap.regions) :
        /\ heap' = MakeWritable(heap, n)
        /\ failed' = (n < Len(heap.regions))
    /\ pc' = [pc EXCEPT ![c] = "open"]
    /\ transactions' = transactions + 1
    /\ UNCHANGED <<code, held, refused, modes, closing, answer, freed>>

\* DetourUpdateThread, for another thread: its own is silently dropped.  Where
\* one stands that was not resumed before is no longer followed.
UpdateThread(c, t) ==
    /\ pc[c] = "open" /\ t \notin threads
    /\ ~failed
    /\ \/ /\ threads' = threads \cup {t}
          /\ suspended' = suspended \cup {t}
          /\ IF t \in suspended THEN UNCHANGED eip
             ELSE \E e \in Places : eip' = [eip EXCEPT ![t] = e]
          /\ UNCHANGED failed
       \/ /\ failed' = TRUE
          /\ UNCHANGED <<threads, held>>
    /\ UNCHANGED <<heap, owner, ops, code, refused, modes, ctrl>>

Wanted == {ops[i].p : i \in DOMAIN ops}

\* What a call does when it fails: an error, or, if the code was too small and
\* that is to be ignored, nothing at all.
Fail(ignored) ==
    /\ failed' = ~ignored
    /\ UNCHANGED <<owner, threads, ops, code, held, refused, modes, ctrl>>

\* Mutant: the operation becomes the last of the list.
PushLast(o) ==
    /\ ops' = Append(ops, [o EXCEPT !.perm = prot[PageOf[o.target]]])
    /\ prot' = [prot EXCEPT ![PageOf[o.target]] = "writable"]
    /\ UNCHANGED <<owner, failed, threads, pointer, entry, held, refused, modes, ctrl>>

\* VirtualProtect succeeds and the operation becomes the first of the list.
Push(o) ==
    /\ ops' = <<[o EXCEPT !.perm = prot[PageOf[o.target]]]>> \o ops
    /\ prot' = [prot EXCEPT ![PageOf[o.target]] = "writable"]
    /\ UNCHANGED <<owner, failed, threads, pointer, entry, held, refused, modes, ctrl>>

\* DetourAttachEx.
Attach(c, p) ==
    /\ pc[c] = "open" /\ p \notin Wanted /\ pointer[p] \notin Slot
    /\ owner = c
    /\ ~failed
    /\ \/ Fail(FALSE) /\ UNCHANGED heap   \* no pointer, or no memory for the operation
       \/ /\ pointer[p] # Null /\ DetourOf[p] = CodeFromPointer(pointer[p])
          /\ Fail(TRUE) /\ UNCHANGED heap   \* dropped, in either mode, with NO_ERROR
       \/ /\ pointer[p] # Null /\ DetourOf[p] # CodeFromPointer(pointer[p])
          /\ LET f == CodeFromPointer(pointer[p]) IN
             \E res \in AllocTrampoline(heap, f) :
                LET h == res[1]
                    s == res[2]
                    full == [h EXCEPT !.tramp[s] = [remain |-> f, detour |-> DetourOf[p],
                                                    restore |-> entry[f]]]
                IN  \/ s = Null /\ heap' = h /\ Fail(FALSE)
                    \/ s # Null /\ TooSmall(f) /\ heap' = FreeTrampoline(h, s) /\ Fail(ignoreTooSmall)
                    \/ s # Null /\ ~TooSmall(f) /\ heap' = FreeTrampoline(full, s) /\ Fail(FALSE)
                    \/ /\ s # Null /\ ~TooSmall(f) /\ heap' = full
                       /\ Push([remove |-> FALSE, p |-> p, target |-> f, slot |-> s, perm |-> "code"])

\* "Verify that Trampoline is in place."  The bytes of a function do not look
\* like a trampoline that leads to the detour.
InPlace(p) ==
    LET s == CodeFromPointer(pointer[p])
    IN  s \in Slot /\ heap.tramp[s].remain \in Function /\ heap.tramp[s].detour = DetourOf[p]

\* DetourDetach.  A pointer that is not attached is refused as well.
Detach(c, p) ==
    /\ pc[c] = "open" /\ p \notin Wanted
    /\ owner = c
    /\ ~failed
    /\ UNCHANGED heap
    /\ \/ Fail(FALSE)
       \/ pointer[p] # Null /\ ~InPlace(p) /\ Fail(ignoreTooSmall)
       \/ /\ pointer[p] # Null /\ InPlace(p)
          /\ LET s == CodeFromPointer(pointer[p])
             IN  Push([remove |-> TRUE, p |-> p, target |-> heap.tramp[s].remain, slot |-> s,
                       perm |-> "code"])

\* sizeof(o->pTrampoline), the size of a pointer.
PointerSize == 8

\* Where CommitEx moves a thread that stands at e.
Moved(e) ==
    LET covers(o) == IF o.remove THEN e.at = o.slot /\ e.off < PointerSize
                     ELSE e.at = o.target /\ e.off < CbTarget[o.target]
        by == {i \in DOMAIN ops : covers(ops[i])}
    IN  IF by = {} THEN e
        ELSE LET o == ops[First(by)]
             IN  IF o.remove
                 THEN [at |-> o.target, off |-> AlignFromTrampoline(o.target, e.off)]
                 ELSE [at |-> o.slot, off |-> AlignFromTarget(o.target, e.off)]

OpOn(f) == ops[CHOOSE i \in DOMAIN ops : ops[i].target = f]
OpFor(p) == ops[CHOOSE i \in DOMAIN ops : ops[i].p = p]

\* Mutant: the pointer of a detached function still leads to the trampoline.
WriteCodeKeepsPointer ==
    /\ entry' = [f \in Function |->
            IF \A i \in DOMAIN ops : ops[i].target # f THEN entry[f]
            ELSE IF OpOn(f).remove THEN heap.tramp[OpOn(f).slot].restore ELSE OpOn(f).slot]
    /\ pointer' = [p \in Pointer |-> IF p \notin Wanted THEN pointer[p] ELSE OpFor(p).slot]
    /\ unmoved' \in SUBSET {t \in threads : Moved(eip[t]) # eip[t]}
    /\ eip' = [t \in Thread |-> IF t \in threads \ unmoved' THEN Moved(eip[t]) ELSE eip[t]]

\* The first two loops of CommitEx: jumps are written or taken back, pointers
\* set, threads moved.  No suspended thread sees it half done.  A thread stays
\* where it is if its context cannot be read or cannot be set.
WriteCode ==
    /\ entry' = [f \in Function |->
            IF \A i \in DOMAIN ops : ops[i].target # f THEN entry[f]
            ELSE IF OpOn(f).remove THEN heap.tramp[OpOn(f).slot].restore ELSE OpOn(f).slot]
    /\ pointer' = [p \in Pointer |->
            IF p \notin Wanted THEN pointer[p]
            ELSE IF OpFor(p).remove THEN OpFor(p).target ELSE OpFor(p).slot]
    /\ unmoved' \in SUBSET {t \in threads : Moved(eip[t]) # eip[t]}
    /\ eip' = [t \in Thread |-> IF t \in threads \ unmoved' THEN Moved(eip[t]) ELSE eip[t]]

\* Mutant: what was collected before the error is done.
CommitRegardless(c) ==
    /\ pc[c] = "open"
    /\ owner = c
    /\ pc' = [pc EXCEPT ![c] = "ops"]
    /\ closing' = [closing EXCEPT ![c] = "commit"]
    /\ freed' = FALSE
    /\ WriteCode /\ UNCHANGED prot
    /\ UNCHANGED <<heap, own, suspended, stuck, unrestored, modes, answer, transactions>>

\* Mutant: an error is returned, but nothing is aborted.
CommitStops(c) ==
    /\ pc[c] = "open"
    /\ owner = c
    /\ pc' = [pc EXCEPT ![c] = IF failed THEN "idle" ELSE "ops"]
    /\ closing' = [closing EXCEPT ![c] = IF failed THEN "none" ELSE "commit"]
    /\ freed' = FALSE
    /\ IF failed THEN UNCHANGED <<code, eip, unmoved>> ELSE WriteCode /\ UNCHANGED prot
    /\ UNCHANGED <<heap, own, suspended, stuck, unrestored, modes, answer, transactions>>

\* DetourTransactionCommitEx.
Commit(c) ==
    /\ pc[c] = "open"
    /\ owner = c
    /\ pc' = [pc EXCEPT ![c] = "ops"]
    /\ closing' = [closing EXCEPT ![c] = IF failed THEN "abort" ELSE "commit"]
    /\ freed' = FALSE
    /\ IF failed THEN UNCHANGED <<code, eip, unmoved>> ELSE WriteCode /\ UNCHANGED prot
    /\ UNCHANGED <<heap, own, suspended, stuck, unrestored, modes, answer, transactions>>

\* DetourTransactionAbort, called by the client.
Abort(c) ==
    /\ pc[c] = "open"
    /\ owner = c
    /\ pc' = [pc EXCEPT ![c] = "ops"]
    /\ closing' = [closing EXCEPT ![c] = "drop"]
    /\ UNCHANGED <<heap, own, code, held, refused, modes, answer, freed, transactions>>

\* VirtualProtect gives the page of an operation the protection found by Push.
\* "We don't care if this fails": the page then stays writable, and that is the
\* protection that the next operation on it will find.
Restore(o) ==
    LET g == PageOf[o.target]
    IN  \/ prot' = [prot EXCEPT ![g] = o.perm] /\ UNCHANGED unrestored
        \/ /\ UNCHANGED prot
           /\ unrestored' = IF o.perm = "code" THEN unrestored \cup {g} ELSE unrestored

\* An iteration of the loops that end the operations: the page is protected
\* again, and a trampoline no longer needed is freed.
EndOperation(c) ==
    /\ pc[c] = "ops" /\ ops # <<>>
    /\ LET o == Head(ops)
           done == IF closing[c] = "commit" THEN o.remove ELSE ~o.remove
       IN  /\ Restore(o)
           /\ heap' = IF done THEN FreeTrampoline(heap, o.slot) ELSE heap
           /\ freed' = (freed \/ (closing[c] = "commit" /\ o.remove))
    /\ ops' = Tail(ops)
    /\ UNCHANGED <<owner, failed, threads, pointer, entry, held, stuck, unmoved, modes, pc,
                   closing, answer, transactions>>

\* Mutant: an abort resumes nothing.
ReleaseCommitted(c) ==
    /\ pc[c] = "ops" /\ ops = <<>>
    /\ heap' = MakeRunnable(IF closing[c] = "commit" /\ freed /\ ~retainRegions
                            THEN FreeUnusedRegions(heap) ELSE heap)
    /\ \E s \in SUBSET threads : stuck' = stuck \cup s
    /\ suspended' = IF closing[c] = "commit" THEN suspended \ (threads \ stuck') ELSE suspended
    /\ eip' = [t \in Thread |-> IF t \in threads THEN Nowhere ELSE eip[t]]
    /\ threads' = {} /\ unmoved' = {}
    /\ owner' = Null
    /\ pc' = [pc EXCEPT ![c] = "return"]
    /\ UNCHANGED <<failed, ops, code, unrestored, modes, closing, answer, freed, transactions>>

\* The end of CommitEx and Abort.  ResumeThread may fail for any thread ("There
\* is nothing we can do"); its suspend count is never zero again.
Release(c) ==
    /\ pc[c] = "ops" /\ ops = <<>>
    /\ heap' = MakeRunnable(IF closing[c] = "commit" /\ freed /\ ~retainRegions
                            THEN FreeUnusedRegions(heap) ELSE heap)
    /\ \E s \in SUBSET threads : stuck' = stuck \cup s
    /\ suspended' = suspended \ (threads \ stuck')
    /\ eip' = [t \in Thread |-> IF t \in threads THEN Nowhere ELSE eip[t]]
    /\ threads' = {} /\ unmoved' = {}
    /\ owner' = Null
    /\ pc' = [pc EXCEPT ![c] = "return"]
    /\ UNCHANGED <<failed, ops, code, unrestored, modes, closing, answer, freed, transactions>>

\* "return s_nPendingError": read when the transaction is no longer the client's.
Return(c) ==
    /\ pc[c] = "return"
    /\ answer' = [answer EXCEPT ![c] = IF closing[c] = "drop" THEN "dropped"
                                       ELSE IF failed THEN "error" ELSE "success"]
    /\ closing' = [closing EXCEPT ![c] = "none"]
    /\ pc' = [pc EXCEPT ![c] = "idle"]
    /\ UNCHANGED <<heap, own, code, held, refused, modes, freed, transactions>>

Finish(c) == Commit(c) \/ EndOperation(c) \/ Release(c) \/ Return(c)

Next == \E c \in Client :
    \/ SetIgnoreTooSmall(c) \/ SetRetainRegions(c)
    \/ Begin(c) \/ Abort(c) \/ Finish(c)
    \/ \E t \in Thread : UpdateThread(c, t)
    \/ \E p \in Pointer : Attach(c, p) \/ Detach(c, p)

\* The hook manager commits whatever the calls before returned.
Spec == Init /\ [][Next]_vars /\ \A c \in Client : WF_vars(Finish(c))

----------------------------------------------------------------------------
(* Properties.                                                             *)

\* Type invariant: all that the transaction keeps has the form its code relies on.
TypeOK ==
    /\ heap \in Heap
    /\ owner \in Client \cup {Null}
    /\ failed \in BOOLEAN /\ freed \in BOOLEAN
    /\ threads \subseteq Thread /\ suspended \subseteq Thread
    /\ stuck \subseteq Thread /\ unmoved \subseteq Thread /\ unrestored \subseteq Page
    /\ ops \in Seq(Operation)
    /\ pointer \in [Pointer -> Address \cup Slot \cup {Null}]
    /\ entry \in [Function -> Slot \cup {Null, Break}]
    /\ prot \in [Page -> {"code", "writable"}]
    /\ DOMAIN eip = Thread
    /\ \A t \in Thread : eip[t].at \in Function \cup Slot \cup {Null}
    /\ ignoreTooSmall \in BOOLEAN /\ retainRegions \in BOOLEAN
    /\ pc \in [Client -> {"idle", "open", "ops", "return"}]
    /\ closing \in [Client -> {"none", "commit", "abort", "drop"}]
    /\ answer \in [Client -> {"none", "success", "error", "dropped"}]
    /\ transactions \in 0..MaxTransactions

\* A call of the function goes to the detour, and the pointer leads through a
\* trampoline to the function's own code.
Hooked(p) ==
    LET s == pointer[p]
    IN  /\ s \in Slot
        /\ entry[FunctionOf(p)] = s
        /\ heap.tramp[s] = [remain |-> FunctionOf(p), detour |-> DetourOf[p], restore |-> Null]

\* The function has its own code, to which the pointer leads.
Clear(p) ==
    /\ pointer[p] \in Address
    /\ CodeFromPointer(pointer[p]) = FunctionOf(p)
    /\ entry[FunctionOf(p)] = Null

\* At every moment each pointer can be called, and so can its function: commits
\* and aborts of any mix of operations leave no pointer between the two states.
CallsWell == \A p \in Pointer : Start[p] # Null => Hooked(p) \/ Clear(p)

InUse == {ops[i].slot : i \in DOMAIN ops} \cup {s \in Slot : \E p \in Pointer : pointer[p] = s}

\* No two pointers and no two operations have the same trampoline, and none that
\* is in use is the next to be handed out or in a region that was given back.
TrampolinesDistinct ==
    /\ \A s \in InUse : s[1] \in Regions(heap) /\ heap.tramp[s].remain \in Function
    /\ \A r \in Region : heap.free[r] \notin InUse
    /\ \A p, q \in Pointer : p # q => pointer[p] \notin Slot \/ pointer[p] # pointer[q]
    /\ \A i, j \in DOMAIN ops : i # j => ops[i].slot # ops[j].slot

\* Every free list ends, holds nothing that is in use, and no trampoline is lost
\* but the two of a region that are never listed.
TrampolinesAccounted ==
    \A r \in Regions(heap) :
        /\ FreeList(heap, r)[Last + 1] = Null
        /\ OnFreeList(heap, r) \cap InUse = {}
        /\ {r} \X (2..Last) \subseteq OnFreeList(heap, r) \cup InUse

\* While operations are pending their pages can be written, and every other
\* page is protected as it was, although functions share pages and each
\* operation only knows the protection it found.  The only pages left writable
\* are those whose own protection the system once refused to give back.
PagesProtected ==
    \A g \in Page : prot[g] = IF \/ \E i \in DOMAIN ops : PageOf[ops[i].target] = g
                                 \/ g \in unrestored
                              THEN "writable" ELSE "code"

\* No thread stays suspended when the transaction is over, however it ended,
\* but for those that the system refused to resume.
NoneLeftSuspended == owner = Null => suspended \subseteq stuck

\* Nothing is written to trampolines or code that is not writable, even if
\* the regions could not all be unprotected.
NeverFaults ==
    [][/\ \A s \in Slot : heap'.tramp[s] # heap.tramp[s] /\ s[1] \in Regions(heap) \cap Regions(heap)'
                          => s[1] \in heap.writable
       /\ \A f \in Function : entry'[f] # entry[f] => prot[PageOf[f]] = "writable"]_vars

\* The offsets of the function's first instructions fit the table rAlign, those
\* in the copy are less than the size of a pointer, and no copy is written over
\* a former one (the copy of a loop or jecxz counts less than nothing if its
\* target is out of reach: m_plExtra is made negative).
Short(f) ==
    /\ \A n \in 0..Copied[f] : Offset[f][n] < 8 /\ CopyOffset[f][n] < PointerSize
    /\ \A n \in 0..Copied[f] : \A k \in 0..(n - 1) : CopyOffset[f][k] < CopyOffset[f][n]

\* A thread suspended in the first instructions of such a function, or in
\* their copy, goes on with the instruction it would have gone on with, if the
\* system let it be moved and had resumed it before.
KeepsPlace ==
    [][\A t \in threads \ (stuck \cup unmoved \cup unmoved') :
        LET f == IF eip[t].at \in Slot THEN heap.tramp[eip[t].at].remain ELSE eip[t].at
            e == IF t \in threads' THEN eip'[t] ELSE eip[t]   \* there it stays, or runs on
        IN  f \in Function /\ Short(f) /\ eip[t].off # RbCodeIn
            => Meaning(heap', entry', e) = Meaning(heap, entry, eip[t])]_vars

\* Every suspended thread runs again, unless the system refuses to resume it.
ThreadsResume == \A t \in Thread : t \in suspended ~> t \notin suspended \/ t \in stuck

\* What a client knows: the pointers attached, those that the open transaction
\* is to change, and of each client what is open and decided.
HookedPointers == {p \in Pointer : Start[p] # Null /\ Hooked(p)}
AskedPointers == IF \E c \in Client : pc[c] = "open" THEN Wanted ELSE {}
Phase == [c \in Client |-> IF pc[c] \in {"idle", "open"} THEN pc[c] ELSE closing[c]]
Abstract == INSTANCE HookSet WITH
    hooked <- HookedPointers, wanted <- AskedPointers, phase <- Phase, answer <- answer

\* What the hook manager takes for granted: a transaction attaches and detaches
\* all it was asked to, in one step, or nothing, and its result tells which.
ImplementsHookSet == Abstract!Spec
=============================================================================
