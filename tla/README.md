# A verification of JitDumper

JitDumper loads a .NET module, lets the runtime's own JIT compile each of its
methods, and saves a copy of the module with the method bodies the JIT was
given.  It does so from inside the process: a managed program (`JitDumper/`)
drives a native library (`jit_hook/`) that detours four functions of the runtime
and calls back.  This directory holds TLA+ models of that program, the TLC
configurations that check them on small instances, and theorems about them that
TLAPS proves for every instance.  Paths and line numbers below are relative to
the repository.

## 1. The system

### Components

| Component | State | Operations | Talks to |
|---|---|---|---|
| Main program (`JitDumper/Program.cs`, `Utils.cs`, `PInvoke.cs`) | `_dumpedBodyReader`, `_dumpedMethods`, the module being dumped | `Main`: add the hooks, one `CompileMethod` per method, save; `CompilationCallback` | hook library (P/Invoke), runtime |
| Body reader (`DumpedBodyReader.cs`, `CilOperandResolver.cs`) | the `CilMethodBody` it was made for | `ReadVariables`, `ReadInstructions`, `ReadExceptionHandlers`, `ResolveMember` | called by the callback; calls `resolve_token` |
| Library entry points (`jit_hook.cpp`) | `manager`, `offsets::initialized` | `add_hook`, `compile_method`, `get_unboxed_method`, `resolve_token` | offsets, hook manager, runtime |
| JIT hooks (`hooks/compiler.hpp`, `hooks/cee_info.hpp`, `callback/callback_info.hpp`) | globals without a lock: `current_method_descriptor`, `fake_code`, `loaded_module`, `locals_from_method_desc`, `tokens_from_handle`, `handles_from_token` | `comp_compile`, `imp_resolve_token`, `resolve_token_hook`, `get_arg_type_hook`, `call_callback` | run on every thread that compiles a method; call back into the main program |
| Profiles (`hooks/profiles/*.hpp`) | none | `create_compiler`, `compile_method`, `import_phase` per runtime version | runtime |
| Hook manager (`hook_manager.hpp`) | the list of hooks | `apply_hooks`; the destructor removes them | Detours |
| Detours (`hooks/detours/detours.cpp`) | the pending transaction, threads and operations; regions of trampolines and their free lists | begin, attach, detach, update thread, commit, abort; the search for memory near a function | the code of the process |
| Detours' copier (`hooks/detours/disasm.cpp`) | tables of opcodes; a `CDetourDis` per instruction | `DetourCopyInstruction` | called by attach |
| Symbol download (`pdb/pdb_downloader.hpp`) | the directory `Symbols`, which outlives the process | `download_pdb`, `is_correct_size`, `parse_pdb_info` | symbol server, file system |
| Symbol lookup (`offsets/clr_offsets.hpp`, `pdb/pdb_module.hpp`, `pdb_process.hpp`) | addresses and member offsets | `initialise_offsets` | symbol download, DbgHelp |

### How a run goes

`Main` loads the target, runs its module constructor (from then on the target's
own threads may run) and calls `add_hook`.  That loads symbols, applies the
detours, and compiles a *useless* method through them: `comp_compile` keeps its
code as `fake_code`.  For each method with a body `Main` makes a reader and calls
`compile_method`, which stores the method in `current_method_descriptor` and
asks the runtime to compile it.  `comp_compile`, finding that the method is the
current one, lets the JIT import the body, calls back with code, local
signatures and exception clauses, and hands the runtime `fake_code`.  Meanwhile
`get_arg_type_hook` has collected the local signatures one by one, and the two
token hooks have recorded what tokens denote.  After the loop the module is saved.

### What is hard

- **Interleaving.** The hooks run on every thread and within each other (a JIT
  may run a class constructor, the callback runs managed code that is itself not
  compiled yet), and they share globals without a lock.  A hook reads
  `current_method_descriptor` up to three times per compilation.
- **Order.** The hooks are live before `fake_code` exists and before there is a
  reader.
- **Partial failure.** A body is replaced in three steps; add_hook may fail after
  it has done half its work; its result crosses a language boundary.
- **State that outlives a run.** `Symbols` is all the next run has to go by.
- **Accumulation.** Locals and tokens are collected over many calls, by all
  compilations, and are never cleared.
- **Patching live code.** Detours rewrites functions other threads may be in.
- **Relocating code.** Any compiler's first instructions have to be measured and
  moved to memory that must be within two gigabytes of them.

`PROJECT.json` lists the hazards line by line, with the properties that cover
them or the reason why none does yet.

### What makes each component correct

- Main program, reader, hooks: each body is its own method's and whole, or
  untouched; the runtime never gets a null code pointer, and never the wrong code
  for a method outside the target; the callback always has a reader and a
  delegate; every run ends; a module is saved only after a dump.
- Tokens: an operand of a dumped body denotes what the JIT resolved it to.
- Symbols: a PDB is used only when whole, kept when whole, and nothing left
  behind keeps later runs from success.
- Hook manager and Detours: all or nothing of a transaction takes effect, no
  thread is left in overwritten code, trampolines are unique and within reach,
  and a trampoline does what the bytes it replaces did.

## 2. The modules

| Module | Models |
|---|---|
| `DumpSession` | one run: `Main`, the entry points, `comp_compile`, `get_arg_type_hook`, the callback, all threads |
| `DumpRun` | what a run promises, abstractly; `DumpSession` implements it |
| `MCDumpSession` | instances |
| `DumpSessionProofs`, `DumpBodyProofs` | theorems about `DumpSession`, whatever else the runtime compiles, and if it leaves the target's methods alone |
| `TokenMaps`, `MCTokenMaps`, `TokenMapsProofs` | the token maps and the operands of dumped bodies |
| `SymbolCache`, `MCSymbolCache`, `SymbolCacheProofs` | `download_pdb` and the directory `Symbols` over many runs |
| `TrampolineRegions` | the allocator of Detours, as operators on a record |
| `DetourTransaction` | the transactions of Detours, over that allocator |
| `HookSet` | what a transaction promises, abstractly; `DetourTransaction` implements it |
| `MCDetourTransaction` | an instance |
| `NatSetInduction` | induction over the natural numbers, from the definitions of the library |
| `TrampolineRegionsProofs` | lemmas: what each operator of the allocator does to a heap and its free lists |
| `DetourTransactionProofs` | theorems about `DetourTransaction` |
| `RegionSearch` | the search for memory within reach of a function |
| `CopyTable` | the opcode tables of the copier |
| `CodeCopy` | the making of one trampoline, over the two |
| `X86Encoding` | the reference: how the processor reads instructions |
| `MCCodeCopy` | the instructions, functions and address spaces to check |
| `CodeCopyProofs` | theorems about `CodeCopy`: the search, and what is written to rbCode |

A refinement mapping stands at the end of the module it maps (`DumpSession`,
`DetourTransaction`), as do the invariants that TLC and the proofs share.

### DumpSession

*Threads.* `pc` is where `Main` is.  A compilation is a frame
`[meth, pc, seen, sig, code, stray]` on its thread's stack (`frame`, `depth`);
the main thread goes on when its stack is empty.  `CompileMethod` and `Prime`
push one on the main thread; `StrayCompile` is the runtime compiling a method of
its own accord: on an idle thread, or within a compilation at a point where
managed code runs (`Reentrant`).

*Steps of a compilation*, one action per access to shared state:
`GetArgType` (get_arg_type_hook, once per local variable), `CompCompile` (the
first `if` of comp_compile), `KeepFakeCode` (its body), `TestCurrent` (the second
`if`), `ImportPhase`, `CallCallback` (which reads the current method again),
`SizeGuard`, `ReadVariables`, `ReadInstructions`, `ReadExceptionHandlers` (the
callback), `ReturnFakeCode`, `RealCompile`, `Return`, `GiveUp` (a JIT error).

*Main.* `CreateCompiler`, `InitialiseOffsets`, `ApplyHooks`, `Prime`, `HookAdded`
are add_hook in its order; `NextMethod`, `CompileMethod`, `ResolveFails`, `Save`
the loop and the end.  `AddHookReturns` is the marshalling of add_hook's result:
`PInvoke.cs:12` declares a `bool`, which is four bytes to the marshaller, and
`jit_hook.cpp:47` returns the one byte of a C++ bool, so that *false* may be read
as *true*; `CompileNothing` is the loop of a program that goes on in that way.
`CollectDelegate` is the garbage collector taking the delegate made in AddHook's
argument list, and `CallCollected` the callback through it.

*Data.* Code, signatures and clauses are abstracted to the method they belong to,
a list of locals to its length, so that "whose" and "how many" are what a body
can get wrong.  A descriptor is a method or a stub that wraps one
(`GetUnboxedMethod`).  `JitSize` and `DiskSize` are the two sizes the guard in
`CompilationCallback` compares.

### TokenMaps

A protected module's code may hold tokens that a protector translates on their
way to the runtime (`Decode`).  `ResolveTokenHook` and `ImpResolveToken` are the
two hooks, in the order in which the second calls the first, on every thread and
for every module; `ResolveToken` and `ResolveMember` are the lookup, and
`ReadOperand` one operand of `ReadInstructions`.  `GetHandle` takes the most
specific of method, field and class.  A compilation is reduced to the set of
tokens the JIT reaches (`Live`), and the instructions to the tokens in the code
(`Code`).

### SymbolCache

A PDB file is a number of blocks, of which the first says how many there should
be.  `CheckCached`, `DownloadStarts` to `DownloadFails`, `CheckDownloaded` and
`Remove` are download_pdb; `Accept` its return, after which initialise_offsets
goes on to the second library and `LoadSymbols`.  `Kill` ends a run anywhere;
`calm` is the moment from which connections hold and runs are left alone.  Runs
overlap unless `alone` says of a behaviour that none is started while another is
under way.

### DetourTransaction and TrampolineRegions

*Allocator.* `heap` is `s_pRegions`, `s_pRegion` and what the regions hold.  As in
the code, nothing but `pbRemain` tells a trampoline in use from a free one: it
leads out of the region to a function, or into the region to the next free one
(or is null).  `AllocTrampoline` is the set of results an allocation can have:
the default region, then the first of the list with a trampoline in reach, then
a new region, which may be refused or turn out to be too far away.
`FreeTrampoline` and `FreeUnusedRegions` give back.

*Transaction.* `owner`, `failed`, `threads` and `ops` are `s_nPendingThreadId`,
`s_nPendingError`, `s_pPendingThreads` and `s_pPendingOperations` (last in, first
out).  `Begin`, `UpdateThread`, `Attach`, `Detach`, `Commit` and `Abort` are the
calls, each with every error it can return; `EndOperation` is one iteration of the
loops with which both `Commit` and `Abort` end, `Release` what follows them, and
`Return` the last line, which reads `s_nPendingError` when the transaction is no
longer the caller's.  `Commit` turns into an abort when an error is pending.  `Attach`
drops without an error what is its own detour (`detours.cpp:2066`).

*Refusals.* Three calls of the system fail without an error of Detours, and for each
the model chooses freely between success and failure.  The VirtualProtect that
gives a page its protection back (`Restore`; "We don't care if this fails",
`detours.cpp:1618` and `1904`): the page stays writable, and that is what the next
operation on it will find.  ResumeThread (`Release`; "There is nothing we can do if this
fails", `1641` and `1931`): the thread stays suspended, and later transactions
cannot change that, since each resumes as often as it suspends.  GetThreadContext
(`1862`) and SetThreadContext (`1877`, `1893`), of which the second's result is not looked
at (`WriteCode`): the thread is not moved out of the bytes that are rewritten.
`unrestored`, `stuck` and `unmoved` are these pages and threads.  The properties about pages
and threads say what holds of all others; no variable of the program tells them apart.

*Code.* A function is a sequence of instructions with a length, the growth of
their copy and whether the function ends there, and some padding.  `Copied`,
`CbTarget` and `Align` are the copy loop of `DetourAttachEx` and its table, with
its three and five bits; `Moved` is what `CommitEx` does to a suspended thread.
`entry` is what a function begins with.

*Who calls.* A client names no pointer twice in a transaction and attaches only
what is not attached, and different pointers lead to different functions: so does
the hook manager, in its only caller `add_hook`.  The code is the 64-bit one.

### RegionSearch, CopyTable, CodeCopy

One behaviour is one DetourAttachEx, from the search for memory to the finished
trampoline, for a function `fn`: the build (x64 or x86), its first bytes, its
address, and the allocations in the address space.  `DetourTransaction` has the
rest of DetourAttachEx, and takes of this only lengths and growth.

*Search.* `Passes` are the six calls of `detour_alloc_trampoline_allocate_new`,
of which a 32-bit build makes the last two; `pass`, `pbTry` and `pv` its
variables.  `SkipSystem`, `PassOver`, `Allocate`, `Refuse`, `Block` and `Exhaust` are
the ways through the loops of `detour_alloc_region_from_lo` and `_from_hi`.

*Copy.* `TakeTrampoline` is the end of detour_alloc_trampoline, `CopyInstruction` an
iteration of the loop of DetourAttachEx, `Pad` of the one after it, `Finish` what
comes of it: too small, too large, or a trampoline with a jump back.  Each copy
function of `CDetourDis` is an operator of its name; those that only copy a
prefix and go on with the next byte are what they set (`Copy66(p)` and so on, for
the prefixes p).  `CopyTable` has the two tables for both builds as functions of the
opcode, in the order of the source.  The constructor of `CDetourDis` leaves
`m_nSegmentOverride` as it was, which is a choice in `DetourCopyInstruction`.

*Bytes.* A cell is a byte, except that the first cell of a relative offset holds
the whole offset.  So `AdjustTarget` computes with offsets as the code does,
including what a narrow offset makes of a large number (`WrapTo`).

*Reference.* `X86Encoding` says where an instruction ends and where its relative
offset leads, from the structure of the instruction set: prefixes, opcode map,
ModR/M, SIB, displacement, immediate.  It uses no table of the copier.  `Meaning` is
what the properties compare: an instruction without its offset, and the address
the offset leads to; a short jump means what the near one does.

## 3. What the runs check

| Run | Result | Shows |
|---|---|---|
| `quiet` | holds | five methods, one per way to be dumped: unboxed, as large as on disk, instantiating stub, rejected by the JIT, shrunk. Foreign methods are compiled on two threads, two deep. Every body is whole and its own, the count is right, the run implements `DumpRun` and ends |
| `threads` | holds | the target runs: its methods too are compiled by its thread and within other compilations. No null code, no callback without a reader, foreign code intact, fake code set once, the run ends |
| `operands` | holds | three methods with encoded tokens, a second module with the same tokens and handles, two threads: operands keep their meaning |
| `cache` | holds | runs after each other or two at a time on four runtimes, killed or cut off anywhere: nothing but a whole PDB is accepted; if runs do not overlap a whole PDB is kept, and the dumper recovers |
| `detours` | holds | transactions that attach, detach, fail and are aborted, with restored protections, moved threads and resumptions refused at any time: calls stay well-directed, no trampoline is lost or used twice, a transaction takes effect whole or not at all, and pages and threads are left as they were but for those refused |
| `attach` | holds | every opcode of both builds with nine forms of operand or up to eight prefixes, VEX, EVEX and XOP, but for the instructions listed under *Bounds*; and functions with far jumps, far data, padding and long instructions in address spaces with one or two free places: lengths right, copies mean the same and fit, targets right, memory found if there is any |
| `worker` | `OwnBody` fails | a second thread's compilation of the current method ends up in the next method's body |
| `collected` | `HookedRunSurvives` fails | the callback's delegate is collected |
| `unhooked` | `HookedWhenSaved` fails | add_hook's false is read as true |
| `shared` | `OperandDenotesSame` fails | two instantiations of a generic class share a method description |
| `targets` | `CopyMeansSame` fails | LOOP, LOOPE, LOOPNE and JCXZ among the first instructions are copied with a wrong offset, and then overwritten |
| `empty` | `CacheRecovers` fails | an empty PDB is accepted for ever |

Each property of a passing run has a mutant (the operators marked *Mutant* in the
modules): a plausible bug in one definition that makes TLC refute the property.

### Properties

- `OwnBody`, `LocalsExact`, `CompleteWhenSaved`: nothing foreign in a body, the
  locals complete, and at the end each body whole or untouched and the count
  right.  The first two are the ones the two threads can break, which is why they
  are split.
- `CodeNeverNull`, `CallbackHasReader`, `ForeignCodeIntact`, `FakeCodeIsUseless`:
  what must hold however compilations interleave.
- `ImplementsDumpRun`: `DumpSession` refines `DumpRun`, liveness included; a body
  counts as dumped once its last part is in place.
- `HookedRunSurvives`, `HookedWhenSaved`: what the README's list of tested
  versions and `Main`'s early return promise.
- `OperandDenotesSame`: a dumped operand denotes the same class, member and field.
- `AcceptsWhole`, `WholeKept`, `CacheRecovers`: nothing but a whole PDB is used, a
  whole one stays, and in the end there is one.
- `CallsWell`: every function and its pointer are both detoured or both not.
- `TrampolinesDistinct`, `TrampolinesAccounted`: the allocator's free lists and what
  is in use are disjoint and together all there is, but for the two trampolines of
  a region that are never listed.
- `PagesProtected`: the protection each operation has found is put back in the
  right order when functions share a page, and the pages that are writable without a
  pending operation are those whose own protection was once refused.  `NeverFaults`:
  nothing is written to a page or a region that is not writable.
- `NoneLeftSuspended`, `ThreadsResume`, `KeepsPlace`: a suspended thread runs again,
  however the transaction ends, unless the system refuses to resume it, and goes on
  where it was, unless the system refuses to move it; the last one for code
  whose offsets fit the table (section 5), and for threads that did run before the
  transaction.
- `FoundUsable`: memory that is found is free, aligned, outside the system region and
  in reach.
- `MissesOnlySystem`: when nothing is found and nothing was refused, nothing was free
  within the bounds, except near the system region (the steps around it are of
  128 MB: "preserve address space entropy").
- `UnreachableOnlyAtEdges`: memory that is found and then not used, because it is out of
  bounds, is found only for a function that begins with a jump, in the lowest
  or (x86) highest 512 KB of the address space, or at the very end of the two
  gigabytes above a function in the first bytes of its 64 KB.  The third and the
  fourth pass look in a window that is not cut to the bounds.  When they find
  such memory the attach gives up, although the later passes might have found
  memory in reach; that is why `MissesOnlySystem` is about searches that find nothing.
- `LengthRight`, `CopyMeansSame`: the copier finds the ends of instructions where the
  processor does, and the trampoline does, instruction by instruction, what the
  function did, and then goes on behind them.  `TargetReported`: the third thing the
  copier promises; of the two targets that an uninitialised `m_nSegmentOverride` allows
  for an indirect jump it accepts either, since DetourAttachEx does not use it.  `CopyFits`: nothing is written behind the 30 bytes.
- `ImplementsHookSet`: what the manager takes for granted when it looks at no result
  but the last.

### Bounds

`MaxStray` bounds the compilations the runtime starts (2 in each run: one to
overlap with compile_method's, one to overlap with both), `MaxDepth` the nesting
(2: the interesting case is one compilation inside another).  Only one frame per
method is on the stacks as a stray, because a second one meets the runtime's lock
on the method.  One worker is enough for every pair of accesses to interleave.  A
method has at most two locals: the first and a later one.  A PDB of three blocks
has a beginning, a middle and an end.  `detours` has three transactions, which are
enough to attach, detach and attach again; two regions with two usable
trampolines each, so that a region fills up and another is needed; four
functions, of which two share a page, one is too small and can only be served by
a region that proves to be too far away, and one is its own detour; a null pointer,
and one that holds a jump to its function.  A thread can be suspended at the start, between two
instructions and behind the last.  It has one client, because `add_hook` is called once, and one
thread to suspend.  `detours` has about 400 000 states, `quiet` about 100 000 states,
`threads` 700 000, `attach` 88 000, `cache` and `operands` 25 000 each.  No symmetry is
used: most runs check temporal properties.

`attach` takes 13 000 functions.  Short distances are those of the program; a
gigabyte is 2^24, and all long distances (the two gigabytes, the 512 KB by which
Detours stays below them, the region size, the system region and the step
around it) are divided by 64, so that TLC's integers hold addresses up to 16 GB
in the x64 build.  Addresses beyond 2^63 and their wrap-around are therefore not
reached.  Every opcode appears with every form of ModR/M byte that changes the
length, because the tables are indexed by opcode; prefixes are combined with one
form, because what they change (operand and address size, REX.W, the segment) does
not depend on the form.  The free places of the crowded address spaces lie on
either side of each bound of the search; some functions lie where the search finds
what cannot be reached: just above the first gigabyte, near the end, and in the
first bytes of 64 KB.

These functions are left out of `attach`:

- those with a LOOP or a JCXZ (the run `targets`) or with XBEGIN among the first
  instructions; those that jump into their own first five bytes;
- instructions the table is wrong about or does not know: EVEX and VEX forms of
  0F 78, 7A and 7B, the undocumented F6 /1 and F7 /1, 0F B8 without F3;
- encodings no compiler makes: in the x86 build an address-size prefix before a
  ModR/M byte and an operand-size prefix before a branch, REX before another prefix;
- data addressed relative to RIP farther than the 512 KB, which need not be in reach
  of a trampoline at the bound (AdjustTarget cuts the offset off without a report);
- more than 12 bytes after two short jumps, which overflow the 30 bytes.  The
  comment at `detours.cpp:325` says that "in practice 11 seems to be the limit".

### Fairness

`DumpSession`: weak fairness of the main thread and of the compilations of each
thread, since the operating system runs every thread that can run.  Strays are
not fair: nothing obliges the runtime to compile a method.  `SymbolCache`: weak
fairness of each dumper's steps, starting again included; no fairness of
downloads breaking or runs being killed, nor of `calm`, so `CacheRecovers` speaks
only of behaviours in which the network comes to hold.  `DetourTransaction`: weak
fairness of `Finish`, since `hook_manager.hpp` commits whatever the calls before it
returned, and the library's own loops run to their end.  `CodeCopy`: weak fairness of
its steps, which are those of one call.  `TokenMaps` states safety only.

## 4. What is proved

TLAPS checks every proof; nothing is assumed but the named `ASSUME`s of the
modules and the hypotheses below.

**DumpSession, for every module, any threads, any nesting and any version.**
`ControlInv` is inductive.  `CodeNeverNull` alone is not: `fake_code` may be null
when a compilation is at comp_compile's second test.  What saves the program is
that, while there is no fake code and the hooks are live, only the useless method
can be current (`FakeCodeFirst`), that its one compilation is alone on the main
thread's stack (`UselessOnce`), and that `Main` passes `add_hook` with hooks only
after that compilation has ended; therefore whoever is past the second test
finds a fake code (`HookPath`) and a reader (`ReaderOK`).  From it follow
`TypeCorrect`, `NeverNull`, `ReaderExists` and `FakeCodeStable` (an action
property).  `ForeignInv` adds that no foreign compilation is on the dumper's path:
`ForeignIntact`.

**Bodies, if the runtime leaves the current method to the dumper.** The hypothesis is
`[]Undisturbed`: the runtime may compile any method, but while a compilation of its own
reports the types of its locals (`get_arg_type_hook`) or is at comp_compile's second test
it is not of the method that is current.  `QuietUndisturbed` shows that it holds if the
constants are `Quiet` (the runtime compiles no target method of its own accord).  Under it
`UndisturbedInv` is inductive: the one compilation that is not a stray is at the bottom of
the main thread's stack and is the current method's (`SoloFrame`), only it gets to the
callback (`OwnFrame`), and the locals collected for it are those it has reported so far,
because a method not yet visited has none (`FreshLocals`).  From it follow
`OwnBodyUndisturbed` and `LocalsExactUndisturbed`.  The run `worker`, where the runtime
compiles a target method while it is current, shows that the hypothesis is
needed for the first.  So it is for the second: a method the runtime compiles once
more while it is current reports its locals a second time, and nothing clears the
first ones (`cee_info.hpp:49`).

**Complete bodies, and the refinement of DumpRun, under the same hypothesis.**
`CompleteInv` says where each method is: not visited yet and as in the file,
being compiled and as far as its compilation (`Progress`), or done, with the outcome
that `Dumpable` tells in advance (`BodiesInv`); that a compilation gets past the
callback's tests only if its method is dumpable (`PathInv`); that hooks once in
place stay and every method is visited (`LoopInv`); and that the count is that of the
replaced bodies (`CountInv`).  `CompleteWhenSaved` is what is left of it when nothing is
remaining (`CompleteUndisturbed`), and with it each step of the program is a step of `DumpRun`
or none (`ImplementsRunUndisturbed`): only the step that puts the last part of a
body in place is `Dump`.  `Undisturbed` is needed for these as for
`OwnBody`: TLC finds both broken on the instance of `worker`.

**Tokens.** A token recorded under a handle leads to that handle
(`MapsInv`), and a compilation of compile_method's that reads its operands has
put every token the JIT reaches into both maps (`SeenInv`), whatever others have
overwritten in the meantime: with `TypeOK` this is inductive without a hypothesis
(`TokenTypeCorrect`, `MapsRight`).  `OperandInv`, which adds `OperandDenotesSame`, is
inductive if `HandlesTell`: real tokens that lead to one handle denote the same.
`OperandsRight` has this hypothesis, and the run `shared` shows why.

**Symbols.** `CacheTypeCorrect`; `AcceptedWhole` for any number of overlapping
dumpers, if a file appears with its superblock (`FirstWrite > 0`; `empty` shows
why); `KeptWhole`: a whole PDB stays in behaviours that are `alone` (`OneAtATime` is
invariant: two runs could remove each other's files).

**The allocator, for any regions of any size.** `HeapInv`: a free trampoline's
`pbRemain` is null or leads to a free one of its region, no two lead to the same and none
to the head of the list; what is in use lies in a region.  Each operator preserves
it and leaves the trampolines in use alone, except the one it is about.  `ListInv`
adds that each region has a list (`Chain`) of all its trampolines that are not in use but
the first two.  That the walk of `FreeList` meets exactly these
(`FreeListMeets`), that what a new region gets is such a list, and that
`Kept` is the list of regions without the empty ones are inductions over a
recursive function; `NatSetInduction` has the induction in a form the provers
can use, with sets in place of predicates.

**Transactions, for any clients, pointers, functions, threads and regions, whichever
calls return errors, and whatever the system refuses in the three places of
section 2.** `Inv` is inductive.  `CallsWell`, `TrampolinesDistinct` and
`PagesProtected` are not by themselves: what an operation will do when it ends has to be known
when it is only pending.  So each operation names a trampoline that leads to the
function of its pointer, and its pointer is attached or not according to
whether the operation adds or removes and whether the code has been written
(`OpsInv`); nothing is in use but by a pointer or an operation (`UseInv`); the protection an
operation has found is the function's own exactly if no older operation shares
the page and the page is not one of those left writable before (`ProtInv`); the suspended
threads are those of the transaction and those that could not be resumed (`OwnerInv`);
trampolines are only written if all regions could be made
writable (`WriteInv`): a transaction whose Begin failed to do so takes no operations.
From it follow the first seven theorems; `TransactionAccounts` needs `ListInv` too.
`TransactionImplementsHookSet` is the refinement, which `AnswerInv` prepares: how
a transaction will answer is fixed when it is decided.  It has the hypothesis
`OneClient`.  With two the result may be wrong: `Return` reads `s_nPendingError` after it
has given the transaction up (`detours.cpp:1945`), when another client may have begun the
next one.  JitDumper has one client, which calls once.

**Suspended threads.** `TransactionKeepsPlace` is about functions that begin with any
instructions, as long as they are `Short`.  `KeepsPlace` speaks of a step; that it holds
of the next one takes `PlaceInv`: a thread of the transaction that could be moved
and had been resumed before (`Followed`), in the first instructions of a
function or in their copy, is between two of them (`Stands`), in the function where
no jump covers it or in a trampoline that a pointer still leads to; and while
operations are collected it is in no trampoline that could be handed out and
filled anew.  `CommitKeeps` is the step that matters: a thread that a pending operation covers is moved to the same
instruction on the other side or joins `unmoved`, and what none covers keeps its meaning.  That the table
`rAlign` takes either offset to the other (`AlignRight`) rests on the offsets being running sums
that grow and stay below eight.  These sums are recursive functions: `SumExists` shows by
induction that they exist, so that they can be unfolded
(`OffsetSteps`, `CopyOffsetSteps`).

**The search, for any function and address space.** The hypotheses are those of
`SearchAssumption` and `MemoryAssumption`: sizes are whole regions, and Windows allocates
whole regions of 64 KB and none in the first 64 KB.  `SearchInv` keeps where a pass can
be (`At`) and what it can find there; `SearchFindsUsable` needs that each pass stays
within two gigabytes of the function even where it leaves the bounds.
`SearchReachesAllButEdges` compares the windows of the passes with the bounds; `RegionHolds`
(a region holds four trampolines) says that the first usable one is in it.  The
proof did not go through for the property as it was first stated, which
had only the functions that begin with a jump, and TLC found the three other
cases once the functions to check lay near the edges.
`SearchMissesOnlySystem` follows what a pass has swept (`Swept`): a place that
fits and is in the last two passes' bounds has not been gone by, because what
`PassOver` skips is allocated and what `SkipSystem` skips is near the system region.

**What is written to rbCode, for any code that is `Plain`, any function and any place of
the trampoline.** `Copies` is what every function of the copier results in: as many bytes as it
counts, or as many more as it says the copy is longer, which are three or four for a
short jump and two for a branch of 16 bits.  `InstructionCopied` shows it for
every opcode, from what the entries of both tables have in common (`TableIs`): an
entry with an offset has no operand that `CopyBytes` measures otherwise, so that the
offset has one, two or four bytes, and one of one byte is never enlarged.  `CopyType` is inductive
with it: before the last instruction no more than four bytes have been copied, to at most
three times as many.  From it follow `CopyTypeCorrect`, `CopyFitsPlain` and
`ChecksNeverFail`.

`Plain` says of the code that an opcode comes after at most four prefixes, that a copy is no
longer than the 15 bytes an instruction can have, that it is not counted as shorter than it is
(the copy of a loop whose target is out of reach, `disasm.cpp:434`), and that two
short jumps in the first four bytes are not followed by a copy of more than twelve bytes.  All of
it is needed: with a jrcxz at the start TLC finds `at` below zero, and with a `mov` of 13
bytes behind two short jumps a jump back that ends one byte behind rbCode, because
DetourAttachEx only compares what is copied with its size (`CodeSize`), and the jump comes
after that.  Every state of `attach` is `Plain` (a line more in its INVARIANTS shows it);
its functions include two short jumps with an instruction of twelve bytes behind them.

**Only model-checked.** Liveness (`Terminates`, `CacheRecovers`, `ThreadsResume`, and
the fairness in `ImplementsDumpRun`), which is out of the prover's reach; of `CodeCopy`
`LengthRight`, `CopyMeansSame` and
`TargetReported`, which say that tables of a thousand entries agree with another
description of the instruction set: this is a matter of cases, all of
which `attach` goes through; and what the failing runs show.

## 5. What is not modelled

- The content of a data race: several threads changing an `unordered_map` or a
  `vector` at once.  Every access is atomic here; the interleavings of accesses
  are all there.
- `locals.data()` dangling when another thread appends during the callback, and
  exceptions thrown inside the readers, which would unwind through the JIT.
- Signatures of inlinees seen by get_arg_type_hook, and the memory around a
  signature that is not part of a CORINFO_METHOD_INFO.
- A second try of the JIT for a method it has failed on.
- Loading the target, PE options, console output, DbgHelp.
- Detours: threads that run while code is rewritten (the manager suspends none but
  its own, which Detours drops); the copiers for ARM, ARM64 and IA64 in
  `disasm.cpp` and the branches for them in `detours.cpp`, which no build of the
  hook library compiles; `detour_skip_jmp` beyond the jump a second detour finds;
  `modules.cpp`, which JitDumper does not use.
- What becomes of a thread that was not moved, once it is resumed in the middle of a
  jump; and where a thread stands that is still suspended because of an earlier
  transaction.  `KeepsPlace` speaks of neither.
- The VirtualProtect of `detour_runnable_trampoline_regions` and the VirtualFree of
  `detour_free_unused_trampoline_regions` are taken to succeed.  The first's failure would
  leave a region writable, as it is while transactions are open; the second's would
  leave memory allocated that is in no list.
- `CodeCopy` does not share state with `DetourTransaction`: the first has the bytes of
  one attach, the second the order of many.  That a trampoline comes from a region
  allocated earlier instead of a new one changes only `place`.
- `KeepsPlace` is restricted by `Short`: an offset of eight does not fit the three bits
  of the table `rAlign`, and on the way back only the first bytes of a trampoline
  (`sizeof` of a pointer) are looked at.  Without `Short` TLC finds a thread suspended
  at the start of a function whose first two instructions are eight bytes, which is
  moved to the second instruction's end in the copy.  `Short` also asks that each
  instruction's copy begin behind the one before: the copy of a loop whose target is out of
  reach counts less than nothing (`disasm.cpp:434`).  Nor does the property speak of a
  thread at the jump back at the end of a trampoline (`RbCodeIn`).
- The comment at `detours.cpp:1453` says that all trampolines but the first are put
  on the free list; the loop leaves out index 1 as well.  The model has the loop.

## 6. Plan

1. `DumpSession`, `DumpRun` - done and proved, the refinement and the completeness under
   `Undisturbed`.
2. `TokenMaps` - done and proved.
3. `SymbolCache` - done and proved.
4. `DetourTransaction`, `HookSet` (`detours.cpp:1586` to `2494`, `hook_manager.hpp`) and
   `TrampolineRegions` (`detours.cpp:1179` to `1519`) - done and proved.
5. `RegionSearch` (`detours.cpp:1218` to `1396`), `CopyTable` and `CodeCopy`
   (`disasm.cpp:156` to `1606`, `detours.cpp:2111` to `2310`) - done; the search and the
   bounds of what is written proved.
6. To do: the manager's life over `DetourTransaction` and `DumpSession`: hooks applied, used
   and removed while threads are in them.
