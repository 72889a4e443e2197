---------------------------- MODULE SymbolCache ----------------------------
(***************************************************************************)
(* How a run of JitDumper gets the symbols of the runtime it is in:        *)
(* download_pdb for the runtime's module and for the JIT, each kept in the *)
(* directory Symbols for later runs, and initialise_offsets, which looks   *)
(* up what the hook library needs in them.                                 *)
(*                                                                         *)
(* Runs follow each other and may overlap.  A run ends at any point when   *)
(* it is killed, a download when the connection breaks; either leaves the  *)
(* file of the download as it is by then.  The next run has nothing but    *)
(* the file to go by.                                                      *)
(*                                                                         *)
(* A file is the number of its blocks; the first, the superblock, says how *)
(* many there ought to be.                                                 *)
(***************************************************************************)
EXTENDS Integers

CONSTANTS
    Dumper,      \* the places a dumper is run at, one run at a time each
    Runtime,     \* the runtimes it may be built for
    Version,     \* [Runtime -> Nat], Environment.Version.Major
    HasClr,      \* the runtimes whose module is clr.dll: .NET Framework
    Blocks,      \* the size of each PDB
    FirstWrite   \* blocks on disk when the file of a download appears

ASSUME CacheAssumption ==
    /\ Version \in [Runtime -> Nat]
    /\ HasClr \subseteq Runtime
    /\ Blocks \in Nat \ {0}
    /\ FirstWrite \in 0..Blocks

Library == {"clr.dll", "coreclr.dll", "clrjit.dll"}

Absent == -1
File == Absent..Blocks

VARIABLES
    runtime,   \* of the runs, which share the directory
    file,      \* the PDB of each library in Symbols
    pc,        \* where each run is
    lib,       \* the library download_pdb is about
    accepted,  \* the libraries download_pdb has returned for
    calm,      \* no more broken connections and no more killed runs
    alone      \* no run is started while another is under way

vars == <<runtime, file, pc, lib, accepted, calm, alone>>

Ended == {"idle", "ready", "failed", "crashed"}
RunPC == Ended \cup {"parse", "cached", "download", "write", "downloaded", "remove", "load"}

\* Mutant: the name the runtime had before version 4.
ClrNameOld == IF Version[runtime] = 4 THEN "mscorwks.dll" ELSE "coreclr.dll"

\* initialise_offsets: the module of the runtime by its version.
ClrName == IF Version[runtime] = 4 THEN "clr.dll" ELSE "coreclr.dll"
Needed == {ClrName, "clrjit.dll"}

\* GetModuleHandleA
Loaded == {IF runtime \in HasClr THEN "clr.dll" ELSE "coreclr.dll", "clrjit.dll"}

Init ==
    /\ runtime \in Runtime
    /\ file = [l \in Library |-> Absent]
    /\ pc = [p \in Dumper |-> "idle"]
    /\ lib = [p \in Dumper |-> "clrjit.dll"]
    /\ accepted = [p \in Dumper |-> {}]
    /\ calm = FALSE
    /\ alone \in BOOLEAN

Goto(p, l) == pc' = [pc EXCEPT ![p] = l]

Busy(p) == \E q \in Dumper \ {p} : pc[q] = "write" /\ lib[q] = lib[p]

\* What the superblock says; a file that has none, or that cannot be opened
\* since a download has it, leaves zeros.
Expected(p) ==
    {IF file[lib[p]] >= 1 THEN Blocks ELSE 0} \cup (IF Busy(p) THEN {0} ELSE {})

\* exists and is_correct_size
Correct(p, expected) == file[lib[p]] # Absent /\ expected = file[lib[p]]

\* download_pdb returns and initialise_offsets calls it for the JIT or goes on.
Accept(p) ==
    /\ accepted' = [accepted EXCEPT ![p] = @ \cup {lib[p]}]
    /\ IF lib[p] = "clrjit.dll"
       THEN Goto(p, "load") /\ UNCHANGED lib
       ELSE Goto(p, "parse") /\ lib' = [lib EXCEPT ![p] = "clrjit.dll"]

----------------------------------------------------------------------------
\* A run starts: add_hook calls initialise_offsets.
StartRun(p) ==
    /\ pc[p] \in Ended
    /\ alone => \A q \in Dumper : pc[q] \in Ended
    /\ Goto(p, "parse")
    /\ lib' = [lib EXCEPT ![p] = ClrName]
    /\ accepted' = [accepted EXCEPT ![p] = {}]
    /\ UNCHANGED <<runtime, file, calm, alone>>

\* parse_pdb_info finds the signature of the library or throws.
ParsePdbInfo(p) ==
    /\ pc[p] = "parse"
    /\ Goto(p, IF lib[p] \in Loaded THEN "cached" ELSE "failed")
    /\ UNCHANGED <<runtime, file, lib, accepted, calm, alone>>

\* Mutant: a file that exists is good enough.
CheckCachedExists(p) ==
    /\ pc[p] = "cached"
    /\ IF file[lib[p]] # Absent
       THEN Accept(p)
       ELSE Goto(p, "download") /\ UNCHANGED <<lib, accepted>>
    /\ UNCHANGED <<runtime, file, calm, alone>>

\* Mutant: the PDBs are downloaded by every run.
CheckCachedNever(p) ==
    /\ pc[p] = "cached"
    /\ Goto(p, "download")
    /\ UNCHANGED <<runtime, file, lib, accepted, calm, alone>>

\* download_pdb returns at once if the file of an earlier run will do.
CheckCached(p) ==
    /\ pc[p] = "cached"
    /\ \E expected \in Expected(p) :
        IF Correct(p, expected)
        THEN Accept(p)
        ELSE Goto(p, "download") /\ UNCHANGED <<lib, accepted>>
    /\ UNCHANGED <<runtime, file, calm, alone>>

\* URLDownloadToFileA opens the file, unless another download has it open, and
\* writes it block by block.  Its result is not looked at.
DownloadStarts(p) ==
    /\ pc[p] = "download"
    /\ ~Busy(p)
    /\ file' = [file EXCEPT ![lib[p]] = FirstWrite]
    /\ Goto(p, "write")
    /\ UNCHANGED <<runtime, lib, accepted, calm, alone>>

DownloadWrites(p) ==
    /\ pc[p] = "write"
    /\ file[lib[p]] < Blocks
    /\ file' = [file EXCEPT ![lib[p]] = @ + 1]
    /\ UNCHANGED <<runtime, pc, lib, accepted, calm, alone>>

DownloadEnds(p) ==
    /\ pc[p] = "write"
    /\ file[lib[p]] = Blocks
    /\ Goto(p, "downloaded")
    /\ UNCHANGED <<runtime, file, lib, accepted, calm, alone>>

DownloadFails(p) ==
    /\ \/ pc[p] \in {"download", "write"} /\ ~calm
       \/ pc[p] = "download" /\ Busy(p)
    /\ Goto(p, "downloaded")
    /\ UNCHANGED <<runtime, file, lib, accepted, calm, alone>>

\* download_pdb looks at the file again, which may be what was there before.
CheckDownloaded(p) ==
    /\ pc[p] = "downloaded"
    /\ \E expected \in Expected(p) :
        IF Correct(p, expected)
        THEN Accept(p)
        ELSE Goto(p, "remove") /\ UNCHANGED <<lib, accepted>>
    /\ UNCHANGED <<runtime, file, calm, alone>>

\* The bad file is removed and the run fails.  remove throws a filesystem_error
\* if a download has the file open, which nothing catches.
Remove(p) ==
    /\ pc[p] = "remove"
    /\ IF Busy(p)
       THEN Goto(p, "crashed") /\ UNCHANGED file
       ELSE Goto(p, "failed") /\ file' = [file EXCEPT ![lib[p]] = Absent]
    /\ UNCHANGED <<runtime, lib, accepted, calm, alone>>

\* initialise_offsets loads the symbols and finds what it looks for in whole
\* files, or throws.
LoadSymbols(p) ==
    /\ pc[p] = "load"
    /\ Goto(p, IF \A l \in Needed : file[l] = Blocks THEN "ready" ELSE "failed")
    /\ UNCHANGED <<runtime, file, lib, accepted, calm, alone>>

----------------------------------------------------------------------------
\* The environment.
Kill(p) ==
    /\ ~calm
    /\ pc[p] \notin Ended
    /\ Goto(p, "idle")
    /\ UNCHANGED <<runtime, file, lib, accepted, calm, alone>>

CalmDown ==
    /\ ~calm
    /\ calm' = TRUE
    /\ UNCHANGED <<runtime, file, pc, lib, accepted, alone>>

Step(p) ==
    \/ StartRun(p) \/ ParsePdbInfo(p) \/ CheckCached(p)
    \/ DownloadStarts(p) \/ DownloadWrites(p) \/ DownloadEnds(p) \/ DownloadFails(p)
    \/ CheckDownloaded(p) \/ Remove(p) \/ LoadSymbols(p)

Next ==
    \/ \E p \in Dumper : Step(p)
    \/ \E p \in Dumper : Kill(p)
    \/ CalmDown

\* A run that has been started goes on, and a user who got nothing tries again.
Spec == Init /\ [][Next]_vars /\ \A p \in Dumper : WF_vars(Step(p))

----------------------------------------------------------------------------
\* Every variable keeps its type: a library is one of those of a runtime, and
\* a file has no more blocks than the PDB.
TypeOK ==
    /\ runtime \in Runtime
    /\ file \in [Library -> File]
    /\ pc \in [Dumper -> RunPC]
    /\ lib \in [Dumper -> Library]
    /\ accepted \in [Dumper -> SUBSET Library]
    /\ calm \in BOOLEAN /\ alone \in BOOLEAN

\* download_pdb returns only when the PDB is whole, whatever killed runs,
\* broken downloads and other runs have left in Symbols: is_correct_size is all
\* there is to tell.  Otherwise it throws "Failed to download the PDB of".
AcceptsWhole ==
    [][\A p \in Dumper, l \in Library :
        l \in accepted'[p] \ accepted[p] => file[l] = Blocks]_vars

\* A PDB that is whole is neither downloaded again nor removed, unless runs
\* overlap.
WholeKept ==
    [][alone => \A l \in Library : file[l] = Blocks => file'[l] = Blocks]_vars

\* Once no download breaks any more, some run gets its symbols, if runs do not
\* overlap: nothing that earlier runs have left in Symbols keeps the later ones
\* from it (README.md:13, "An internet connection is required for downloading
\* PDB symbols").
CacheRecovers ==
    calm /\ alone /\ Needed \subseteq Loaded ~> \E p \in Dumper : pc[p] = "ready"

----------------------------------------------------------------------------
\* What the proofs rest on.

\* No file is empty, if the file of a download appears with its superblock.
NeverEmpty ==
    /\ \A l \in Library : file[l] # 0
    /\ \A p \in Dumper : pc[p] = "write" => file[lib[p]] # Absent

\* One run at a time.
OneAtATime ==
    alone => \A p, q \in Dumper : p = q \/ pc[p] \in Ended \/ pc[q] \in Ended

\* The only run downloads and removes a file that is not whole.
SpoiltFile ==
    alone => \A p \in Dumper : pc[p] \in {"download", "remove"} => file[lib[p]] # Blocks
=============================================================================
