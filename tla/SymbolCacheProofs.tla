------------------------- MODULE SymbolCacheProofs -------------------------
(***************************************************************************)
(* Theorems about SymbolCache, for every number of runs at a time and PDBs *)
(* of every size.                                                          *)
(***************************************************************************)
EXTENDS SymbolCache, TLAPS

LEMMA LibraryType == ClrName \in Library /\ "clrjit.dll" \in Library
  BY DEF ClrName, Library

\* download_pdb's return keeps the types.
LEMMA AcceptType ==
    ASSUME TypeOK, NEW p \in Dumper, Accept(p)
    PROVE  /\ pc' \in [Dumper -> RunPC]
           /\ lib' \in [Dumper -> Library]
           /\ accepted' \in [Dumper -> SUBSET Library]
  <1>1. {"load", "parse"} \subseteq RunPC
    BY DEF RunPC
  <1>2. pc' \in [Dumper -> RunPC]
    BY <1>1 DEF TypeOK, Accept, Goto
  <1>3. lib' \in [Dumper -> Library]
    BY LibraryType DEF TypeOK, Accept
  <1>4. accepted[p] \cup {lib[p]} \in SUBSET Library
    BY DEF TypeOK
  <1>5. accepted' \in [Dumper -> SUBSET Library]
    BY <1>4 DEF TypeOK, Accept
  <1>. QED
    BY <1>2, <1>3, <1>5

LEMMA TypeInit == Init => TypeOK
  <1> SUFFICES ASSUME Init PROVE TypeOK
    OBVIOUS
  <1>1. Absent \in File /\ "idle" \in RunPC
    BY CacheAssumption DEF File, Absent, RunPC, Ended
  <1>2. file \in [Library -> File] /\ pc \in [Dumper -> RunPC]
    BY <1>1 DEF Init
  <1>3. lib \in [Dumper -> Library] /\ accepted \in [Dumper -> SUBSET Library]
    BY LibraryType DEF Init
  <1>. QED
    BY <1>2, <1>3 DEF Init, TypeOK

LEMMA TypeStep == TypeOK /\ [Next]_vars => TypeOK'
  <1> SUFFICES ASSUME TypeOK, [Next]_vars PROVE TypeOK'
    OBVIOUS
  <1>1. ASSUME NEW p \in Dumper, StartRun(p) PROVE TypeOK'
    BY <1>1, LibraryType DEF StartRun, Goto, TypeOK, RunPC
  <1>2. ASSUME NEW p \in Dumper, ParsePdbInfo(p) PROVE TypeOK'
    BY <1>2 DEF ParsePdbInfo, Goto, TypeOK, RunPC, Ended
  <1>3. ASSUME NEW p \in Dumper, CheckCached(p) \/ CheckDownloaded(p) PROVE TypeOK'
    <2>1. CASE Accept(p)
      BY <1>3, <2>1, AcceptType DEF CheckCached, CheckDownloaded, TypeOK
    <2>2. CASE (Goto(p, "download") \/ Goto(p, "remove")) /\ UNCHANGED <<lib, accepted>>
      BY <1>3, <2>2 DEF CheckCached, CheckDownloaded, Goto, TypeOK, RunPC
    <2>. QED
      BY <1>3, <2>1, <2>2 DEF CheckCached, CheckDownloaded
  <1>4. ASSUME NEW p \in Dumper, DownloadStarts(p) PROVE TypeOK'
    BY <1>4, CacheAssumption DEF DownloadStarts, Goto, TypeOK, RunPC, File, Absent
  <1>5. ASSUME NEW p \in Dumper, DownloadWrites(p) PROVE TypeOK'
    <2>1. file[lib[p]] + 1 \in File
      BY <1>5, CacheAssumption DEF DownloadWrites, TypeOK, File, Absent
    <2>. QED
      BY <1>5, <2>1 DEF DownloadWrites, TypeOK
  <1>6. ASSUME NEW p \in Dumper, DownloadEnds(p) \/ DownloadFails(p) PROVE TypeOK'
    BY <1>6 DEF DownloadEnds, DownloadFails, Goto, TypeOK, RunPC
  <1>7. ASSUME NEW p \in Dumper, Remove(p) PROVE TypeOK'
    BY <1>7, CacheAssumption DEF Remove, Goto, TypeOK, RunPC, Ended, File, Absent
  <1>8. ASSUME NEW p \in Dumper, LoadSymbols(p) \/ Kill(p) PROVE TypeOK'
    BY <1>8 DEF LoadSymbols, Kill, Goto, TypeOK, RunPC, Ended
  <1>9. CASE CalmDown
    BY <1>9 DEF CalmDown, TypeOK
  <1>10. CASE UNCHANGED vars
    BY <1>10 DEF vars, TypeOK
  <1>. QED
    BY <1>1, <1>2, <1>3, <1>4, <1>5, <1>6, <1>7, <1>8, <1>9, <1>10 DEF Next, Step

\* The files and the runs keep their types in every behaviour.
THEOREM CacheTypeCorrect == Spec => []TypeOK
  BY TypeInit, TypeStep, PTL DEF Spec

----------------------------------------------------------------------------
\* What download_pdb accepts.

LEMMA NeverEmptyStep ==
    ASSUME FirstWrite > 0, TypeOK, NeverEmpty, [Next]_vars
    PROVE  NeverEmpty'
  <1>1. ASSUME NEW p \in Dumper, DownloadStarts(p) PROVE NeverEmpty'
    BY <1>1, CacheAssumption DEF DownloadStarts, Goto, TypeOK, NeverEmpty, Absent
  <1>2. ASSUME NEW p \in Dumper, DownloadWrites(p) PROVE NeverEmpty'
    <2>1. file[lib[p]] \in File /\ file[lib[p]] # 0
      BY DEF TypeOK, NeverEmpty
    <2>2. file[lib[p]] # Absent
      BY <1>2 DEF DownloadWrites, NeverEmpty
    <2>. QED
      BY <1>2, <2>1, <2>2 DEF DownloadWrites, TypeOK, NeverEmpty, File, Absent
  <1>3. ASSUME NEW p \in Dumper, Remove(p) PROVE NeverEmpty'
    BY <1>3 DEF Remove, Busy, Goto, TypeOK, NeverEmpty, Absent
  <1>4. ASSUME NEW p \in Dumper,
               \/ StartRun(p) \/ ParsePdbInfo(p) \/ CheckCached(p) \/ DownloadEnds(p)
               \/ DownloadFails(p) \/ CheckDownloaded(p) \/ LoadSymbols(p) \/ Kill(p)
        PROVE  NeverEmpty'
    BY <1>4 DEF StartRun, ParsePdbInfo, CheckCached, DownloadEnds, DownloadFails,
       CheckDownloaded, LoadSymbols, Kill, Accept, Goto, TypeOK, NeverEmpty
  <1>5. CASE CalmDown \/ UNCHANGED vars
    BY <1>5 DEF CalmDown, vars, NeverEmpty
  <1>. QED
    BY <1>1, <1>2, <1>3, <1>4, <1>5 DEF Next, Step

\* is_correct_size tells a whole file from one that is cut off.
LEMMA CorrectWhole ==
    ASSUME TypeOK, NeverEmpty, NEW p \in Dumper,
           NEW expected \in Expected(p), Correct(p, expected)
    PROVE  file[lib[p]] = Blocks
  <1>1. lib[p] \in Library
    BY DEF TypeOK
  <1>2. file[lib[p]] # 0
    BY <1>1 DEF NeverEmpty
  <1>. QED
    BY <1>2 DEF Expected, Correct

\* Whatever is left in Symbols by however many runs, killed or cut off at any
\* point, download_pdb returns only when the PDB is whole, provided the file of
\* a download never is on disk without its first block.
THEOREM AcceptedWhole == ASSUME FirstWrite > 0 PROVE Spec => AcceptsWhole
  <1>1. Init => NeverEmpty
    BY DEF Init, NeverEmpty, Absent
  <1>2. TypeOK /\ NeverEmpty /\ [Next]_vars =>
            \A p \in Dumper, l \in Library :
                l \in accepted'[p] \ accepted[p] => file[l] = Blocks
    <2> SUFFICES ASSUME TypeOK, NeverEmpty, [Next]_vars, NEW p \in Dumper, NEW l \in Library,
                        l \in accepted'[p] \ accepted[p]
                 PROVE  file[l] = Blocks
      OBVIOUS
    <2>1. ASSUME NEW q \in Dumper, CheckCached(q) \/ CheckDownloaded(q)
          PROVE  file[l] = Blocks
      <3>1. PICK expected \in Expected(q) : Accept(q) /\ Correct(q, expected)
        BY <2>1 DEF CheckCached, CheckDownloaded, TypeOK
      <3>2. l = lib[q]
        BY <3>1 DEF Accept, TypeOK
      <3>. QED
        BY <3>1, <3>2, CorrectWhole
    <2>2. ASSUME NEW q \in Dumper, StartRun(q) PROVE FALSE
      BY <2>2 DEF StartRun, TypeOK
    <2>3. accepted' # accepted
      OBVIOUS
    <2>. QED
      BY <2>1, <2>2, <2>3 DEF Next, Step, ParsePdbInfo, DownloadStarts, DownloadWrites,
         DownloadEnds, DownloadFails, Remove, LoadSymbols, Kill, CalmDown, vars
  <1>3. FirstWrite > 0 /\ TypeOK /\ NeverEmpty /\ [Next]_vars => NeverEmpty'
    BY NeverEmptyStep
  <1>4. TypeOK /\ NeverEmpty /\ [Next]_vars =>
            [\A p \in Dumper, l \in Library :
                l \in accepted'[p] \ accepted[p] => file[l] = Blocks]_vars
    BY <1>2
  <1>. QED
    BY <1>1, <1>3, <1>4, CacheTypeCorrect, PTL DEF Spec, AcceptsWhole

----------------------------------------------------------------------------
\* What becomes of a whole file.

LEMMA OneAtATimeStep == TypeOK /\ OneAtATime /\ [Next]_vars => OneAtATime'
  <1> SUFFICES ASSUME TypeOK, OneAtATime, [Next]_vars PROVE OneAtATime'
    OBVIOUS
  <1>1. ASSUME NEW p \in Dumper, StartRun(p) PROVE OneAtATime'
    BY <1>1 DEF StartRun, Goto, TypeOK, OneAtATime
  <1>2. ASSUME NEW p \in Dumper, Step(p) \/ Kill(p), ~StartRun(p)
        PROVE  /\ pc[p] \notin Ended /\ alone' = alone
               /\ \A q \in Dumper \ {p} : pc'[q] = pc[q]
    BY <1>2 DEF Step, ParsePdbInfo, CheckCached, DownloadStarts, DownloadWrites, DownloadEnds,
       DownloadFails, CheckDownloaded, Remove, LoadSymbols, Kill, Accept, Goto, TypeOK, Ended
  <1>3. ASSUME NEW p \in Dumper, Step(p) \/ Kill(p), ~StartRun(p) PROVE OneAtATime'
    BY <1>2, <1>3 DEF OneAtATime
  <1>4. CASE CalmDown \/ UNCHANGED vars
    BY <1>4 DEF CalmDown, vars, OneAtATime
  <1>. QED
    BY <1>1, <1>3, <1>4 DEF Next

LEMMA SpoiltStep ==
    ASSUME TypeOK, OneAtATime, SpoiltFile, [Next]_vars
    PROVE  SpoiltFile'
  <1> SUFFICES ASSUME alone PROVE SpoiltFile'
    BY DEF SpoiltFile, Next, Step, StartRun, ParsePdbInfo, CheckCached, DownloadStarts,
       DownloadWrites, DownloadEnds, DownloadFails, CheckDownloaded, Remove, LoadSymbols, Kill,
       CalmDown, vars
  <1>1. ASSUME NEW p \in Dumper, CheckCached(p) \/ CheckDownloaded(p) PROVE SpoiltFile'
    <2>1. ~Busy(p)
      BY <1>1 DEF Busy, OneAtATime, Ended, CheckCached, CheckDownloaded
    <2>2. CASE Accept(p)
      BY <1>1, <2>2 DEF CheckCached, CheckDownloaded, Accept, Goto, SpoiltFile, TypeOK
    <2>3. CASE ~Accept(p)
      <3>1. PICK expected \in Expected(p) : ~Correct(p, expected)
        BY <1>1, <2>3 DEF CheckCached, CheckDownloaded
      <3>2. file[lib[p]] # Blocks
        BY <2>1, <3>1, CacheAssumption DEF Expected, Correct, Absent
      <3>. QED
        BY <1>1, <2>3, <3>2 DEF CheckCached, CheckDownloaded, Goto, SpoiltFile, TypeOK
    <2>. QED
      BY <2>2, <2>3
  <1>2. ASSUME NEW p \in Dumper,
               \/ StartRun(p) \/ ParsePdbInfo(p) \/ DownloadEnds(p)
               \/ DownloadFails(p) \/ LoadSymbols(p) \/ Kill(p)
        PROVE  SpoiltFile'
    BY <1>2 DEF StartRun, ParsePdbInfo, DownloadEnds, DownloadFails,
       LoadSymbols, Kill, Goto, SpoiltFile, TypeOK, Ended
  <1>3. ASSUME NEW p \in Dumper, DownloadStarts(p) \/ DownloadWrites(p) \/ Remove(p)
        PROVE  SpoiltFile'
    <2>1. pc[p] \notin Ended /\ \A q \in Dumper \ {p} : pc'[q] = pc[q]
      BY <1>3 DEF DownloadStarts, DownloadWrites, Remove, Goto, TypeOK, Ended
    <2>2. \A q \in Dumper \ {p} : pc'[q] \notin {"download", "remove"}
      BY <2>1 DEF OneAtATime, Ended
    <2>3. pc'[p] \notin {"download", "remove"}
      BY <1>3 DEF DownloadStarts, DownloadWrites, Remove, Goto, TypeOK
    <2>. QED
      BY <2>2, <2>3 DEF SpoiltFile
  <1>4. CASE CalmDown \/ UNCHANGED vars
    BY <1>4 DEF CalmDown, vars, SpoiltFile
  <1>. QED
    BY <1>1, <1>2, <1>3, <1>4 DEF Next, Step

\* As long as runs do not overlap, a PDB that is whole is neither downloaded
\* again nor removed, however the runs end.
THEOREM KeptWhole == Spec => WholeKept
  <1>1. Init => OneAtATime /\ SpoiltFile
    BY DEF Init, OneAtATime, SpoiltFile, Ended
  <1>2. TypeOK /\ SpoiltFile /\ [Next]_vars =>
            [alone => \A l \in Library : file[l] = Blocks => file'[l] = Blocks]_vars
    <2> SUFFICES ASSUME TypeOK, SpoiltFile, [Next]_vars, alone, NEW l \in Library,
                        file[l] = Blocks
                 PROVE  file'[l] = Blocks
      OBVIOUS
    <2>1. ASSUME NEW p \in Dumper, DownloadStarts(p) \/ DownloadWrites(p) \/ Remove(p)
          PROVE  file'[l] = Blocks
      <3>1. pc[p] \in {"download", "remove"} => file[lib[p]] # Blocks
        BY DEF SpoiltFile
      <3>2. CASE DownloadWrites(p)
        BY <3>2, CacheAssumption DEF DownloadWrites, TypeOK
      <3>3. CASE DownloadStarts(p) \/ Remove(p)
        BY <3>1, <3>3 DEF DownloadStarts, Remove, TypeOK
      <3>. QED
        BY <2>1, <3>2, <3>3
    <2>2. CASE UNCHANGED file
      BY <2>2
    <2>. QED
      BY <2>1, <2>2 DEF Next, Step, StartRun, ParsePdbInfo, CheckCached, DownloadEnds,
         DownloadFails, CheckDownloaded, LoadSymbols, Kill, CalmDown, vars
  <1>3. TypeOK /\ OneAtATime /\ SpoiltFile /\ [Next]_vars => SpoiltFile'
    BY SpoiltStep
  <1>. QED
    BY <1>1, <1>2, <1>3, OneAtATimeStep, CacheTypeCorrect, PTL DEF Spec, WholeKept
=============================================================================
