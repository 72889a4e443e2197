--------------------------- MODULE MCSymbolCache ---------------------------
(***************************************************************************)
(* Small instances of SymbolCache for TLC.                                 *)
(***************************************************************************)
EXTENDS SymbolCache, TLC

\* Environment.Version.Major: .NET Core 2 says 4.
MCVersion ==
    "Framework 4.8" :> 4 @@ "Core 2" :> 4 @@ "Core 3" :> 3 @@ "5" :> 5
=============================================================================
