------------------------------ MODULE MCFleet ------------------------------
(* Instances of Fleet for TLC. *)
EXTENDS Fleet, Sequences, TLC

\* A service run from its clone, then a tool installed with uv.
ServiceAndTool == <<"external", "cli_tool">>
\* The same with a mere directory and a library, which verify does not know.
OneOfEach == ServiceAndTool \o <<"none", "library">>

\* A program that syncs beside one that verifies.
CONSTANTS syncer, verifier
ToEachItsOwn == syncer :> {"auto"} @@ verifier :> {"verify"}
SyncOnly     == syncer :> {"auto"}
=============================================================================
