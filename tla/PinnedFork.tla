----------------------------- MODULE PinnedFork -----------------------------
(***************************************************************************)
(* What auto-sync promises the readers of the registry, and nothing of how *)
(* it does it: the fork follows upstream, the pin follows the fork.  A     *)
(* revision is pinned only once the fork has it, the pin lands on the      *)
(* newest revision the fork has, neither ever goes back.                   *)
(* Lifecycle, with auto-sync as the only operation, implements it.         *)
(***************************************************************************)
EXTENDS Naturals

CONSTANT MaxRev

VARIABLES up,    \* upstream's newest revision
          fork,  \* the revision the fork's branch stands on
          pin    \* the revision the registry pins

vars == <<up, fork, pin>>

Init == up = 1 /\ fork = 1 /\ pin = 1

Advance == up < MaxRev /\ up' = up + 1 /\ UNCHANGED <<fork, pin>>
Publish == fork' \in fork + 1 .. up /\ UNCHANGED <<up, pin>>
PinFork == pin # fork /\ pin' = fork /\ UNCHANGED <<up, fork>>

Next == Advance \/ Publish \/ PinFork
Spec == Init /\ [][Next]_vars

\* The fork and the pin catch up whenever upstream rests.
FairSpec == Spec /\ WF_vars(Publish) /\ WF_vars(PinFork)
=============================================================================
