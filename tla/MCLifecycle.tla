---------------------------- MODULE MCLifecycle ----------------------------
(* Instances of Lifecycle for TLC. *)
EXTENDS Lifecycle, TLC

\* The pin as `bump` writes it (7 digits).
InitialPins == {[sha |-> Up(1), len |-> 7]}

\* The pins a yaml may hold: written by hand too short, or by bump.
PinsByHand == {[sha |-> Up(1), len |-> n] : n \in {6, 7}}

Symmetry == Permutations(Patch) \cup Permutations(Consumers)
=============================================================================
