-------------------------- MODULE MCBridgeNetwork --------------------------
(* Instances of BridgeNetwork for TLC.                                     *)
EXTENDS BridgeNetwork, TLC

CONSTANTS m1, m2, m3

ThreeMachines == {m1, m2, m3}
FirstFailing == {m1}
Others == {m2, m3}
DynamicOrFixed == [s \in BOOLEAN |-> [m \in Machines |-> IF s THEN None ELSE 2]]
FourNames == 0 .. 3
TwoAddresses == 2 .. 3

\* The machines that never fail are interchangeable.
Symmetry == Permutations(Machines \ Failing)
============================================================================
