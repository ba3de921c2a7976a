------------------------------ MODULE MCGrants -----------------------------
(* Instances of Grants for TLC. *)
EXTENDS Grants, TLC

CONSTANTS g1, g2, a1, a2, a3
OneGrant == {g1}
TwoGrants == {g1, g2}
TwoAgents == {a1, a2}
ThreeAgents == {a1, a2, a3}
Symmetry == Permutations(Grant) \cup Permutations(Agent)
=============================================================================
