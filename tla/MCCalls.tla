------------------------------ MODULE MCCalls ------------------------------
(* Instances of Calls for TLC. *)
EXTENDS Calls, TLC

CONSTANTS c1, c2, r1, r2, o1, g1, s1

OneCall == {c1}
TwoCalls == {c1, c2}
OneReplica == {r1}
TwoReplicas == {r1, r2}
OneOperator == {o1}
NoOperator == {}
OneGrant == {g1}
OneServer == {s1}
SameGrant == [c \in Call |-> g1]
SameServer == [g \in Grant |-> s1]

Symmetry == Permutations(Call) \cup Permutations(Replica)
=============================================================================
