----------------------------- MODULE MCBarrier -----------------------------
(* An instance of Barrier for TLC. *)
EXTENDS Barrier

CONSTANTS c1, r1, g1, s1, a1
OneCall == {c1}
OneReplica == {r1}
NoOperator == {}
OneGrant == {g1}
OneServer == {s1}
SameGrant == [c \in Call |-> g1]
SameServer == [g \in Grant |-> s1]
OneAgent == {a1}
=============================================================================
