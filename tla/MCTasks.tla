------------------------------ MODULE MCTasks ------------------------------
(* Instances of Tasks for TLC. *)
EXTENDS Tasks, TLC

CONSTANTS w1, w2, w3, a1, a2, s1, s2, i1, i2

TwoWorkers == {w1, w2}
ThreeWorkers == {w1, w2, w3}
OneClient == {a1}
TwoClients == {a1, a2}
OneSweeper == {s1}
TwoSweepers == {s1, s2}
OneInput == {i1}
TwoInputs == {i1, i2}

Symmetry == Permutations(Worker) \cup Permutations(Client) \cup Permutations(Sweeper) \cup Permutations(Input)
=============================================================================
