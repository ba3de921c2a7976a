----------------------------- MODULE MCReplica -----------------------------
(* An instance of Replica for TLC. *)
EXTENDS Replica

CONSTANTS q1, g1, f1

OneRequest == {q1}
OneGrant == {g1}
OneFetcher == {f1}
Generated == 1 .. MaxGen

Release(r, f, l, w) == [release |-> r, fixed |-> f, loads |-> l, forwards |-> w]
First == Release(1, 1, TRUE, TRUE)
Second == Release(2, 1, TRUE, TRUE)
Silent == Release(3, 1, TRUE, FALSE)
Restart == Release(4, 2, TRUE, TRUE)
Broken == Release(5, 1, FALSE, TRUE)
AllInputs == {First, Second, Silent, Restart, Broken}

Reloads == [starts |-> {First, Silent}, inputs |-> {First, Silent, Restart, Broken}, changes |-> 2, requests |-> TRUE, tokens |-> FALSE, stops |-> TRUE, ends |-> FALSE, events |-> 0, lost |-> 0]
Handover == [starts |-> {First}, inputs |-> {First, Second}, changes |-> 1, requests |-> FALSE, tokens |-> FALSE, stops |-> FALSE, ends |-> FALSE, events |-> 2, lost |-> 0]
Tokens == [starts |-> {First}, inputs |-> {First}, changes |-> 0, requests |-> FALSE, tokens |-> TRUE, stops |-> FALSE, ends |-> FALSE, events |-> 2, lost |-> 1]
Ends == [starts |-> {First}, inputs |-> {First, Second}, changes |-> 1, requests |-> FALSE, tokens |-> FALSE, stops |-> TRUE, ends |-> TRUE, events |-> 0, lost |-> 0]
FourBudgets == {Reloads, Handover, Tokens, Ends}
=============================================================================
