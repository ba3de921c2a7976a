------------------------------ MODULE Barrier ------------------------------
(***************************************************************************)
(* Calls and Grants together over the one grants table and the one         *)
(* Control: the revocation barrier counts the real tool requests, its row  *)
(* locks meet the share locks of CreateCall, and Control's fence refuses   *)
(* admission and converges on the dispatches the calls report.             *)
(***************************************************************************)
EXTENDS Calls

CONSTANTS Agent, MaxErrors
VARIABLES control, policy, ag, reached, errors

\* CountOpenToolRequests.
OpenCalls(g) == {c \in Call : GrantOf[c] = g /\ row[c].state \in {"accepted", "admitted", "sent", "unknown"}}

\* What Control counts as in flight or unknown.
InFlight == {GrantOf[c] : c \in {d \in Call : ctl[d].state \in {"authorized", "unknown"}}}

G == INSTANCE Grants WITH
    open <- [g \in Grant |-> Cardinality(OpenCalls(g))],
    shared <- ShareLocked,
    busy <- InFlight,
    MaxOpen <- Cardinality(Call)

private == <<row, ctl, wk, replica, sends, owner, budget>>
allVars == <<vars, control, policy, ag, reached, errors>>
-----------------------------------------------------------------------------
BarrierInit ==
    /\ CallsInit /\ grant = [g \in Grant |-> "none"]
    /\ G!Init

\* Control admits a dispatch under a registered policy that is not fenced.
FenceHolds ==
    \A c \in Call : ctl[c].state = "none" /\ ctl'[c].state = "authorized" =>
        policy[GrantOf[c]].registered /\ policy[GrantOf[c]].revocation = "none"

BarrierNext ==
    \/ CallsNext /\ FenceHolds /\ UNCHANGED <<control, policy, ag, reached, errors>>
    \/ UNCHANGED private /\ G!GrantsNext

BarrierSpec == BarrierInit /\ [][BarrierNext]_allVars
-----------------------------------------------------------------------------
(* Properties.                                                             *)

\* Once a grant is REVOKED nothing is sent under it any more: no call that
\* was marked before the revocation committed is still on its way when the
\* barrier ends (grants.go:351-354, calls.go:600-622).  Stated for MaxStops = 0:
\* a Shutdown that records UNKNOWN before the send starts, settled at once by
\* an operator at Control, lets the barrier end first.
NothingSentAfterRevoked ==
    [][\A c \in Call : sends'[c] # sends[c] => grant[GrantOf[c]] # "revoked"]_allVars

\* The calls component behaves as Grants assumes of it: each of its steps
\* opens, dispatches, reports or closes a call the way Grants allows, so
\* what is checked and proved of Grants holds of the composition.
CallsFitGrants == G!Spec
=============================================================================
