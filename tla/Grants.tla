------------------------------ MODULE Grants -------------------------------
(***************************************************************************)
(* The grant barrier: application/grants.go over the grants table.         *)
(* A grant is recorded PENDING, registered with Control and ACTIVE with    *)
(* its receipt; its revocation commits REVOKING, installs Control's fence  *)
(* and ends REVOKED when Control converged and no call of the grant is     *)
(* open.                                                                   *)
(*                                                                         *)
(* register and advance talk to Control outside the transaction that       *)
(* records the answer.  Several agents (request handlers and the           *)
(* reconciler loops of all replicas) run them for the same grant at the    *)
(* same time.                                                              *)
(***************************************************************************)
EXTENDS Naturals

CONSTANTS
    Grant,     \* grants
    Agent,     \* concurrent executions of advance
    None,      \* no grant
    MaxOpen,   \* bound on open calls of a grant (stand-alone instances)
    MaxErrors  \* bound on failed or unanswered calls and statements

ASSUME GrantsAssumption == None \notin Grant /\ MaxOpen \in Nat /\ MaxErrors \in Nat

VARIABLES
    grant,     \* grants.state
    control,   \* grants.control_state
    policy,    \* Control's record of the grant's policy (external)
    ag,        \* where each agent is, and what it learned
    reached,   \* how many commits reached each revocation milestone (history)
    errors,    \* errors left
    open,      \* open tool requests of the grant (the calls component)
    shared,    \* grants whose row a CreateCall transaction holds FOR SHARE
    busy       \* grants with a dispatch in flight or unknown at Control

own == <<control, policy, ag, reached, errors>>
env == <<open, shared, busy>>
vars == <<grant, own, env>>
-----------------------------------------------------------------------------
GrantState == {"pending", "active", "revoking", "revoked", "expired", "registration_failed"}
Asleep == [pc |-> "idle", g |-> None, barrier |-> "none", open |-> 0]

AtPc(a, pc) == ag[a].pc = pc
Sleep(a) == ag' = [ag EXCEPT ![a] = Asleep]
ToPc(a, pc) == ag' = [ag EXCEPT ![a].pc = pc]
Learn(a, pc, b) == ag' = [ag EXCEPT ![a].pc = pc, ![a].barrier = b]

\* The row lock of the grant is free of share locks.
Lockable(g) == g \notin shared
-----------------------------------------------------------------------------
(* Commands and expiry.                                                    *)

Create(g) ==
    /\ grant[g] = "none" /\ grant' = [grant EXCEPT ![g] = "pending"]
    /\ UNCHANGED <<own, env>>

\* Revoke, and revokeIn of a disabled descriptor: REVOKING from any state
\* but REVOKING and REVOKED.
Revocable(g) == grant[g] \notin {"none", "revoking", "revoked"}
Revoke(g) ==
    /\ Revocable(g) /\ Lockable(g) /\ grant' = [grant EXCEPT ![g] = "revoking"]
    /\ UNCHANGED <<own, env>>

\* Reconcile's second half; the expiry may have passed at any time.
Expire(g) ==
    /\ grant[g] = "active" /\ Lockable(g) /\ grant' = [grant EXCEPT ![g] = "expired"]
    /\ UNCHANGED <<own, env>>
-----------------------------------------------------------------------------
(* register: Control's answer is recorded if the grant is still PENDING.   *)

\* A plausible error: a barrier whose fence is recorded is not taken up again.
AdvanceLoadUnfenced(a) ==
    /\ AtPc(a, "idle")
    /\ \E g \in Grant :
         /\ grant[g] = "pending" \/ (grant[g] = "revoking" /\ control[g] = "none")
         /\ ag' = [ag EXCEPT ![a] = [Asleep EXCEPT !.g = g, !.pc = IF grant[g] = "pending" THEN "register" ELSE "begin"]]
    /\ UNCHANGED <<grant, control, policy, reached, errors, env>>

\* advance loads the row and goes by its state.
AdvanceLoad(a) ==
    /\ AtPc(a, "idle")
    /\ \E g \in Grant :
         /\ grant[g] \in {"pending", "revoking"}
         /\ ag' = [ag EXCEPT ![a] = [Asleep EXCEPT !.g = g, !.pc = IF grant[g] = "pending" THEN "register" ELSE IF control[g] = "none" THEN "begin" ELSE "read"]]
    /\ UNCHANGED <<grant, control, policy, reached, errors, env>>

\* Control registers a policy once and refuses one that is revoked there;
\* it may also refuse a policy for good.
CtlRegister(a) ==
    LET g == ag[a].g IN
    /\ AtPc(a, "register")
    /\ \/ /\ policy[g].revocation = "none"
          /\ policy' = [policy EXCEPT ![g].registered = TRUE]
          /\ Learn(a, "settle", "receipt")
       \/ /\ policy[g].revocation # "none" \/ ~policy[g].registered
          /\ Learn(a, "settle", "refused") /\ UNCHANGED policy
    /\ UNCHANGED <<grant, control, reached, errors, env>>

\* A plausible error: the answer is recorded in a grant that is not PENDING
\* any more.
RegisteredLate(state, answer) == IF answer = "receipt" THEN "active" ELSE state

\* The state an answer leads to, of a grant found in "state" under the lock.
Registered(state, answer) ==
    IF state # "pending" THEN state
    ELSE IF answer = "receipt" THEN "active"
    ELSE IF answer = "refused" THEN "registration_failed" ELSE "pending"

RegisterSettle(a) ==
    LET g == ag[a].g IN
    /\ AtPc(a, "settle") /\ Lockable(g)
    /\ grant' = [grant EXCEPT ![g] = Registered(grant[g], ag[a].barrier)]
    /\ Sleep(a)
    /\ UNCHANGED <<control, policy, reached, errors, env>>
-----------------------------------------------------------------------------
(* advance of a REVOKING grant.                                            *)

\* Control's fence: a tombstone for a policy it never registered.
Fenced(p) ==
    IF p.revocation # "none" THEN p
    ELSE [p EXCEPT !.revocation = IF p.registered THEN "fenced" ELSE "converged"]

CtlBegin(a) ==
    LET g == ag[a].g
        p == Fenced(policy[g])
    IN /\ AtPc(a, "begin")
       /\ policy' = [policy EXCEPT ![g] = p]
       /\ Learn(a, IF p.revocation = "converged" THEN "count" ELSE "again", p.revocation)
       /\ UNCHANGED <<grant, control, reached, errors, env>>

\* Control converges once none of the grant's dispatches is in flight or
\* unknown there, and stays converged.
Converged(p, g) ==
    IF p.revocation = "converged" \/ g \notin busy THEN [p EXCEPT !.revocation = "converged"]
    ELSE [p EXCEPT !.revocation = "converging"]

CtlRead(a) ==
    LET g == ag[a].g
        p == Converged(policy[g], g)
    IN /\ ag[a].pc \in {"read", "again"}
       /\ policy' = [policy EXCEPT ![g] = p]
       /\ Learn(a, "count", p.revocation)
       /\ UNCHANGED <<grant, control, reached, errors, env>>

\* CountOpenToolRequests, outside the transaction.
Count(a) ==
    /\ AtPc(a, "count")
    /\ ag' = [ag EXCEPT ![a].pc = "commit", ![a].open = open[ag[a].g]]
    /\ UNCHANGED <<grant, control, policy, reached, errors, env>>

\* A plausible error: the barrier alone decides.
MayEndUncounted(b, n) == b = "converged"
\* REVOKED only when Control converged and nothing was open.
MayEnd(b, n) == b = "converged" /\ n = 0

\* A plausible error: every recorded fence counts as the first.
FirstFenceAgain(g, b) == b = "fenced"
\* The commit that first records Control's fence.
FirstFence(g, b) == control[g] = "none"

\* The transaction: the barrier is recorded and the milestones it reaches.
Commit(a) ==
    LET g == ag[a].g
        b == ag[a].barrier
        ends == MayEnd(b, ag[a].open)
    IN /\ AtPc(a, "commit") /\ Lockable(g)
       /\ IF grant[g] # "revoking" THEN UNCHANGED <<grant, control, reached>>
          ELSE /\ control' = [control EXCEPT ![g] = b]
               /\ grant' = [grant EXCEPT ![g] = IF ends THEN "revoked" ELSE @]
               /\ reached' = [reached EXCEPT ![g].fenced = IF FirstFence(g, b) THEN @ + 1 ELSE @,
                                             ![g].converged = IF ends THEN @ + 1 ELSE @]
       /\ Sleep(a)
       /\ UNCHANGED <<policy, errors, env>>

\* A call of Control fails before or after it was applied, a statement
\* fails, or the process dies.  An unanswered registration is settled as
\* uncertain; a second reading that fails keeps the first one.
AgentFail(a) ==
    /\ ~AtPc(a, "idle") /\ errors > 0 /\ errors' = errors - 1
    /\ \/ Sleep(a)
       \/ AtPc(a, "register") /\ Learn(a, "settle", "uncertain")
       \/ AtPc(a, "settle") /\ Learn(a, "settle", "uncertain")
       \/ AtPc(a, "again") /\ ToPc(a, "count")
    /\ UNCHANGED <<grant, control, policy, reached, env>>
-----------------------------------------------------------------------------
(* The calls component, as the barrier sees it: a CreateCall transaction   *)
(* holds the grant's share lock from its check to its insert.              *)

CallChecks(g) ==
    /\ g \notin shared /\ grant[g] = "active" /\ open[g] < MaxOpen /\ shared' = shared \cup {g}
    /\ UNCHANGED <<grant, own, open, busy>>
CallOpens(g) ==
    /\ g \in shared /\ shared' \in {shared, shared \ {g}}
    /\ \/ open[g] < MaxOpen /\ open' = [open EXCEPT ![g] = @ + 1]
       \/ UNCHANGED open
    /\ UNCHANGED <<grant, own, busy>>
\* A call is dispatched while the fence is not installed.
CallDispatched(g) ==
    /\ g \notin busy /\ open[g] > 0 /\ policy[g].registered /\ policy[g].revocation = "none" /\ busy' = busy \cup {g}
    /\ UNCHANGED <<grant, own, open, shared>>
CallReported(g) ==
    /\ g \in busy /\ busy' = busy \ {g}
    /\ UNCHANGED <<grant, own, open, shared>>
CallCloses(g) ==
    /\ open[g] > 0 /\ open' = [open EXCEPT ![g] = @ - 1]
    /\ UNCHANGED <<grant, own, shared, busy>>
-----------------------------------------------------------------------------
Init ==
    /\ grant = [g \in Grant |-> "none"]
    /\ control = [g \in Grant |-> "none"]
    /\ policy = [g \in Grant |-> [registered |-> FALSE, revocation |-> "none"]]
    /\ ag = [a \in Agent |-> Asleep]
    /\ reached = [g \in Grant |-> [fenced |-> 0, converged |-> 0]]
    /\ errors = MaxErrors
    /\ open = [g \in Grant |-> 0] /\ shared = {} /\ busy = {}

AgentStep(a) ==
    \/ AdvanceLoad(a) \/ CtlRegister(a) \/ RegisterSettle(a)
    \/ CtlBegin(a) \/ CtlRead(a) \/ Count(a) \/ Commit(a)

\* Everything but the calls' own steps.
GrantsNext ==
    \/ \E g \in Grant : Create(g) \/ Revoke(g) \/ Expire(g)
    \/ \E a \in Agent : AgentStep(a) \/ AgentFail(a)
CallsEnv ==
    \E g \in Grant : CallChecks(g) \/ CallOpens(g) \/ CallDispatched(g) \/ CallReported(g) \/ CallCloses(g)

Next == GrantsNext \/ CallsEnv
Spec == Init /\ [][Next]_vars

\* The reconciler of every replica keeps advancing open barriers; a call's
\* transaction ends, its dispatch is reported and it is settled in the end
\* (an unknown one by an operator at Control, for whom a revocation waits).
Fairness ==
    /\ \A a \in Agent : WF_vars(AgentStep(a))
    /\ \A g \in Grant : WF_vars(CallOpens(g)) /\ WF_vars(CallReported(g)) /\ WF_vars(CallCloses(g))
FairSpec == Spec /\ Fairness
-----------------------------------------------------------------------------
(* Properties.                                                             *)

Barrier == {"none", "fenced", "converging", "converged"}

\* Types of the state.
TypeOK ==
    /\ grant \in [Grant -> GrantState \cup {"none"}]
    /\ control \in [Grant -> Barrier]
    /\ policy \in [Grant -> [registered : BOOLEAN, revocation : Barrier]]
    /\ ag \in [Agent -> [pc : {"idle", "register", "settle", "begin", "read", "again", "count", "commit"}, g : Grant \cup {None},
                         barrier : Barrier \cup {"receipt", "refused", "uncertain"}, open : Nat]]
    /\ reached \in [Grant -> [fenced : Nat, converged : Nat]]
    /\ errors \in 0..MaxErrors
    /\ open \in [Grant -> Nat] /\ shared \subseteq Grant /\ busy \subseteq Grant

\* A REVOKED grant is quiet: Control has converged, no call of it is open
\* and none can become open, although the open calls are counted outside
\* the transaction that ends the revocation (grants.go:351-354, 382-421).
RevokedIsQuiet ==
    \A g \in Grant : grant[g] = "revoked" =>
        policy[g].revocation = "converged" /\ open[g] = 0 /\ g \notin shared

\* An ACTIVE grant is registered at Control, and not with an answer that a
\* revocation overtook: once Control fences a grant, MCP has it REVOKING or
\* REVOKED (grants.go:205-209).
ActiveIsRegistered ==
    \A g \in Grant :
        /\ grant[g] = "active" => policy[g].registered
        /\ policy[g].revocation # "none" => grant[g] \in {"revoking", "revoked"}

\* A revocation is never undone, by no late registration answer and no
\* stale barrier reading (grants.go:208-209).
RevocationStays ==
    [][\A g \in Grant :
        /\ grant[g] = "revoking" => grant'[g] \in {"revoking", "revoked"}
        /\ grant[g] = "revoked" => grant'[g] = "revoked"]_vars

\* Each milestone of a revocation is reached by exactly one commit,
\* whichever replicas run the barrier (grants.go:449-452).
MilestonesOnce ==
    \A g \in Grant :
        /\ reached[g].fenced = IF control[g] = "none" THEN 0 ELSE 1
        /\ reached[g].converged = IF grant[g] = "revoked" THEN 1 ELSE 0

\* Every revocation completes and every registration is settled, after any
\* failed, lost or refused answers (grants.go:561-563).
BarrierCompletes ==
    \A g \in Grant :
        /\ grant[g] = "revoking" ~> grant[g] = "revoked"
        /\ grant[g] = "pending" ~> grant[g] # "pending"
=============================================================================
