---------------------------- MODULE GrantsProofs ----------------------------
(***************************************************************************)
(* Proofs about Grants for any number of grants, agents, open calls and    *)
(* errors.                                                                 *)
(***************************************************************************)
EXTENDS Grants, TLAPS

AgentPc == {"idle", "register", "settle", "begin", "read", "again", "count", "commit"}
AgentLocal == [pc : AgentPc, g : Grant \cup {None}, barrier : Barrier \cup {"receipt", "refused", "uncertain"}, open : Nat]
Ending == {"revoking", "revoked"}

\* What an agent knows stays true while it acts on it: a receipt is of a
\* registered policy; an agent that runs the barrier does so of a revocation
\* that was committed before, a convergence it has read is final, and the
\* open calls it counted can only have become fewer.
KnowsOK(a) ==
    /\ ag[a].pc # "idle" => ag[a].g \in Grant
    /\ ag[a].pc = "settle" /\ ag[a].barrier = "receipt" => policy[ag[a].g].registered
    /\ ag[a].pc \in {"begin", "read", "again", "count", "commit"} => grant[ag[a].g] \in Ending
    /\ ag[a].pc \in {"again", "count", "commit"} => ag[a].barrier \in Barrier \ {"none"}
    /\ ag[a].pc \in {"again", "count", "commit"} /\ ag[a].barrier = "converged" => policy[ag[a].g].revocation = "converged"
    /\ ag[a].pc = "commit" => open[ag[a].g] <= ag[a].open

\* A committed revocation excludes share locks, so no call becomes open.
FencedOff == \A g \in Grant : grant[g] \in Ending => g \notin shared

IInv == TypeOK /\ (\A a \in Agent : KnowsOK(a)) /\ FencedOff /\ RevokedIsQuiet /\ ActiveIsRegistered /\ MilestonesOnce
-----------------------------------------------------------------------------
\* The invariant holds of an empty grants table.
LEMMA InitIInv ==
  ASSUME Init
  PROVE  IInv
<1> USE GrantsAssumption DEF Init, GrantsAssumption
<1>1. TypeOK
  BY DEF TypeOK, Asleep, Barrier
<1>2. \A a \in Agent : ag[a].pc = "idle"
  BY DEF Asleep
<1>3. \A a \in Agent : KnowsOK(a)
  BY <1>2 DEF KnowsOK
<1>4. FencedOff /\ RevokedIsQuiet /\ ActiveIsRegistered /\ MilestonesOnce
  BY DEF FencedOff, RevokedIsQuiet, ActiveIsRegistered, MilestonesOnce
<1> QED BY <1>1, <1>3, <1>4 DEF IInv

\* A command or an expiry: one grant changes its state, outside the barrier.
LEMMA CommandIInv ==
  ASSUME IInv, NEW g \in Grant, Create(g) \/ Revoke(g) \/ Expire(g)
  PROVE  IInv'
<1> USE DEF own, env
<1>1. /\ UNCHANGED <<control, policy, ag, reached, errors, open, shared, busy>>
      /\ \/ grant[g] = "none" /\ grant' = [grant EXCEPT ![g] = "pending"]
         \/ grant[g] \notin {"none", "revoking", "revoked"} /\ g \notin shared /\ grant' = [grant EXCEPT ![g] = "revoking"]
         \/ grant[g] = "active" /\ grant' = [grant EXCEPT ![g] = "expired"]
  BY DEF Create, Revoke, Expire, Revocable, Lockable
<1>2. TypeOK'
  BY <1>1 DEF IInv, TypeOK, GrantState
<1>3. \A h \in Grant :
        /\ h # g => grant'[h] = grant[h]
        /\ grant[h] \in Ending => grant'[h] = grant[h]
  BY <1>1 DEF IInv, TypeOK, Ending
<1>4. ASSUME NEW a \in Agent PROVE KnowsOK(a)'
  BY <1>1, <1>3 DEF IInv, KnowsOK
<1>5. FencedOff'
  BY <1>1 DEF IInv, TypeOK, FencedOff, Ending
<1>6. RevokedIsQuiet' /\ ActiveIsRegistered' /\ MilestonesOnce'
  BY <1>1 DEF IInv, TypeOK, RevokedIsQuiet, ActiveIsRegistered, MilestonesOnce
<1> QED BY <1>2, <1>4, <1>5, <1>6 DEF IInv

\* A step of one agent that changes nothing but what the agent knows.
LEMMA AgentOnly ==
  ASSUME IInv, NEW a \in Agent, NEW l \in AgentLocal, ag' = [ag EXCEPT ![a] = l], KnowsOK(a)',
         errors' \in 0..MaxErrors, UNCHANGED <<grant, control, policy, reached, open, shared, busy>>
  PROVE  IInv'
<1>1. TypeOK'
  BY DEF IInv, TypeOK, AgentLocal, AgentPc
<1>2. ASSUME NEW b \in Agent PROVE KnowsOK(b)'
  <2>1. CASE b # a
    <3>1. ag'[b] = ag[b]
      BY <2>1 DEF IInv, TypeOK
    <3> QED BY <3>1 DEF IInv, KnowsOK
  <2> QED BY <2>1
<1>3. FencedOff' /\ RevokedIsQuiet' /\ ActiveIsRegistered' /\ MilestonesOnce'
  BY DEF IInv, FencedOff, RevokedIsQuiet, ActiveIsRegistered, MilestonesOnce
<1> QED BY <1>1, <1>2, <1>3 DEF IInv

\* Where an agent is, it has a grant.
LEMMA Awake ==
  ASSUME IInv, NEW a \in Agent
  PROVE  /\ ag[a] \in AgentLocal /\ (ag[a].pc # "idle" => ag[a].g \in Grant)
         /\ ag \in [Agent -> AgentLocal]
BY DEF IInv, TypeOK, KnowsOK, AgentLocal, AgentPc

\* An agent that returns knows nothing.
LEMMA SleepKnows ==
  ASSUME IInv, NEW a \in Agent, Sleep(a)
  PROVE  Asleep \in AgentLocal /\ ag' = [ag EXCEPT ![a] = Asleep] /\ KnowsOK(a)'
<1>1. Asleep \in AgentLocal /\ Asleep.pc = "idle"
  BY DEF Asleep, AgentLocal, AgentPc, Barrier
<1>2. ag'[a] = Asleep
  BY DEF Sleep, IInv, TypeOK
<1> QED BY <1>1, <1>2 DEF Sleep, KnowsOK

\* Loading the row keeps the invariant.
LEMMA LoadIInv ==
  ASSUME IInv, NEW a \in Agent, AdvanceLoad(a)
  PROVE  IInv'
<1>1. PICK g \in Grant :
        /\ grant[g] \in {"pending", "revoking"}
        /\ ag' = [ag EXCEPT ![a] = [Asleep EXCEPT !.g = g, !.pc = IF grant[g] = "pending" THEN "register" ELSE IF control[g] = "none" THEN "begin" ELSE "read"]]
  BY DEF AdvanceLoad
<1> DEFINE pc == IF grant[g] = "pending" THEN "register" ELSE IF control[g] = "none" THEN "begin" ELSE "read"
           l == [Asleep EXCEPT !.g = g, !.pc = pc]
<1>2. pc \in {"register", "begin", "read"} /\ (pc # "register" => grant[g] = "revoking")
  BY <1>1
<1>3. ag' = [ag EXCEPT ![a] = l]
  BY <1>1
<1> HIDE DEF pc
<1>4. l \in AgentLocal /\ l.pc = pc /\ l.g = g
  BY <1>2 DEF Asleep, AgentLocal, AgentPc, Barrier
<1> HIDE DEF l
<1>5. ag'[a] = l
  BY <1>3, Awake
<1>6. KnowsOK(a)'
  BY <1>2, <1>4, <1>5 DEF KnowsOK, AdvanceLoad, Ending
<1> QED BY <1>3, <1>4, <1>6, AgentOnly DEF AdvanceLoad, env, IInv, TypeOK

\* A step at Control: the policy of one grant moves on, never back.
LEMMA PolicyStep ==
  ASSUME IInv, NEW a \in Agent, NEW g \in Grant, NEW p \in [registered : BOOLEAN, revocation : Barrier],
         policy' = [policy EXCEPT ![g] = p], NEW l \in AgentLocal, ag' = [ag EXCEPT ![a] = l], KnowsOK(a)',
         policy[g].registered => p.registered, policy[g].revocation = "converged" => p.revocation = "converged",
         p.revocation # "none" => grant[g] \in Ending,
         UNCHANGED <<grant, control, reached, errors, open, shared, busy>>
  PROVE  IInv'
<1>1. TypeOK'
  BY DEF IInv, TypeOK, AgentLocal, AgentPc
<1>2. \A h \in Grant : policy'[h] = IF h = g THEN p ELSE policy[h]
  BY DEF IInv, TypeOK
<1>3. ASSUME NEW b \in Agent PROVE KnowsOK(b)'
  <2>1. CASE b # a
    <3>1. ag'[b] = ag[b]
      BY <2>1, Awake
    <3> QED BY <1>2, <3>1 DEF IInv, KnowsOK
  <2> QED BY <2>1
<1>4. FencedOff' /\ MilestonesOnce'
  BY DEF IInv, FencedOff, MilestonesOnce
<1>5. RevokedIsQuiet' /\ ActiveIsRegistered'
  BY <1>2 DEF IInv, RevokedIsQuiet, ActiveIsRegistered, Ending
<1> QED BY <1>1, <1>3, <1>4, <1>5 DEF IInv

\* What Learn makes of an agent.
LEMMA LearnLocal ==
  ASSUME IInv, NEW a \in Agent, ag[a].pc # "idle", NEW pc \in AgentPc, NEW b \in Barrier \cup {"receipt", "refused", "uncertain"},
         Learn(a, pc, b)
  PROVE  \E l \in AgentLocal :
            ag' = [ag EXCEPT ![a] = l] /\ ag'[a] = l /\ l.pc = pc /\ l.barrier = b /\ l.g = ag[a].g
<1> DEFINE l == [ag[a] EXCEPT !.pc = pc, !.barrier = b]
<1>1. l \in AgentLocal /\ l.pc = pc /\ l.barrier = b /\ l.g = ag[a].g
  BY Awake DEF AgentLocal
<1>2. ag' = [ag EXCEPT ![a] = l]
  BY Awake DEF Learn
<1> HIDE DEF l
<1>3. ag'[a] = l
  BY <1>2, Awake
<1> QED BY <1>1, <1>2, <1>3

\* Control's registration keeps the invariant.
LEMMA RegisterIInv ==
  ASSUME IInv, NEW a \in Agent, CtlRegister(a)
  PROVE  IInv'
<1> DEFINE g == ag[a].g
<1>1. g \in Grant /\ ag[a].pc = "register" /\ policy[g] \in [registered : BOOLEAN, revocation : Barrier]
  BY Awake DEF CtlRegister, AtPc, IInv, TypeOK
<1>2. UNCHANGED <<grant, control, reached, errors, open, shared, busy>> /\ errors' \in 0..MaxErrors
  BY DEF CtlRegister, env, IInv, TypeOK
<1>3. CASE policy[g].revocation = "none" /\ policy' = [policy EXCEPT ![g].registered = TRUE] /\ Learn(a, "settle", "receipt")
  <2> DEFINE p == [policy[g] EXCEPT !.registered = TRUE]
  <2>1. p \in [registered : BOOLEAN, revocation : Barrier] /\ p.registered /\ p.revocation = "none"
    BY <1>1, <1>3
  <2>2. policy' = [policy EXCEPT ![g] = p]
    BY <1>3
  <2>3. PICK l \in AgentLocal : ag' = [ag EXCEPT ![a] = l] /\ ag'[a] = l /\ l.pc = "settle" /\ l.barrier = "receipt" /\ l.g = g
    BY <1>1, <1>3, LearnLocal DEF AgentPc
  <2> HIDE DEF p
  <2>4. policy'[g] = p
    BY <1>1, <2>2 DEF IInv, TypeOK
  <2>5. KnowsOK(a)'
    BY <1>1, <2>1, <2>3, <2>4 DEF KnowsOK
  <2> QED BY <1>1, <1>2, <1>3, <2>1, <2>2, <2>3, <2>5, PolicyStep
<1>4. CASE Learn(a, "settle", "refused") /\ UNCHANGED policy
  <2>1. PICK l \in AgentLocal : ag' = [ag EXCEPT ![a] = l] /\ ag'[a] = l /\ l.pc = "settle" /\ l.barrier = "refused" /\ l.g = g
    BY <1>1, <1>4, LearnLocal DEF AgentPc
  <2>2. KnowsOK(a)'
    BY <1>1, <2>1 DEF KnowsOK
  <2> QED BY <1>2, <1>4, <2>1, <2>2, AgentOnly
<1> QED BY <1>3, <1>4 DEF CtlRegister

\* Recording the registration under the row lock keeps the invariant: only a
\* grant that is still PENDING follows the answer.
LEMMA SettleIInv ==
  ASSUME IInv, NEW a \in Agent, RegisterSettle(a)
  PROVE  IInv'
<1> DEFINE g == ag[a].g
           s == Registered(grant[g], ag[a].barrier)
<1>1. /\ g \in Grant /\ ag[a].pc = "settle" /\ grant' = [grant EXCEPT ![g] = s]
      /\ UNCHANGED <<control, policy, reached, errors, open, shared, busy>>
  BY Awake DEF RegisterSettle, AtPc, env
<1>2. /\ s \in {grant[g], "active", "registration_failed", "pending"}
      /\ grant[g] # "pending" => s = grant[g]
      /\ s = "active" => grant[g] = "active" \/ policy[g].registered
      /\ grant[g] = "pending" => s \notin Ending
  BY <1>1 DEF Registered, IInv, KnowsOK, Ending
<1> HIDE DEF s
<1>3. Asleep \in AgentLocal /\ ag' = [ag EXCEPT ![a] = Asleep] /\ KnowsOK(a)'
  BY SleepKnows DEF RegisterSettle
<1>4. TypeOK'
  BY <1>1, <1>2, <1>3 DEF IInv, TypeOK, GrantState, AgentLocal, AgentPc
<1>5. \A h \in Grant : grant'[h] = IF h = g THEN s ELSE grant[h]
  BY <1>1 DEF IInv, TypeOK
<1>6. ASSUME NEW b \in Agent PROVE KnowsOK(b)'
  <2>1. CASE b # a
    <3>1. ag'[b] = ag[b]
      BY <1>3, <2>1, Awake
    <3> QED BY <1>1, <1>2, <1>5, <3>1 DEF IInv, KnowsOK, Ending
  <2> QED BY <1>3, <2>1
<1>7. FencedOff' /\ RevokedIsQuiet' /\ ActiveIsRegistered' /\ MilestonesOnce'
  BY <1>1, <1>2, <1>5 DEF IInv, FencedOff, RevokedIsQuiet, ActiveIsRegistered, MilestonesOnce, Ending
<1> QED BY <1>4, <1>6, <1>7 DEF IInv

\* Control's fence keeps the invariant: the revocation committed before.
LEMMA BeginIInv ==
  ASSUME IInv, NEW a \in Agent, CtlBegin(a)
  PROVE  IInv'
<1> DEFINE g == ag[a].g
           p == Fenced(policy[g])
           pc == IF p.revocation = "converged" THEN "count" ELSE "again"
<1>1. g \in Grant /\ ag[a].pc = "begin" /\ policy[g] \in [registered : BOOLEAN, revocation : Barrier] /\ grant[g] \in Ending
  BY Awake DEF CtlBegin, AtPc, IInv, TypeOK, KnowsOK
<1>2. /\ p \in [registered : BOOLEAN, revocation : Barrier] /\ (policy[g].registered => p.registered)
      /\ p.revocation # "none" /\ (policy[g].revocation = "converged" => p.revocation = "converged")
  BY <1>1 DEF Fenced, Barrier
<1>3. policy' = [policy EXCEPT ![g] = p] /\ UNCHANGED <<grant, control, reached, errors, open, shared, busy>>
  BY DEF CtlBegin, env
<1>4. Learn(a, pc, p.revocation)
  BY DEF CtlBegin
<1> HIDE DEF p
<1>5. pc \in {"count", "again"} /\ p.revocation \in Barrier
  BY <1>2
<1> HIDE DEF pc
<1>6. PICK l \in AgentLocal : ag' = [ag EXCEPT ![a] = l] /\ ag'[a] = l /\ l.pc = pc /\ l.barrier = p.revocation /\ l.g = g
  BY <1>1, <1>4, <1>5, LearnLocal DEF AgentPc
<1>7. policy'[g] = p
  BY <1>1, <1>3 DEF IInv, TypeOK
<1>8. KnowsOK(a)'
  BY <1>1, <1>2, <1>3, <1>5, <1>6, <1>7 DEF KnowsOK
<1> QED BY <1>1, <1>2, <1>3, <1>6, <1>8, PolicyStep

\* Reading Control's barrier keeps the invariant: convergence is final.
LEMMA ReadIInv ==
  ASSUME IInv, NEW a \in Agent, CtlRead(a)
  PROVE  IInv'
<1> DEFINE g == ag[a].g
           p == Converged(policy[g], g)
<1>1. /\ g \in Grant /\ ag[a].pc \in {"read", "again"} /\ grant[g] \in Ending
      /\ policy[g] \in [registered : BOOLEAN, revocation : Barrier]
  BY Awake DEF CtlRead, IInv, TypeOK, KnowsOK
<1>2. /\ p \in [registered : BOOLEAN, revocation : Barrier] /\ (policy[g].registered => p.registered)
      /\ p.revocation # "none" /\ (policy[g].revocation = "converged" => p.revocation = "converged")
  BY <1>1 DEF Converged, Barrier
<1>3. policy' = [policy EXCEPT ![g] = p] /\ UNCHANGED <<grant, control, reached, errors, open, shared, busy>>
  BY DEF CtlRead, env
<1>4. Learn(a, "count", p.revocation)
  BY DEF CtlRead
<1> HIDE DEF p
<1>5. PICK l \in AgentLocal : ag' = [ag EXCEPT ![a] = l] /\ ag'[a] = l /\ l.pc = "count" /\ l.barrier = p.revocation /\ l.g = g
  BY <1>1, <1>2, <1>4, LearnLocal DEF AgentPc
<1>6. policy'[g] = p
  BY <1>1, <1>3 DEF IInv, TypeOK
<1>7. KnowsOK(a)'
  BY <1>1, <1>2, <1>3, <1>5, <1>6 DEF KnowsOK
<1> QED BY <1>1, <1>2, <1>3, <1>5, <1>7, PolicyStep

\* Counting the open calls outside the transaction keeps the invariant.
LEMMA CountIInv ==
  ASSUME IInv, NEW a \in Agent, Count(a)
  PROVE  IInv'
<1> DEFINE g == ag[a].g
           l == [ag[a] EXCEPT !.pc = "commit", !.open = open[g]]
<1>1. g \in Grant /\ ag[a].pc = "count" /\ ag[a] \in AgentLocal /\ open[g] \in Nat
  BY Awake DEF Count, AtPc, IInv, TypeOK
<1>2. l \in AgentLocal /\ l.pc = "commit" /\ l.open = open[g] /\ l.g = g /\ l.barrier = ag[a].barrier
  BY <1>1 DEF AgentLocal, AgentPc
<1>3. ag' = [ag EXCEPT ![a] = l]
  BY Awake DEF Count
<1>4. UNCHANGED <<grant, control, policy, reached, open, shared, busy>> /\ errors' \in 0..MaxErrors
  BY DEF Count, env, IInv, TypeOK
<1> HIDE DEF l
<1>5. ag'[a] = l
  BY <1>3, Awake
<1>6. KnowsOK(a)'
  BY <1>1, <1>2, <1>4, <1>5 DEF IInv, KnowsOK
<1> QED BY <1>2, <1>3, <1>4, <1>6, AgentOnly

\* The barrier's transaction keeps the invariant: what the agent read and
\* counted before it still bounds what is open, so REVOKED is quiet.
LEMMA CommitIInv ==
  ASSUME IInv, NEW a \in Agent, Commit(a)
  PROVE  IInv'
<1> DEFINE g == ag[a].g
           b == ag[a].barrier
           ends == MayEnd(b, ag[a].open)
           f == IF FirstFence(g, b) THEN reached[g].fenced + 1 ELSE reached[g].fenced
           n == IF ends THEN reached[g].converged + 1 ELSE reached[g].converged
           r == [reached[g] EXCEPT !.fenced = f, !.converged = n]
<1>1. /\ g \in Grant /\ ag[a].pc = "commit" /\ ag[a].open \in Nat
      /\ UNCHANGED <<policy, errors, open, shared, busy>>
  BY Awake DEF Commit, AtPc, env, AgentLocal
<1>2. Asleep \in AgentLocal /\ ag' = [ag EXCEPT ![a] = Asleep] /\ KnowsOK(a)'
  BY SleepKnows DEF Commit
<1>3. CASE UNCHANGED <<grant, control, reached>>
  BY <1>1, <1>2, <1>3, AgentOnly DEF IInv, TypeOK
<1>4. CASE /\ grant[g] = "revoking" /\ control' = [control EXCEPT ![g] = b]
           /\ grant' = [grant EXCEPT ![g] = IF ends THEN "revoked" ELSE @]
           /\ reached' = [reached EXCEPT ![g].fenced = IF FirstFence(g, b) THEN @ + 1 ELSE @, ![g].converged = IF ends THEN @ + 1 ELSE @]
  <2>1. b \in Barrier \ {"none"} /\ (b = "converged" => policy[g].revocation = "converged") /\ open[g] <= ag[a].open
    BY <1>1 DEF IInv, KnowsOK
  <2>2. ends => policy[g].revocation = "converged" /\ open[g] = 0 /\ g \notin shared
    BY <1>1, <1>4, <2>1 DEF MayEnd, IInv, TypeOK, FencedOff, Ending
  <2>3. reached[g] \in [fenced : Nat, converged : Nat] /\ reached' = [reached EXCEPT ![g] = r]
    BY <1>1, <1>4 DEF IInv, TypeOK
  <2>4. f \in Nat /\ n \in Nat /\ f = 1 /\ n = IF ends THEN 1 ELSE 0
    <3>1. reached[g].fenced = (IF control[g] = "none" THEN 0 ELSE 1) /\ reached[g].converged = 0
      BY <1>1, <1>4 DEF IInv, MilestonesOnce
    <3> QED BY <3>1 DEF FirstFence
  <2> HIDE DEF f, n
  <2>4a. r \in [fenced : Nat, converged : Nat] /\ r.fenced = 1 /\ r.converged = IF ends THEN 1 ELSE 0
    BY <2>3, <2>4
  <2> HIDE DEF r, ends
  <2>5. /\ \A h \in Grant : grant'[h] = IF h = g /\ ends THEN "revoked" ELSE grant[h]
        /\ \A h \in Grant : control'[h] = IF h = g THEN b ELSE control[h]
        /\ \A h \in Grant : reached'[h] = IF h = g THEN r ELSE reached[h]
    BY <1>1, <1>4, <2>3 DEF IInv, TypeOK
  <2>6. TypeOK'
    <3>1. grant' \in [Grant -> GrantState \cup {"none"}]
      BY <1>1, <1>4 DEF IInv, TypeOK, GrantState
    <3>2. control' \in [Grant -> Barrier] /\ reached' \in [Grant -> [fenced : Nat, converged : Nat]]
      BY <1>1, <1>4, <2>1, <2>3, <2>4a DEF IInv, TypeOK
    <3>3. ag' \in [Agent -> AgentLocal]
      BY <1>2 DEF IInv, TypeOK, AgentLocal, AgentPc
    <3> QED BY <1>1, <3>1, <3>2, <3>3 DEF IInv, TypeOK, AgentLocal, AgentPc
  <2>7. ASSUME NEW k \in Agent PROVE KnowsOK(k)'
    <3>1. CASE k # a
      <4>1. ag'[k] = ag[k]
        BY <1>2, <3>1, Awake
      <4>2. KnowsOK(k) /\ (\A h \in Grant : grant[h] \in Ending => grant'[h] \in Ending)
        BY <2>5 DEF IInv, Ending
      <4>3. policy' = policy /\ open' = open
        BY <1>1
      <4> QED BY <4>1, <4>2, <4>3 DEF KnowsOK
    <3> QED BY <1>2, <3>1
  <2>8. FencedOff' /\ RevokedIsQuiet' /\ ActiveIsRegistered'
    <3>1. /\ \A h \in Grant : grant'[h] \in Ending <=> grant[h] \in Ending
          /\ \A h \in Grant : grant'[h] = "active" => grant[h] = "active"
      BY <1>4, <2>5 DEF Ending
    <3>2. FencedOff'
      BY <1>1, <3>1 DEF IInv, FencedOff
    <3>3. RevokedIsQuiet'
      BY <1>1, <2>2, <2>5 DEF IInv, RevokedIsQuiet
    <3>4. ActiveIsRegistered'
      BY <1>1, <3>1 DEF IInv, ActiveIsRegistered, Ending
    <3> QED BY <3>2, <3>3, <3>4
  <2>9. MilestonesOnce'
    <3>1. ASSUME NEW h \in Grant, h # g
          PROVE  grant'[h] = grant[h] /\ control'[h] = control[h] /\ reached'[h] = reached[h]
      BY <2>5, <3>1
    <3>2. control'[g] # "none" /\ reached'[g].fenced = 1
      BY <1>1, <2>1, <2>5, <2>4a
    <3>3. (grant'[g] = "revoked") <=> ends
      BY <1>1, <1>4, <2>5
    <3>4. reached'[g].converged = IF ends THEN 1 ELSE 0
      BY <1>1, <2>5, <2>4a
    <3> HIDE DEF g
    <3>5. ASSUME NEW h \in Grant
          PROVE  /\ reached'[h].fenced = IF control'[h] = "none" THEN 0 ELSE 1
                 /\ reached'[h].converged = IF grant'[h] = "revoked" THEN 1 ELSE 0
      BY <3>1, <3>2, <3>3, <3>4 DEF IInv, MilestonesOnce
    <3> QED BY <3>5 DEF MilestonesOnce
  <2> QED BY <2>6, <2>7, <2>8, <2>9 DEF IInv
<1> QED BY <1>3, <1>4 DEF Commit

\* A failed call or statement keeps the invariant.
LEMMA AgentFailIInv ==
  ASSUME IInv, NEW a \in Agent, AgentFail(a)
  PROVE  IInv'
<1>1. UNCHANGED <<grant, control, policy, reached, open, shared, busy>> /\ errors' \in 0..MaxErrors /\ ag[a].pc # "idle"
  BY GrantsAssumption DEF GrantsAssumption, AgentFail, AtPc, env, IInv, TypeOK
<1>2. CASE Sleep(a)
  BY <1>1, <1>2, SleepKnows, AgentOnly
<1>3. CASE Learn(a, "settle", "uncertain")
  <2>1. PICK l \in AgentLocal : ag' = [ag EXCEPT ![a] = l] /\ ag'[a] = l /\ l.pc = "settle" /\ l.barrier = "uncertain" /\ l.g = ag[a].g
    BY <1>1, <1>3, LearnLocal DEF AgentPc
  <2>2. KnowsOK(a)'
    BY <1>1, <2>1, Awake DEF KnowsOK
  <2> QED BY <1>1, <2>1, <2>2, AgentOnly
<1>4. CASE ag[a].pc = "again" /\ ToPc(a, "count")
  <2> DEFINE l == [ag[a] EXCEPT !.pc = "count"]
  <2>1. l \in AgentLocal /\ l.pc = "count" /\ l.barrier = ag[a].barrier /\ l.g = ag[a].g
    BY Awake DEF AgentLocal, AgentPc
  <2>2. ag' = [ag EXCEPT ![a] = l]
    BY <1>4, Awake DEF ToPc
  <2> HIDE DEF l
  <2>3. ag'[a] = l
    BY <2>2, Awake
  <2>4. KnowsOK(a)'
    BY <1>1, <1>4, <2>1, <2>3 DEF IInv, KnowsOK
  <2> QED BY <1>1, <2>1, <2>2, <2>4, AgentOnly
<1> QED BY <1>2, <1>3, <1>4 DEF AgentFail, AtPc

\* The calls' steps keep the invariant: they open a call only while they
\* hold the share lock of a grant that was ACTIVE under it.
LEMMA EnvIInv ==
  ASSUME IInv, NEW g \in Grant, CallChecks(g) \/ CallOpens(g) \/ CallDispatched(g) \/ CallReported(g) \/ CallCloses(g)
  PROVE  IInv'
<1> USE DEF own
<1>1. /\ UNCHANGED <<grant, control, policy, ag, reached, errors>>
      /\ \/ grant[g] = "active" /\ shared' = shared \cup {g} /\ UNCHANGED <<open, busy>>
         \/ /\ g \in shared /\ shared' \in {shared, shared \ {g}} /\ UNCHANGED busy
            /\ open' = [open EXCEPT ![g] = @ + 1] \/ UNCHANGED open
         \/ busy' \subseteq Grant /\ UNCHANGED <<open, shared>>
         \/ open[g] > 0 /\ open' = [open EXCEPT ![g] = @ - 1] /\ UNCHANGED <<shared, busy>>
  BY DEF CallChecks, CallOpens, CallDispatched, CallReported, CallCloses, IInv, TypeOK
<1>2. open \in [Grant -> Nat]
  BY DEF IInv, TypeOK
<1>3. TypeOK'
  BY <1>1, <1>2 DEF IInv, TypeOK
<1>4. /\ \A h \in Grant : h \in shared' => h \in shared \/ grant[h] = "active"
      /\ \A h \in Grant : open'[h] > open[h] => h \in shared
      /\ open' \in [Grant -> Nat]
  BY <1>1, <1>2
<1>5. FencedOff'
  BY <1>1, <1>4 DEF IInv, FencedOff, Ending
<1>6. \A h \in Grant : grant[h] \in Ending => open'[h] <= open[h]
  BY <1>2, <1>4 DEF IInv, FencedOff
<1>7. ASSUME NEW a \in Agent PROVE KnowsOK(a)'
  <2>1. ag[a].open \in Nat
    BY Awake DEF AgentLocal
  <2>2. KnowsOK(a) /\ UNCHANGED <<grant, policy, ag>>
    BY <1>1 DEF IInv
  <2> QED BY <1>2, <1>4, <1>6, <2>1, <2>2 DEF KnowsOK, Ending
<1>8. RevokedIsQuiet'
  BY <1>1, <1>2, <1>4, <1>5, <1>6 DEF IInv, FencedOff, RevokedIsQuiet, Ending
<1>9. ActiveIsRegistered' /\ MilestonesOnce'
  BY <1>1 DEF IInv, ActiveIsRegistered, MilestonesOnce
<1> QED BY <1>3, <1>5, <1>7, <1>8, <1>9 DEF IInv

\* Doing nothing keeps the invariant.
LEMMA StutterIInv ==
  ASSUME IInv, UNCHANGED vars
  PROVE  IInv'
<1> USE DEF vars, own, env
<1>1. TypeOK' /\ FencedOff' /\ RevokedIsQuiet' /\ ActiveIsRegistered' /\ MilestonesOnce'
  BY DEF IInv, TypeOK, FencedOff, RevokedIsQuiet, ActiveIsRegistered, MilestonesOnce
<1>2. \A a \in Agent : KnowsOK(a)'
  BY DEF IInv, KnowsOK
<1> QED BY <1>1, <1>2 DEF IInv

\* The invariant is inductive.
LEMMA NextIInv ==
  ASSUME IInv, [Next]_vars
  PROVE  IInv'
BY CommandIInv, LoadIInv, RegisterIInv, SettleIInv, BeginIInv, ReadIInv, CountIInv, CommitIInv, AgentFailIInv, EnvIInv,
   StutterIInv DEF Next, GrantsNext, CallsEnv, AgentStep
-----------------------------------------------------------------------------
\* The inductive invariant holds in every reachable state.
THEOREM Invariance == Spec => []IInv
BY InitIInv, NextIInv, PTL DEF Spec

\* Every transaction of application/grants.go keeps the types of the grants,
\* of Control's policies and of what the agents carry between transactions.
THEOREM TypeCorrect == Spec => []TypeOK
<1>1. IInv => TypeOK
  BY DEF IInv
<1> QED BY <1>1, Invariance, PTL

\* A REVOKED grant is quiet (grants.go:351-354), although its open calls are
\* counted outside the transaction, for any number of grants, agents, calls
\* and errors.
THEOREM RevokedQuiet == Spec => []RevokedIsQuiet
<1>1. IInv => RevokedIsQuiet
  BY DEF IInv
<1> QED BY <1>1, Invariance, PTL

\* An ACTIVE grant is registered at Control and a fenced one is REVOKING or
\* REVOKED here, however late a registration's answer comes (grants.go:205-209).
THEOREM ActiveRegistered == Spec => []ActiveIsRegistered
<1>1. IInv => ActiveIsRegistered
  BY DEF IInv
<1> QED BY <1>1, Invariance, PTL

\* Exactly one commit reaches each milestone of a revocation, whichever
\* replicas run the barrier (grants.go:449-452).
THEOREM MilestonesReachedOnce == Spec => []MilestonesOnce
<1>1. IInv => MilestonesOnce
  BY DEF IInv
<1> QED BY <1>1, Invariance, PTL

\* A committed revocation is never undone (grants.go:208-209).
THEOREM RevocationIsFinal == Spec => RevocationStays
<1>1. ASSUME IInv, [Next]_vars
      PROVE  \A g \in Grant :
               /\ grant[g] = "revoking" => grant'[g] \in {"revoking", "revoked"}
               /\ grant[g] = "revoked" => grant'[g] = "revoked"
  <2>0. grant \in [Grant -> GrantState \cup {"none"}]
    BY <1>1 DEF IInv, TypeOK
  <2>1. ASSUME NEW g \in Grant, Create(g) \/ Revoke(g) \/ Expire(g)
        PROVE  \A h \in Grant : grant[h] \in Ending => grant'[h] = grant[h]
    BY <2>0, <2>1 DEF Create, Revoke, Expire, Revocable, Ending
  <2>2. ASSUME NEW a \in Agent, RegisterSettle(a)
        PROVE  \A h \in Grant : grant[h] \in Ending => grant'[h] = grant[h]
    BY <2>0, <2>2 DEF RegisterSettle, Registered, Ending
  <2>3. ASSUME NEW a \in Agent, Commit(a)
        PROVE  \A h \in Grant : grant'[h] = grant[h] \/ (grant[h] = "revoking" /\ grant'[h] = "revoked")
    BY <2>0, <2>3 DEF Commit
  <2>4. ASSUME NEW a \in Agent,
               AdvanceLoad(a) \/ CtlRegister(a) \/ CtlBegin(a) \/ CtlRead(a) \/ Count(a) \/ AgentFail(a)
        PROVE  grant' = grant
    BY <2>4 DEF AdvanceLoad, CtlRegister, CtlBegin, CtlRead, Count, AgentFail
  <2>5. ASSUME CallsEnv \/ UNCHANGED vars PROVE grant' = grant
    BY <2>5 DEF CallsEnv, CallChecks, CallOpens, CallDispatched, CallReported, CallCloses, vars
  <2> QED BY <1>1, <2>1, <2>2, <2>3, <2>4, <2>5 DEF Next, GrantsNext, AgentStep, Ending
<1>2. IInv /\ [Next]_vars =>
        [\A g \in Grant :
            /\ grant[g] = "revoking" => grant'[g] \in {"revoking", "revoked"}
            /\ grant[g] = "revoked" => grant'[g] = "revoked"]_vars
  BY <1>1
<1> QED BY <1>2, Invariance, PTL DEF Spec, RevocationStays
=============================================================================
