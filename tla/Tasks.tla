------------------------------- MODULE Tasks -------------------------------
(***************************************************************************)
(* Durable background requests: domain/task.go decides, application/       *)
(* tasks.go runs each decision in a transaction under the row lock of the  *)
(* generation (queries/background.sql).  One task is modelled, with all    *)
(* its generations and their attempts.                                     *)
(*                                                                         *)
(* A transaction that locks a generation it was given is one step.         *)
(* Request and Cancel lock the latest generation: the statement picks the  *)
(* row on its snapshot and may then wait for the lock, so they take two    *)
(* steps.  The sweeper lists, asks Control and settles in three.           *)
(*                                                                         *)
(* Time is relative: a lease and a retry delay count down.  Replicas read  *)
(* their own clocks, up to Skew ahead of the slowest: at a reading ahead   *)
(* by d, a deadline that is left away has passed when left <= d.           *)
(***************************************************************************)
EXTENDS Naturals, FiniteSets

CONSTANTS
    Worker,      \* worker identities
    Client,      \* concurrent Request and Cancel commands
    Sweeper,     \* sweeper loops, one per replica
    Input,       \* frozen inputs, by digest
    None,        \* no worker, no input
    External,    \* whether the task's effects are external (else reconstructible)
    MaxAttempts, MaxLease, RetryDelay, \* domain.Bounds
    Skew,        \* how far replicas' clocks may differ
    MaxGen       \* bound on generations

ASSUME TasksAssumption ==
    /\ None \notin Worker \cup Input /\ External \in BOOLEAN
    /\ MaxAttempts \in Nat \ {0} /\ MaxLease \in Nat \ {0} /\ MaxGen \in Nat \ {0}
    /\ RetryDelay \in Nat /\ Skew \in Nat

VARIABLES
    req,      \* background_requests, by generation
    att,      \* task_attempts, by generation and ordinal
    auth,     \* whether the generation's authorization is current (grants)
    evidence, \* Control's record of the generation's dispatch (external)
    cl,       \* Request and Cancel transactions in progress
    sw        \* where each sweeper is

vars == <<req, att, auth, evidence, cl, sw>>
-----------------------------------------------------------------------------
Gen == 1..MaxGen
Ordinal == 1..MaxAttempts
Ahead == 0..Skew
TaskState == {"pending", "leased", "accepted", "retry_scheduled", "dead", "stale", "canceled"}
Terminal == {"accepted", "dead", "stale", "canceled"}

\* A row: left is lease_until (counted only while leased), wait is retry_at.
NoRequest == [state |-> "none", input |-> None, worker |-> None, left |-> 0, wait |-> 0, attempts |-> 0]
NewRequest(i) == [NoRequest EXCEPT !.state = "pending", !.input = i]
NoAttempt == [worker |-> None, lease |-> 0, outcome |-> "none"]

Exists(g) == req[g].state # "none"
IsLatest(g) == (g # 0 => Exists(g)) /\ \A h \in Gen : h > g => ~Exists(h)

\* The current attempt is the one whose ordinal is attempt_count.
Current(g) == IF req[g].attempts = 0 THEN NoAttempt ELSE att[g][req[g].attempts]

\* apply: the decided row, and the outcome of its current attempt, if any.
WithOutcome(g, outcome) ==
    IF outcome = "" \/ req[g].attempts = 0 THEN att
    ELSE [att EXCEPT ![g][req[g].attempts].outcome = outcome]
Apply(g, t, outcome) == req' = [req EXCEPT ![g] = t] /\ att' = WithOutcome(g, outcome)

\* A plausible error: the fenced attempt keeps no outcome.
StaleForgotten(t) == ""
StaleIfLeased(t) == IF t.state = "leased" THEN "stale" ELSE ""
Ended(t, state) == [t EXCEPT !.state = state, !.left = 0]
-----------------------------------------------------------------------------
(* Request and Cancel.                                                     *)

\* GetLatestRequestForUpdate picks the latest generation of its snapshot.
Pick(c) ==
    /\ cl[c].pc = "idle"
    /\ \E b \in 0..MaxGen :
         /\ IsLatest(b)
         /\ \/ \E i \in Input : cl' = [cl EXCEPT ![c] = [pc |-> "request", base |-> b, input |-> i]]
            \/ b # 0 /\ cl' = [cl EXCEPT ![c] = [pc |-> "cancel", base |-> b, input |-> None]]
    /\ UNCHANGED <<req, att, auth, evidence, sw>>

Done(c) == cl' = [cl EXCEPT ![c] = [pc |-> "idle", base |-> 0, input |-> None]]

\* A plausible error: any generation is fenced.
SupersedeAlways(t) == Ended(t, "stale")

\* Supersede fences the previous generation unless it is terminal.
Supersede(t) == IF t.state \in Terminal THEN t ELSE Ended(t, "stale")

\* The locked row carries the same input: the existing generation answers.
RequestExisting(c) ==
    /\ cl[c].pc = "request" /\ cl[c].base # 0 /\ req[cl[c].base].input = cl[c].input
    /\ Done(c) /\ UNCHANGED <<req, att, auth, evidence, sw>>

\* Another input, or none before: the next generation, the previous fenced.
RequestNext(c) ==
    LET b == cl[c].base
        g == b + 1
        old == IF b = 0 THEN req ELSE [req EXCEPT ![b] = Supersede(req[b])]
    IN /\ cl[c].pc = "request" /\ g \in Gen
       /\ b # 0 => req[b].input # cl[c].input
       /\ ~Exists(g)
       /\ req' = [old EXCEPT ![g] = NewRequest(cl[c].input)]
       /\ att' = IF b = 0 THEN att ELSE WithOutcome(b, StaleIfLeased(req[b]))
       /\ auth' = [auth EXCEPT ![g] = TRUE]
       /\ Done(c) /\ UNCHANGED <<evidence, sw>>

\* Everything that rolls the transaction back: a key that exists meanwhile,
\* no current authorization, an expired configuration, a failed statement.
RequestRefused(c) ==
    /\ cl[c].pc = "request"
    /\ Done(c) /\ UNCHANGED <<req, att, auth, evidence, sw>>

\* DecideCancel on the row that was picked, as it is once locked.
Cancel(c) ==
    LET t == req[cl[c].base] IN
    /\ cl[c].pc = "cancel"
    /\ IF t.state \in Terminal THEN UNCHANGED <<req, att>>
       ELSE Apply(cl[c].base, Ended(t, "canceled"), StaleIfLeased(t))
    /\ Done(c) /\ UNCHANGED <<auth, evidence, sw>>
-----------------------------------------------------------------------------
(* Claim, Heartbeat and Submit.                                            *)

\* Plausible errors: external leases are taken over too; a worker is
\* compared with the row only.
ClaimableExternal(t, d) ==
    t.state = "pending" \/ (t.state = "retry_scheduled" /\ t.wait <= d) \/ (t.state = "leased" /\ t.left <= d)
FirstClaimOfRow(g, w) == req[g].worker # w

\* DecideClaim: who may claim the generation, at a clock reading.
Claimable(t, d) ==
    \/ t.state = "pending"
    \/ t.state = "retry_scheduled" /\ t.wait <= d
    \/ t.state = "leased" /\ t.left <= d /\ ~External
AttemptsLeft(t) == t.attempts < MaxAttempts
FirstClaim(g, w) == \A n \in Ordinal : att[g][n].worker # w

Claim(g, w) ==
    LET t == req[g]
        n == t.attempts + 1
    IN /\ FirstClaim(g, w) /\ AttemptsLeft(t)
       /\ \E d \in Ahead, lease \in 1..MaxLease :
            /\ Claimable(t, d)
            /\ req' = [req EXCEPT ![g] = [t EXCEPT !.state = "leased", !.worker = w, !.left = lease + d, !.wait = 0, !.attempts = n]]
            /\ att' = [WithOutcome(g, IF t.state = "leased" THEN "expired" ELSE "")
                         EXCEPT ![g][n] = [NoAttempt EXCEPT !.worker = w, !.lease = lease]]
       /\ UNCHANGED <<auth, evidence, cl, sw>>

\* The current claimant, its lease not over at the reading.
Holds(g, w, d) ==
    /\ req[g].state = "leased" /\ req[g].worker = w /\ Current(g).worker = w
    /\ req[g].left > d

Heartbeat(g, w) ==
    /\ \E d \in Ahead :
         /\ Holds(g, w, d)
         /\ req' = [req EXCEPT ![g].left = Current(g).lease + d]
    /\ UNCHANGED <<att, auth, evidence, cl, sw>>

\* failAttempt, and the same end of an expired lease: another attempt after
\* the retry delay, or dead when the attempts are used up.
Retry(t, d) ==
    IF ~AttemptsLeft(t) THEN Ended(t, "dead")
    ELSE [Ended(t, "retry_scheduled") EXCEPT !.worker = None, !.wait = RetryDelay + d]

\* DecideSubmit for the frozen input: the result is the expected one (ok),
\* another one (mismatch), or the worker reports a failure.
Submit(g, w, result) ==
    /\ \E d \in Ahead :
         /\ Holds(g, w, d)
         /\ \/ ~auth[g] /\ Apply(g, Ended(req[g], "canceled"), "stale")
            \/ auth[g] /\ result # "ok" /\ Apply(g, Retry(req[g], d), "failed")
            \/ auth[g] /\ result = "ok" /\ Apply(g, Ended(req[g], "accepted"), "accepted")
    /\ UNCHANGED <<auth, evidence, cl, sw>>
-----------------------------------------------------------------------------
(* SweepExpired.                                                           *)

NotSweeping == [pc |-> "idle", gen |-> 0, answer |-> "none"]

\* A plausible error: only reconstructible leases are listed.
SweepListReconstructible(s) ==
    /\ ~External /\ sw[s].pc = "idle"
    /\ \E g \in Gen, d \in Ahead :
         /\ req[g].state = "leased" /\ req[g].left <= d
         /\ sw' = [sw EXCEPT ![s] = [NotSweeping EXCEPT !.pc = "query", !.gen = g]]
    /\ UNCHANGED <<req, att, auth, evidence, cl>>

\* The page shows an expired lease; only its identity is used later.
SweepList(s) ==
    /\ sw[s].pc = "idle"
    /\ \E g \in Gen, d \in Ahead :
         /\ req[g].state = "leased" /\ req[g].left <= d
         /\ sw' = [sw EXCEPT ![s] = [NotSweeping EXCEPT !.pc = "query", !.gen = g]]
    /\ UNCHANGED <<req, att, auth, evidence, cl>>

\* Control is asked about the original dispatch of external effects.
SweepQuery(s) ==
    /\ sw[s].pc = "query"
    /\ sw' = [sw EXCEPT ![s].pc = "settle", ![s].answer = IF External THEN evidence[sw[s].gen] ELSE "unknown"]
    /\ UNCHANGED <<req, att, auth, evidence, cl>>

\* DecideExpire under the lock, with the earlier answer and a fresh clock;
\* a lease that was renewed, moved or ended meanwhile is left alone.
SweepSettle(s) ==
    LET g == sw[s].gen
        t == req[g]
    IN /\ sw[s].pc = "settle"
       /\ \E d \in Ahead :
            \/ ~(t.state = "leased" /\ t.left <= d) /\ UNCHANGED <<req, att>>
            \/ /\ t.state = "leased" /\ t.left <= d
               /\ IF External /\ sw[s].answer # "not_sent"
                  THEN Apply(g, Ended(t, "dead"), "expired")
                  ELSE Apply(g, [Retry(t, d) EXCEPT !.worker = None], "expired")
       /\ sw' = [sw EXCEPT ![s] = NotSweeping]
       /\ UNCHANGED <<auth, evidence, cl>>

\* The listing's row is gone, Control does not answer, a statement fails, or
\* the process stops: the lease stays unreleased until another pass.
SweepSkip(s) ==
    /\ sw[s].pc # "idle" /\ sw' = [sw EXCEPT ![s] = NotSweeping]
    /\ UNCHANGED <<req, att, auth, evidence, cl>>
-----------------------------------------------------------------------------
(* The environment.                                                        *)

\* The authorizing grant is revoked or expires.
AuthorizationEnds(g) ==
    /\ Exists(g) /\ auth[g] /\ auth' = [auth EXCEPT ![g] = FALSE]
    /\ UNCHANGED <<req, att, evidence, cl, sw>>

\* Control learns, for good, whether the generation's dispatch was sent.
ControlSettles(g) ==
    /\ External /\ Exists(g) /\ evidence[g] = "unknown"
    /\ \E v \in {"sent", "not_sent"} : evidence' = [evidence EXCEPT ![g] = v]
    /\ UNCHANGED <<req, att, auth, cl, sw>>

Waiting(t) == (t.state = "leased" /\ t.left > 0) \/ (t.state = "retry_scheduled" /\ t.wait > 0)
Tick ==
    /\ \E g \in Gen : Waiting(req[g])
    /\ req' = [g \in Gen |->
                 IF ~Waiting(req[g]) THEN req[g]
                 ELSE IF req[g].state = "leased" THEN [req[g] EXCEPT !.left = @ - 1] ELSE [req[g] EXCEPT !.wait = @ - 1]]
    /\ UNCHANGED <<att, auth, evidence, cl, sw>>
-----------------------------------------------------------------------------
Init ==
    /\ req = [g \in Gen |-> NoRequest]
    /\ att = [g \in Gen |-> [n \in Ordinal |-> NoAttempt]]
    /\ auth = [g \in Gen |-> FALSE]
    /\ evidence = [g \in Gen |-> "unknown"]
    /\ cl = [c \in Client |-> [pc |-> "idle", base |-> 0, input |-> None]]
    /\ sw = [s \in Sweeper |-> NotSweeping]

ClientStep(c) == Pick(c) \/ RequestExisting(c) \/ RequestNext(c) \/ RequestRefused(c) \/ Cancel(c)
WorkerStep(g, w) ==
    \/ Claim(g, w) \/ Heartbeat(g, w)
    \/ \E result \in {"ok", "mismatch", "failed"} : Submit(g, w, result)
SweepStep(s) == SweepList(s) \/ SweepQuery(s) \/ SweepSettle(s)

Next ==
    \/ \E c \in Client : ClientStep(c)
    \/ \E g \in Gen, w \in Worker : WorkerStep(g, w)
    \/ \E s \in Sweeper : SweepStep(s) \/ SweepSkip(s)
    \/ \E g \in Gen : AuthorizationEnds(g) \/ ControlSettles(g)
    \/ Tick

Spec == Init /\ [][Next]_vars

\* A sweeper loop runs as long as its process; a pass that is skipped again
\* and again is Control or the database never answering, so settling is
\* assumed to get through if it is tried for ever.
Fairness ==
    /\ \A s \in Sweeper : SF_vars(SweepQuery(s)) /\ SF_vars(SweepSettle(s))
    /\ \A s \in Sweeper : SF_vars(SweepList(s))
FairSpec == Spec /\ Fairness
-----------------------------------------------------------------------------
(* Properties.                                                             *)

Request == [state : TaskState \cup {"none"}, input : Input \cup {None}, worker : Worker \cup {None},
            left : 0..(MaxLease + Skew), wait : 0..(RetryDelay + Skew), attempts : 0..MaxAttempts]
Attempt == [worker : Worker \cup {None}, lease : 0..MaxLease, outcome : {"none", "accepted", "failed", "expired", "stale"}]

\* Types of the state; attempt_count never exceeds max_attempts.
TypeOK ==
    /\ req \in [Gen -> Request]
    /\ att \in [Gen -> [Ordinal -> Attempt]]
    /\ auth \in [Gen -> BOOLEAN]
    /\ evidence \in [Gen -> {"unknown", "sent", "not_sent"}]
    /\ cl \in [Client -> [pc : {"idle", "request", "cancel"}, base : 0..MaxGen, input : Input \cup {None}]]
    /\ sw \in [Sweeper -> [pc : {"idle", "query", "settle"}, gen : 0..MaxGen, answer : {"none", "unknown", "sent", "not_sent"}]]

\* The attempts tell the generation's story: ordinals are used in order and
\* within the bound, by different workers; every attempt but a running one
\* has its outcome, only a leased generation has a running attempt, held by
\* the recorded worker, and exactly an accepted generation has an accepted
\* attempt, its last (task.go:55-61, tasks.go:207-225).
AttemptsTellStory ==
    \A g \in Gen :
        LET t == req[g] IN
        /\ t.attempts <= MaxAttempts
        /\ \A n \in Ordinal : (att[g][n].worker # None) <=> (n <= t.attempts)
        /\ \A m, n \in Ordinal : att[g][m].worker = att[g][n].worker /\ att[g][m].worker # None => m = n
        /\ \A n \in Ordinal : att[g][n].worker # None /\ att[g][n].outcome = "none" <=> (t.state = "leased" /\ n = t.attempts)
        /\ \A n \in Ordinal : att[g][n].outcome = "accepted" <=> (t.state = "accepted" /\ n = t.attempts)
        /\ t.state \in {"leased", "accepted"} => t.attempts > 0 /\ t.worker = Current(g).worker

\* However Request, Cancel and the workers interleave, at most the newest
\* generation is not terminal, and generations have no gaps
\* (tasks.go:125-129).
OnlyNewestOpen ==
    \A g, h \in Gen : g < h /\ Exists(h) => req[g].state \in Terminal

\* The generations as TaskFence sees them.
StatusOf(t) ==
    CASE t.state = "none" -> "none"
      [] t.state \in {"pending", "retry_scheduled"} -> "open"
      [] t.state = "leased" -> "held"
      [] OTHER -> "closed"
Fence == INSTANCE TaskFence WITH
    status <- [g \in Gen |-> StatusOf(req[g])],
    held <- [g \in Gen |-> {att[g][n].worker : n \in Ordinal} \ {None}]

\* The owner keeps the promise of TaskFence whatever its clients, workers
\* and sweepers do at the same time, with clocks that disagree.
KeepsFence == Fence!Spec

\* An external-effect lease that ran out is given to another worker only if
\* Control has the dispatch as not sent, also when two sweepers settle with
\* answers they got for earlier attempts (task.go:530-533).
ExpiredExternalNeedsEvidence ==
    External => \A g \in Gen, n \in Ordinal :
        att[g][n].outcome = "expired" /\ (n < req[g].attempts \/ req[g].state = "retry_scheduled") => evidence[g] = "not_sent"

\* What has ended stays as it ended: no late claim, heartbeat, result, sweep
\* or cancellation changes a terminal generation or its attempts.
EndedStays ==
    [][\A g \in Gen : req[g].state \in Terminal => req'[g] = req[g] /\ att'[g] = att[g]]_vars

\* A lease that ran out does not stay: it is claimed, renewed or settled.
LeaseSettles ==
    \A g \in Gen : req[g].state = "leased" /\ req[g].left = 0 ~> ~(req[g].state = "leased" /\ req[g].left = 0)

\* Only not-sent evidence of Control releases an external-effect lease for
\* reassignment (task.go:519-521).
ReleasedOnlyNotSent ==
    External => \A g \in Gen : req[g].state = "retry_scheduled" => evidence[g] = "not_sent"

\* When Cancel commits, the task's latest generation has ended
\* (tasks.go:409).
CancelReachesLatest ==
    [][\A c \in Client : cl[c].pc = "cancel" /\ cl'[c].pc = "idle" =>
        \A g \in Gen : req'[g].state \in Terminal \cup {"none"}]_vars
=============================================================================
