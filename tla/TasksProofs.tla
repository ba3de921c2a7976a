---------------------------- MODULE TasksProofs ----------------------------
(***************************************************************************)
(* Proofs about Tasks for any number of generations, attempts, workers,    *)
(* clients and sweepers, any bounds and any skew of the clocks.            *)
(***************************************************************************)
EXTENDS Tasks, TLAPS

Outcome == {"none", "accepted", "failed", "expired", "stale"}

\* The story of one generation with row t, attempts a and Control's record e:
\* what AttemptsTellStory and ExpiredExternalNeedsEvidence say of it, and
\* that the ordinals not used yet are blank.
Story(t, a, e) ==
    /\ \A n \in Ordinal : (a[n].worker # None) <=> (n <= t.attempts)
    /\ \A n \in Ordinal : n > t.attempts => a[n].outcome = "none"
    /\ \A m, n \in Ordinal : a[m].worker = a[n].worker /\ a[m].worker # None => m = n
    /\ \A n \in Ordinal : a[n].worker # None /\ a[n].outcome = "none" <=> (t.state = "leased" /\ n = t.attempts)
    /\ \A n \in Ordinal : a[n].outcome = "accepted" <=> (t.state = "accepted" /\ n = t.attempts)
    /\ t.state \in {"leased", "accepted"} => t.attempts > 0 /\ t.worker = a[t.attempts].worker
    /\ t.state \in {"none", "pending"} => t.attempts = 0
    /\ External => \A n \in Ordinal :
          a[n].outcome = "expired" /\ (n < t.attempts \/ t.state = "retry_scheduled") => e = "not_sent"

\* A client works on a generation that exists, a sweeper on one it listed,
\* with an answer Control has not taken back.
ClientsOK ==
    \A c \in Client :
        /\ cl[c].base # 0 => Exists(cl[c].base)
        /\ cl[c].pc = "cancel" => cl[c].base # 0
SweepersOK ==
    \A s \in Sweeper :
        /\ sw[s].pc # "idle" => sw[s].gen \in Gen
        /\ sw[s].answer = "not_sent" => sw[s].gen \in Gen /\ (External => evidence[sw[s].gen] = "not_sent")

IInv ==
    /\ TypeOK
    /\ \A g \in Gen : Story(req[g], att[g], evidence[g])
    /\ OnlyNewestOpen /\ ClientsOK /\ SweepersOK
-----------------------------------------------------------------------------
(* Rows and their stories.                                                 *)

\* A row that ends keeps everything but its state and its lease.
LEMMA EndedIs ==
  ASSUME NEW t \in Request, NEW s \in TaskState
  PROVE  /\ Ended(t, s) \in Request
         /\ Ended(t, s).state = s /\ Ended(t, s).attempts = t.attempts /\ Ended(t, s).worker = t.worker
         /\ Ended(t, s).input = t.input
<1> DEFINE v == [t EXCEPT !.state = s]
<1>1. v \in Request /\ v.state = s /\ v.attempts = t.attempts /\ v.worker = t.worker /\ v.input = t.input
  BY DEF Request
<1>2. Ended(t, s) = [v EXCEPT !.left = 0]
  BY DEF Ended
<1>3. 0 \in 0..(MaxLease + Skew)
  BY TasksAssumption DEF TasksAssumption
<1> HIDE DEF v
<1> QED BY <1>1, <1>2, <1>3 DEF Request

\* A failed or expired lease is scheduled again or dead.
LEMMA RetryIs ==
  ASSUME NEW t \in Request, NEW d \in Ahead
  PROVE  /\ Retry(t, d) \in Request /\ [Retry(t, d) EXCEPT !.worker = None] \in Request
         /\ Retry(t, d).state \in {"dead", "retry_scheduled"} /\ Retry(t, d).attempts = t.attempts
         /\ [Retry(t, d) EXCEPT !.worker = None].state = Retry(t, d).state
         /\ [Retry(t, d) EXCEPT !.worker = None].attempts = t.attempts
<1>1. CASE ~ AttemptsLeft(t)
  <2>1. Retry(t, d) = Ended(t, "dead")
    BY <1>1 DEF Retry
  <2>2. Ended(t, "dead") \in Request /\ Ended(t, "dead").state = "dead" /\ Ended(t, "dead").attempts = t.attempts
    BY EndedIs DEF TaskState
  <2> QED BY <2>1, <2>2 DEF Request
<1>2. CASE AttemptsLeft(t)
  <2> DEFINE u == Ended(t, "retry_scheduled")
  <2>1. u \in Request /\ u.state = "retry_scheduled" /\ u.attempts = t.attempts
    BY EndedIs DEF TaskState
  <2> HIDE DEF u
  <2>2. Retry(t, d) = [u EXCEPT !.worker = None, !.wait = RetryDelay + d]
    BY <1>2 DEF Retry, u
  <2>3. RetryDelay + d \in 0..(RetryDelay + Skew)
    BY TasksAssumption DEF Ahead, TasksAssumption
  <2> QED BY <2>1, <2>2, <2>3, ZenonT(30) DEF Request
<1> QED BY <1>1, <1>2

\* An attempt that ends, with the row that ends or waits for a retry.
LEMMA StoryOutcome ==
  ASSUME NEW t \in Request, NEW a \in [Ordinal -> Attempt], NEW e, Story(t, a, e), t.state = "leased",
         NEW u \in Request, u.attempts = t.attempts, u.state \in Terminal \cup {"retry_scheduled"},
         NEW o \in Outcome \ {"none"}, (o = "accepted") <=> (u.state = "accepted"),
         u.state = "accepted" => u.worker = t.worker,
         External /\ o = "expired" /\ u.state = "retry_scheduled" => e = "not_sent"
  PROVE  /\ [a EXCEPT ![t.attempts].outcome = o] \in [Ordinal -> Attempt]
         /\ Story(u, [a EXCEPT ![t.attempts].outcome = o], e)
<1> DEFINE k == t.attempts
           b == [a EXCEPT ![k].outcome = o]
<1>1. k \in Ordinal /\ MaxAttempts \in Nat
  BY TasksAssumption DEF Story, Request, Ordinal, TasksAssumption
<1>2. /\ b \in [Ordinal -> Attempt] /\ b[k].outcome = o /\ b[k].worker = a[k].worker
      /\ \A n \in Ordinal : b[n].worker = a[n].worker /\ (n # k => b[n] = a[n])
  BY <1>1 DEF Attempt, Outcome
<1> HIDE DEF b
<1>3. Story(u, b, e)
  <2>1. /\ \A n \in Ordinal : (b[n].worker # None) <=> (n <= u.attempts)
        /\ \A n \in Ordinal : n > u.attempts => b[n].outcome = "none"
        /\ \A m, n \in Ordinal : b[m].worker = b[n].worker /\ b[m].worker # None => m = n
    BY <1>1, <1>2 DEF Story, Ordinal
  <2>2. /\ \A n \in Ordinal : b[n].worker # None /\ b[n].outcome = "none" <=> (u.state = "leased" /\ n = u.attempts)
        /\ \A n \in Ordinal : b[n].outcome = "accepted" <=> (u.state = "accepted" /\ n = u.attempts)
    BY <1>1, <1>2 DEF Story, Terminal
  <2>3. /\ u.state \in {"leased", "accepted"} => u.attempts > 0 /\ u.worker = b[u.attempts].worker
        /\ u.state \in {"none", "pending"} => u.attempts = 0
    BY <1>1, <1>2 DEF Story, Terminal
  <2>4. ASSUME External, NEW n \in Ordinal, b[n].outcome = "expired", n < u.attempts \/ u.state = "retry_scheduled"
        PROVE  e = "not_sent"
    <3>1. CASE n = k
      BY <1>1, <1>2, <2>4, <3>1 DEF Ordinal
    <3>2. CASE n # k
      <4>1. a[n].outcome = "expired" /\ n <= k
        BY <1>1, <1>2, <2>4, <3>2 DEF Story, Ordinal
      <4>2. n < k
        BY <1>1, <3>2, <4>1 DEF Ordinal
      <4> QED BY <2>4, <4>1, <4>2 DEF Story
    <3> QED BY <3>1, <3>2, TasksAssumption DEF TasksAssumption
  <2> QED BY <2>1, <2>2, <2>3, <2>4 DEF Story
<1> QED BY <1>2, <1>3 DEF b

\* A row that is not leased ends without an attempt to settle.
LEMMA StoryEnd ==
  ASSUME NEW t \in Request, NEW a \in [Ordinal -> Attempt], NEW e, Story(t, a, e), t.state \in {"pending", "retry_scheduled"},
         NEW u \in Request, u.attempts = t.attempts, u.state \in Terminal \ {"accepted"}
  PROVE  Story(u, a, e)
BY DEF Story, Terminal

\* A change of the lease or the delay alone is not part of the story.
LEMMA StorySame ==
  ASSUME NEW t \in Request, NEW a, NEW e, Story(t, a, e),
         NEW u \in Request, u.attempts = t.attempts, u.state = t.state, u.worker = t.worker
  PROVE  Story(u, a, e)
BY DEF Story

\* A new row has no attempts.
LEMMA StoryNew ==
  ASSUME NEW t \in Request, NEW a, NEW e, Story(t, a, e), t.state = "none",
         NEW u \in Request, u.attempts = 0, u.state = "pending"
  PROVE  Story(u, a, e)
BY DEF Story

\* The attempt a claim inserts.
LEMMA ClaimedIs ==
  ASSUME NEW w \in Worker, NEW lease \in 1..MaxLease
  PROVE  LET v == [NoAttempt EXCEPT !.worker = w, !.lease = lease]
         IN v \in Attempt /\ v.worker = w /\ v.outcome = "none"
<1> DEFINE x == [NoAttempt EXCEPT !.worker = w]
           v == [NoAttempt EXCEPT !.worker = w, !.lease = lease]
<1>1. x \in Attempt /\ x.worker = w /\ x.outcome = "none"
  BY TasksAssumption DEF NoAttempt, Attempt, TasksAssumption
<1>2. v = [x EXCEPT !.lease = lease]
  OBVIOUS
<1>3. lease \in 0..MaxLease
  BY TasksAssumption DEF TasksAssumption
<1> HIDE DEF x
<1>4. [x EXCEPT !.lease = lease] \in Attempt /\ [x EXCEPT !.lease = lease].worker = w /\ [x EXCEPT !.lease = lease].outcome = "none"
  BY <1>1, <1>3 DEF Attempt
<1> HIDE DEF v
<1> QED BY <1>2, <1>4, ZenonT(30) DEF v

\* A claim that follows an ended attempt, or none.
LEMMA StoryClaim ==
  ASSUME NEW t \in Request, NEW a \in [Ordinal -> Attempt], NEW e, Story(t, a, e),
         t.state \in {"pending", "retry_scheduled"}, t.attempts < MaxAttempts,
         NEW w \in Worker, \A n \in Ordinal : a[n].worker # w, NEW v \in Attempt, v.worker = w, v.outcome = "none",
         NEW u \in Request, u.state = "leased", u.worker = w, u.attempts = t.attempts + 1
  PROVE  LET b == [a EXCEPT ![t.attempts + 1] = v]
         IN b \in [Ordinal -> Attempt] /\ Story(u, b, e)
<1> DEFINE k == t.attempts + 1
           b == [a EXCEPT ![k] = v]
<1>1. k \in Ordinal /\ t.attempts \in Nat /\ w # None
  BY TasksAssumption DEF Request, Ordinal, TasksAssumption
<1>2. /\ b \in [Ordinal -> Attempt] /\ b[k].outcome = "none" /\ b[k].worker = w
      /\ \A n \in Ordinal : n # k => b[n] = a[n]
  BY <1>1 DEF Attempt
<1> HIDE DEF b
<1>3. Story(u, b, e)
  <2>1. /\ \A n \in Ordinal : (b[n].worker # None) <=> (n <= u.attempts)
        /\ \A n \in Ordinal : n > u.attempts => b[n].outcome = "none"
    BY <1>1, <1>2 DEF Story, Ordinal
  <2>2. \A m, n \in Ordinal : b[m].worker = b[n].worker /\ b[m].worker # None => m = n
    BY <1>1, <1>2 DEF Story
  <2>3. \A n \in Ordinal : b[n].worker # None /\ b[n].outcome = "none" <=> (u.state = "leased" /\ n = u.attempts)
    BY <1>1, <1>2 DEF Story
  <2>4. \A n \in Ordinal : b[n].outcome = "accepted" <=> (u.state = "accepted" /\ n = u.attempts)
    BY <1>1, <1>2 DEF Story
  <2>5. /\ u.state \in {"leased", "accepted"} => u.attempts > 0 /\ u.worker = b[u.attempts].worker
        /\ u.state \in {"none", "pending"} => u.attempts = 0
    BY <1>1, <1>2
  <2>6. ASSUME External, NEW n \in Ordinal, b[n].outcome = "expired", n < u.attempts \/ u.state = "retry_scheduled"
        PROVE  e = "not_sent"
    <3>1. n # k /\ a[n].outcome = "expired"
      BY <1>1, <1>2, <2>6
    <3>2. n <= t.attempts
      BY <1>1, <3>1 DEF Story, Ordinal
    <3>3. t.state = "retry_scheduled"
      BY <1>1, <3>2 DEF Story, Ordinal
    <3> QED BY <2>6, <3>1, <3>3 DEF Story
  <2> QED BY <2>1, <2>2, <2>3, <2>4, <2>5, <2>6 DEF Story
<1> QED BY <1>2, <1>3 DEF b
-----------------------------------------------------------------------------
(* What a step does to the state.                                          *)

\* A client, a sweeper or neither ends its work; nothing else moves.
Returns ==
    /\ cl' = cl \/ \E c \in Client : Done(c)
    /\ sw' = sw \/ \E s \in Sweeper : sw' = [sw EXCEPT ![s] = NotSweeping]

\* A client that returns, or none, stays well.
LEMMA ClientsStay ==
  ASSUME IInv, \A g \in Gen : Exists(g) => Exists(g)', cl' = cl \/ \E c \in Client : Done(c)
  PROVE  /\ cl' \in [Client -> [pc : {"idle", "request", "cancel"}, base : 0..MaxGen, input : Input \cup {None}]]
         /\ ClientsOK'
<1> DEFINE T == [pc : {"idle", "request", "cancel"}, base : 0..MaxGen, input : Input \cup {None}]
           z == [pc |-> "idle", base |-> 0, input |-> None]
<1>1. cl \in [Client -> T] /\ z \in T /\ z.base = 0 /\ z.pc = "idle"
  BY TasksAssumption DEF IInv, TypeOK, TasksAssumption
<1>2. \A c \in Client : cl[c].base # 0 => cl[c].base \in Gen
  BY <1>1, TasksAssumption DEF Gen, TasksAssumption
<1>3. cl' \in [Client -> T] /\ \A c \in Client : cl'[c] = cl[c] \/ cl'[c] = z
  BY <1>1 DEF Done
<1> HIDE DEF T, z
<1>4. ASSUME NEW c \in Client
      PROVE  (cl'[c].base # 0 => Exists(cl[c].base)') /\ (cl'[c].pc = "cancel" => cl'[c].base # 0)
             /\ (cl'[c].base # 0 => cl'[c].base = cl[c].base)
  BY <1>1, <1>2, <1>3 DEF IInv, ClientsOK
<1>5. ClientsOK'
  BY <1>4 DEF ClientsOK, Exists
<1> QED BY <1>3, <1>5 DEF T

\* So does a sweeper, and Control takes no answer back.
LEMMA SweepersStay ==
  ASSUME IInv, \A g \in Gen : evidence[g] = "not_sent" => evidence'[g] = "not_sent",
         sw' = sw \/ \E s \in Sweeper : sw' = [sw EXCEPT ![s] = NotSweeping]
  PROVE  /\ sw' \in [Sweeper -> [pc : {"idle", "query", "settle"}, gen : 0..MaxGen, answer : {"none", "unknown", "sent", "not_sent"}]]
         /\ SweepersOK'
<1> DEFINE T == [pc : {"idle", "query", "settle"}, gen : 0..MaxGen, answer : {"none", "unknown", "sent", "not_sent"}]
<1>1. sw \in [Sweeper -> T] /\ NotSweeping \in T /\ NotSweeping.pc = "idle" /\ NotSweeping.answer = "none"
  BY TasksAssumption DEF IInv, TypeOK, NotSweeping, TasksAssumption
<1>2. sw' \in [Sweeper -> T] /\ \A s \in Sweeper : sw'[s] = sw[s] \/ sw'[s] = NotSweeping
  BY <1>1
<1> HIDE DEF T
<1>3. SweepersOK'
  BY <1>1, <1>2 DEF IInv, SweepersOK
<1> QED BY <1>2, <1>3 DEF T

\* One row and its attempts change, and the row does not reopen.
LEMMA RowIInv ==
  ASSUME IInv, NEW g \in Gen, NEW u \in Request, NEW a \in [Ordinal -> Attempt],
         req' = [req EXCEPT ![g] = u], att' = [att EXCEPT ![g] = a], UNCHANGED <<auth, evidence>>, Returns,
         Story(u, a, evidence[g]), u.state # "none", req[g].state # "none",
         u.state \in Terminal \/ req[g].state \notin Terminal
  PROVE  IInv'
<1>1. /\ req \in [Gen -> Request] /\ att \in [Gen -> [Ordinal -> Attempt]]
      /\ auth \in [Gen -> BOOLEAN] /\ evidence \in [Gen -> {"unknown", "sent", "not_sent"}]
  BY DEF IInv, TypeOK
<1>2. /\ req' \in [Gen -> Request] /\ att' \in [Gen -> [Ordinal -> Attempt]]
      /\ \A h \in Gen : h # g => req'[h] = req[h] /\ att'[h] = att[h]
      /\ req'[g] = u /\ att'[g] = a
  BY <1>1
<1>3. \A h \in Gen : Exists(h) <=> Exists(h)'
  BY <1>2 DEF Exists
<1>4. TypeOK' /\ ClientsOK' /\ SweepersOK'
  <2>1. /\ cl' \in [Client -> [pc : {"idle", "request", "cancel"}, base : 0..MaxGen, input : Input \cup {None}]]
        /\ ClientsOK'
    BY <1>3, ClientsStay DEF Returns
  <2>2. /\ sw' \in [Sweeper -> [pc : {"idle", "query", "settle"}, gen : 0..MaxGen, answer : {"none", "unknown", "sent", "not_sent"}]]
        /\ SweepersOK'
    BY SweepersStay DEF Returns
  <2> QED BY <1>1, <1>2, <2>1, <2>2, Zenon DEF TypeOK
<1>5. \A h \in Gen : Story(req[h], att[h], evidence[h])'
  <2>1. ASSUME NEW h \in Gen PROVE Story(req'[h], att'[h], evidence'[h])
    BY <1>2, Zenon DEF IInv
  <2> QED BY <2>1, Zenon DEF Story
<1>6. OnlyNewestOpen'
  BY <1>2, <1>3 DEF IInv, OnlyNewestOpen
<1> QED BY <1>4, <1>5, <1>6, Zenon DEF IInv
-----------------------------------------------------------------------------
(* What a step means for TaskFence.                                        *)

Workers(a) == {a[n].worker : n \in Ordinal} \ {None}

\* A step of the fence that leaves ended generations alone.
Fenced ==
    /\ [Fence!Next]_(Fence!vars)
    /\ \A g \in Gen : req[g].state \in Terminal => req'[g] = req[g] /\ att'[g] = att[g]

\* What the change of a row to u, and of its attempts to a, means.
Effect(g, u, a) ==
    \/ /\ Workers(a) = Workers(att[g])
       /\ \/ StatusOf(u) = StatusOf(req[g])
          \/ StatusOf(u) = "closed"
          \/ StatusOf(u) = "open" /\ StatusOf(req[g]) = "held"
    \/ /\ StatusOf(u) = "held"
       /\ \E w \in Worker : w \notin Workers(att[g]) /\ Workers(a) = Workers(att[g]) \cup {w}

\* An outcome changes no worker.
LEMMA WorkersOutcome ==
  ASSUME NEW a \in [Ordinal -> Attempt], NEW k \in Ordinal, NEW o
  PROVE  Workers([a EXCEPT ![k].outcome = o]) = Workers(a)
<1> DEFINE b == [a EXCEPT ![k].outcome = o]
<1>1. \A n \in Ordinal : b[n].worker = a[n].worker
  BY DEF Attempt
<1> HIDE DEF b
<1>2. Workers(b) = Workers(a)
  BY <1>1 DEF Workers
<1> QED BY <1>2 DEF b

\* A claim adds the worker.
LEMMA WorkersClaim ==
  ASSUME NEW a, NEW k \in Ordinal, a[k].worker = None, NEW w \in Worker, \A n \in Ordinal : a[n].worker # w,
         NEW b, b[k].worker = w, \A n \in Ordinal : n # k => b[n].worker = a[n].worker
  PROVE  w \notin Workers(a) /\ Workers(b) = Workers(a) \cup {w}
<1>1. w # None
  BY TasksAssumption DEF TasksAssumption
<1>2. Workers(b) = Workers(a) \cup {w}
  BY <1>1 DEF Workers
<1>3. w \notin Workers(a)
  BY DEF Workers
<1> QED BY <1>2, <1>3

\* A row without a later one is the newest unless it ended.
LEMMA NewestOpen ==
  ASSUME IInv, NEW g \in Gen, req[g].state \notin Terminal
  PROVE  \A h \in Gen : h > g => req[h].state = "none"
BY DEF IInv, OnlyNewestOpen, Exists, Gen

\* The change of one open row is a step of the fence.
LEMMA RowFenced ==
  ASSUME IInv, NEW g \in Gen, NEW u, NEW a, req' = [req EXCEPT ![g] = u], att' = [att EXCEPT ![g] = a],
         req[g].state \notin Terminal \cup {"none"}, Effect(g, u, a)
  PROVE  Fenced
<1> DEFINE st == [h \in Gen |-> StatusOf(req[h])]
           hd == [h \in Gen |-> {att[h][n].worker : n \in Ordinal} \ {None}]
<1>1. /\ req'[g] = u /\ att'[g] = a
      /\ \A h \in Gen : h # g => req'[h] = req[h] /\ att'[h] = att[h]
  BY DEF IInv, TypeOK
<1>2. st' = [st EXCEPT ![g] = StatusOf(u)] /\ hd' = [hd EXCEPT ![g] = Workers(a)]
  <2>1. ASSUME NEW h \in Gen PROVE st'[h] = (IF h = g THEN StatusOf(u) ELSE st[h]) /\ hd'[h] = (IF h = g THEN Workers(a) ELSE hd[h])
    <3>1. st'[h] = StatusOf(req'[h]) /\ hd'[h] = Workers(att'[h]) /\ st[h] = StatusOf(req[h]) /\ hd[h] = Workers(att[h])
      BY DEF StatusOf, Workers
    <3> HIDE DEF st, hd
    <3>2. CASE h = g
      BY <1>1, <3>1, <3>2
    <3>3. CASE h # g
      BY <1>1, <3>1, <3>3
    <3> QED BY <3>2, <3>3
  <2>2. st' = [h \in Gen |-> st'[h]] /\ hd' = [h \in Gen |-> hd'[h]]
    OBVIOUS
  <2>3. st = [h \in Gen |-> st[h]] /\ hd = [h \in Gen |-> hd[h]]
    OBVIOUS
  <2> HIDE DEF st, hd
  <2> QED BY <2>1, <2>2, <2>3
<1>3. st[g] = StatusOf(req[g]) /\ st[g] \in {"open", "held"} /\ hd[g] = Workers(att[g])
  <2>1. req[g].state \in {"pending", "retry_scheduled", "leased"}
    BY DEF IInv, TypeOK, Request, TaskState, Terminal
  <2> QED BY <2>1 DEF StatusOf, Workers
<1>4. \A h \in Gen : h > g => st[h] = "none"
  BY NewestOpen DEF StatusOf
<1>5. \/ UNCHANGED <<st, hd>>
      \/ Fence!Next
  <2>1. CASE Workers(a) = Workers(att[g]) /\ StatusOf(u) = StatusOf(req[g])
    <3>1. st' = [st EXCEPT ![g] = st[g]] /\ hd' = [hd EXCEPT ![g] = hd[g]]
      BY <1>2, <1>3, <2>1, ZenonT(30)
    <3>2. st = [h \in Gen |-> st[h]] /\ hd = [h \in Gen |-> hd[h]]
      OBVIOUS
    <3> HIDE DEF st, hd
    <3> QED BY <3>1, <3>2, TasksAssumption, ZenonT(30) DEF TasksAssumption
  <2>2. CASE Workers(a) = Workers(att[g]) /\ (StatusOf(u) = "closed" \/ (StatusOf(u) = "open" /\ StatusOf(req[g]) = "held"))
    <3>1. hd' = hd
      <4>1. hd' = [hd EXCEPT ![g] = hd[g]] /\ hd = [h \in Gen |-> hd[h]]
        BY <1>2, <1>3, <2>2, ZenonT(30)
      <4> HIDE DEF hd
      <4> QED BY <4>1
    <3>2. CASE StatusOf(u) = "closed"
      BY <1>2, <1>3, <3>1, <3>2, Zenon DEF Fence!Next, Fence!Close
    <3>3. CASE StatusOf(u) = "open" /\ StatusOf(req[g]) = "held"
      BY <1>2, <1>3, <3>1, <3>3, Zenon DEF Fence!Next, Fence!Release
    <3> QED BY <2>2, <3>2, <3>3, ZenonT(30)
  <2>3. CASE StatusOf(u) = "held" /\ \E w \in Worker : w \notin Workers(att[g]) /\ Workers(a) = Workers(att[g]) \cup {w}
    <3>1. PICK w \in Worker : w \notin Workers(att[g]) /\ Workers(a) = Workers(att[g]) \cup {w}
      BY <2>3
    <3>2. hd' = [hd EXCEPT ![g] = @ \cup {w}]
      BY <1>2, <1>3, <3>1, ZenonT(30)
    <3>3. Fence!Take(g, w)
      BY <1>2, <1>3, <1>4, <2>3, <3>1, <3>2, Zenon DEF Fence!Take
    <3> QED BY <3>3, Zenon DEF Fence!Next
  <2> QED BY <2>1, <2>2, <2>3, Zenon DEF Effect
<1>6. [Fence!Next]_(Fence!vars)
  BY <1>5, Zenon DEF Fence!vars
<1> QED BY <1>1, <1>6, Zenon DEF Fenced
-----------------------------------------------------------------------------
(* The actions on one row.                                                 *)

\* A leased row has a current attempt.
LEMMA LeasedHasAttempt ==
  ASSUME NEW t \in Request, NEW a, NEW e, Story(t, a, e), t.state = "leased"
  PROVE  t.attempts \in Ordinal /\ t.attempts # 0
BY TasksAssumption DEF Story, Request, Ordinal, TasksAssumption

\* apply's update of the attempts, as a change of one generation.
LEMMA WithOutcomeIs ==
  ASSUME IInv, NEW g \in Gen, NEW o, o = "" \/ req[g].state = "leased"
  PROVE  WithOutcome(g, o) = [att EXCEPT ![g] = IF o = "" THEN att[g] ELSE [att[g] EXCEPT ![req[g].attempts].outcome = o]]
<1>1. att \in [Gen -> [Ordinal -> Attempt]] /\ req[g] \in Request /\ Story(req[g], att[g], evidence[g])
  BY ZenonT(30) DEF IInv, TypeOK
<1>2. CASE o = ""
  BY <1>1, <1>2, ZenonT(30) DEF WithOutcome
<1>3. CASE o # ""
  <2>1. req[g].attempts # 0
    <3> QED BY LeasedHasAttempt, <1>1, <1>3, ZenonT(30)
  <2>2. WithOutcome(g, o) = [att EXCEPT ![g][req[g].attempts].outcome = o]
    BY <1>3, <2>1, ZenonT(30) DEF WithOutcome
  <2> QED BY <1>1, <1>3, <2>2, ZenonT(30)
<1> QED BY <1>2, <1>3, ZenonT(30)

\* A leased row ends, or waits for a retry, with its attempt.
LEMMA SettleIInv ==
  ASSUME IInv, NEW g \in Gen, req[g].state = "leased",
         NEW u \in Request, u.attempts = req[g].attempts, u.state \in Terminal \cup {"retry_scheduled"},
         NEW o \in Outcome \ {"none"}, (o = "accepted") <=> (u.state = "accepted"),
         u.state = "accepted" => u.worker = req[g].worker,
         External /\ o = "expired" /\ u.state = "retry_scheduled" => evidence[g] = "not_sent",
         Apply(g, u, o), UNCHANGED <<auth, evidence>>, Returns
  PROVE  IInv' /\ Fenced
<1> DEFINE a == [att[g] EXCEPT ![req[g].attempts].outcome = o]
<1>1. req[g] \in Request /\ att[g] \in [Ordinal -> Attempt] /\ Story(req[g], att[g], evidence[g])
  BY DEF IInv, TypeOK
<1>2. req' = [req EXCEPT ![g] = u] /\ att' = [att EXCEPT ![g] = a]
  BY WithOutcomeIs, ZenonT(30) DEF Apply, Outcome
<1>3. a \in [Ordinal -> Attempt] /\ Story(u, a, evidence[g])
  BY <1>1, StoryOutcome
<1>4. Workers(a) = Workers(att[g])
  <2>1. req[g].attempts \in Ordinal
    BY <1>1, TasksAssumption DEF Story, Request, Ordinal, TasksAssumption
  <2> QED BY <1>1, <2>1, WorkersOutcome
<1> HIDE DEF a
<1>5. StatusOf(req[g]) = "held" /\ StatusOf(u) \in {"closed", "open"}
  BY DEF StatusOf, Terminal
<1>6. Effect(g, u, a)
  BY <1>4, <1>5, Zenon DEF Effect
<1>7. u.state # "none" /\ req[g].state \notin Terminal \cup {"none"}
  BY DEF Terminal
<1>8. IInv'
  BY <1>2, <1>3, <1>7, RowIInv, ZenonT(30)
<1>9. Fenced
  BY <1>2, <1>6, <1>7, RowFenced, ZenonT(30)
<1> QED BY <1>8, <1>9

\* A row without a running attempt ends, or only its times change.
LEMMA QuietIInv ==
  ASSUME IInv, NEW g \in Gen, NEW u \in Request, u.attempts = req[g].attempts,
         \/ req[g].state \in {"pending", "retry_scheduled"} /\ u.state \in Terminal \ {"accepted"}
         \/ req[g].state \in {"pending", "retry_scheduled", "leased"} /\ u.state = req[g].state /\ u.worker = req[g].worker,
         req' = [req EXCEPT ![g] = u], att' = att, UNCHANGED <<auth, evidence>>, Returns
  PROVE  IInv' /\ Fenced
<1>1. req[g] \in Request /\ att[g] \in [Ordinal -> Attempt] /\ Story(req[g], att[g], evidence[g])
      /\ att' = [att EXCEPT ![g] = att[g]]
  BY DEF IInv, TypeOK
<1>2. Story(u, att[g], evidence[g])
  BY <1>1, StoryEnd, StorySame
<1>3. StatusOf(u) = StatusOf(req[g]) \/ StatusOf(u) = "closed"
  BY DEF StatusOf, Terminal
<1>4. Effect(g, u, att[g])
  BY <1>3, Zenon DEF Effect
<1>5. u.state # "none" /\ req[g].state \notin Terminal \cup {"none"}
  BY DEF Terminal
<1>6. IInv'
  BY <1>1, <1>2, <1>5, RowIInv, ZenonT(30)
<1>7. Fenced
  BY <1>1, <1>4, <1>5, RowFenced, ZenonT(30)
<1> QED BY <1>6, <1>7

\* Cancel of the row that was picked.
LEMMA CancelIInv ==
  ASSUME IInv, NEW c \in Client, Cancel(c), req[cl[c].base].state \notin Terminal
  PROVE  IInv' /\ Fenced
<1> DEFINE g == cl[c].base
           u == Ended(req[g], "canceled")
<1>1. cl[c].pc = "cancel" /\ Apply(g, u, StaleIfLeased(req[g])) /\ UNCHANGED <<auth, evidence>> /\ Done(c) /\ sw' = sw
  BY DEF Cancel
<1>2. g \in Gen /\ req[g].state # "none"
  <2>1. cl[c].base \in 0..MaxGen /\ cl[c].base # 0 /\ Exists(cl[c].base)
    BY <1>1 DEF IInv, TypeOK, ClientsOK
  <2> QED BY <2>1, TasksAssumption DEF Gen, Exists, TasksAssumption
<1> HIDE DEF g
<1>3. req[g] \in Request /\ req[g].state \in {"pending", "retry_scheduled", "leased"}
  BY <1>2 DEF IInv, TypeOK, Request, TaskState, Terminal, g
<1>4. u \in Request /\ u.state = "canceled" /\ u.attempts = req[g].attempts
  BY <1>3, EndedIs DEF TaskState
<1> HIDE DEF u
<1>5. Returns
  BY <1>1 DEF Returns
<1>6. CASE req[g].state = "leased"
  <2>1. Apply(g, u, "stale")
    BY <1>1, <1>6 DEF StaleIfLeased
  <2> QED BY <1>1, <1>2, <1>4, <1>5, <1>6, <2>1, SettleIInv DEF Terminal, Outcome
<1>7. CASE req[g].state # "leased"
  <2>1. req' = [req EXCEPT ![g] = u] /\ att' = att
    BY <1>1, <1>7 DEF StaleIfLeased, Apply, WithOutcome
  <2> QED BY <1>1, <1>2, <1>3, <1>4, <1>5, <1>7, <2>1, QuietIInv, ZenonT(30) DEF Terminal
<1> QED BY <1>6, <1>7

\* A heartbeat renews the lease and nothing else.
LEMMA HeartbeatIInv ==
  ASSUME IInv, NEW g \in Gen, NEW w \in Worker, Heartbeat(g, w)
  PROVE  IInv' /\ Fenced
<1>1. PICK d \in Ahead : Holds(g, w, d) /\ req' = [req EXCEPT ![g].left = Current(g).lease + d]
  BY ZenonT(30) DEF Heartbeat
<1> DEFINE u == [req[g] EXCEPT !.left = Current(g).lease + d]
<1>2. req[g] \in Request /\ Current(g).lease \in 0..MaxLease /\ req[g].state = "leased"
  <2>1. req[g] \in Request /\ att[g] \in [Ordinal -> Attempt] /\ Story(req[g], att[g], evidence[g]) /\ req[g].state = "leased"
    BY <1>1 DEF IInv, TypeOK, Holds
  <2>2. req[g].attempts \in Ordinal /\ req[g].attempts # 0
    BY <2>1, TasksAssumption DEF Story, Request, Ordinal, TasksAssumption
  <2>3. Current(g) \in Attempt
    BY <2>1, <2>2 DEF Current
  <2> QED BY <2>1, <2>3 DEF Attempt
<1>3. Current(g).lease + d \in 0..(MaxLease + Skew)
  BY <1>2, TasksAssumption DEF Ahead, TasksAssumption
<1>4. u \in Request /\ u.attempts = req[g].attempts /\ u.state = "leased" /\ u.worker = req[g].worker
  BY <1>2, <1>3 DEF Request
<1>5. req' = [req EXCEPT ![g] = u] /\ att' = att /\ UNCHANGED <<auth, evidence>> /\ Returns
  BY <1>1, ZenonT(30) DEF Heartbeat, Returns
<1> HIDE DEF u
<1> QED BY <1>2, <1>4, <1>5, QuietIInv, ZenonT(30)

\* A submitted result ends the attempt, and the row or schedules a retry.
LEMMA SubmitIInv ==
  ASSUME IInv, NEW g \in Gen, NEW w \in Worker, NEW result, Submit(g, w, result)
  PROVE  IInv' /\ Fenced
<1>1. PICK d \in Ahead :
         /\ Holds(g, w, d)
         /\ \/ Apply(g, Ended(req[g], "canceled"), "stale")
            \/ Apply(g, Retry(req[g], d), "failed")
            \/ Apply(g, Ended(req[g], "accepted"), "accepted")
  BY DEF Submit
<1>2. req[g] \in Request /\ req[g].state = "leased" /\ UNCHANGED <<auth, evidence>> /\ Returns
  BY <1>1 DEF IInv, TypeOK, Holds, Submit, Returns
<1>3. CASE Apply(g, Ended(req[g], "canceled"), "stale")
  <2> DEFINE u == Ended(req[g], "canceled")
  <2>1. u \in Request /\ u.state = "canceled" /\ u.attempts = req[g].attempts
    BY <1>2, EndedIs DEF TaskState
  <2>2. Apply(g, u, "stale")
    BY <1>3
  <2> HIDE DEF u
  <2> QED BY <1>2, <2>1, <2>2, SettleIInv DEF Terminal, Outcome
<1>4. CASE Apply(g, Retry(req[g], d), "failed")
  <2> DEFINE u == Retry(req[g], d)
  <2>1. u \in Request /\ u.state \in {"dead", "retry_scheduled"} /\ u.attempts = req[g].attempts
    BY <1>2, RetryIs, ZenonT(30)
  <2>2. Apply(g, u, "failed")
    BY <1>4
  <2> HIDE DEF u
  <2> QED BY <1>2, <2>1, <2>2, SettleIInv DEF Terminal, Outcome
<1>5. CASE Apply(g, Ended(req[g], "accepted"), "accepted")
  <2> DEFINE u == Ended(req[g], "accepted")
  <2>1. u \in Request /\ u.state = "accepted" /\ u.attempts = req[g].attempts /\ u.worker = req[g].worker
    BY <1>2, EndedIs DEF TaskState
  <2>2. Apply(g, u, "accepted")
    BY <1>5
  <2> HIDE DEF u
  <2> QED BY <1>2, <2>1, <2>2, SettleIInv DEF Terminal, Outcome
<1> QED BY <1>1, <1>3, <1>4, <1>5

\* The sweeper settles a lease that is over, with the answer it has.
LEMMA SweepSettleIInv ==
  ASSUME IInv, NEW s \in Sweeper, SweepSettle(s), ~ UNCHANGED <<req, att>>
  PROVE  IInv' /\ Fenced
<1> DEFINE g == sw[s].gen
<1>1. PICK d \in Ahead :
         /\ req[g].state = "leased"
         /\ IF External /\ sw[s].answer # "not_sent"
            THEN Apply(g, Ended(req[g], "dead"), "expired")
            ELSE Apply(g, [Retry(req[g], d) EXCEPT !.worker = None], "expired")
  BY DEF SweepSettle
<1>2. g \in Gen /\ (sw[s].answer = "not_sent" => (External => evidence[g] = "not_sent"))
  BY DEF SweepSettle, IInv, SweepersOK
<1>3. UNCHANGED <<auth, evidence>> /\ Returns
  BY ZenonT(30) DEF SweepSettle, Returns
<1> HIDE DEF g
<1>4. req[g] \in Request
  BY <1>2 DEF IInv, TypeOK
<1>5. CASE External /\ sw[s].answer # "not_sent"
  <2> DEFINE u == Ended(req[g], "dead")
  <2>1. u \in Request /\ u.state = "dead" /\ u.attempts = req[g].attempts
    BY <1>4, EndedIs DEF TaskState
  <2>2. Apply(g, u, "expired")
    BY <1>1, <1>5
  <2> HIDE DEF u
  <2> QED BY <1>1, <1>2, <1>3, <2>1, <2>2, SettleIInv DEF Terminal, Outcome
<1>6. CASE ~ (External /\ sw[s].answer # "not_sent")
  <2> DEFINE u == [Retry(req[g], d) EXCEPT !.worker = None]
  <2>1. u \in Request /\ u.state \in {"dead", "retry_scheduled"} /\ u.attempts = req[g].attempts
    BY <1>4, RetryIs
  <2>2. Apply(g, u, "expired")
    BY <1>1, <1>6
  <2> HIDE DEF u
  <2> QED BY <1>1, <1>2, <1>3, <1>6, <2>1, <2>2, SettleIInv DEF Terminal, Outcome
<1> QED BY <1>5, <1>6

\* A claim inserts the next attempt; an expired lease is taken over as if it
\* had waited for a retry.
LEMMA ClaimIInv ==
  ASSUME IInv, NEW g \in Gen, NEW w \in Worker, Claim(g, w)
  PROVE  IInv' /\ Fenced
<1> DEFINE t == req[g]
           n == t.attempts + 1
           o == IF t.state = "leased" THEN "expired" ELSE ""
           b == IF t.state = "leased" THEN [att[g] EXCEPT ![t.attempts].outcome = "expired"] ELSE att[g]
           m == IF t.state = "leased" THEN Ended(t, "retry_scheduled") ELSE t
           v(lease) == [NoAttempt EXCEPT !.worker = w, !.lease = lease]
           x(d, lease) == [t EXCEPT !.state = "leased", !.worker = w, !.left = lease + d, !.wait = 0, !.attempts = n]
<1>1. PICK d \in Ahead, lease \in 1..MaxLease :
         /\ Claimable(t, d)
         /\ req' = [req EXCEPT ![g] = x(d, lease)]
         /\ att' = [WithOutcome(g, o) EXCEPT ![g][n] = v(lease)]
  BY ZenonT(30) DEF Claim
<1> DEFINE u == x(d, lease)
           k == v(lease)
           a == [b EXCEPT ![n] = k]
<1>2. /\ t \in Request /\ att \in [Gen -> [Ordinal -> Attempt]] /\ att[g] \in [Ordinal -> Attempt]
      /\ Story(t, att[g], evidence[g]) /\ t.attempts < MaxAttempts
      /\ \A i \in Ordinal : att[g][i].worker # w
  BY ZenonT(30) DEF IInv, TypeOK, Claim, AttemptsLeft, FirstClaim
<1>3. t.state \in {"pending", "retry_scheduled", "leased"} /\ (t.state = "leased" => ~ External)
  BY <1>1, ZenonT(30) DEF Claimable
<1>4. u \in Request /\ u.state = "leased" /\ u.worker = w /\ u.attempts = n
  <2>1. lease + d \in 0..(MaxLease + Skew) /\ 0 \in 0..(RetryDelay + Skew)
    BY TasksAssumption DEF Ahead, TasksAssumption
  <2>2. n \in 0..MaxAttempts
    BY <1>2, TasksAssumption DEF Request, TasksAssumption
  <2> DEFINE y1 == [t EXCEPT !.state = "leased"]
             y2 == [y1 EXCEPT !.worker = w]
             y3 == [y2 EXCEPT !.left = lease + d]
             y4 == [y3 EXCEPT !.wait = 0]
  <2>3. u = [y4 EXCEPT !.attempts = n]
    OBVIOUS
  <2> HIDE DEF u, n
  <2>4. y1 \in Request /\ y1.state = "leased"
    BY <1>2 DEF Request, TaskState
  <2> HIDE DEF y1
  <2>5. y2 \in Request /\ y2.state = "leased" /\ y2.worker = w
    BY <2>4 DEF Request
  <2> HIDE DEF y2
  <2>6. y3 \in Request /\ y3.state = "leased" /\ y3.worker = w
    BY <2>1, <2>5 DEF Request
  <2> HIDE DEF y3
  <2>7. y4 \in Request /\ y4.state = "leased" /\ y4.worker = w
    BY <2>1, <2>6 DEF Request
  <2> HIDE DEF y4
  <2> QED BY <2>2, <2>3, <2>7 DEF Request
<1>5. k \in Attempt /\ k.worker = w /\ k.outcome = "none"
  BY ClaimedIs, ZenonT(30)
<1>6. WithOutcome(g, o) = [att EXCEPT ![g] = b]
  BY <1>2, WithOutcomeIs, ZenonT(30)
<1>7. /\ m \in Request /\ m.state \in {"pending", "retry_scheduled"} /\ m.attempts = t.attempts
      /\ b \in [Ordinal -> Attempt] /\ Story(m, b, evidence[g])
      /\ \A i \in Ordinal : b[i].worker = att[g][i].worker
  <2>1. CASE t.state # "leased"
    BY <1>2, <1>3, <2>1
  <2>2. CASE t.state = "leased"
    <3>1. t.attempts \in Ordinal
      BY <1>2, <2>2, LeasedHasAttempt
    <3>2. m = Ended(t, "retry_scheduled") /\ b = [att[g] EXCEPT ![t.attempts].outcome = "expired"]
      BY <2>2
    <3>3. \A i \in Ordinal : b[i].worker = att[g][i].worker
      BY <1>2, <3>1, <3>2 DEF Attempt
    <3> HIDE DEF m, b
    <3>4. m \in Request /\ m.state = "retry_scheduled" /\ m.attempts = t.attempts
      BY <1>2, <3>2, EndedIs DEF TaskState
    <3>5. b \in [Ordinal -> Attempt] /\ Story(m, b, evidence[g])
      BY <1>2, <1>3, <2>2, <3>2, <3>4, StoryOutcome, ZenonT(30) DEF Outcome
    <3> QED BY <3>3, <3>4, <3>5
  <2> QED BY <2>1, <2>2
<1>8. Workers(b) = Workers(att[g])
  <2> HIDE DEF b
  <2> QED BY <1>7 DEF Workers
<1> HIDE DEF u, k, b, m, v, x, o
<1>9. n \in Ordinal /\ b[n].worker = None
  BY <1>2, <1>7, TasksAssumption DEF Story, Request, Ordinal, TasksAssumption
<1>10. a \in [Ordinal -> Attempt] /\ Story(u, a, evidence[g])
  <2>1. m.attempts < MaxAttempts /\ u.attempts = m.attempts + 1 /\ a = [b EXCEPT ![m.attempts + 1] = k]
    BY <1>2, <1>4, <1>7
  <2>2. \A i \in Ordinal : b[i].worker # w
    BY <1>2, <1>7
  <2> HIDE DEF a, t, n
  <2> QED BY <1>4, <1>5, <1>7, <2>1, <2>2, StoryClaim, ZenonT(30)
<1>11. w \notin Workers(b) /\ Workers(a) = Workers(b) \cup {w}
  <2>1. \A i \in Ordinal : b[i].worker # w
    BY <1>2, <1>7
  <2>2. a[n].worker = w /\ \A i \in Ordinal : i # n => a[i].worker = b[i].worker
    BY <1>5, <1>7, <1>9
  <2> HIDE DEF a, t, n
  <2> QED BY <1>9, <2>1, <2>2, WorkersClaim
<1>12. req' = [req EXCEPT ![g] = u] /\ att' = [att EXCEPT ![g] = a]
  <2>1. req' = [req EXCEPT ![g] = u] /\ att' = [[att EXCEPT ![g] = b] EXCEPT ![g][n] = k]
    BY <1>1, <1>6 DEF u, k
  <2> QED BY <1>2, <2>1, ZenonT(30)
<1> HIDE DEF a
<1>13. Effect(g, u, a)
  <2>1. StatusOf(u) = "held"
    BY <1>4 DEF StatusOf
  <2> QED BY <1>8, <1>11, <2>1 DEF Effect
<1>14. u.state # "none" /\ req[g].state \notin Terminal \cup {"none"}
  BY <1>3, <1>4 DEF Terminal
<1>15. UNCHANGED <<auth, evidence>> /\ Returns
  BY ZenonT(30) DEF Claim, Returns
<1>16. IInv'
  BY <1>4, <1>10, <1>12, <1>14, <1>15, RowIInv, ZenonT(30)
<1>17. Fenced
  BY <1>12, <1>13, <1>14, RowFenced, ZenonT(30)
<1> QED BY <1>16, <1>17
-----------------------------------------------------------------------------
(* Steps on no row, on every row and on two.                               *)

\* What Control learns later does not undo the story.
LEMMA StoryEvidence ==
  ASSUME NEW t, NEW a, NEW e, NEW f, Story(t, a, e), e = "not_sent" => f = "not_sent"
  PROVE  Story(t, a, f)
BY DEF Story

\* A step that leaves the rows and the attempts alone.
LEMMA StayIInv ==
  ASSUME IInv, req' = req, att' = att, auth' \in [Gen -> BOOLEAN],
         evidence' \in [Gen -> {"unknown", "sent", "not_sent"}],
         \A g \in Gen : evidence[g] = "not_sent" => evidence'[g] = "not_sent",
         cl' \in [Client -> [pc : {"idle", "request", "cancel"}, base : 0..MaxGen, input : Input \cup {None}]], ClientsOK',
         sw' \in [Sweeper -> [pc : {"idle", "query", "settle"}, gen : 0..MaxGen, answer : {"none", "unknown", "sent", "not_sent"}]],
         SweepersOK'
  PROVE  IInv' /\ Fenced
<1>1. TypeOK'
  BY Zenon DEF IInv, TypeOK
<1>2. \A g \in Gen : Story(req[g], att[g], evidence[g])'
  <2>1. ASSUME NEW g \in Gen PROVE Story(req'[g], att'[g], evidence'[g])
    BY StoryEvidence, Zenon DEF IInv
  <2> QED BY <2>1, Zenon DEF Story
<1>3. OnlyNewestOpen'
  BY DEF IInv, OnlyNewestOpen, Exists
<1>4. Fenced
  <2>1. UNCHANGED <<[h \in Gen |-> StatusOf(req[h])], [h \in Gen |-> {att[h][n].worker : n \in Ordinal} \ {None}]>>
    BY DEF StatusOf
  <2>2. [Fence!Next]_(Fence!vars)
    BY <2>1, Zenon DEF Fence!vars
  <2> QED BY <2>2, Zenon DEF Fenced
<1> QED BY <1>1, <1>2, <1>3, <1>4, Zenon DEF IInv

\* Several rows change, each with its story.
LEMMA RowsIInv ==
  ASSUME IInv, req' \in [Gen -> Request], att' \in [Gen -> [Ordinal -> Attempt]], auth' \in [Gen -> BOOLEAN],
         evidence' = evidence, Returns, OnlyNewestOpen',
         \A g \in Gen : Story(req'[g], att'[g], evidence[g]) /\ (req[g].state # "none" => req'[g].state # "none")
  PROVE  IInv'
<1>1. \A g \in Gen : Exists(g) => Exists(g)'
  BY DEF Exists
<1>2. TypeOK' /\ ClientsOK' /\ SweepersOK'
  <2>1. /\ cl' \in [Client -> [pc : {"idle", "request", "cancel"}, base : 0..MaxGen, input : Input \cup {None}]]
        /\ ClientsOK'
    BY <1>1, ClientsStay DEF Returns
  <2>2. /\ sw' \in [Sweeper -> [pc : {"idle", "query", "settle"}, gen : 0..MaxGen, answer : {"none", "unknown", "sent", "not_sent"}]]
        /\ SweepersOK'
    BY SweepersStay DEF Returns
  <2> QED BY <2>1, <2>2, Zenon DEF TypeOK, IInv
<1>3. \A g \in Gen : Story(req[g], att[g], evidence[g])'
  <2>1. ASSUME NEW g \in Gen PROVE Story(req'[g], att'[g], evidence'[g])
    BY Zenon
  <2> QED BY <2>1, Zenon DEF Story
<1> QED BY <1>2, <1>3, Zenon DEF IInv

\* Time passes on every row that counts it; nothing else changes.
LEMMA TickIInv ==
  ASSUME IInv, Tick
  PROVE  IInv' /\ Fenced
<1>1. /\ req \in [Gen -> Request] /\ UNCHANGED <<att, auth, evidence, cl, sw>>
      /\ att \in [Gen -> [Ordinal -> Attempt]] /\ auth \in [Gen -> BOOLEAN]
  BY DEF IInv, TypeOK, Tick
<1>2. ASSUME NEW g \in Gen
      PROVE  /\ req'[g] \in Request /\ req'[g].attempts = req[g].attempts
             /\ req'[g].state = req[g].state /\ req'[g].worker = req[g].worker
             /\ req[g].state \in Terminal => req'[g] = req[g]
  <2>1. req[g] \in Request
    BY <1>1
  <2>2. req'[g] = IF ~ Waiting(req[g]) THEN req[g]
                  ELSE IF req[g].state = "leased" THEN [req[g] EXCEPT !.left = @ - 1] ELSE [req[g] EXCEPT !.wait = @ - 1]
    BY DEF Tick
  <2>3. CASE ~ Waiting(req[g])
    BY <2>1, <2>2, <2>3
  <2>4. CASE Waiting(req[g]) /\ req[g].state = "leased"
    <3>1. req[g].left - 1 \in 0..(MaxLease + Skew)
      BY <2>1, <2>4, TasksAssumption DEF Waiting, Request, TasksAssumption
    <3>2. req'[g] = [req[g] EXCEPT !.left = req[g].left - 1]
      BY <2>1, <2>2, <2>4 DEF Request
    <3> QED BY <2>1, <2>4, <3>1, <3>2 DEF Request, Terminal
  <2>5. CASE Waiting(req[g]) /\ req[g].state # "leased"
    <3>1. req[g].wait - 1 \in 0..(RetryDelay + Skew) /\ req[g].state = "retry_scheduled"
      BY <2>1, <2>5, TasksAssumption DEF Waiting, Request, TasksAssumption
    <3>2. req'[g] = [req[g] EXCEPT !.wait = req[g].wait - 1]
      BY <2>1, <2>2, <2>5 DEF Request
    <3> QED BY <2>1, <3>1, <3>2 DEF Request, Terminal
  <2> QED BY <2>3, <2>4, <2>5
<1>3. req' \in [Gen -> Request]
  <2>1. req' = [g \in Gen |-> req'[g]]
    BY DEF Tick
  <2> QED BY <1>2, <2>1
<1>4. \A g \in Gen : Story(req'[g], att'[g], evidence[g]) /\ (req[g].state # "none" => req'[g].state # "none")
  <2>1. ASSUME NEW g \in Gen PROVE Story(req'[g], att'[g], evidence[g])
    <3>1. Story(req[g], att[g], evidence[g]) /\ att'[g] = att[g] /\ req[g] \in Request
      BY <1>1 DEF IInv
    <3>2. Story(req'[g], att[g], evidence[g])
      BY <1>2, <3>1, StorySame
    <3> QED BY <3>1, <3>2
  <2> QED BY <1>2, <2>1
<1>5. OnlyNewestOpen'
  BY <1>2 DEF IInv, OnlyNewestOpen, Exists
<1>6. Returns
  BY <1>1 DEF Returns
<1>7. IInv'
  BY <1>1, <1>3, <1>4, <1>5, <1>6, RowsIInv
<1>8. Fenced
  <2>1. \A g \in Gen : StatusOf(req'[g]) = StatusOf(req[g])
    BY <1>2 DEF StatusOf
  <2>2. UNCHANGED <<[h \in Gen |-> StatusOf(req[h])], [h \in Gen |-> {att[h][n].worker : n \in Ordinal} \ {None}]>>
    BY <1>1, <2>1 DEF StatusOf
  <2>3. [Fence!Next]_(Fence!vars)
    BY <2>2, Zenon DEF Fence!vars
  <2> QED BY <1>1, <1>2, <2>3, Zenon DEF Fenced
<1> QED BY <1>7, <1>8

\* The rows after RequestNext: the new generation, the fenced one before it,
\* and the others as they were.
LEMMA RequestNextRows ==
  ASSUME IInv, NEW c \in Client, RequestNext(c), NEW g \in Gen, g = cl[c].base + 1
  PROVE  /\ req' \in [Gen -> Request] /\ att' \in [Gen -> [Ordinal -> Attempt]]
         /\ req[g].state = "none" /\ req'[g].state = "pending" /\ att'[g] = att[g]
         /\ \A h \in Gen :
              /\ Story(req'[h], att'[h], evidence[h]) /\ Workers(att'[h]) = Workers(att[h])
              /\ h < g => req[h].state # "none" /\ req'[h].state \in Terminal
              /\ h > g => req[h].state = "none" /\ req'[h] = req[h]
              /\ req[h].state \in Terminal => req'[h] = req[h] /\ att'[h] = att[h]
<1> DEFINE b == cl[c].base
           new == NewRequest(cl[c].input)
           old == IF b = 0 THEN req ELSE [req EXCEPT ![b] = Supersede(req[b])]
<1>1. /\ req \in [Gen -> Request] /\ att \in [Gen -> [Ordinal -> Attempt]]
      /\ \A h \in Gen : Story(req[h], att[h], evidence[h])
  BY DEF IInv, TypeOK
<1>2. /\ req[g].state = "none" /\ req' = [old EXCEPT ![g] = new]
      /\ att' = IF b = 0 THEN att ELSE WithOutcome(b, StaleIfLeased(req[b]))
  BY DEF RequestNext, Exists
<1>3. b \in 0..MaxGen /\ MaxGen \in Nat /\ (b # 0 => b \in Gen /\ req[b].state # "none")
  BY TasksAssumption DEF IInv, TypeOK, ClientsOK, Exists, Gen, TasksAssumption
<1>4. new \in Request /\ new.state = "pending" /\ new.attempts = 0
  <2> DEFINE x == [NoRequest EXCEPT !.state = "pending"]
             i == cl[c].input
  <2>1. i \in Input \cup {None}
    BY DEF IInv, TypeOK
  <2>2. new = [x EXCEPT !.input = i]
    BY DEF NewRequest
  <2>3. x \in Request /\ x.state = "pending" /\ x.attempts = 0
    BY TasksAssumption DEF NoRequest, Request, TaskState, TasksAssumption
  <2> HIDE DEF x, i, new
  <2> QED BY <2>1, <2>2, <2>3 DEF Request
<1> HIDE DEF new
<1>5. Story(new, att[g], evidence[g])
  BY <1>1, <1>2, <1>4, StoryNew
<1>6. \A h \in Gen : (h < b => req[h].state \in Terminal) /\ (h > g => req[h].state = "none")
  BY <1>2, <1>3 DEF IInv, OnlyNewestOpen, Exists, Gen, Terminal
<1>7. CASE b = 0
  <2>1. /\ att' = att /\ req' = [req EXCEPT ![g] = new] /\ \A h \in Gen : ~ (h < g)
    BY <1>2, <1>3, <1>7 DEF Gen
  <2>2. /\ req' \in [Gen -> Request] /\ req'[g] = new
        /\ \A h \in Gen : h # g => req'[h] = req[h]
    BY <1>1, <1>4, <2>1
  <2>3. ASSUME NEW h \in Gen
        PROVE  Story(req'[h], att'[h], evidence[h])
    BY <1>1, <1>5, <2>1, <2>2
  <2>4. \A h \in Gen : h > g => h # g
    BY DEF Gen
  <2> QED BY <1>1, <1>2, <1>4, <1>6, <2>1, <2>2, <2>3, <2>4, ZenonT(30) DEF Terminal
<1>8. CASE b # 0
  <2> DEFINE t == req[b]
             u == Supersede(t)
             o == StaleIfLeased(t)
             a == IF o = "" THEN att[b] ELSE [att[b] EXCEPT ![t.attempts].outcome = o]
  <2>1. b \in Gen /\ b # g /\ t \in Request /\ att[b] \in [Ordinal -> Attempt] /\ Story(t, att[b], evidence[b]) /\ t.state # "none"
    BY <1>1, <1>3, <1>8
  <2>2. WithOutcome(b, o) = [att EXCEPT ![b] = a]
    BY <2>1, WithOutcomeIs, ZenonT(30) DEF StaleIfLeased
  <2>3. /\ u \in Request /\ u.state \in Terminal /\ (t.state \in Terminal => u = t /\ a = att[b])
        /\ a \in [Ordinal -> Attempt] /\ Story(u, a, evidence[b]) /\ Workers(a) = Workers(att[b])
    <3>1. CASE t.state \in Terminal
      BY <2>1, <3>1, ZenonT(30) DEF Supersede, StaleIfLeased, Terminal
    <3>2. CASE t.state \notin Terminal
      <4>1. u = Ended(t, "stale")
        BY <3>2 DEF Supersede
      <4>2. u \in Request /\ u.state = "stale" /\ u.attempts = t.attempts
        BY <2>1, <4>1, EndedIs DEF TaskState
      <4>3. t.state \in {"pending", "retry_scheduled", "leased"}
        BY <2>1, <3>2 DEF Request, TaskState, Terminal
      <4> HIDE DEF u
      <4>4. CASE t.state = "leased"
        <5>1. o = "stale" /\ a = [att[b] EXCEPT ![t.attempts].outcome = "stale"]
          BY <4>4 DEF StaleIfLeased
        <5>2. t.attempts \in Ordinal
          BY <2>1, <4>4, LeasedHasAttempt
        <5>3. Workers(a) = Workers(att[b])
          BY <2>1, <5>1, <5>2, WorkersOutcome, ZenonT(30)
        <5> HIDE DEF a, t
        <5>4. a \in [Ordinal -> Attempt] /\ Story(u, a, evidence[b])
          BY <2>1, <4>2, <4>4, <5>1, StoryOutcome, ZenonT(30) DEF Outcome, Terminal
        <5> QED BY <3>2, <4>2, <5>3, <5>4 DEF Terminal
      <4>5. CASE t.state # "leased"
        <5>1. a = att[b]
          BY <4>5 DEF StaleIfLeased
        <5> HIDE DEF a, t
        <5>2. Story(u, att[b], evidence[b])
          BY <2>1, <4>2, <4>3, <4>5, StoryEnd DEF Terminal
        <5> QED BY <2>1, <3>2, <4>2, <5>1, <5>2 DEF Terminal
      <4> QED BY <4>4, <4>5, ZenonT(30)
    <3> QED BY <3>1, <3>2, ZenonT(30)
  <2>4. req' = [[req EXCEPT ![b] = u] EXCEPT ![g] = new] /\ att' = [att EXCEPT ![b] = a]
    BY <1>2, <1>8, <2>2, ZenonT(30)
  <2> HIDE DEF u, a, o
  <2>5. /\ req' \in [Gen -> Request] /\ att' \in [Gen -> [Ordinal -> Attempt]]
        /\ req'[g] = new /\ req'[b] = u /\ att'[b] = a /\ att'[g] = att[g]
        /\ \A h \in Gen : h # g /\ h # b => req'[h] = req[h]
        /\ \A h \in Gen : h # b => att'[h] = att[h]
    BY <1>1, <1>4, <2>1, <2>3, <2>4, ZenonT(30)
  <2>6. \A h \in Gen : (h < g => h < b \/ h = b) /\ (h > g => h # g /\ h # b) /\ (h < b => h # g /\ h # b)
    BY <1>3 DEF Gen
  <2>7. ASSUME NEW h \in Gen
        PROVE  /\ Story(req'[h], att'[h], evidence[h]) /\ Workers(att'[h]) = Workers(att[h])
               /\ h < g => req[h].state # "none" /\ req'[h].state \in Terminal
               /\ h > g => req[h].state = "none" /\ req'[h] = req[h]
               /\ req[h].state \in Terminal => req'[h] = req[h] /\ att'[h] = att[h]
    <3>1. CASE h = g
      <4>1. ~ (h < g) /\ ~ (h > g)
        BY <3>1 DEF Gen
      <4> QED BY <1>2, <1>5, <2>5, <3>1, <4>1, ZenonT(30) DEF Terminal
    <3>2. CASE h = b
      BY <2>1, <2>3, <2>5, <2>6, <3>2, ZenonT(30)
    <3>3. CASE h # g /\ h # b
      BY <1>1, <1>6, <2>5, <2>6, <3>3 DEF Terminal
    <3> QED BY <3>1, <3>2, <3>3
  <2> QED BY <1>2, <1>4, <2>5, <2>7, ZenonT(30)
<1> QED BY <1>7, <1>8

\* A new generation: the next one of TaskFence.
LEMMA RequestNextIInv ==
  ASSUME IInv, NEW c \in Client, RequestNext(c)
  PROVE  IInv' /\ Fenced
<1> DEFINE g == cl[c].base + 1
           st == [h \in Gen |-> StatusOf(req[h])]
           hd == [h \in Gen |-> {att[h][n].worker : n \in Ordinal} \ {None}]
<1>1. g \in Gen /\ auth' = [auth EXCEPT ![g] = TRUE] /\ evidence' = evidence /\ Returns
  BY DEF RequestNext, Returns
<1> HIDE DEF g
<1>2. /\ req' \in [Gen -> Request] /\ att' \in [Gen -> [Ordinal -> Attempt]]
      /\ req[g].state = "none" /\ req'[g].state = "pending" /\ att'[g] = att[g]
      /\ \A h \in Gen :
           /\ Story(req'[h], att'[h], evidence[h]) /\ Workers(att'[h]) = Workers(att[h])
           /\ h < g => req[h].state # "none" /\ req'[h].state \in Terminal
           /\ h > g => req[h].state = "none" /\ req'[h] = req[h]
           /\ req[h].state \in Terminal => req'[h] = req[h] /\ att'[h] = att[h]
  <2>1. g = cl[c].base + 1
    BY DEF g
  <2> QED BY <1>1, <2>1, RequestNextRows
<1>3. auth' \in [Gen -> BOOLEAN]
  BY <1>1 DEF IInv, TypeOK
<1>4. \A h \in Gen : h < g \/ h = g \/ h > g
  BY <1>1 DEF Gen
<1>5. OnlyNewestOpen'
  <2> SUFFICES ASSUME NEW h \in Gen, NEW k \in Gen, h < k, req'[k].state # "none"
               PROVE  req'[h].state \in Terminal
    BY DEF OnlyNewestOpen, Exists
  <2>1. ~ (k > g)
    BY <1>2
  <2>2. h < g
    BY <1>1, <2>1 DEF Gen
  <2> QED BY <1>2, <2>2
<1>6. IInv'
  <2>1. \A h \in Gen : req[h].state # "none" => req'[h].state # "none"
    BY <1>2, <1>4 DEF Terminal
  <2> QED BY <1>1, <1>2, <1>3, <1>5, <2>1, RowsIInv
<1>7. /\ st[g] = "none"
      /\ \A h \in Gen : h < g => st[h] # "none"
  <2>1. \A h \in Gen : req[h].state # "none" => StatusOf(req[h]) # "none"
    BY DEF StatusOf
  <2>2. StatusOf(req[g]) = "none"
    BY <1>2 DEF StatusOf
  <2> QED BY <1>1, <1>2, <2>1, <2>2
<1>8. st' = [h \in Gen |-> IF h = g THEN "open" ELSE IF h < g THEN "closed" ELSE st[h]]
  <2>1. ASSUME NEW h \in Gen
        PROVE  StatusOf(req'[h]) = IF h = g THEN "open" ELSE IF h < g THEN "closed" ELSE StatusOf(req[h])
    <3>1. CASE h = g
      BY <1>2, <3>1 DEF StatusOf
    <3>2. CASE h < g /\ h # g
      BY <1>2, <3>2 DEF StatusOf, Terminal
    <3>3. CASE ~ (h < g) /\ h # g
      <4>1. req'[h] = req[h]
        BY <1>2, <1>4, <3>3
      <4> QED BY <3>3, <4>1 DEF StatusOf
    <3> QED BY <3>1, <3>2, <3>3
  <2>2. st' = [h \in Gen |-> StatusOf(req'[h])]
    BY DEF StatusOf
  <2> QED BY <2>1, <2>2, Zenon
<1>9. hd' = hd
  <2>1. hd' = [h \in Gen |-> Workers(att'[h])] /\ hd = [h \in Gen |-> Workers(att[h])]
    BY DEF Workers
  <2> HIDE DEF hd
  <2> QED BY <1>2, <2>1
<1>10. Fence!Issue(g)
  BY <1>7, <1>8, <1>9, Zenon DEF Fence!Issue
<1>11. [Fence!Next]_(Fence!vars)
  BY <1>1, <1>10, Zenon DEF Fence!Next
<1>12. Fenced
  BY <1>2, <1>11, Zenon DEF Fenced
<1> QED BY <1>6, <1>12
-----------------------------------------------------------------------------
(* The invariant and the steps.                                            *)

\* The invariant holds of the empty tables.
LEMMA InitIInv == Init => IInv
<1> SUFFICES ASSUME Init PROVE IInv
  OBVIOUS
<1>1. NoRequest \in Request /\ NoRequest.state = "none" /\ NoRequest.attempts = 0
  BY TasksAssumption DEF NoRequest, Request, TasksAssumption
<1>2. NoAttempt \in Attempt /\ NoAttempt.worker = None /\ NoAttempt.outcome = "none"
  BY TasksAssumption DEF NoAttempt, Attempt, TasksAssumption
<1>3. NotSweeping \in [pc : {"idle", "query", "settle"}, gen : 0..MaxGen, answer : {"none", "unknown", "sent", "not_sent"}]
      /\ NotSweeping.pc = "idle" /\ NotSweeping.answer = "none"
  BY TasksAssumption DEF NotSweeping, TasksAssumption
<1> HIDE DEF NoRequest, NoAttempt, NotSweeping
<1>4. TypeOK
  <2>1. req \in [Gen -> Request] /\ att \in [Gen -> [Ordinal -> Attempt]] /\ auth \in [Gen -> BOOLEAN]
        /\ evidence \in [Gen -> {"unknown", "sent", "not_sent"}]
    BY <1>1, <1>2 DEF Init
  <2>2. cl \in [Client -> [pc : {"idle", "request", "cancel"}, base : 0..MaxGen, input : Input \cup {None}]]
    BY TasksAssumption DEF Init, TasksAssumption
  <2>3. sw \in [Sweeper -> [pc : {"idle", "query", "settle"}, gen : 0..MaxGen, answer : {"none", "unknown", "sent", "not_sent"}]]
    BY <1>3 DEF Init
  <2> QED BY <2>1, <2>2, <2>3, Zenon DEF TypeOK
<1>5. ASSUME NEW g \in Gen PROVE Story(req[g], att[g], evidence[g])
  <2>1. req[g] = NoRequest /\ \A n \in Ordinal : att[g][n] = NoAttempt
    BY DEF Init
  <2>2. \A n \in Ordinal : ~ (n <= 0)
    BY TasksAssumption DEF Ordinal, TasksAssumption
  <2> QED BY <1>1, <1>2, <2>1, <2>2 DEF Story
<1>6. OnlyNewestOpen
  BY <1>1 DEF Init, OnlyNewestOpen, Exists
<1>7. ClientsOK /\ SweepersOK
  BY <1>3 DEF Init, ClientsOK, SweepersOK
<1> QED BY <1>4, <1>5, <1>6, <1>7, Zenon DEF IInv

\* The steps of a client.
LEMMA ClientIInv ==
  ASSUME IInv, NEW c \in Client, ClientStep(c)
  PROVE  IInv' /\ Fenced
<1> DEFINE T == [pc : {"idle", "request", "cancel"}, base : 0..MaxGen, input : Input \cup {None}]
           S == [pc : {"idle", "query", "settle"}, gen : 0..MaxGen, answer : {"none", "unknown", "sent", "not_sent"}]
<1>1. /\ auth \in [Gen -> BOOLEAN] /\ evidence \in [Gen -> {"unknown", "sent", "not_sent"}]
      /\ cl \in [Client -> T] /\ sw \in [Sweeper -> S] /\ ClientsOK /\ SweepersOK
  BY DEF IInv, TypeOK
<1> HIDE DEF T, S
<1>2. CASE Pick(c)
  <2>1. PICK b \in 0..MaxGen :
          /\ b # 0 => Exists(b)
          /\ \/ \E i \in Input : cl' = [cl EXCEPT ![c] = [pc |-> "request", base |-> b, input |-> i]]
             \/ b # 0 /\ cl' = [cl EXCEPT ![c] = [pc |-> "cancel", base |-> b, input |-> None]]
    BY <1>2 DEF Pick, IsLatest
  <2>2. PICK r \in T : cl' = [cl EXCEPT ![c] = r] /\ r.base = b /\ (r.pc = "cancel" => b # 0)
    <3>1. CASE \E i \in Input : cl' = [cl EXCEPT ![c] = [pc |-> "request", base |-> b, input |-> i]]
      <4>1. PICK i \in Input : cl' = [cl EXCEPT ![c] = [pc |-> "request", base |-> b, input |-> i]]
        BY <3>1, ZenonT(30)
      <4> DEFINE r == [pc |-> "request", base |-> b, input |-> i]
      <4>2. r \in T /\ r.base = b /\ r.pc = "request" /\ cl' = [cl EXCEPT ![c] = r]
        BY <4>1 DEF T
      <4> HIDE DEF r
      <4> QED BY <4>2, ZenonT(30)
    <3>2. CASE b # 0 /\ cl' = [cl EXCEPT ![c] = [pc |-> "cancel", base |-> b, input |-> None]]
      <4> DEFINE r == [pc |-> "cancel", base |-> b, input |-> None]
      <4>2. r \in T /\ r.base = b /\ cl' = [cl EXCEPT ![c] = r]
        BY <3>2 DEF T
      <4> HIDE DEF r
      <4> QED BY <3>2, <4>2, ZenonT(30)
    <3> QED BY <2>1, <3>1, <3>2
  <2>3. UNCHANGED <<req, att, auth, evidence, sw>>
    BY <1>2 DEF Pick
  <2>4. cl' \in [Client -> T]
    BY <1>1, <2>2
  <2>5. ClientsOK'
    <3>1. \A d \in Client : cl'[d] = IF d = c THEN r ELSE cl[d]
      BY <1>1, <2>2
    <3> QED BY <1>1, <2>1, <2>2, <2>3, <3>1 DEF ClientsOK, Exists
  <2>6. SweepersOK'
    BY <1>1, <2>3 DEF SweepersOK
  <2>7. auth' \in [Gen -> BOOLEAN] /\ evidence' \in [Gen -> {"unknown", "sent", "not_sent"}] /\ sw' \in [Sweeper -> S]
    BY <1>1, <2>3
  <2> QED BY <2>3, <2>4, <2>5, <2>6, <2>7, StayIInv DEF T, S
<1>3. CASE Done(c) /\ UNCHANGED <<req, att, auth, evidence, sw>>
  <2>1. cl' \in [Client -> T] /\ ClientsOK'
    <3>1. \A g \in Gen : Exists(g) => Exists(g)'
      BY <1>3 DEF Exists
    <3> QED BY <1>3, <3>1, ClientsStay DEF T
  <2>2. SweepersOK'
    BY <1>1, <1>3 DEF SweepersOK
  <2>3. auth' \in [Gen -> BOOLEAN] /\ evidence' \in [Gen -> {"unknown", "sent", "not_sent"}] /\ sw' \in [Sweeper -> S]
    BY <1>1, <1>3
  <2> QED BY <1>3, <2>1, <2>2, <2>3, StayIInv DEF T, S
<1>4. CASE RequestNext(c)
  BY <1>4, RequestNextIInv
<1>5. CASE Cancel(c)
  <2>1. CASE req[cl[c].base].state \in Terminal
    BY <1>3, <1>5, <2>1 DEF Cancel
  <2>2. CASE req[cl[c].base].state \notin Terminal
    BY <1>5, <2>2, CancelIInv
  <2> QED BY <2>1, <2>2
<1> QED BY <1>2, <1>3, <1>4, <1>5 DEF ClientStep, RequestExisting, RequestRefused

\* The steps of a sweeper.
LEMMA SweepIInv ==
  ASSUME IInv, NEW s \in Sweeper, SweepStep(s) \/ SweepSkip(s)
  PROVE  IInv' /\ Fenced
<1> DEFINE T == [pc : {"idle", "request", "cancel"}, base : 0..MaxGen, input : Input \cup {None}]
           S == [pc : {"idle", "query", "settle"}, gen : 0..MaxGen, answer : {"none", "unknown", "sent", "not_sent"}]
           Quiet == UNCHANGED <<req, att, auth, evidence, cl>>
<1>1. /\ auth \in [Gen -> BOOLEAN] /\ evidence \in [Gen -> {"unknown", "sent", "not_sent"}]
      /\ cl \in [Client -> T] /\ sw \in [Sweeper -> S] /\ ClientsOK /\ SweepersOK
  BY DEF IInv, TypeOK
<1> HIDE DEF T, S
<1>2. ASSUME Quiet, sw' \in [Sweeper -> S], SweepersOK'
      PROVE  IInv' /\ Fenced
  <2>1. ClientsOK'
    BY <1>1, <1>2 DEF ClientsOK, Exists
  <2>2. auth' \in [Gen -> BOOLEAN] /\ evidence' \in [Gen -> {"unknown", "sent", "not_sent"}] /\ cl' \in [Client -> T]
    BY <1>1, <1>2
  <2> QED BY <1>2, <2>1, <2>2, StayIInv DEF T, S
<1>3. CASE SweepList(s)
  <2>1. PICK g \in Gen : sw' = [sw EXCEPT ![s] = [NotSweeping EXCEPT !.pc = "query", !.gen = g]]
    BY <1>3, ZenonT(30) DEF SweepList
  <2> DEFINE q == [NotSweeping EXCEPT !.pc = "query"]
             r == [NotSweeping EXCEPT !.pc = "query", !.gen = g]
  <2>2. r = [q EXCEPT !.gen = g] /\ g \in 0..MaxGen
    BY TasksAssumption DEF Gen, TasksAssumption
  <2>3. r \in S /\ r.gen \in Gen /\ r.answer = "none"
    <3>1. q \in S /\ q.answer = "none"
      BY TasksAssumption DEF NotSweeping, S, TasksAssumption
    <3> HIDE DEF q, r
    <3> QED BY <2>2, <3>1 DEF S
  <2> HIDE DEF r
  <2>4. sw' \in [Sweeper -> S] /\ \A x \in Sweeper : sw'[x] = IF x = s THEN r ELSE sw[x]
    BY <1>1, <2>1, <2>3 DEF r
  <2>5. Quiet
    BY <1>3 DEF SweepList
  <2>6. SweepersOK'
    BY <1>1, <2>3, <2>4, <2>5 DEF SweepersOK
  <2> QED BY <1>2, <2>4, <2>5, <2>6
<1>4. CASE SweepQuery(s)
  <2> DEFINE e == IF External THEN evidence[sw[s].gen] ELSE "unknown"
             q == [sw[s] EXCEPT !.pc = "settle"]
             r == [q EXCEPT !.answer = e]
  <2>1. sw[s].gen \in Gen /\ sw[s] \in S
    BY <1>1, <1>4 DEF SweepQuery, SweepersOK
  <2>2. e \in {"unknown", "sent", "not_sent"} /\ (e = "not_sent" => evidence[sw[s].gen] = "not_sent")
    BY <1>1, <2>1
  <2>3. q \in S /\ q.gen = sw[s].gen
    BY <2>1 DEF S
  <2> HIDE DEF q, e
  <2>4. r \in S /\ r.gen = sw[s].gen /\ r.answer = e
    BY <2>2, <2>3 DEF S
  <2>5. sw' = [sw EXCEPT ![s] = r]
    <3>1. sw' = [sw EXCEPT ![s].pc = "settle", ![s].answer = e]
      BY <1>4 DEF SweepQuery, e
    <3> QED BY <1>1, <3>1, ZenonT(30) DEF q, S
  <2> HIDE DEF r
  <2>6. sw' \in [Sweeper -> S] /\ \A x \in Sweeper : sw'[x] = IF x = s THEN r ELSE sw[x]
    BY <1>1, <2>4, <2>5
  <2>7. Quiet
    BY <1>4 DEF SweepQuery
  <2>8. SweepersOK'
    BY <1>1, <2>1, <2>2, <2>4, <2>6, <2>7 DEF SweepersOK
  <2> QED BY <1>2, <2>6, <2>7, <2>8
<1>5. CASE Quiet /\ sw' = [sw EXCEPT ![s] = NotSweeping]
  <2>1. sw' \in [Sweeper -> S] /\ SweepersOK'
    BY <1>5, SweepersStay, ZenonT(30) DEF S
  <2> QED BY <1>2, <1>5, <2>1
<1>6. CASE SweepSettle(s)
  <2>1. CASE UNCHANGED <<req, att>>
    BY <1>5, <1>6, <2>1 DEF SweepSettle
  <2>2. CASE ~ UNCHANGED <<req, att>>
    BY <1>6, <2>2, SweepSettleIInv
  <2> QED BY <2>1, <2>2
<1>7. CASE SweepSkip(s)
  BY <1>5, <1>7 DEF SweepSkip
<1> QED BY <1>3, <1>4, <1>6, <1>7 DEF SweepStep

\* What happens around the owner: an authorization ends, Control learns.
LEMMA AroundIInv ==
  ASSUME IInv, NEW g \in Gen, AuthorizationEnds(g) \/ ControlSettles(g)
  PROVE  IInv' /\ Fenced
<1>1. /\ auth \in [Gen -> BOOLEAN] /\ evidence \in [Gen -> {"unknown", "sent", "not_sent"}]
      /\ UNCHANGED <<req, att, cl, sw>>
  BY DEF IInv, TypeOK, AuthorizationEnds, ControlSettles
<1>2. /\ auth' \in [Gen -> BOOLEAN] /\ evidence' \in [Gen -> {"unknown", "sent", "not_sent"}]
      /\ \A h \in Gen : evidence[h] = "not_sent" => evidence'[h] = "not_sent"
  BY <1>1, ZenonT(30) DEF AuthorizationEnds, ControlSettles
<1>3. /\ cl' \in [Client -> [pc : {"idle", "request", "cancel"}, base : 0..MaxGen, input : Input \cup {None}]]
      /\ ClientsOK'
  <2>1. \A h \in Gen : Exists(h) => Exists(h)'
    BY <1>1 DEF Exists
  <2> QED BY <1>1, <2>1, ClientsStay
<1>4. /\ sw' \in [Sweeper -> [pc : {"idle", "query", "settle"}, gen : 0..MaxGen, answer : {"none", "unknown", "sent", "not_sent"}]]
      /\ SweepersOK'
  BY <1>1, <1>2, SweepersStay
<1> QED BY <1>1, <1>2, <1>3, <1>4, StayIInv

\* Every step keeps the invariant and is a step of TaskFence.
LEMMA NextIInv == IInv /\ [Next]_vars => IInv' /\ Fenced
<1> SUFFICES ASSUME IInv, [Next]_vars PROVE IInv' /\ Fenced
  OBVIOUS
<1>1. ASSUME NEW c \in Client, ClientStep(c) PROVE IInv' /\ Fenced
  BY <1>1, ClientIInv
<1>2. ASSUME NEW g \in Gen, NEW w \in Worker, WorkerStep(g, w) PROVE IInv' /\ Fenced
  <2>1. CASE Claim(g, w)
    BY <1>2, <2>1, ClaimIInv
  <2>2. CASE Heartbeat(g, w)
    BY <1>2, <2>2, HeartbeatIInv
  <2>3. CASE \E result \in {"ok", "mismatch", "failed"} : Submit(g, w, result)
    BY <1>2, <2>3, SubmitIInv
  <2> QED BY <1>2, <2>1, <2>2, <2>3 DEF WorkerStep
<1>3. ASSUME NEW s \in Sweeper, SweepStep(s) \/ SweepSkip(s) PROVE IInv' /\ Fenced
  BY <1>3, SweepIInv
<1>4. ASSUME NEW g \in Gen, AuthorizationEnds(g) \/ ControlSettles(g) PROVE IInv' /\ Fenced
  BY <1>4, AroundIInv
<1>5. CASE Tick
  BY <1>5, TickIInv
<1>6. CASE UNCHANGED vars
  <2>1. UNCHANGED <<req, att, auth, evidence, cl, sw>>
    BY <1>6 DEF vars
  <2>2. /\ auth' \in [Gen -> BOOLEAN] /\ evidence' \in [Gen -> {"unknown", "sent", "not_sent"}]
        /\ cl' \in [Client -> [pc : {"idle", "request", "cancel"}, base : 0..MaxGen, input : Input \cup {None}]]
        /\ sw' \in [Sweeper -> [pc : {"idle", "query", "settle"}, gen : 0..MaxGen, answer : {"none", "unknown", "sent", "not_sent"}]]
    BY <2>1 DEF IInv, TypeOK
  <2>3. ClientsOK' /\ SweepersOK'
    BY <2>1 DEF IInv, ClientsOK, SweepersOK, Exists
  <2> QED BY <2>1, <2>2, <2>3, StayIInv
<1> QED BY <1>1, <1>2, <1>3, <1>4, <1>5, <1>6 DEF Next

\* The invariant, of every reachable state.
THEOREM Invariance == Spec => []IInv
<1>1. Init => IInv
  BY InitIInv
<1>2. IInv /\ [Next]_vars => IInv'
  BY NextIInv
<1> QED BY <1>1, <1>2, PTL DEF Spec

\* The rows, the attempts and what the clients and the sweepers remember
\* have their types (queries/background.sql).
THEOREM TypeCorrect == Spec => []TypeOK
<1>1. IInv => TypeOK
  BY DEF IInv
<1> QED BY <1>1, Invariance, PTL

\* The attempts of every generation tell its story, for any number of
\* workers, clients and sweepers (task.go:55-61).
THEOREM StoryTold == Spec => []AttemptsTellStory
<1>1. IInv => AttemptsTellStory
  <2> SUFFICES ASSUME IInv, NEW g \in Gen
               PROVE  /\ req[g].attempts <= MaxAttempts
                      /\ \A n \in Ordinal : (att[g][n].worker # None) <=> (n <= req[g].attempts)
                      /\ \A m, n \in Ordinal : att[g][m].worker = att[g][n].worker /\ att[g][m].worker # None => m = n
                      /\ \A n \in Ordinal : att[g][n].worker # None /\ att[g][n].outcome = "none" <=> (req[g].state = "leased" /\ n = req[g].attempts)
                      /\ \A n \in Ordinal : att[g][n].outcome = "accepted" <=> (req[g].state = "accepted" /\ n = req[g].attempts)
                      /\ req[g].state \in {"leased", "accepted"} => req[g].attempts > 0 /\ req[g].worker = Current(g).worker
    BY DEF AttemptsTellStory
  <2>1. req[g] \in Request /\ Story(req[g], att[g], evidence[g])
    BY DEF IInv, TypeOK
  <2>2. req[g].attempts \in 0..MaxAttempts
    BY <2>1 DEF Request
  <2>3. req[g].attempts <= MaxAttempts
    BY <2>2, TasksAssumption DEF TasksAssumption
  <2>4. req[g].attempts > 0 => Current(g) = att[g][req[g].attempts]
    BY <2>2, TasksAssumption DEF Current, TasksAssumption
  <2> QED BY <2>1, <2>3, <2>4 DEF Story
<1> QED BY <1>1, Invariance, PTL

\* At most the newest generation is open, and generations have no gaps
\* (tasks.go:125-129).
THEOREM NewestOnly == Spec => []OnlyNewestOpen
<1>1. IInv => OnlyNewestOpen
  BY DEF IInv
<1> QED BY <1>1, Invariance, PTL

\* No external-effect lease that ran out is given to another worker without
\* Control's record that nothing was sent (task.go:530-533).
THEOREM EvidenceNeeded == Spec => []ExpiredExternalNeedsEvidence
<1>1. IInv => ExpiredExternalNeedsEvidence
  BY DEF IInv, Story, ExpiredExternalNeedsEvidence
<1> QED BY <1>1, Invariance, PTL

\* What has ended stays as it ended (task.go:295-297).
THEOREM EndedForGood == Spec => EndedStays
<1>1. IInv /\ [Next]_vars => [\A g \in Gen : req[g].state \in Terminal => req'[g] = req[g] /\ att'[g] = att[g]]_vars
  BY NextIInv DEF Fenced
<1> QED BY <1>1, Invariance, PTL DEF Spec, EndedStays

\* The owner implements TaskFence: the empty tables are its initial state
\* and every step is one of its steps or a stutter.
THEOREM FenceKept == Spec => KeepsFence
<1>1. Init => Fence!Init
  <2> SUFFICES ASSUME Init PROVE Fence!Init
    OBVIOUS
  <2>1. [g \in Gen |-> StatusOf(req[g])] = [g \in Gen |-> "none"]
    BY DEF Init, StatusOf, NoRequest
  <2>2. [g \in Gen |-> {att[g][n].worker : n \in Ordinal} \ {None}] = [g \in Gen |-> {}]
    <3>1. \A g \in Gen : \A n \in Ordinal : att[g][n].worker = None
      BY DEF Init, NoAttempt
    <3> QED BY <3>1
  <2> QED BY <2>1, <2>2, Zenon DEF Fence!Init
<1>2. IInv /\ [Next]_vars => [Fence!Next]_(Fence!vars)
  BY NextIInv, Zenon DEF Fenced
<1> QED BY <1>1, <1>2, Invariance, PTL DEF Spec, KeepsFence, Fence!Spec
=============================================================================
