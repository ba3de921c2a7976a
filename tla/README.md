# TLA+ verification of the MCP service

This directory holds TLA+ models of the MCP service of the AnvilKit Agent
platform, the TLC configurations that check them on small instances, and proofs
checked by TLAPS. Every definition is translated from the Go and SQL sources;
`PROJECT.json` maps each one to the lines it models. Paths below are relative to
`src/internal/` unless they start with `src/` or `deploy/`.

## The system and its parts

The service owns three Postgres aggregates and runs as two or more replicas
(`deploy/chart/values.yaml`). Control (dispatch and grant policy) and the MCP
upstream servers are external.

| Part | Code | What it does | Here |
|---|---|---|---|
| Guarded tool execution | `application/calls.go`, `domain/call.go`, `queries/calls.sql` | records a call, asks Control for the one permission, commits the send marker, sends once, records and reports the outcome; a reconciler picks up what stopped halfway | `Calls`, `CallPromise` |
| Grant barrier | `application/grants.go`, `domain/grant.go` | registers a grant with Control; revokes it through a fence that ends when nothing of it is open | `Grants` |
| Calls under grants | both | the marker and the insert hold the grant's share lock; the barrier counts open calls | `Barrier` |
| Background tasks | `application/tasks.go`, `domain/task.go`, `queries/background.sql` | generations, leases, attempts, the expiry sweeper | `Tasks`, `TaskFence` |
| Catalog | `application/catalog.go`, `domain/catalog.go`, `application/authz.go` | discovery, review and disabling of descriptor revisions; disabling revokes grants; roles keep the duties apart | `Catalog` |
| Catalog refresh | `application/refresh.go` | a background task that reads the server again and disables a drifted revision | `Catalog` |
| Outbox | `adapters/outbox` | events leave the transaction through watermill to NATS; each replica consumes them | `Projection` (its order against the locks: `Catalog`) |
| Credential projection | `application/projection.go`, `adapters/upstream/oauth.go` | events evict cached tokens, behind a revision gate | `Projection` |
| Configuration | `bootstrap/generations.go` | reload by generations, each with a pool and a forwarder | `Generations` |
| Process life cycle | `bootstrap/module.go`, `health.go`, `schema.go` | start with its unwinding, loops, readiness, the order of a graceful stop | `Generations`; the stop of the sends: `Calls` |
| One replica | all of the last four | a generation's forwarder carries its event consumer; the gate and the cache are the process's | `Replica` |
| gRPC conversion, certificates, ContextForge, CLI | `transport`, `adapters/contextforge`, `src/cmd` | conversion and I/O | not modelled |

How they interact: a call names a grant, a grant names an approved descriptor
revision, a refresh task may disable that revision, which revokes its grants in
the same transaction; the barrier of a revocation waits for the calls. Each of
these decisions publishes an event in its transaction; the forwarder of some
replica puts it on the stream, and the consumers of all replicas drop the tokens
it makes useless. The forwarder and the consumer live as long as the
configuration generation that built them.

## Modules

### Calls

State: `row` is `tool_requests` (state, whether a dispatch id and the marker are
set, the marker's age, `observed_at`, `observation_sequence`); `ctl` is Control's
dispatch record; `wk` says where each worker is and what it has read; `replica`
is the process life cycle; `grant` is the grant's state. `sends` and `owner`
are history. One action is one database statement (or one transaction, where the
row locks make it atomic), one call of Control or one step of the send, so
everything another replica can do in between is explored. `CreateLock` and
`CreateInsert` are two steps because the transaction holds only a share lock.

Workers: `create` is the handler with its detached goroutine, `reconcile` the
loop of a replica, which works on snapshots of the rows it listed, `stop` is
`Calls.Shutdown`, `operate` an operator's `ReconcileCall`. Faults are explicit and
bounded: `Fail` (a statement fails or an answer is lost), `Crash`, and a graceful
stop that walks `closing`, `recording`, `drained`, `stopped`.

Control settles a dispatch it holds for unknown as `confirmed_not_sent`, or as
observed with any outcome its view may carry (`ViewOutcome`,
`application/calls.go:63-67`); `ctl[c].manual` remembers that it was settled there
and not by a report. `resolve` makes of it a success or, for everything else, a
failure (`calls.go:887-888`): a dispatch settled as canceled is failed here, and
`ReportedAgrees` says exactly this.

Abstracted: the request's content. Every check on it may refuse the call. The
throttle of `dueForResolve` is left out: a pass may resolve any unknown call.
Time is the marker's age; other ages are left open, so any unmarked row may be old enough to be listed.

### CallPromise

What `domain/call.go:13-17` says of one call, as a specification of its own:
tracked, then refused or marked, sent at most once and only when marked, then
settled or uncertain. `Calls` implements it (`KeepsPromise`).

### Grants

`grant` and `control` are columns of `grants`; `policy` is Control's record;
`ag` holds the executions of `advance`. Their calls of Control, the count of open
calls and the recording transaction are separate steps. The calls component
appears as five environment actions on `open`, `shared` and `busy`.

### Barrier

Extends `Calls`, instantiates `Grants` over the real calls: `open` is the number
of open rows, `shared` the share locks of `CreateCall`, `busy` what Control holds
in flight. `CallsFitGrants` says that the environment `Grants` assumes is what
`Calls` does.

### Tasks and TaskFence

One task with all generations: `req` is `background_requests`, `att` is
`task_attempts`. A transaction that locks a named generation is one step.
`GetLatestRequestForUpdate` is two: under read committed it picks the row on its
snapshot and then waits for its lock. Deadlines count down; a reading of a
replica's clock may be up to `Skew` ahead. `TaskFence` is the abstract promise:
generations follow each other, only the newest is workable, one holder at a
time, no worker twice, closed is closed.

### Catalog

One server with its revisions (`desc`), the recorded commands, its grants and
refresh tasks, and the outbox. A handler is one running request on any replica;
`tx` is where its transaction stands and what it has read, `held` the row locks
it holds. There is one action per statement that may wait for another
transaction (the server row, the descriptor row, the event revision, each grant
in turn, the task row, the grant `FOR SHARE`) and one for the commit, which applies the
transaction's writes; `Rollback` drops them. `BreakDeadlock` is Postgres's
deadlock detection and `Fail` stands for everything else that ends a transaction
early. `Replay` is the lookup of a recorded command, before and after the
duplicate key that a concurrent copy of the command causes.

A digest is the content it digests, so equality of digests is equality of
contents. `BuildDescriptor` and `DeclarationOf` are modelled by what they keep:
protocol, tools, version, the expected version, class and the scope of hosts.
`Bindings` are the role files an operator may deploy; `NewAuthorizer` refuses the
ones that give a reviewer the right to grant. A replica reads the file when it
starts (`bootstrap/module.go:147-156`), so `Restart` may bring another one at any
time; `roles` are the files replicas were started with, and a request is judged
by any of them, since a rollout or a rollback has several in force. Grants move through their barrier
by `BarrierMove`, the abstract steps of `Grants`; `Schedule` and `Lease` are the
part of `Tasks` a refresh goes through.

The outbox of `Catalog` has an entry from the moment a transaction gets its id,
which is when it takes its first row lock: watermill reads by transaction id, not
by commit.

### Generations

One process. `rt` is the runtime of each generation (pool and forwarder), `active`,
`store` and `bounds` the three places a reload changes one after the other, `th`
the two threads that do it: `main` runs the hooks of `module.go`, `watch` the
generation watcher. Requests read the store's pool and acquire a connection from
it in two steps. Every wait of the stop and of `retire` may end because what it
waited for happened or because its limit passed; the second marks the stop as
`forced`, as the code reports it. A forwarder's `Run` may return before it is
canceled (`RunReturns`): the code logs that and starts nothing again, so the active
generation may be one whose forwarder has `ended` until the next reload, and
`OneGeneration` allows it. The consumer's goroutine goes on. The wait inside
`forwarder.Close` (`adapters/outbox/forwarder.go:148-153`), which has its own limit,
is taken as instantaneous.

### Projection

One server with its grants, seen from a committed event on. The forwarders of all
replicas compete for one row that is locked from reading an entry to its
acknowledgement, and so are one forwarder. The consumers are those of one
replica, one per generation. `gate` and `cache` belong to the process. A call is
`recorded` while its grant is executable (`application/calls.go:330`) and asks for
its token later, in `send`, which reads the grant whatever its state: the check
and the request are two steps with the revocation and the eviction in between.
`overtaken` and `late` are history: which calls were recorded before an eviction
of their key, and which cached tokens such calls brought. The tokens of discovery are cached apart and can be requested again at any time;
nothing is claimed of them and they are left out.

### Replica

Extends both and joins them: the consumer of a generation runs exactly as its
forwarder does, except that it outlives a `Run` that returned early. Its `Budgets` bound the two parts together (see Bounds).

## Runs

| Run | Instance | Shows |
|---|---|---|
| `calls` | one call, one replica, an operator, one fault | single send, outcomes never overwritten, agreement with Control, refinement of `CallPromise` |
| `calls_live` | one replica that stops and restarts, one fault, fairness | nothing unmarked was sent; calls settle, outcomes are reported, resolutions arrive |
| `tasks` | two generations, two clients, three workers, a sweeper | attempts, supersession, refinement of `TaskFence` |
| `tasks_external` | external effects, three attempts, two sweepers, skewed clocks, fairness | an expired lease is released only on evidence, and does not stay |
| `grants` | one grant, two agents, two open calls, two errors, fairness | quiet end, registration, milestones, finality, completion |
| `barrier` | one call, one grant, one agent, a fault and an error | nothing is sent under a REVOKED grant; the calls fit `Grants` |
| `catalog` | one server, two revisions, two handlers, six commands, one refresh task, two accepted role files | no open grant on a withdrawn revision, separation of duties, drift found and withdrawn, one revision per content, the last event of a revision tells its state, which deadlocks can happen, decisions stay |
| `replica` | three generations, two changes, one request; or one reload with two events; or two events with tokens and a loss; or a reload and a stop with forwarders that end early; fairness | the store's pool is open, one generation at a time, quiet stops, readiness; no event lost before the stream, taken events are applied, evicted tokens stay out; stops complete, reloads arrive, events are forwarded |

The type invariants of `Calls`, `Grants`, `Tasks` and `Catalog` are theorems and in
no run; the one of `Replica` is checked by `replica`. `OnlyNewestOpen` of `Tasks` is a
theorem too, and a consequence of `KeepsFence`, which `tasks` checks.

Four runs are expected to end in a violation. Each checks one sentence of the
repository that the code does not keep:

- `calls_stop`: `Shutdown` is said to record UNKNOWN for every call of the process
  still marked (`application/calls.go:424-427`). A call sent by the process's own
  reconciler is not among those it looks at.
- `tasks_release`: only not-sent evidence is said to release an external-effect
  lease (`domain/task.go:519-521`). A reported failure releases it too.
- `tasks_cancel`: `Cancel` is said to cancel the latest generation
  (`application/tasks.go:409`). If it waited for a request that made a new one, it
  changes nothing.
- `catalog_order`: the events of an aggregate, read from the outbox in its order,
  are required to have increasing revisions (`application/projection_test.go:131`). The aggregate is the
  server, but a decision locks one revision of it: two decisions on two revisions
  can get their transaction ids in one order and their event revisions in the
  other. The revision gate then skips the event read second. What the code needs
  does hold: `LastEventTellsState` shows that the events of one *revision* are in
  order. A skipped event leaves a token cached that no admitted call can use
  (`application/projection.go:59-66`).

### What is not a run

- *A failed start with a forwarder.* `OnStart` unwinds by `rt.retire`
  (`bootstrap/module.go:354-364`), which calls `fwdCancel`; that is set only by
  `startForwarder`, which has not run then. `Generations` has this as
  the thread state `panicked`. The same state is reached by a forced stop that
  overtakes the watcher between publishing a generation and starting its
  forwarder. The process ends in both cases, and that is all `StopCompletes` claims.
- *Reviewer and grant manager.* `application/authz.go:20-22` says "the identity that
  approves a server's behavior never also hands out access to it". `NewAuthorizer`
  enforces it within one role file. The model shows what is left when files change:
  gus reviews under a file that makes them a reviewer, the operator deploys one
  that makes them a grant manager, and gus grants what they approved. The same
  happens within one rollout, when two replicas still run different files.
  `AccessIsSeparated` states what the code does guarantee: nobody approves what
  they discovered, and approval and grant are by one person only if two
  different files gave them the two roles.
- *A forwarder that ended.* `ForwardedInTheEnd` assumes that the forwarder of some
  replica runs. `startForwarder` does not start one again whose `Run` returned; if
  that happens on all replicas, events wait for the next reload or restart.
- *A call that outlives its grant's revocation.* A call recorded before the
  eviction may still request a token and cache it. `EvictedStaysOut` claims that
  no other call does; admission keeps the token from being used
  (`application/projection.go:59-66`).
- *An event whose handling fails.* The gate admits an event before its handler
  reads the owner's record. A reload that retires the consumer at that moment
  fails the read, and the same event, also delivered to the next generation's
  consumer, is stale by then. `TakenIsApplied` lists such an event as `failed`, and says
  nothing of events that no consumer was subscribed for; the code accepts both by
  the comment quoted above.
- *Deadlocks.* `OnlyAcceptanceDeadlocks` is exact: the acceptance of a drift holds
  its grant `FOR SHARE` and waits for the descriptor, while `Disable` holds the
  descriptor and waits for the grant. Postgres ends one of them, and the model
  goes on from there.

### Bounds

One call is enough for the properties of `Calls`, all of which are about a single
row; the only coupling of two calls is the restriction of a server with an
unknown call, which can only refuse a new call. Two calls exceed eight million
states, and so do two replicas with faults: that any number of replicas sends
once is a theorem (below), and the run with one replica checks what is not. `SendTimeout = Grace = 1` and `ReconcileAge = 3` keep the order the
configuration enforces and let the marker be inside its bound, in the grace time
and past it. One fault suffices for each window between two steps; a stop and
an operator are explored in separate runs because together they are too large.
`barrier` has no graceful stop, and with one `NothingSentAfterRevoked` does not
hold (TLC finds a 32-state behaviour with `MaxStops = 1`): `Shutdown` records
UNKNOWN for a call that is marked but whose goroutine has not sent yet, an
operator at Control settles the dispatch, the reconciler takes the settlement
over, the barrier ends, and then the goroutine sends. The operator would have
to answer within the send bound; no sentence of the repository excludes it, so
it is listed as a hazard. The property is claimed for processes that do not stop
gracefully in the middle of a send. Crashes are included.
Three workers and three attempts let a stale sweep meet a later attempt.

`catalog`: two handlers are enough for every pair of transactions, which is what
each property is about; the commands are two discoveries by two people, two
alternative approvals (by ann, who may have discovered the revision, and by gus, who
also asks for the grant), a disabling and a grant. Of the three role files one
makes gus a grant manager, one a reviewer, and the third, with both, is
refused. The live server may be the reviewed one, a new version or one with a
tool more. An instance with a grant by a second person was run once and passes
(7.9 million states). The handlers are symmetric.

`tasks` has `Skew = 0` and `tasks_external` `Skew = 1`; the theorems of `TasksProofs` hold
for any skew.

`replica`: the product of all bounds is out of reach, so each behaviour chooses
one of four `Budgets` at its start. `Reloads`: two changes among a configuration
with a forwarder, one without, one that needs a restart and one that does not
load, with a request and a stop. `Handover`: one reload, two events, so that two consumers
run with two events under way. `Tokens`: no reload, two events, a token fetch and one
loss (an acknowledgement, a subscription or a read). `Ends`: one reload and a stop, with
forwarders whose `Run` may return at any time; no other budget has that. `GateLimit = 1` makes the
gate forget with the second aggregate.

Deadlock of the model is not checked where it ends: in states where everything is
settled and every bound is used up, or where the process has stopped. `catalog`
checks it.

### Fairness

`Calls`: the reconciler of a running process takes its next step and works off
its page, every pass lists each row that is old enough (strong, because the row
may leave and re-enter the listing), a send returns (its context bounds it), time
passes, and Kubernetes restarts a stopped Pod. Creators, operators and stops are
not assumed to make progress. `Tasks`: the sweepers run their passes (strong, as
other workers may take the lease between the steps). `Grants`: the reconciler
advances open barriers, and calls end, which `CallSettles` shows except for
unknown calls that wait for an operator at Control. A revocation with such a call
really waits for that operator. `Generations`: both threads are scheduled, and a
candidate that is probed for ever succeeds in the end (strong); nothing is
assumed of requests, of the forwarder's goroutines or of pools that drain.
`Projection`: transactions end, some replica's forwarder runs; nothing is assumed
of consumers.

## Proofs

Checked by TLAPS for every value of the constants that satisfies the modules'
assumptions: any number of calls, replicas, operators, grants, agents, tasks, workers, faults
and stops.

- `CallsProofs`: `TypeCorrect`, `SendOnce` (`AtMostOneSend`), `NeverSentUnmarked`
  (`UnmarkedNeverSent`). `AtMostOneSend` is not inductive: it needs that only one
  worker can be about to send. `IInv` adds `RowOK` (a row that is not sent yet has
  no marker, and what was sent is marked), `CarryOK` (the call and the value a
  worker carries, among them that what it is about to resolve is still Control's
  record) and `MarkedOK` (a worker that has just committed the marker has a
  marked call that was not sent, and no other worker is there with the same
  call). One lemma per action shows that it is preserved.
- `CallPromiseProofs`: `UncertainStays` (`UncertainOnlyResolved`) and `Implements`
  (`KeepsPromise`): each action has an `Effect` on one call's state, and each effect
  is a step of `CallPromise` or none.
- `CallReportProofs`: `ReportsAgree` (`ReportedAgrees`). Outcomes are loaded, carried
  and reported later, so the property is not inductive. `RInv` adds `RecordOK` (a row
  past its admission was allowed by Control; what Control holds for unknown is unknown
  here; what a report settled is the row's outcome; what was settled at Control is
  the outcome `resolve` makes of it, or the row is unknown and still to follow),
  `StepOK` and `PageOK` (an outcome a worker or a page loaded earlier is
  still the row's, or was unknown and Control has settled it since).
- `CallSendProofs`: `SendKeepsOutcome` (`InBoundSendKeepsOutcome`), for any time bounds
  that satisfy the validation of the configuration. `SInv` adds that one worker at most is past the
  marker of a call until it has recorded the outcome, and that a send in flight is
  no older than its bound. The second rests on the guard of `Tick`: the send's
  context ends it.
- `GrantsProofs`: `TypeCorrect`, `RevokedQuiet`, `ActiveRegistered`,
  `MilestonesReachedOnce`, `RevocationIsFinal`. The invariant adds `KnowsOK` (an
  agent that carries a receipt, a barrier or a count learned something that is
  still true: registrations and convergence are never undone, and the open calls
  only become fewer once the grant is REVOKING) and `FencedOff` (a committed
  revocation excludes the share locks under which a call becomes open).
- `TasksProofs`: `TypeCorrect`, `StoryTold` (`AttemptsTellStory`), `NewestOnly`
  (`OnlyNewestOpen`), `EvidenceNeeded` (`ExpiredExternalNeedsEvidence`), `EndedForGood`
  (`EndedStays`) and `FenceKept` (`KeepsFence`), for any bounds and any skew of the
  clocks. `IInv` joins what the run checks of a generation into one `Story` of its
  row, its attempts and Control's record, with the ordinals not used yet blank,
  and adds `ClientsOK` (the generation a client picked still exists when it gets
  the lock) and `SweepersOK` (a sweeper's not-sent answer, however old, is
  still Control's record; without it the evidence is not inductive). Each decision
  of `task.go` has a lemma on stories; an action on one row is its story lemma and
  its `Effect`, which is a step of `TaskFence`; a takeover of an expired lease is
  shown as a retry and a claim. `RequestNext` changes two rows and is
  `TaskFence`'s `Issue`.
- `CatalogProofs`: `TypeCorrect`, `OpenGrantsApproved`, `DriftWithdrawn`, `AccessSeparated` and
  `DecisionsAreKept`, for any number of handlers, commands, tasks, live servers and
  role files, deployed in any order. The assumption `CatalogAssumption` says what the validation of the
  messages lets through. None of the invariants is inductive: each depends on what
  a transaction read under its locks being still true at its commit. `IInv` adds
  `Exclusive` (two handlers hold a row together only if both share it), `Running`
  (the locks a handler holds are those of the statements behind it), `Deciding`
  (what it has read of the descriptor, and, for a disabling, that every open
  grant of the revision is locked or still to be locked, and that no other can
  appear), `RevisionsOK`, `GrantsOK` and `TasksOK` (who decided, and that grants and
  tasks are only on revisions that were approved; who decided had the right under
  some role file, which another file does not take back). TLC checked `IInv` on the
  instance of `catalog` before it was proved. One lemma per statement.

Only model-checked: liveness, which needs fairness; `Barrier`, including
`CallsFitGrants`, through which the theorems of `Grants` carry over to the
composition on the checked instance; `DriftIsReal`, `OneRevisionPerDigest`,
`LastEventTellsState` and `OnlyAcceptanceDeadlocks` of `Catalog`; and all of
`Generations`, `Projection` and `Replica`.

## Not modelled

- Message conversion (`transport/grpc`), telemetry, metrics and the CLI keep no
  state. Read operations (Get, List) change none and are left out.
- `transport/identity`: certificates, their reload and the connections they
  protect. A handshake begun under the previous material can register its
  connection after the reload closed the retired ones; it is listed as a hazard
  without a property.
- `adapters/contextforge`, and of `adapters/upstream` the dialing, the egress rules
  and the parsing of a server's answers: I/O whose result is a choice of the models.
- `config/config.go`: the validation of the configuration is one predicate; the
  order of time bounds it enforces is assumed by `Calls`.
- Retention of inbox entries and of the attempts of ended tasks; the tokens of
  discovery; the sizes of requests and results.
- The check of unknown calls and the insert are not atomic in the code and not in
  the model; no property relies on it.

## Plan

1. Proofs: `Barrier`, and the safety of `Generations` and `Projection`.
2. Two replicas over one outbox, for what a reload of one means for the other.
3. `transport/identity`: material, handshakes and the tracker of connections.
