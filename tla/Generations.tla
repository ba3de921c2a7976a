---------------------------- MODULE Generations ----------------------------
(***************************************************************************)
(* One process of the service: its start and stop (bootstrap/module.go)    *)
(* and its configuration generations (bootstrap/generations.go), each with *)
(* a database pool and a forwarder.                                        *)
(*                                                                         *)
(* Two threads share the generations: "main" runs the OnStart and OnStop   *)
(* hooks, "watch" the generation watcher.  Both run activate and retire,   *)
(* one action per step another thread or a request can see.                *)
(*                                                                         *)
(* Every wait of a stop has a limit; the limit is modelled by a choice to  *)
(* go on without what was waited for, which marks the stop as forced.      *)
(***************************************************************************)
EXTENDS Naturals, FiniteSets

CONSTANTS
    Inputs,         \* what the configuration inputs may say: records with
                    \*   release (told apart by their digest), fixed (the
                    \*   sections only a restart applies), loads (LoadFrom
                    \*   accepts them) and forwards (forwarder enabled)
    MaxGen,         \* bound: generations built
    MaxChange,      \* bound: changes of the inputs
    Request         \* requests running at the same time

ASSUME GenerationsAssumption ==
    /\ MaxGen \in Nat \ {0} /\ MaxChange \in Nat
    /\ \A i \in Inputs : i.loads \in BOOLEAN /\ i.forwards \in BOOLEAN

Gen == 1 .. MaxGen
Thread == {"main", "watch"}

VARIABLES
    inputs,     \* the configuration inputs as they are now
    changes,    \* how often they changed
    rt,         \* the runtime each generation owns
    active,     \* Generations.active (0: none)
    number,     \* Generations.number
    store,      \* the generation whose pool the store hands out
    bounds,     \* the generation whose bounds and expiry the tasks use
    th,         \* the two threads
    loops,      \* the loops' context: "off", "on", "canceled"
    srv,        \* the gRPC listener: "closed", "bound", "serving", "stopped"
    ready,      \* Health.ready
    schema,     \* the schema verdict: "behind" withholds readiness
    forced,     \* some drain reached its limit
    req         \* requests: the pool they read and whether they hold a connection

process == <<active, number, store, bounds, loops, srv, ready, schema, forced>>
genVars == <<inputs, changes, rt, th, process, req>>

NoRuntime == [pool |-> "none", fwd |-> "none", inputs |-> CHOOSE i \in Inputs : TRUE]
Built(i) == [pool |-> "open", fwd |-> IF i.forwards THEN "built" ELSE "nil", inputs |-> i]
NoRequest == [pc |-> "none", gen |-> 0]

Pc(t, pc) == th[t].pc = pc
Goto(t, pc) == th' = [th EXCEPT ![t].pc = pc]
-----------------------------------------------------------------------------
(* activate: publish, start the forwarder, swap, tune, retire the previous.*)

Publish(t) ==
    /\ Pc(t, "publish")
    /\ active' = th[t].gen
    /\ th' = [th EXCEPT ![t].pc = "forwarder", ![t].old = active]
    /\ UNCHANGED <<inputs, changes, rt, number, store, bounds, loops, srv, ready, schema, forced, req>>

StartForwarder(t) ==
    /\ Pc(t, "forwarder")
    /\ rt' = [rt EXCEPT ![th[t].gen].fwd = IF @ = "built" THEN "running" ELSE @]
    /\ Goto(t, "swap")
    /\ UNCHANGED <<inputs, changes, process, req>>

\* A plausible error: the store keeps the previous pool.
SwapNot(t) ==
    /\ Pc(t, "swap")
    /\ Goto(t, "tune")
    /\ UNCHANGED <<inputs, changes, rt, process, req>>

Swap(t) ==
    /\ Pc(t, "swap")
    /\ store' = th[t].gen
    /\ Goto(t, "tune")
    /\ UNCHANGED <<inputs, changes, rt, active, number, bounds, loops, srv, ready, schema, forced, req>>

\* SetBounds and SetExpiry; then the previous generation, if any, is retired.
Tune(t) ==
    /\ Pc(t, "tune")
    /\ bounds' = th[t].gen
    /\ Goto(t, IF th[t].old # 0 THEN "cancel" ELSE IF t = "main" THEN "schema" ELSE "idle")
    /\ UNCHANGED <<inputs, changes, rt, active, number, store, loops, srv, ready, schema, forced, req>>
-----------------------------------------------------------------------------
(* retire.                                                                 *)

\* fwdCancel and forwarder.Close.  fwdCancel is set by startForwarder: of a
\* forwarder that was never started it is nil, and the call panics.
CancelForwarder(t) ==
    LET f == rt[th[t].old].fwd
    IN /\ Pc(t, "cancel")
       /\ rt' = [rt EXCEPT ![th[t].old].fwd = IF @ \in {"running", "ended"} THEN "canceled" ELSE @]
       /\ Goto(t, CASE f = "built" -> "panicked" [] f = "nil" -> "close" [] OTHER -> "drained")
       /\ UNCHANGED <<inputs, changes, process, req>>

\* The forwarder's Run returns before it was canceled: that is logged, and
\* nothing starts it again.  The consumer's goroutine goes on.
RunReturns(g) ==
    /\ rt[g].fwd = "running"
    /\ rt' = [rt EXCEPT ![g].fwd = "ended"]
    /\ UNCHANGED <<inputs, changes, th, process, req>>

\* The forwarder's and the consumer's goroutines have both ended.
ForwarderEnds(g) ==
    /\ rt[g].fwd = "canceled"
    /\ rt' = [rt EXCEPT ![g].fwd = "done"]
    /\ UNCHANGED <<inputs, changes, th, process, req>>

\* A wait for what has happened, or its limit.
Await(t, pc, happened, next) ==
    /\ Pc(t, pc)
    /\ forced' \in (IF happened THEN {forced} ELSE {TRUE})
    /\ Goto(t, next)

WaitForwarder(t) ==
    /\ Await(t, "drained", rt[th[t].old].fwd = "done", "close")
    /\ UNCHANGED <<inputs, changes, rt, active, number, store, bounds, loops, srv, ready, schema, req>>

\* pool.Close refuses new connections and waits for the acquired ones.
ClosePool(t) ==
    /\ Pc(t, "close")
    /\ rt' = [rt EXCEPT ![th[t].old].pool = "closing"]
    /\ Goto(t, "closed")
    /\ UNCHANGED <<inputs, changes, process, req>>

PoolCloses(g) ==
    /\ rt[g].pool = "closing"
    /\ rt[g].fwd \notin {"running", "canceled"}
    /\ \A q \in Request : req[q] # [pc |-> "connected", gen |-> g]
    /\ rt' = [rt EXCEPT ![g].pool = "closed"]
    /\ UNCHANGED <<inputs, changes, th, process, req>>

\* A plausible error: the pool's drain is awaited without the limit.
WaitPoolUnlimited(t) ==
    /\ Pc(t, "closed") /\ rt[th[t].old].pool = "closed"
    /\ Goto(t, IF t = "watch" THEN "idle" ELSE IF loops = "off" THEN "failed" ELSE "stopped")
    /\ UNCHANGED <<inputs, changes, rt, active, number, store, bounds, loops, srv, ready, schema, forced, req>>

\* Then the watcher waits for its next tick, and the hook returns.
WaitPool(t) ==
    /\ Await(t, "closed", rt[th[t].old].pool = "closed",
             IF t = "watch" THEN "idle" ELSE IF loops = "off" THEN "failed" ELSE "stopped")
    /\ UNCHANGED <<inputs, changes, rt, active, number, store, bounds, loops, srv, ready, schema, req>>

Activation(t) == Publish(t) \/ StartForwarder(t) \/ Swap(t) \/ Tune(t)
Retirement(t) == CancelForwarder(t) \/ WaitForwarder(t) \/ ClosePool(t) \/ WaitPool(t)
-----------------------------------------------------------------------------
(* The watcher: Reload.                                                    *)

\* A plausible error: every section is taken for the generation's.
NoChangeNeedsRestart(a, c) == FALSE

\* nonReloadableChanges: a section outside the generation's differs.
NonReloadableChanges(a, c) == a.fixed # c.fixed

\* LoadFrom and the checks before anything is built: inputs that do not
\* load, that are the active ones, or that need a restart are left alone.
\* Without an active generation every section differs from the empty one.
Candidate(i) ==
    /\ i.loads
    /\ active # 0 /\ i # rt[active].inputs /\ ~ NonReloadableChanges(rt[active].inputs, i)

Load ==
    /\ Pc("watch", "idle")
    /\ Candidate(inputs) /\ number < MaxGen
    /\ th' = [th EXCEPT !["watch"] = [pc |-> "probe", gen |-> number + 1, old |-> 0]]
    /\ rt' = [rt EXCEPT ![number + 1] = [Built(inputs) EXCEPT !.fwd = "none"]]
    /\ UNCHANGED <<inputs, changes, process, req>>

\* A plausible error: a candidate refused by its probe keeps its pool.
RejectLeaking ==
    /\ Pc("watch", "probe") \/ (Pc("watch", "connect") /\ rt[th["watch"].gen].inputs.forwards)
    /\ Goto("watch", "idle")
    /\ UNCHANGED <<inputs, changes, rt, process, req>>

\* A plausible error: the watcher ends with the first refused candidate.
RejectExits ==
    /\ Pc("watch", "probe") \/ (Pc("watch", "connect") /\ rt[th["watch"].gen].inputs.forwards)
    /\ rt' = [rt EXCEPT ![th["watch"].gen].pool = "closed"]
    /\ Goto("watch", "exited")
    /\ UNCHANGED <<inputs, changes, process, req>>

\* buildRuntime: a probe or the forwarder's connection fails and the pool
\* is closed, or the candidate is built and becomes the next generation.
\* The database probe ends with the loops' context.
Reject ==
    /\ Pc("watch", "probe") \/ (Pc("watch", "connect") /\ rt[th["watch"].gen].inputs.forwards)
    /\ rt' = [rt EXCEPT ![th["watch"].gen].pool = "closed"]
    /\ Goto("watch", "idle")
    /\ UNCHANGED <<inputs, changes, process, req>>

Ping ==
    /\ Pc("watch", "probe") /\ loops = "on"
    /\ Goto("watch", "connect")
    /\ UNCHANGED <<inputs, changes, rt, process, req>>

Build ==
    /\ Pc("watch", "connect")
    /\ rt' = [rt EXCEPT ![th["watch"].gen] = Built(@.inputs)]
    /\ number' = th["watch"].gen
    /\ Goto("watch", "publish")
    /\ UNCHANGED <<inputs, changes, active, store, bounds, loops, srv, ready, schema, forced, req>>

\* Watch returns when the loops' context ends.
WatchExit ==
    /\ Pc("watch", "idle") /\ loops = "canceled"
    /\ Goto("watch", "exited")
    /\ UNCHANGED <<inputs, changes, rt, process, req>>
-----------------------------------------------------------------------------
(* OnStart.                                                                *)

\* health.Start, then srv.Listen; a failure unwinds and retires the runtime.
Listen(pc, next, bound) ==
    /\ Pc("main", pc)
    /\ \/ Goto("main", next) /\ srv' = bound
       \/ th' = [th EXCEPT !["main"].pc = "cancel", !["main"].old = 1] /\ srv' = "closed"
    /\ UNCHANGED <<inputs, changes, rt, active, number, store, bounds, loops, ready, schema, forced, req>>

StartHealth == Listen("health", "listen", srv)
StartListen == Listen("listen", "publish", "bound")

\* The first schema check; the loops start.
CheckSchema ==
    /\ Pc("main", "schema")
    /\ schema' \in {"holds", "behind"}
    /\ loops' = "on"
    /\ th' = [th EXCEPT !["main"].pc = "serve", !["watch"].pc = "idle"]
    /\ UNCHANGED <<inputs, changes, rt, active, number, store, bounds, srv, ready, forced, req>>

\* watchSchema: once the schema holds, the watch ends.
SchemaHolds ==
    /\ schema = "behind" /\ loops = "on" /\ schema' = "holds"
    /\ UNCHANGED <<inputs, changes, rt, th, active, number, store, bounds, loops, srv, ready, forced, req>>

Serve ==
    /\ Pc("main", "serve")
    /\ srv' = "serving" /\ ready' = TRUE
    /\ Goto("main", "serving")
    /\ UNCHANGED <<inputs, changes, rt, active, number, store, bounds, loops, schema, forced, req>>
-----------------------------------------------------------------------------
(* OnStop.                                                                 *)

StopBegins ==
    /\ Pc("main", "serving")
    /\ ready' = FALSE /\ Goto("main", "drain")
    /\ UNCHANGED <<inputs, changes, rt, active, number, store, bounds, loops, srv, schema, forced, req>>

\* srv.Stop: GracefulStop ends with the last call, or its limit forces it.
\* The sends (calls.Shutdown) are in Calls.  Then cancelLoops.
StopServer ==
    /\ Await("main", "drain", \A q \in Request : req[q] = NoRequest, "loops")
    /\ srv' = "stopped" /\ loops' = "canceled"
    /\ UNCHANGED <<inputs, changes, rt, active, number, store, bounds, ready, schema, req>>

\* A plausible error: the watcher is not among the loops waited for.
WaitLoopsNot ==
    /\ Pc("main", "loops") /\ Goto("main", "shutdown")
    /\ UNCHANGED <<inputs, changes, rt, process, req>>

\* The loops are waited for until the hook's own deadline.
WaitLoops ==
    /\ Await("main", "loops", Pc("watch", "exited"), "shutdown")
    /\ UNCHANGED <<inputs, changes, rt, active, number, store, bounds, loops, srv, ready, schema, req>>

\* Generations.Shutdown: nothing is active any more, and it is retired.
Shutdown ==
    /\ Pc("main", "shutdown")
    /\ active' = 0
    /\ th' = [th EXCEPT !["main"].pc = IF active = 0 THEN "stopped" ELSE "cancel", !["main"].old = active]
    /\ UNCHANGED <<inputs, changes, rt, number, store, bounds, loops, srv, ready, schema, forced, req>>
-----------------------------------------------------------------------------
(* Requests and the world.                                                 *)

Alive == ~ Pc("main", "stopped") /\ ~ Pc("main", "failed") /\ ~ Pc("main", "panicked")

\* A handler or a loop reads the store's pool, then acquires a connection
\* from what it read; a pool that is closing gives none.
Begin(q) ==
    /\ req[q] = NoRequest /\ srv = "serving"
    /\ req' = [req EXCEPT ![q] = [pc |-> "read", gen |-> store]]
    /\ UNCHANGED <<inputs, changes, rt, th, process>>

Acquire(q) ==
    /\ req[q].pc = "read"
    /\ req' = [req EXCEPT ![q] = IF rt[@.gen].pool = "open" THEN [@ EXCEPT !.pc = "connected"] ELSE NoRequest]
    /\ UNCHANGED <<inputs, changes, rt, th, process>>

EndRequest(q) ==
    /\ req[q].pc = "connected"
    /\ req' = [req EXCEPT ![q] = NoRequest]
    /\ UNCHANGED <<inputs, changes, rt, th, process>>

\* The file, the environment's secrets or the Apollo snapshot change.
ChangeInputs ==
    /\ changes < MaxChange /\ changes' = changes + 1
    /\ inputs' \in Inputs \ {inputs}
    /\ UNCHANGED <<rt, th, process, req>>

GenInit ==
    /\ inputs \in {i \in Inputs : i.loads}
    /\ changes = 0
    /\ rt = [g \in Gen |-> IF g = 1 THEN Built(inputs) ELSE NoRuntime]
    /\ active = 0 /\ number = 1 /\ store = 1 /\ bounds = 1
    /\ th = [main |-> [pc |-> "health", gen |-> 1, old |-> 0], watch |-> [pc |-> "off", gen |-> 0, old |-> 0]]
    /\ loops = "off" /\ srv = "closed" /\ ready = FALSE /\ schema = "unread" /\ forced = FALSE
    /\ req = [q \in Request |-> NoRequest]

MainStep ==
    \/ StartHealth \/ StartListen \/ CheckSchema \/ Serve \/ Activation("main")
    \/ StopServer \/ WaitLoops \/ Shutdown \/ Retirement("main")
WatchStep == Load \/ Reject \/ Ping \/ Build \/ WatchExit \/ Activation("watch") \/ Retirement("watch")
GenStep(g) == RunReturns(g) \/ ForwarderEnds(g) \/ PoolCloses(g)

GenNext ==
    /\ Alive
    /\ \/ MainStep \/ WatchStep \/ StopBegins \/ SchemaHolds \/ ChangeInputs
       \/ \E g \in Gen : GenStep(g)
       \/ \E q \in Request : Begin(q) \/ Acquire(q) \/ EndRequest(q)

\* The threads are scheduled, goroutines that were told to end do, and a
\* probe that is tried for ever succeeds in the end.
GenFairness ==
    /\ WF_genVars(Alive /\ MainStep)
    /\ WF_genVars(Alive /\ WatchStep)
    /\ SF_genVars(Alive /\ Ping) /\ SF_genVars(Alive /\ Build)
-----------------------------------------------------------------------------
(* Properties.                                                             *)

\* Every variable keeps its type, and every generation counted was built.
GenTypeOK ==
    /\ inputs \in Inputs /\ changes \in 0 .. MaxChange
    /\ \A g \in Gen : /\ rt[g].pool \in {"none", "open", "closing", "closed"}
                      /\ rt[g].fwd \in {"none", "nil", "built", "running", "ended", "canceled", "done"}
    /\ {active, number, store, bounds} \subseteq 0 .. MaxGen
    /\ \A g \in 1 .. number : rt[g].pool # "none"
    /\ \A q \in Request : req[q].pc \in {"none", "read", "connected"} /\ req[q].gen \in 0 .. MaxGen

\* Until the process retires its last generation, the pool the store hands
\* out is open: a reload closes a pool only after the next one is published
\* (generations.go:176-192, store.go:46-50).
StoreIsOpen ==
    (Alive /\ ~ (Pc("main", "closed") \/ Pc("main", "close") \/ Pc("main", "cancel") \/ Pc("main", "drained")))
    => rt[store].pool = "open"

\* Between two reloads the process runs one generation: the active one is
\* the one of the pool, the bounds and the expiry, its forwarder was started
\* if it has one and was not told to stop (it may have ended on an error of
\* its own), and of every other, rejected candidates included, nothing is
\* left but what a drain reached its limit on (generations.go:36-42, 120-150).
OneGeneration ==
    (Pc("main", "serving") /\ Pc("watch", "idle")) =>
        /\ active = store /\ active = bounds
        /\ rt[active].fwd \in IF rt[active].inputs.forwards THEN {"running", "ended"} ELSE {"nil"}
        /\ \A g \in Gen \ {active} :
              /\ rt[g].pool \in {"none", "closed"} \/ (forced /\ rt[g].pool = "closing")
              /\ rt[g].fwd \in {"none", "nil", "done"} \/ (forced /\ rt[g].fwd = "canceled")

\* A stop that reached no limit leaves no pool, no forwarder and no watcher
\* behind (module.go:492-525).
QuietStop ==
    (Pc("main", "stopped") /\ ~ forced) =>
        /\ Pc("watch", "exited") /\ active = 0
        /\ \A g \in Gen : rt[g].pool \in {"none", "closed"} /\ rt[g].fwd \in {"none", "nil", "done"}
        /\ \A q \in Request : req[q] = NoRequest

\* A generation that needs a restart, or that does not load, is never
\* active, and readiness is offered only by a process that serves an active
\* generation on a schema it was built for (generations.go:203-217,
\* health.go:35-46).
ReadyIsServing ==
    /\ active # 0 => rt[active].inputs.loads /\ rt[active].inputs.fixed = rt[1].inputs.fixed
    /\ (Alive /\ ready /\ schema = "holds") => srv = "serving" /\ active # 0 /\ rt[store].pool = "open"

\* A stop ends the process whatever the requests, the forwarder and the
\* watcher do: every wait has its limit (module.go:492-525,
\* generations.go:153-172).
StopCompletes == Pc("main", "drain") ~> ~ Alive

\* Inputs that stay and can be applied become the active generation
\* (generations.go:194-242).
ReloadArrives ==
    []<> ~ (Pc("main", "serving") /\ Candidate(inputs) /\ number < MaxGen)
=============================================================================
