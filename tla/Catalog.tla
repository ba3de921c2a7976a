------------------------------ MODULE Catalog ------------------------------
(***************************************************************************)
(* The private catalog of one server: application/catalog.go (Discover,    *)
(* Review, Disable), the creation of grants on its revisions               *)
(* (application/grants.go) and the catalog refresh                         *)
(* (application/refresh.go with the acceptance of its task), at the        *)
(* granularity of the row locks the statements take.                       *)
(*                                                                         *)
(* A handler is one running request on any replica.  Between two           *)
(* statements that may wait, a transaction does nothing another one can    *)
(* see, so it is one action per waiting statement and a Commit that        *)
(* applies the transaction's writes; a rollback applies none.  A unique    *)
(* index is checked where its key can no longer change: at the commit,     *)
(* under the row locks, except the one of the server row, whose insert     *)
(* waits for another insert.                                               *)
(*                                                                         *)
(* A digest is the content it digests.                                     *)
(***************************************************************************)
EXTENDS Naturals, Sequences, FiniteSets

CONSTANTS
    Handler,    \* requests running at the same time
    Command,    \* command identities of the clients
    Request,    \* what each command asks for
    Task,       \* refresh tasks (one generation each)
    Live,       \* what a live read of the server may find
    Host,       \* the host of the canonical resource
    Bindings,   \* the role binding files an operator may deploy
    None

\* What the messages' validation lets through.
ASSUME CatalogAssumption ==
    /\ None \notin Task
    /\ \A c \in Command :
          /\ Request[c].kind \in {"discover", "review", "disable", "create"}
          /\ Request[c].actor # None
          /\ Request[c].rev \in Nat
          /\ Request[c].kind = "review" => Request[c].decision \in {"approved", "rejected"}

Grant == {Request[c].grant : c \in {k \in Command : Request[k].kind = "create"}}

VARIABLES
    roles,      \* the role files that replicas were started with
    desc,       \* descriptors: the revisions of the server, in order
    recorded,   \* catalog_commands: the revision each command answered
    grant,      \* grants of the server
    task,       \* background_requests and catalog_refreshes of the refresh
    outbox,     \* outbox rows of the server's events, by transaction id
    tx,         \* where each handler is, and what it read
    held,       \* the row locks of each handler's transaction
    answered    \* the revision a client was answered per command (history)

rows == <<desc, recorded, grant, task, outbox>>
vars == <<roles, rows, tx, held, answered>>
-----------------------------------------------------------------------------
(* Pure decisions.                                                         *)

Policies ==
    {<<"catalog_manager", "discover">>, <<"catalog_manager", "disable">>,
     <<"catalog_reviewer", "review">>, <<"catalog_reviewer", "disable">>,
     <<"grant_manager", "create">>}

\* A plausible error: each binding is looked at alone.
NewAuthorizerAlone(b) == \A x \in b : {x[2]} # {"catalog_reviewer", "grant_manager"}
\* The bindings the authorizer accepts: nobody reviews and hands out grants.
NewAuthorizer(b) ==
    \A x, y \in b : x[1] = y[1] => {x[2], y[2]} # {"catalog_reviewer", "grant_manager"}
Allowed(file, actor, act) == \E b \in file : b[1] = actor /\ <<b[2], act>> \in Policies
\* The request is served by some replica, with the file it was started with.
Require(actor, act) == \E file \in roles : Allowed(file, actor, act)

\* A live read fits a declaration: the protocol, exactly the declared
\* methods, and the declared expectations of schemas and digest, if any.
Fits(decl, live) ==
    /\ live.protocol = decl.protocol
    /\ live.tools = decl.tools
    /\ decl.expect \in {None, live.version}

\* The descriptor of a read that fits; version stands for all it says of
\* schemas, annotations, resources, prompts, server and issuer.
BuildDescriptor(decl, live) ==
    [protocol |-> live.protocol, tools |-> live.tools, version |-> live.version,
     class |-> decl.class, scope |-> decl.scope \cup {Host}]

\* The reviewed declaration a refresh rebuilds a revision under.
DeclarationOf(d) ==
    [protocol |-> d.protocol, tools |-> d.tools, expect |-> None, class |-> d.class, scope |-> d.scope]

\* A plausible error: a decision on a revision already decided.
CheckReviewLate(d, req) == d.digest = req.digest /\ req.actor # d.by /\ d.state # "approved"
CheckReview(d, req) ==
    /\ d.digest = req.digest
    /\ req.actor # d.by
    /\ d.state = "review_pending"

NewGrant(d, req) ==
    /\ d.digest = req.digest
    /\ d.state = "approved"
    /\ req.methods # {} /\ req.methods \subseteq d.digest.tools
    /\ req.class <= d.digest.class
-----------------------------------------------------------------------------
(* Locks and transactions.                                                 *)

ServerRow == <<"server", 0>>
EventRow == <<"event", 0>>
Descriptor(r) == <<"descriptor", r>>
GrantRow(g) == <<"grant", g>>
GrantShare(g) == <<"share", g>>
TaskRow(t) == <<"task", t>>

Conflicts(l) ==
    CASE l[1] = "grant" -> {l, GrantShare(l[2])}
      [] l[1] = "share" -> {GrantRow(l[2])}
      [] OTHER -> {l}
HeldBy(k, l) == held[k] \cap Conflicts(l) # {}
Free(h, l) == \A k \in Handler \ {h} : ~ HeldBy(k, l)

Idle == [pc |-> "idle", cmd |-> None, task |-> None, rev |-> 0, digest |-> None, todo |-> {}]
At(h, pc) == tx[h].pc = pc
Req(h) == Request[tx[h].cmd]
Kind(h) == IF tx[h].task # None THEN "submit" ELSE Req(h).kind
Goto(h, pc) == tx' = [tx EXCEPT ![h].pc = pc]
Take(h, l) == held' = [held EXCEPT ![h] = @ \cup {l}]

\* The statement's row lock is granted and the transaction goes on.
Lock(h, l, pc) == Free(h, l) /\ Take(h, l) /\ Goto(h, pc)

\* The transaction takes its transaction id: its place in the outbox.
Ticket(h) == outbox' = Append(outbox, [by |-> h])
Without(h) == SelectSeq(outbox, LAMBDA e : e.by # h)
Published == {i \in DOMAIN outbox : outbox[i].by = None}

End(h) == tx' = [tx EXCEPT ![h] = Idle] /\ held' = [held EXCEPT ![h] = {}]
Rollback(h) ==
    /\ End(h) /\ outbox' = Without(h)
    /\ UNCHANGED <<roles, desc, recorded, grant, task>>
-----------------------------------------------------------------------------
(* Commands: the checks before the transaction.                            *)

FirstStatement == [discover |-> "live", review |-> "descriptor", disable |-> "descriptor", create |-> "descriptor"]

\* checkCommand, Require and replayCommand: a recorded command is answered
\* from its record (a created grant from its row).
Replay(h, c) ==
    /\ At(h, "idle")
    /\ Require(Request[c].actor, Request[c].kind)
    /\ Request[c].kind = "create" => grant[Request[c].grant].state = "none"
    /\ IF recorded[c] # 0
       THEN answered' = [answered EXCEPT ![c] = recorded[c]] /\ UNCHANGED tx
       ELSE /\ tx' = [tx EXCEPT ![h] = [Idle EXCEPT !.pc = FirstStatement[Request[c].kind], !.cmd = c,
                                                    !.rev = Request[c].rev]]
            /\ UNCHANGED answered
    /\ UNCHANGED <<roles, rows, held>>

\* readLive and BuildDescriptor, outside any transaction (a failed read and
\* a server that does not fit end the command: Fail).
ReadLive(h) ==
    /\ At(h, "live")
    /\ \E l \in Live :
          /\ Fits(Req(h).decl, l)
          /\ tx' = [tx EXCEPT ![h].pc = "server", ![h].digest = BuildDescriptor(Req(h).decl, l)]
    /\ UNCHANGED <<roles, rows, held, answered>>

\* A unique violation: what the command recorded meanwhile is answered.
DuplicateKey(h) ==
    /\ answered' = IF Kind(h) = "discover" /\ recorded[tx[h].cmd] # 0
                   THEN [answered EXCEPT ![tx[h].cmd] = recorded[tx[h].cmd]] ELSE answered
    /\ Rollback(h)
-----------------------------------------------------------------------------
(* Statements that wait.                                                   *)

\* GetServerByResourceForUpdate: a server row not committed is not found.
SelectServer(h) ==
    /\ At(h, "server")
    /\ IF desc = << >> THEN Goto(h, "insert") /\ UNCHANGED held
       ELSE Lock(h, ServerRow, "commit")
    /\ UNCHANGED <<roles, rows, answered>>

\* InsertServer waits for a concurrent insert of the same resource.
InsertServer(h) ==
    /\ At(h, "insert")
    /\ IF desc = << >>
       THEN Lock(h, ServerRow, "commit") /\ UNCHANGED <<roles, rows, answered>>
       ELSE Free(h, ServerRow) /\ DuplicateKey(h)

\* Where a transaction goes once it holds the descriptor row it asked for.
Decided(h) ==
    LET d == desc[tx[h].rev]
    IN CASE Kind(h) = "review" -> IF CheckReview(d, Req(h)) THEN "event" ELSE "refused"
         [] Kind(h) = "create" -> IF NewGrant(d, Req(h)) THEN "commit" ELSE "refused"
         [] Kind(h) = "disable" -> IF d.state = "disabled" THEN "commit" ELSE "event"
         [] Kind(h) = "submit" -> IF d.state = "approved" THEN "event" ELSE "commit"

\* A plausible error: the revision is read without its row lock.
LockDescriptorNot(h) ==
    /\ At(h, "descriptor") /\ tx[h].rev \in DOMAIN desc /\ Decided(h) # "refused"
    /\ Goto(h, Decided(h))
    /\ IF Kind(h) \in {"review", "disable"} THEN Ticket(h) ELSE UNCHANGED outbox
    /\ UNCHANGED <<roles, desc, recorded, grant, task, held, answered>>

\* GetDescriptorForUpdate and the decision on the locked revision.
LockDescriptor(h) ==
    /\ At(h, "descriptor")
    /\ IF tx[h].rev \in DOMAIN desc
       THEN /\ Free(h, Descriptor(tx[h].rev))
            /\ \/ Decided(h) = "refused" /\ Rollback(h)
               \/ /\ Decided(h) # "refused"
                  /\ Lock(h, Descriptor(tx[h].rev), Decided(h))
                  /\ IF Kind(h) \in {"review", "disable"} THEN Ticket(h) ELSE UNCHANGED outbox
                  /\ UNCHANGED <<roles, desc, recorded, grant, task>>
       ELSE Rollback(h)
    /\ UNCHANGED answered

\* A plausible error: the grants not registered yet are forgotten.
ListActiveGrants(r) == {g \in Grant : grant[g].rev = r /\ grant[g].state = "active"}

\* ListGrantsOfDescriptor.
ListGrantsOfDescriptor(r) == {g \in Grant : grant[g].rev = r /\ grant[g].state \in {"pending", "active"}}

\* The grants still to lock; after the last the transaction commits.
Revoking(h, todo) ==
    tx' = [tx EXCEPT ![h].pc = IF todo = {} THEN "commit" ELSE "grants", ![h].todo = todo]

\* NextEventRevision on the server's row; a disable then lists the grants.
NextEventRevision(h) ==
    LET listed == IF Kind(h) = "review" THEN {} ELSE ListGrantsOfDescriptor(tx[h].rev)
    IN /\ At(h, "event") /\ Free(h, EventRow) /\ Take(h, EventRow)
       /\ Revoking(h, listed)
       /\ UNCHANGED <<roles, rows, answered>>

\* revokeIn: the listed grants are locked in the order of their ids.
NextGrant(todo) == CHOOSE g \in todo : \A k \in todo : g <= k
LockGrant(h) ==
    /\ At(h, "grants")
    /\ LET g == NextGrant(tx[h].todo)
       IN Free(h, GrantRow(g)) /\ Take(h, GrantRow(g)) /\ Revoking(h, tx[h].todo \ {g})
    /\ UNCHANGED <<roles, rows, answered>>
-----------------------------------------------------------------------------
(* Commits.                                                                *)

\* UpdateDescriptorState: a decision without a reviewer keeps the last one.
UpdateDescriptorState(r, state, reviewer) ==
    [desc EXCEPT ![r].state = state, ![r].reviewer = IF reviewer = None THEN @ ELSE reviewer]

\* The decision, and its event in the outbox.
Decide(h, r, state, reviewer) ==
    /\ desc' = UpdateDescriptorState(r, state, reviewer)
    /\ outbox' = [i \in DOMAIN outbox |->
                    IF outbox[i].by = h
                    THEN [by |-> None, n |-> Cardinality(Published) + 1, rev |-> r, state |-> state]
                    ELSE outbox[i]]

\* revokeLocked on every grant the transaction locked and found open.
RevokeLocked(h) ==
    grant' = [g \in Grant |->
                IF GrantRow(g) \in held[h] /\ grant[g].state \notin {"none", "revoking", "revoked"}
                THEN [grant[g] EXCEPT !.state = "revoking"] ELSE grant[g]]

DisableLocked(h) == Decide(h, tx[h].rev, "disabled", None) /\ RevokeLocked(h)

\* InsertCatalogCommand and the answer, which the client may not receive.
Record(h, r) ==
    /\ recorded' = [recorded EXCEPT ![tx[h].cmd] = r]
    /\ \/ answered' = [answered EXCEPT ![tx[h].cmd] = r]
       \/ UNCHANGED answered

\* The revision with the content of a digest, if there is one.
GetDescriptorByDigest(digest) == {r \in DOMAIN desc : desc[r].digest = digest}

\* InsertDescriptor: the next revision waits for its review.
InsertDescriptor(h) ==
    Append(desc, [digest |-> tx[h].digest, state |-> "review_pending", by |-> Req(h).actor, reviewer |-> None])

\* A plausible error: every discovery is a new revision.
CommitDiscoverAlways(h) ==
    /\ desc' = InsertDescriptor(h)
    /\ Record(h, Len(desc) + 1)
    /\ UNCHANGED <<grant, outbox>>

\* The revision of the same content, else a new one and SetServerRevision.
CommitDiscover(h) ==
    LET same == GetDescriptorByDigest(tx[h].digest)
    IN /\ desc' = IF same # {} THEN desc ELSE InsertDescriptor(h)
       /\ Record(h, IF same # {} THEN CHOOSE r \in same : TRUE ELSE Len(desc) + 1)
       /\ UNCHANGED <<grant, outbox>>

CommitReview(h) ==
    /\ Decide(h, tx[h].rev, Req(h).decision, Req(h).actor)
    /\ Record(h, tx[h].rev)
    /\ UNCHANGED grant

CommitDisable(h) ==
    /\ IF desc[tx[h].rev].state = "disabled"
       THEN outbox' = Without(h) /\ UNCHANGED <<desc, grant>>
       ELSE DisableLocked(h)
    /\ Record(h, tx[h].rev)

CommitCommand(h) ==
    /\ At(h, "commit") /\ Kind(h) \in {"discover", "review", "disable"}
    /\ IF recorded[tx[h].cmd] # 0 THEN DuplicateKey(h)
       ELSE /\ CASE Kind(h) = "discover" -> CommitDiscover(h)
                 [] Kind(h) = "review" -> CommitReview(h)
                 [] Kind(h) = "disable" -> CommitDisable(h)
            /\ End(h)
            /\ UNCHANGED <<roles, task>>

\* InsertGrant: PENDING, on the revision and the content it was checked on.
InsertGrant(h) ==
    [state |-> "pending", rev |-> tx[h].rev, by |-> Req(h).actor, of |-> Req(h).digest]

\* Create's transaction: one grant per command.
CommitCreate(h) ==
    /\ At(h, "commit") /\ Kind(h) = "create"
    /\ IF grant[Req(h).grant].state # "none" THEN DuplicateKey(h)
       ELSE /\ grant' = [grant EXCEPT ![Req(h).grant] = InsertGrant(h)]
            /\ End(h)
            /\ UNCHANGED <<roles, desc, recorded, task, outbox, answered>>

\* The barrier of a grant (register, Revoke, expire, advance): transactions
\* that lock its row alone.
BarrierMove ==
    [pending |-> {"active", "registration_failed", "revoking"}, active |-> {"revoking", "expired"},
     expired |-> {"revoking"}, registration_failed |-> {"revoking"}, revoking |-> {"revoked"}]
BarrierStep(g) ==
    /\ grant[g].state \in DOMAIN BarrierMove
    /\ \A k \in Handler : ~ HeldBy(k, GrantRow(g))
    /\ \E s \in BarrierMove[grant[g].state] : grant' = [grant EXCEPT ![g].state = s]
    /\ UNCHANGED <<roles, desc, recorded, task, outbox, tx, held, answered>>
-----------------------------------------------------------------------------
(* The refresh.                                                            *)

\* The active grants on approved revisions.
ListRefreshTargets == {g \in Grant : grant[g].state = "active" /\ desc[grant[g].rev].state = "approved"}

\* Schedule: the request of a target's task, under its grant's row FOR SHARE.
Schedule(t) ==
    /\ task[t].state = "none"
    /\ \E g \in ListRefreshTargets :
          /\ \A k \in Handler : ~ HeldBy(k, GrantShare(g))
          /\ task' = [task EXCEPT ![t] = [state |-> "pending", rev |-> grant[g].rev, grant |-> g,
                                          record |-> "none", read |-> None]]
    /\ UNCHANGED <<roles, desc, recorded, grant, outbox, tx, held, answered>>

\* Claim, and the lease that expires before the result.
Lease(t) ==
    /\ task[t].state \in {"pending", "leased"}
    /\ \A k \in Handler : ~ HeldBy(k, TaskRow(t))
    /\ task' = [task EXCEPT ![t].state = IF @ = "pending" THEN "leased" ELSE "pending"]
    /\ UNCHANGED <<roles, desc, recorded, grant, outbox, tx, held, answered>>

\* Advance of a claimed task: a recorded result answers (no step), and a
\* revision that is not approved is not read.  A live read touches no row.
Advance(h, t) ==
    /\ At(h, "idle") /\ task[t].state = "leased" /\ task[t].record = "none"
    /\ desc[task[t].rev].state = "approved"
    /\ \E l \in Live :
          tx' = [tx EXCEPT ![h] = [Idle EXCEPT !.pc = "record", !.task = t, !.rev = task[t].rev, !.digest = l]]
    /\ UNCHANGED <<roles, rows, held, answered>>

\* A plausible error: only the server's version is compared.
DriftsByVersion(h) == tx[h].digest.version # desc[tx[h].rev].digest.version
\* What was read does not rebuild to the reviewed content.
Drifts(h) ==
    LET d == desc[tx[h].rev].digest
        decl == DeclarationOf(d)
    IN ~ Fits(decl, tx[h].digest) \/ BuildDescriptor(decl, tx[h].digest) # d

\* A plausible error: the last read overwrites the record.
InsertRefreshLast(h) ==
    /\ At(h, "record")
    /\ task' = [task EXCEPT ![tx[h].task].record = IF Drifts(h) THEN "drift" ELSE "same",
                            ![tx[h].task].read = tx[h].digest]
    /\ End(h)
    /\ UNCHANGED <<roles, desc, recorded, grant, outbox, answered>>

\* InsertRefresh ON CONFLICT DO NOTHING: the first record wins.
InsertRefresh(h) ==
    /\ At(h, "record")
    /\ task' = IF task[tx[h].task].record # "none" THEN task
               ELSE [task EXCEPT ![tx[h].task].record = IF Drifts(h) THEN "drift" ELSE "same",
                                 ![tx[h].task].read = tx[h].digest]
    /\ End(h)
    /\ UNCHANGED <<roles, desc, recorded, grant, outbox, answered>>

\* Submit of a recorded result: the task row, then the grant FOR SHARE, then
\* on a recorded drift the descriptor row.
Submit(h, t) ==
    /\ At(h, "idle") /\ task[t].state = "leased" /\ task[t].record # "none"
    /\ Free(h, TaskRow(t)) /\ Take(h, TaskRow(t)) /\ Ticket(h)
    /\ tx' = [tx EXCEPT ![h] = [Idle EXCEPT !.pc = "share", !.task = t, !.rev = task[t].rev]]
    /\ UNCHANGED <<roles, desc, recorded, grant, task, answered>>

\* A plausible error: the grant's row FOR UPDATE.
ShareGrantExclusive(h) ==
    LET t == tx[h].task
    IN /\ At(h, "share") /\ grant[task[t].grant].state = "active" /\ task[t].record = "drift"
       /\ Lock(h, GrantRow(task[t].grant), "descriptor")
       /\ UNCHANGED <<roles, rows, answered>>

\* GrantAuthorization: a grant that is not active, or past its expiry,
\* cancels the task.
ShareGrant(h) ==
    LET t == tx[h].task
    IN /\ At(h, "share")
       /\ \E current \in {grant[task[t].grant].state = "active", FALSE} :
             IF current /\ task[t].record = "drift"
             THEN Lock(h, GrantShare(task[t].grant), "descriptor") /\ UNCHANGED <<task, outbox>>
             ELSE /\ Free(h, GrantShare(task[t].grant)) /\ End(h) /\ outbox' = Without(h)
                  /\ task' = [task EXCEPT ![t].state = IF current THEN "accepted" ELSE "canceled"]
       /\ UNCHANGED <<roles, desc, recorded, grant, answered>>

\* Accepted: an approved revision that drifted is disabled in the acceptance.
CommitSubmit(h) ==
    /\ At(h, "commit") /\ Kind(h) = "submit"
    /\ task' = [task EXCEPT ![tx[h].task].state = "accepted"]
    /\ IF EventRow \in held[h] THEN DisableLocked(h)
       ELSE outbox' = Without(h) /\ UNCHANGED <<desc, grant>>
    /\ End(h)
    /\ UNCHANGED <<roles, recorded, answered>>
-----------------------------------------------------------------------------
(* Waiting and failures.                                                   *)

\* The row the next statement of a transaction asks for, if it is held.
Wants(h) ==
    CASE At(h, "server") /\ desc # << >> -> {ServerRow}
      [] At(h, "insert") -> {ServerRow}
      [] At(h, "descriptor") /\ tx[h].rev \in DOMAIN desc -> {Descriptor(tx[h].rev)}
      [] At(h, "event") -> {EventRow}
      [] At(h, "grants") -> {GrantRow(NextGrant(tx[h].todo))}
      [] At(h, "share") -> {GrantShare(task[tx[h].task].grant)}
      [] OTHER -> {}
WaitsFor(h, k) == h # k /\ \E l \in Wants(h) : HeldBy(k, l)
Deadlocked(S) == S # {} /\ \A h \in S : \E k \in S : WaitsFor(h, k)

\* The database ends one transaction of a cycle of waiting ones.
BreakDeadlock(h) ==
    /\ \E S \in SUBSET Handler :
          h \in S /\ Deadlocked(S) /\ \A T \in SUBSET S : Deadlocked(T) => T = S
    /\ Rollback(h) /\ UNCHANGED answered

\* A failed or refused read, a canceled request, a lost connection or a
\* replica that stops.
Fail(h) ==
    /\ ~ At(h, "idle")
    /\ Rollback(h) /\ UNCHANGED answered

\* newAuthorizer reads the role file at the start of a replica; a file it
\* does not accept starts none.  Replicas with earlier files go on during the
\* rollout, and a rollback brings such a file again.
Restart ==
    /\ \E b \in Bindings \ roles : NewAuthorizer(b) /\ roles' = roles \cup {b}
    /\ UNCHANGED <<rows, tx, held, answered>>

Init ==
    /\ \E b \in Bindings : NewAuthorizer(b) /\ roles = {b}
    /\ desc = << >>
    /\ recorded = [c \in Command |-> 0]
    /\ grant = [g \in Grant |-> [state |-> "none", rev |-> 0, by |-> None, of |-> None]]
    /\ task = [t \in Task |-> [state |-> "none", rev |-> 0, grant |-> None, record |-> "none", read |-> None]]
    /\ outbox = << >>
    /\ tx = [h \in Handler |-> Idle]
    /\ held = [h \in Handler |-> {}]
    /\ answered = [c \in Command |-> 0]

Statement(h) ==
    \/ ReadLive(h) \/ SelectServer(h) \/ InsertServer(h) \/ LockDescriptor(h) \/ NextEventRevision(h)
    \/ LockGrant(h) \/ CommitCommand(h) \/ CommitCreate(h) \/ InsertRefresh(h)
    \/ ShareGrant(h) \/ CommitSubmit(h)

Next ==
    \/ \E h \in Handler : \/ \E c \in Command : Replay(h, c)
                          \/ \E t \in Task : Advance(h, t) \/ Submit(h, t)
                          \/ Statement(h)
                          \/ BreakDeadlock(h)
                          \/ Fail(h)
    \/ \E g \in Grant : BarrierStep(g)
    \/ \E t \in Task : Schedule(t) \/ Lease(t)
    \/ Restart

Spec == Init /\ [][Next]_vars
-----------------------------------------------------------------------------
(* Properties.                                                             *)

CommandsOf(kind) == {c \in Command : Request[c].kind = kind}
Actor == {Request[c].actor : c \in Command}
Content == {BuildDescriptor(Request[c].decl, l) : c \in CommandsOf("discover"), l \in Live}
DescState == {"review_pending", "approved", "rejected", "disabled"}
Revision == [digest : Content, state : DescState, by : Actor, reviewer : Actor \cup {None}]
GrantState == {"none", "revoked"} \cup DOMAIN BarrierMove
GrantRecord ==
    [state : GrantState, rev : Nat, by : Actor \cup {None}, of : {Request[c].digest : c \in CommandsOf("create")} \cup {None}]
TaskRecord ==
    [state : {"none", "pending", "leased", "accepted", "canceled"}, rev : Nat, grant : Grant \cup {None},
     record : {"none", "same", "drift"}, read : Live \cup {None}]
Pc == {"idle", "live", "server", "insert", "descriptor", "event", "grants", "commit", "record", "share"}
TxRecord ==
    [pc : Pc, cmd : Command \cup {None}, task : Task \cup {None}, rev : Nat,
     digest : Content \cup Live \cup {None}, todo : SUBSET Grant]

\* Every row and every handler keeps its shape; the role files are
\* ones the authorizer accepts.
TypeOK ==
    /\ \A file \in roles : NewAuthorizer(file)
    /\ desc \in Seq(Revision)
    /\ grant \in [Grant -> GrantRecord]
    /\ task \in [Task -> TaskRecord]
    /\ tx \in [Handler -> TxRecord]
    /\ held = [h \in Handler |-> held[h]]

\* A grant that may admit calls, or may still become active, is on an
\* approved revision: no interleaving of Create, the barrier, Disable and an
\* accepted drift leaves an open grant on a withdrawn revision
\* (catalog.go:404-468, grants.go:114-203).
OpenGrantIsApproved ==
    \A g \in Grant : grant[g].state \in {"pending", "active"} =>
        grant[g].rev \in DOMAIN desc /\ desc[grant[g].rev].state = "approved"

\* Nobody approves what they discovered, a grant is on exactly the content
\* that was approved, and nobody hands out access to what they approved
\* unless the operator moved them between the roles: two different files were
\* in force, one that let them review and one that let them create
\* (authz.go:84-116, domain/catalog.go:390-407, domain/grant.go:87-170).
AccessIsSeparated ==
    /\ \A r \in DOMAIN desc : desc[r].reviewer # desc[r].by
    /\ \A g \in Grant : grant[g].state # "none" =>
          /\ desc[grant[g].rev].reviewer # None
          /\ grant[g].of = desc[grant[g].rev].digest
          /\ grant[g].by = desc[grant[g].rev].reviewer =>
                \E old, new \in roles :
                   old # new /\ Allowed(old, grant[g].by, "review") /\ Allowed(new, grant[g].by, "create")

\* An accepted refresh that found drift has withdrawn its revision, whatever
\* else happened to the revision between the read and the acceptance
\* (refresh.go:200-222).
DriftIsWithdrawn ==
    \A t \in Task : task[t].state = "accepted" /\ task[t].record = "drift" =>
        desc[task[t].rev].state = "disabled"

\* A refresh records drift exactly when what it read is not what the
\* revision was discovered from: rebuilding under the reviewed declaration
\* neither invents nor hides a difference (refresh.go:140-150, 227-234).
DriftIsReal ==
    \A t \in Task : task[t].record # "none" =>
        LET d == desc[task[t].rev].digest
        IN (task[t].record = "same") =
           (task[t].read = [protocol |-> d.protocol, tools |-> d.tools, version |-> d.version])

\* Two revisions of the server never have the same content, and a client is
\* only ever answered the one revision its command recorded
\* (catalog.go:270-325).
OneRevisionPerDigest ==
    /\ \A r, q \in DOMAIN desc : desc[r].digest = desc[q].digest => r = q
    /\ \A c \in Command : answered[c] \in {0, recorded[c]}

\* The event a consumer that reads the outbox in its order applies last for
\* a revision tells the revision's state (catalog.go:445-468, 488-498).
LastEventTellsState ==
    \A i \in Published :
        (\A j \in Published : outbox[j].rev = outbox[i].rev => outbox[j].n <= outbox[i].n)
        => /\ outbox[i].state = desc[outbox[i].rev].state
           /\ \A j \in Published : outbox[j].rev = outbox[i].rev => j <= i

\* Transactions that wait for each other in a cycle include the acceptance
\* of a drift, which holds its grant FOR SHARE: commands alone never
\* deadlock (catalog.go:458-463, tasks.go:331-393).
OnlyAcceptanceDeadlocks ==
    \A S \in SUBSET Handler : Deadlocked(S) => \E h \in S : \E g \in Grant : GrantShare(g) \in held[h]

\* A decision is never taken back: a revision keeps its content and its
\* reviewer, leaves review_pending once and stays disabled, and a recorded
\* command keeps its revision (catalog.go:354-468).
DecisionsStay ==
    [][/\ \A r \in DOMAIN desc :
             /\ desc'[r].digest = desc[r].digest /\ desc'[r].by = desc[r].by
             /\ desc[r].reviewer # None => desc'[r].reviewer = desc[r].reviewer
             /\ desc'[r].state # desc[r].state =>
                   desc[r].state = "review_pending" \/ desc'[r].state = "disabled"
       /\ \A c \in Command : recorded[c] # 0 => recorded'[c] = recorded[c]]_vars

\* What projection_test.go:131 requires of the outbox read in its order: the
\* aggregate revisions of the server's events strictly increase.
OutboxInOrder ==
    \A i, j \in Published : i < j => outbox[i].n < outbox[j].n
=============================================================================
