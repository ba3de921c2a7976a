--------------------------- MODULE CatalogProofs ---------------------------
(***************************************************************************)
(* Proofs about Catalog for any number of handlers, commands, revisions,   *)
(* grants and refresh tasks, and any live server.                          *)
(***************************************************************************)
EXTENDS Catalog, TLAPS

\* A revision waits without a reviewer and is approved by one, who could review
\* and did not discover it.
RevisionsOK ==
    \A r \in DOMAIN desc :
        /\ desc[r].state = "review_pending" => desc[r].reviewer = None
        /\ desc[r].state = "approved" => desc[r].reviewer # None
        /\ desc[r].reviewer # None => Require(desc[r].reviewer, "review") /\ desc[r].reviewer # desc[r].by

\* Once approved, a revision can only be disabled.
Approved(r) == r \in DOMAIN desc /\ desc[r].state \in {"approved", "disabled"} /\ desc[r].reviewer # None
Open(g) == grant[g].state \in {"pending", "active"}

GrantsOK ==
    \A g \in Grant : grant[g].state # "none" =>
        /\ Approved(grant[g].rev)
        /\ grant[g].of = desc[grant[g].rev].digest
        /\ Require(grant[g].by, "create")

TasksOK ==
    \A t \in Task : task[t].state # "none" =>
        /\ Approved(task[t].rev)
        /\ task[t].state = "accepted" => task[t].record # "none"

\* A descriptor row is locked by one transaction at a time.
Exclusive == \A h, k \in Handler : \A r \in Nat : Descriptor(r) \in held[h] /\ Descriptor(r) \in held[k] => h = k

\* What a transaction is about, by where it is.
Running(h) ==
    /\ ~ At(h, "idle") =>
          \/ tx[h].cmd \in Command /\ tx[h].task = None /\ Require(Req(h).actor, Req(h).kind)
          \/ tx[h].task \in Task /\ tx[h].rev = task[tx[h].task].rev /\ task[tx[h].task].state # "none"
    /\ tx[h].pc \in {"live", "server", "insert"} => Kind(h) = "discover"
    /\ tx[h].pc \in {"record", "share"} => Kind(h) = "submit"
    /\ At(h, "descriptor") => Kind(h) # "discover"
    /\ At(h, "event") => Kind(h) \in {"review", "disable", "submit"}
    /\ At(h, "grants") => Kind(h) \in {"disable", "submit"}
    /\ tx[h].pc \in {"server", "insert", "commit"} /\ Kind(h) = "discover" => tx[h].digest \in Content
    /\ At(h, "record") => tx[h].digest \in Live
    /\ ~ At(h, "idle") /\ ~ At(h, "record") /\ Kind(h) = "submit" => task[tx[h].task].record # "none"
    /\ tx[h].todo # {} => At(h, "grants")
    /\ EventRow \in held[h] => tx[h].pc \in {"grants", "commit"}
    /\ At(h, "grants") => EventRow \in held[h]

\* What a transaction decided on stays true while it holds the revision's
\* row; a grant that is open on a revision to be disabled is still to be
\* locked or is locked.
Deciding(h) ==
    tx[h].pc \in {"event", "grants", "commit"} /\ Kind(h) # "discover" =>
        /\ tx[h].rev \in DOMAIN desc /\ Descriptor(tx[h].rev) \in held[h]
        /\ Kind(h) = "review" => CheckReview(desc[tx[h].rev], Req(h))
        /\ Kind(h) = "create" => NewGrant(desc[tx[h].rev], Req(h))
        /\ Kind(h) \in {"disable", "submit"} /\ ~ At(h, "event") =>
              \A g \in ListGrantsOfDescriptor(tx[h].rev) : g \in tx[h].todo \/ GrantRow(g) \in held[h]
        /\ Kind(h) = "submit" /\ At(h, "commit") /\ EventRow \notin held[h] => desc[tx[h].rev].state = "disabled"

IInv ==
    /\ TypeOK /\ RevisionsOK /\ GrantsOK /\ TasksOK /\ Exclusive
    /\ OpenGrantIsApproved /\ DriftIsWithdrawn
    /\ \A h \in Handler : Running(h) /\ Deciding(h)
-----------------------------------------------------------------------------
(* Locks and what a step leaves alone.                                     *)

\* Only the lock of the same revision conflicts with a descriptor's.
LEMMA DescriptorConflicts ==
  ASSUME NEW r
  PROVE  Conflicts(Descriptor(r)) = {Descriptor(r)}
BY DEF Conflicts, Descriptor

\* The rows are of different kinds, and rows of one kind differ by their key.
LEMMA RowsDiffer ==
  ASSUME NEW r, NEW q, NEW g
  PROVE  /\ Descriptor(r) = Descriptor(q) <=> r = q
         /\ Descriptor(r) \notin {ServerRow, EventRow, GrantRow(g), GrantShare(g), TaskRow(g)}
         /\ EventRow \notin {ServerRow, Descriptor(r), GrantRow(g), GrantShare(g), TaskRow(g)}
         /\ GrantRow(g) = GrantRow(q) <=> g = q
BY DEF Descriptor, ServerRow, EventRow, GrantRow, GrantShare, TaskRow

\* A running transaction serves a command or submits a refresh.
LEMMA KindIs ==
  ASSUME NEW h \in Handler, Running(h), ~ At(h, "idle")
  PROVE  \/ /\ tx[h].cmd \in Command /\ tx[h].task = None
            /\ Kind(h) = Request[tx[h].cmd].kind /\ Kind(h) \in {"discover", "review", "disable", "create"}
         \/ tx[h].task \in Task /\ tx[h].task # None /\ Kind(h) = "submit"
            /\ tx[h].rev = task[tx[h].task].rev /\ task[tx[h].task].state # "none"
BY CatalogAssumption DEF Running, Kind, Req, CatalogAssumption

\* The part of the invariant that a handler relies on survives a step of
\* others that changes no revision it has locked and opens no grant on one,
\* and keeps what tasks have recorded.
LEMMA OthersKeep ==
  ASSUME IInv, roles' = roles, NEW k \in Handler, tx'[k] = tx[k], held'[k] = held[k],
         \A r \in DOMAIN desc : r \in DOMAIN desc' /\ (Descriptor(r) \in held[k] => desc'[r] = desc[r]),
         \A t \in Task : task[t].state # "none" =>
             /\ task'[t].state # "none" /\ task'[t].rev = task[t].rev
             /\ task[t].record # "none" => task'[t].record # "none",
         \A g \in Grant : Open(g)' /\ Descriptor(grant'[g].rev) \in held[k] => Open(g) /\ grant'[g].rev = grant[g].rev
  PROVE  Running(k)' /\ Deciding(k)'
<1>1. Running(k) /\ Deciding(k)
  BY DEF IInv
<1>2. /\ Kind(k)' = Kind(k) /\ Req(k)' = Req(k)
      /\ \A pc : At(k, pc)' = At(k, pc)
      /\ \A a, b : Require(a, b)' = Require(a, b)
  BY DEF Kind, Req, At, Require
<1>3. Running(k)'
  <2>1. CASE At(k, "idle")
    BY <1>1, <1>2, <2>1 DEF Running, At
  <2>2. CASE ~ At(k, "idle") /\ Kind(k) # "submit"
    BY <1>1, <1>2, <2>2, KindIs DEF Running
  <2>3. CASE ~ At(k, "idle") /\ Kind(k) = "submit"
    <3>1. tx[k].task \in Task /\ tx[k].rev = task[tx[k].task].rev /\ task[tx[k].task].state # "none"
      BY <1>1, <2>3, KindIs
    <3>2. task'[tx[k].task].state # "none" /\ task'[tx[k].task].rev = task[tx[k].task].rev
      BY <3>1
    <3>3. task[tx[k].task].record # "none" => task'[tx[k].task].record # "none"
      BY <3>1
    <3> QED BY <1>1, <1>2, <2>3, <3>1, <3>2, <3>3 DEF Running
  <2> QED BY <2>1, <2>2, <2>3
<1>4. ASSUME tx[k].pc \in {"event", "grants", "commit"}, Kind(k) # "discover"
      PROVE  Deciding(k)'
  <2>1. tx[k].rev \in DOMAIN desc /\ Descriptor(tx[k].rev) \in held[k] /\ desc'[tx[k].rev] = desc[tx[k].rev]
    BY <1>1, <1>4 DEF Deciding
  <2>2. ASSUME NEW g \in ListGrantsOfDescriptor(tx[k].rev)'
        PROVE  g \in ListGrantsOfDescriptor(tx[k].rev)
    BY <2>1, <2>2 DEF ListGrantsOfDescriptor, Open
  <2> QED BY <1>1, <1>2, <1>4, <2>1, <2>2 DEF Deciding, CheckReview, NewGrant
<1>5. Deciding(k)'
  BY <1>2, <1>4 DEF Deciding
<1> QED BY <1>3, <1>5

\* The descriptor locks stay exclusive when one transaction changes its locks
\* and takes only a descriptor nobody else holds.
LEMMA ExclusiveStays ==
  ASSUME IInv, NEW h \in Handler, NEW m, held' = [held EXCEPT ![h] = m],
         \A r \in Nat : Descriptor(r) \in m =>
             Descriptor(r) \in held[h] \/ \A k \in Handler \ {h} : Descriptor(r) \notin held[k]
  PROVE  /\ Exclusive' /\ held' = [k \in Handler |-> held'[k]] /\ held'[h] = m
         /\ \A k \in Handler \ {h} : held'[k] = held[k]
<1>1. held' = [k \in Handler |-> held'[k]] /\ held'[h] = m /\ \A k \in Handler \ {h} : held'[k] = held[k]
  BY Zenon DEF IInv, TypeOK
<1>2. ASSUME NEW i \in Handler, NEW k \in Handler, NEW r \in Nat, Descriptor(r) \in held'[i], Descriptor(r) \in held'[k]
      PROVE  i = k
  BY <1>1, <1>2 DEF IInv, Exclusive
<1> QED BY <1>1, <1>2 DEF Exclusive

\* A step that only moves one transaction keeps the invariant if it keeps
\* what that transaction relies on.
LEMMA LocalIInv ==
  ASSUME IInv, NEW h \in Handler, NEW l \in TxRecord, NEW m,
         tx' = [tx EXCEPT ![h] = l], held' = [held EXCEPT ![h] = m],
         UNCHANGED <<roles, desc, grant, task>>,
         \A r \in Nat : Descriptor(r) \in m =>
             Descriptor(r) \in held[h] \/ \A k \in Handler \ {h} : Descriptor(r) \notin held[k],
         Running(h)', Deciding(h)'
  PROVE  IInv'
<1>1. /\ Exclusive' /\ held' = [k \in Handler |-> held'[k]]
      /\ \A k \in Handler \ {h} : held'[k] = held[k]
  BY ExclusiveStays, Zenon
<1>2. tx' \in [Handler -> TxRecord] /\ \A k \in Handler \ {h} : tx'[k] = tx[k]
  BY DEF IInv, TypeOK
<1>3. ASSUME NEW k \in Handler \ {h} PROVE Running(k)' /\ Deciding(k)'
  BY <1>1, <1>2, OthersKeep DEF Open
<1>4. TypeOK'
  BY <1>1, <1>2, Zenon DEF IInv, TypeOK, NewAuthorizer
<1>5. RevisionsOK' /\ GrantsOK' /\ TasksOK'
  BY DEF IInv, RevisionsOK, GrantsOK, TasksOK, Approved, Require
<1>6. OpenGrantIsApproved' /\ DriftIsWithdrawn'
  BY DEF IInv, OpenGrantIsApproved, DriftIsWithdrawn
<1> QED BY <1>1, <1>3, <1>4, <1>5, <1>6 DEF IInv

\* A transaction that is over relies on nothing.
LEMMA EndsIdle ==
  ASSUME IInv, NEW h \in Handler, End(h)
  PROVE  /\ Idle \in TxRecord /\ tx'[h] = Idle /\ held'[h] = {}
         /\ tx' \in [Handler -> TxRecord] /\ held' = [k \in Handler |-> held'[k]] /\ Exclusive'
         /\ \A k \in Handler \ {h} : tx'[k] = tx[k] /\ held'[k] = held[k]
         /\ Running(h)' /\ Deciding(h)'
<1>1. Idle \in TxRecord /\ Idle.pc = "idle" /\ Idle.todo = {}
  BY DEF Idle, TxRecord, Pc
<1>2. tx'[h] = Idle /\ tx' \in [Handler -> TxRecord] /\ \A k \in Handler \ {h} : tx'[k] = tx[k]
  BY <1>1 DEF End, IInv, TypeOK
<1>3. held'[h] = {} /\ held' = [k \in Handler |-> held'[k]] /\ Exclusive' /\ \A k \in Handler \ {h} : held'[k] = held[k]
  <2> DEFINE m == {}
  <2>1. held' = [held EXCEPT ![h] = m]
    BY DEF End
  <2>2. \A r \in Nat : Descriptor(r) \notin m
    OBVIOUS
  <2> HIDE DEF m
  <2>3. held'[h] = m /\ held' = [k \in Handler |-> held'[k]] /\ Exclusive' /\ \A k \in Handler \ {h} : held'[k] = held[k]
    BY <2>1, <2>2, ExclusiveStays, Zenon
  <2> QED BY <2>3 DEF m
<1>4. Running(h)' /\ Deciding(h)'
  BY <1>1, <1>2, <1>3 DEF Running, Deciding, At
<1> QED BY <1>1, <1>2, <1>3, <1>4

\* A rollback keeps the invariant.
LEMMA RollbackIInv ==
  ASSUME IInv, NEW h \in Handler, Rollback(h)
  PROVE  IInv'
<1>1. End(h) /\ UNCHANGED <<roles, desc, grant, task>>
  BY DEF Rollback
<1> QED BY <1>1, EndsIdle, LocalIInv, Zenon DEF End

\* A commit keeps the invariant if its writes do, change no revision another
\* transaction has locked and open no grant on one.
LEMMA CommitIInv ==
  ASSUME IInv, NEW h \in Handler, End(h), roles' = roles,
         desc' \in Seq(Revision), grant' \in [Grant -> GrantRecord], task' \in [Task -> TaskRecord],
         RevisionsOK', GrantsOK', TasksOK', OpenGrantIsApproved', DriftIsWithdrawn',
         \A r \in DOMAIN desc : r \in DOMAIN desc'
             /\ \A k \in Handler \ {h} : Descriptor(r) \in held[k] => desc'[r] = desc[r],
         \A t \in Task : task[t].state # "none" =>
             /\ task'[t].state # "none" /\ task'[t].rev = task[t].rev
             /\ task[t].record # "none" => task'[t].record # "none",
         \A g \in Grant : \A k \in Handler \ {h} :
             Open(g)' /\ Descriptor(grant'[g].rev) \in held[k] => Open(g) /\ grant'[g].rev = grant[g].rev
  PROVE  IInv'
<1>1. ASSUME NEW k \in Handler \ {h} PROVE Running(k)' /\ Deciding(k)'
  <2>1. tx'[k] = tx[k] /\ held'[k] = held[k]
    BY EndsIdle
  <2> QED BY <2>1, OthersKeep
<1>2. TypeOK'
  BY EndsIdle, Zenon DEF IInv, TypeOK, NewAuthorizer
<1> QED BY <1>1, <1>2, EndsIdle DEF IInv

\* The invariant holds of an empty catalog.
LEMMA InitIInv ==
  ASSUME Init
  PROVE  IInv
<1> USE DEF Init
<1>1. Idle \in TxRecord /\ Idle.pc = "idle" /\ Idle.todo = {}
  BY DEF Idle, TxRecord, Pc
<1>2. TypeOK
  BY <1>1, SMTT(30) DEF TypeOK, GrantRecord, GrantState, TaskRecord
<1>3. RevisionsOK /\ GrantsOK /\ TasksOK /\ OpenGrantIsApproved /\ DriftIsWithdrawn
  BY DEF RevisionsOK, GrantsOK, TasksOK, OpenGrantIsApproved, DriftIsWithdrawn
<1>4. Exclusive
  BY DEF Exclusive
<1>5. \A h \in Handler : Running(h) /\ Deciding(h)
  BY <1>1 DEF Running, Deciding, At
<1> QED BY <1>2, <1>3, <1>4, <1>5 DEF IInv
-----------------------------------------------------------------------------
(* Steps that change no row.                                               *)

\* The state of a transaction, by its fields.
Local(pc, cmd, t, rev, digest, todo) ==
    [pc |-> pc, cmd |-> cmd, task |-> t, rev |-> rev, digest |-> digest, todo |-> todo]
Moved(h, pc, todo) == Local(pc, tx[h].cmd, tx[h].task, tx[h].rev, tx[h].digest, todo)

\* A local state has its type and its fields.
LEMMA LocalType ==
  ASSUME NEW pc \in Pc, NEW cmd \in Command \cup {None}, NEW t \in Task \cup {None}, NEW rev \in Nat,
         NEW digest \in Content \cup Live \cup {None}, NEW todo \in SUBSET Grant
  PROVE  /\ Local(pc, cmd, t, rev, digest, todo) \in TxRecord
         /\ Local(pc, cmd, t, rev, digest, todo).pc = pc
         /\ Local(pc, cmd, t, rev, digest, todo).cmd = cmd
         /\ Local(pc, cmd, t, rev, digest, todo).task = t
         /\ Local(pc, cmd, t, rev, digest, todo).rev = rev
         /\ Local(pc, cmd, t, rev, digest, todo).digest = digest
         /\ Local(pc, cmd, t, rev, digest, todo).todo = todo
BY DEF Local, TxRecord

\* A transaction that goes on keeps all but its place and its grants to lock.
LEMMA MovedIs ==
  ASSUME IInv, NEW h \in Handler, NEW pc \in Pc
  PROVE  /\ Goto(h, pc) => tx' = [tx EXCEPT ![h] = Moved(h, pc, tx[h].todo)]
         /\ \A todo \in SUBSET Grant :
               tx' = [tx EXCEPT ![h].pc = pc, ![h].todo = todo] => tx' = [tx EXCEPT ![h] = Moved(h, pc, todo)]
         /\ \A todo \in SUBSET Grant : Moved(h, pc, todo) \in TxRecord
         /\ tx[h].todo \in SUBSET Grant
<1>1. tx[h] \in TxRecord /\ tx \in [Handler -> TxRecord]
  BY DEF IInv, TypeOK
<1>2. \A todo \in SUBSET Grant : Moved(h, pc, todo) \in TxRecord
  BY <1>1 DEF Moved, Local, TxRecord
<1>3. [tx[h] EXCEPT !.pc = pc] = Moved(h, pc, tx[h].todo)
  BY <1>1 DEF Moved, Local, TxRecord
<1>4. ASSUME NEW todo \in SUBSET Grant
      PROVE  [tx[h] EXCEPT !.pc = pc, !.todo = todo] = Moved(h, pc, todo)
  <2>1. [tx[h] EXCEPT !.pc = pc, !.todo = todo] = [[tx[h] EXCEPT !.pc = pc] EXCEPT !.todo = todo]
    OBVIOUS
  <2>2. [Moved(h, pc, tx[h].todo) EXCEPT !.todo = todo] = Moved(h, pc, todo)
    BY DEF Moved, Local
  <2> QED BY <1>3, <2>1, <2>2, Zenon
<1>5. Goto(h, pc) => tx' = [tx EXCEPT ![h] = [tx[h] EXCEPT !.pc = pc]]
  BY <1>1 DEF Goto
<1>6. ASSUME NEW todo \in SUBSET Grant, tx' = [tx EXCEPT ![h].pc = pc, ![h].todo = todo]
      PROVE  tx' = [tx EXCEPT ![h] = [tx[h] EXCEPT !.pc = pc, !.todo = todo]]
  BY <1>1, <1>6, Zenon
<1> QED BY <1>1, <1>2, <1>3, <1>4, <1>5, <1>6, Zenon DEF TxRecord

\* Nothing the invariant speaks of changes.
LEMMA SameIInv ==
  ASSUME IInv, UNCHANGED <<roles, desc, grant, task, tx, held>>
  PROVE  IInv'
<1>1. ASSUME NEW k \in Handler PROVE Running(k)' /\ Deciding(k)'
  BY OthersKeep DEF Open
<1>2. TypeOK' /\ Exclusive'
  BY Zenon DEF IInv, TypeOK, NewAuthorizer, Exclusive
<1>3. RevisionsOK' /\ GrantsOK' /\ TasksOK'
  BY DEF IInv, RevisionsOK, GrantsOK, TasksOK, Approved, Require
<1>4. OpenGrantIsApproved' /\ DriftIsWithdrawn'
  BY DEF IInv, OpenGrantIsApproved, DriftIsWithdrawn
<1> QED BY <1>1, <1>2, <1>3, <1>4 DEF IInv

\* Another role file: what was allowed before was allowed.
LEMMA RestartIInv ==
  ASSUME IInv, Restart
  PROVE  IInv'
<1>1. UNCHANGED <<desc, grant, task, tx, held>>
  BY DEF Restart, rows
<1>2. PICK b : NewAuthorizer(b) /\ roles' = roles \cup {b}
  BY Zenon DEF Restart
<1>3. \A file \in roles' : NewAuthorizer(file)
  BY <1>2, Zenon DEF IInv, TypeOK
<1>4. TypeOK'
  BY <1>1, <1>3, Zenon DEF IInv, TypeOK
<1>5. \A a, act : Require(a, act) => Require(a, act)'
  BY <1>2, Zenon DEF Require
<1>6. RevisionsOK' /\ GrantsOK' /\ TasksOK'
  BY <1>1, <1>5 DEF IInv, RevisionsOK, GrantsOK, TasksOK, Approved
<1>7. ASSUME NEW k \in Handler PROVE Running(k)' /\ Deciding(k)'
  <2>1. Running(k) /\ Deciding(k)
    BY DEF IInv
  <2>2. Kind(k)' = Kind(k) /\ Req(k)' = Req(k) /\ \A pc : At(k, pc)' = At(k, pc)
    BY <1>1 DEF Kind, Req, At
  <2> QED BY <1>1, <1>5, <2>1, <2>2, ZenonT(60) DEF Running, Deciding, ListGrantsOfDescriptor
<1>8. OpenGrantIsApproved' /\ DriftIsWithdrawn' /\ Exclusive'
  BY <1>1 DEF IInv, OpenGrantIsApproved, DriftIsWithdrawn, Exclusive
<1> QED BY <1>4, <1>6, <1>7, <1>8 DEF IInv

\* A transaction that moves and takes no descriptor keeps the invariant if
\* it keeps what it relies on.
LEMMA MoveIInv ==
  ASSUME IInv, NEW h \in Handler, NEW l \in TxRecord, NEW m,
         tx' = [tx EXCEPT ![h] = l], held' = [held EXCEPT ![h] = m],
         UNCHANGED <<roles, desc, grant, task>>,
         \A r \in Nat : Descriptor(r) \in m => Descriptor(r) \in held[h],
         (tx'[h] = l /\ held'[h] = m) => Running(h)' /\ Deciding(h)'
  PROVE  IInv'
<1>1. tx'[h] = l /\ held'[h] = m
  BY DEF IInv, TypeOK
<1> QED BY <1>1, LocalIInv, Zenon

\* A command begins, or is answered from its record.
LEMMA ReplayIInv ==
  ASSUME IInv, NEW h \in Handler, NEW c \in Command, Replay(h, c)
  PROVE  IInv'
<1>1. At(h, "idle") /\ Require(Request[c].actor, Request[c].kind) /\ UNCHANGED <<roles, desc, grant, task, held>>
  BY DEF Replay, rows
<1>2. CASE recorded[c] # 0
  BY <1>1, <1>2, SameIInv DEF Replay
<1>3. CASE recorded[c] = 0
  <2> DEFINE pc == FirstStatement[Request[c].kind]
             l == Local(pc, c, None, Request[c].rev, None, {})
  <2>1. tx' = [tx EXCEPT ![h] = l]
    BY <1>3, ZenonT(60) DEF Replay, Idle, Local
  <2>2. pc \in {"live", "descriptor"} /\ (pc = "live" <=> Request[c].kind = "discover")
    BY CatalogAssumption DEF CatalogAssumption, FirstStatement
  <2>3. Request[c].kind # "submit" /\ Request[c].rev \in Nat
    BY CatalogAssumption DEF CatalogAssumption
  <2> HIDE DEF pc
  <2>4. /\ l \in TxRecord /\ l.pc = pc /\ l.cmd = c /\ l.task = None /\ l.todo = {}
    <3>1. pc \in Pc
      BY <2>2 DEF Pc
    <3>2. /\ c \in Command \cup {None} /\ None \in Task \cup {None} /\ None \in Content \cup Live \cup {None}
          /\ {} \in SUBSET Grant /\ Request[c].rev \in Nat
      BY <2>3
    <3> QED BY <3>1, <3>2 DEF Local, TxRecord
  <2> HIDE DEF l
  <2>5. held' = [held EXCEPT ![h] = held[h]]
    BY <1>1 DEF IInv, TypeOK
  <2>6. EventRow \notin held[h]
    BY <1>1 DEF IInv, Running, At
  <2>7. tx'[h] = l /\ held'[h] = held[h] => Running(h)' /\ Deciding(h)'
    BY <1>1, <2>2, <2>3, <2>4, <2>6, Zenon DEF Running, Deciding, At, Kind, Req, Require
  <2> QED BY <1>1, <2>1, <2>4, <2>5, <2>7, MoveIInv, Zenon
<1> QED BY <1>2, <1>3

\* The live read of a discovery.
LEMMA ReadLiveIInv ==
  ASSUME IInv, NEW h \in Handler, ReadLive(h)
  PROVE  IInv'
<1>1. PICK v \in Live :
        tx' = [tx EXCEPT ![h].pc = "server", ![h].digest = BuildDescriptor(Req(h).decl, v)]
  BY Zenon DEF ReadLive
<1> DEFINE d == BuildDescriptor(Req(h).decl, v)
           l == Local("server", tx[h].cmd, tx[h].task, tx[h].rev, d, tx[h].todo)
<1>2. At(h, "live") /\ UNCHANGED <<roles, desc, grant, task, held>>
  BY DEF ReadLive, rows
<1>3. tx[h].cmd \in CommandsOf("discover") /\ tx[h].task = None /\ Kind(h) = "discover" /\ tx[h].todo = {}
      /\ EventRow \notin held[h] /\ Require(Req(h).actor, Req(h).kind)
  BY <1>2, CatalogAssumption DEF IInv, Running, At, Kind, Req, CommandsOf, CatalogAssumption
<1>4. d \in Content
  BY <1>3 DEF Content, Req
<1> HIDE DEF d
<1>5. tx[h] \in TxRecord /\ tx \in [Handler -> TxRecord]
  BY DEF IInv, TypeOK
<1>6. tx' = [tx EXCEPT ![h] = l]
  <2>1. [tx[h] EXCEPT !.pc = "server", !.digest = d] = [[tx[h] EXCEPT !.pc = "server"] EXCEPT !.digest = d]
    OBVIOUS
  <2>2. [tx[h] EXCEPT !.pc = "server"] = Local("server", tx[h].cmd, tx[h].task, tx[h].rev, tx[h].digest, tx[h].todo)
    BY <1>5 DEF Local, TxRecord
  <2>3. [Local("server", tx[h].cmd, tx[h].task, tx[h].rev, tx[h].digest, tx[h].todo) EXCEPT !.digest = d] = l
    BY DEF Local
  <2>4. tx' = [tx EXCEPT ![h] = [tx[h] EXCEPT !.pc = "server", !.digest = d]]
    BY <1>1, <1>5, Zenon DEF d
  <2> QED BY <2>1, <2>2, <2>3, <2>4, Zenon
<1>7. l \in TxRecord /\ l.pc = "server" /\ l.cmd = tx[h].cmd /\ l.task = None /\ l.digest = d /\ l.todo = {}
  BY <1>3, <1>4, <1>5 DEF Local, TxRecord, Pc, CommandsOf
<1> HIDE DEF l
<1>8. held' = [held EXCEPT ![h] = held[h]]
  BY <1>2 DEF IInv, TypeOK
<1>9. tx'[h] = l /\ held'[h] = held[h] => Running(h)' /\ Deciding(h)'
  BY <1>2, <1>3, <1>4, <1>7, Zenon DEF Running, Deciding, At, Kind, Req, Require, CommandsOf
<1> QED BY <1>2, <1>6, <1>7, <1>8, <1>9, MoveIInv, Zenon

\* Selecting or inserting the server row.
LEMMA ServerIInv ==
  ASSUME IInv, NEW h \in Handler, SelectServer(h) \/ InsertServer(h)
  PROVE  IInv'
<1>1. CASE Rollback(h)
  BY <1>1, RollbackIInv
<1>2. CASE ~ Rollback(h)
  <2>1. /\ tx[h].pc \in {"server", "insert"} /\ UNCHANGED <<roles, desc, grant, task>>
        /\ \/ Goto(h, "insert") /\ UNCHANGED held
           \/ Goto(h, "commit") /\ Take(h, ServerRow)
    BY <1>2 DEF SelectServer, InsertServer, DuplicateKey, Lock, At, rows
  <2>2. PICK pc \in {"insert", "commit"}, m \in {held[h], held[h] \cup {ServerRow}} :
          Goto(h, pc) /\ held' = [held EXCEPT ![h] = m]
    <3>1. CASE Goto(h, "insert") /\ UNCHANGED held
      <4>1. held' = [held EXCEPT ![h] = held[h]]
        BY <3>1 DEF IInv, TypeOK
      <4> QED BY <3>1, <4>1, Zenon
    <3>2. CASE Goto(h, "commit") /\ Take(h, ServerRow)
      BY <3>2, Zenon DEF Take
    <3> QED BY <2>1, <3>1, <3>2
  <2>3. Kind(h) = "discover" /\ tx[h].cmd \in Command /\ tx[h].task = None /\ tx[h].todo = {}
        /\ tx[h].digest \in Content /\ EventRow \notin held[h] /\ Require(Req(h).actor, Req(h).kind)
    BY <2>1, CatalogAssumption DEF IInv, Running, At, Kind, Req, CatalogAssumption
  <2> DEFINE l == Moved(h, pc, tx[h].todo)
  <2>4. tx' = [tx EXCEPT ![h] = l] /\ l \in TxRecord
    <3>1. pc \in Pc
      BY DEF Pc
    <3> QED BY <2>2, <3>1, MovedIs, Zenon
  <2>5. l.pc = pc /\ l.cmd = tx[h].cmd /\ l.task = None /\ l.digest = tx[h].digest /\ l.todo = {}
    BY <2>3 DEF Moved, Local
  <2> HIDE DEF l
  <2>6. \A r \in Nat : Descriptor(r) \in m => Descriptor(r) \in held[h]
    BY <2>2, RowsDiffer
  <2>7. EventRow \notin m
    BY <2>2, <2>3, RowsDiffer
  <2>8. tx'[h] = l /\ held'[h] = m => Running(h)' /\ Deciding(h)'
    BY <2>1, <2>2, <2>3, <2>5, <2>7, Zenon DEF Running, Deciding, At, Kind, Req, Require
  <2> QED BY <2>1, <2>2, <2>4, <2>6, <2>8, MoveIInv, Zenon
<1> QED BY <1>1, <1>2

\* GetDescriptorForUpdate: the transaction decides on the revision it locked.
LEMMA LockDescriptorIInv ==
  ASSUME IInv, NEW h \in Handler, LockDescriptor(h)
  PROVE  IInv'
<1>1. CASE Rollback(h)
  BY <1>1, RollbackIInv
<1>2. CASE ~ Rollback(h)
  <2> DEFINE r == tx[h].rev
             pc == Decided(h)
             l == Moved(h, pc, tx[h].todo)
             m == held[h] \cup {Descriptor(r)}
  <2>1. /\ At(h, "descriptor") /\ r \in DOMAIN desc /\ Free(h, Descriptor(r)) /\ pc # "refused"
        /\ Goto(h, pc) /\ held' = [held EXCEPT ![h] = m] /\ UNCHANGED <<roles, desc, grant, task>>
    BY <1>2 DEF LockDescriptor, Lock, Take
  <2>2. \A k \in Handler \ {h} : Descriptor(r) \notin held[k]
    BY <2>1, DescriptorConflicts DEF Free, HeldBy
  <2>3. \A q \in Nat : Descriptor(q) \in m =>
          Descriptor(q) \in held[h] \/ \A k \in Handler \ {h} : Descriptor(q) \notin held[k]
    BY <2>2
  <2>4. Running(h) /\ tx[h].todo = {} /\ EventRow \notin held[h] /\ Kind(h) # "discover" /\ ~ At(h, "idle") /\ ~ At(h, "record")
    BY <2>1 DEF IInv, Running, At
  <2>5. Kind(h) \in {"review", "disable", "create", "submit"}
    BY <2>4, KindIs
  <2>6. /\ pc \in {"event", "commit"}
        /\ Kind(h) = "review" => pc = "event" /\ CheckReview(desc[r], Req(h))
        /\ Kind(h) = "create" => pc = "commit" /\ NewGrant(desc[r], Req(h))
        /\ pc = "commit" /\ Kind(h) = "disable" => desc[r].state = "disabled"
        /\ pc = "commit" /\ Kind(h) = "submit" => desc[r].state # "approved"
    BY <2>1, <2>5 DEF Decided
  <2>7. Kind(h) = "submit" => Approved(r)
    BY <2>4, KindIs DEF IInv, TasksOK
  <2>8. pc = "commit" /\ Kind(h) \in {"disable", "submit"} => desc[r].state = "disabled" /\ ListGrantsOfDescriptor(r) = {}
    BY <2>6, <2>7 DEF Approved, IInv, OpenGrantIsApproved, ListGrantsOfDescriptor
  <2> HIDE DEF pc
  <2>9. tx' = [tx EXCEPT ![h] = l] /\ l \in TxRecord
    <3>1. pc \in Pc
      BY <2>6 DEF Pc
    <3> QED BY <2>1, <3>1, MovedIs, Zenon
  <2>10. l.pc = pc /\ l.cmd = tx[h].cmd /\ l.task = tx[h].task /\ l.rev = r /\ l.todo = {}
    BY <2>4 DEF Moved, Local
  <2> HIDE DEF l
  <2>11. EventRow \notin m /\ Descriptor(r) \in m
    BY <2>4, RowsDiffer
  <2> HIDE DEF m
  <2>12. tx'[h] = l /\ held'[h] = m
    BY <2>1, <2>9 DEF IInv, TypeOK
  <2>13. Kind(h)' = Kind(h) /\ Req(h)' = Req(h) /\ \A p : At(h, p)' <=> pc = p
    BY <2>10, <2>12 DEF Kind, Req, At
  <2>14. ListGrantsOfDescriptor(r)' = ListGrantsOfDescriptor(r)
    BY <2>1, <2>10, <2>12 DEF ListGrantsOfDescriptor
  <2>15. Running(h)'
    BY <2>1, <2>4, <2>5, <2>6, <2>10, <2>11, <2>12, <2>13, ZenonT(60) DEF Running, At, Require
  <2>16. Deciding(h)'
    BY <2>1, <2>5, <2>6, <2>8, <2>10, <2>11, <2>12, <2>13, <2>14 DEF Deciding, CheckReview, NewGrant
  <2> QED BY <2>1, <2>3, <2>9, <2>15, <2>16, LocalIInv, Zenon
<1> QED BY <1>1, <1>2

\* NextEventRevision: the grants of the revision are listed.
LEMMA NextEventRevisionIInv ==
  ASSUME IInv, NEW h \in Handler, NextEventRevision(h)
  PROVE  IInv'
<1> DEFINE r == tx[h].rev
           listed == IF Kind(h) = "review" THEN {} ELSE ListGrantsOfDescriptor(r)
           pc == IF listed = {} THEN "commit" ELSE "grants"
           l == Moved(h, pc, listed)
           m == held[h] \cup {EventRow}
<1>1. /\ At(h, "event") /\ held' = [held EXCEPT ![h] = m] /\ UNCHANGED <<roles, desc, grant, task>>
      /\ tx' = [tx EXCEPT ![h].pc = pc, ![h].todo = listed]
  BY DEF NextEventRevision, Take, Revoking, rows
<1>2. Running(h) /\ Deciding(h) /\ Kind(h) \in {"review", "disable", "submit"} /\ ~ At(h, "idle") /\ ~ At(h, "record")
  BY <1>1 DEF IInv, Running, At
<1>3. /\ r \in DOMAIN desc /\ Descriptor(r) \in held[h]
      /\ Kind(h) = "review" => CheckReview(desc[r], Req(h))
  BY <1>1, <1>2 DEF Deciding, At
<1>4. listed \in SUBSET Grant /\ pc \in {"commit", "grants"} /\ (listed = {} <=> pc = "commit")
      /\ (Kind(h) = "review" => pc = "commit") /\ (Kind(h) # "review" => listed = ListGrantsOfDescriptor(r))
  BY DEF ListGrantsOfDescriptor
<1> HIDE DEF pc, listed
<1>5. tx' = [tx EXCEPT ![h] = l] /\ l \in TxRecord
  <2>1. pc \in Pc
    BY <1>4 DEF Pc
  <2>2. \A todo \in SUBSET Grant :
          /\ tx' = [tx EXCEPT ![h].pc = pc, ![h].todo = todo] => tx' = [tx EXCEPT ![h] = Moved(h, pc, todo)]
          /\ Moved(h, pc, todo) \in TxRecord
    BY <2>1, MovedIs
  <2> QED BY <1>1, <1>4, <2>2, Zenon
<1>6. l.pc = pc /\ l.cmd = tx[h].cmd /\ l.task = tx[h].task /\ l.rev = r /\ l.todo = listed
  BY DEF Moved, Local
<1> HIDE DEF l
<1>7. EventRow \in m /\ Descriptor(r) \in m /\ \A q \in Nat : Descriptor(q) \in m => Descriptor(q) \in held[h]
  BY <1>3, RowsDiffer
<1> HIDE DEF m
<1>8. tx'[h] = l /\ held'[h] = m
  BY <1>1, <1>5, Zenon DEF IInv, TypeOK
<1>9. Kind(h)' = Kind(h) /\ Req(h)' = Req(h) /\ \A p : At(h, p)' <=> pc = p
  BY <1>6, <1>8 DEF Kind, Req, At
<1>10. ListGrantsOfDescriptor(r)' = ListGrantsOfDescriptor(r)
  BY <1>1, <1>6, <1>8 DEF ListGrantsOfDescriptor
<1>11. Running(h)'
  BY <1>1, <1>2, <1>4, <1>6, <1>7, <1>8, <1>9, ZenonT(60) DEF Running, At, Require
<1>12. Deciding(h)'
  BY <1>1, <1>2, <1>3, <1>4, <1>6, <1>7, <1>8, <1>9, <1>10, Zenon DEF Deciding, CheckReview
<1> QED BY <1>1, <1>5, <1>7, <1>11, <1>12, MoveIInv, Zenon

\* revokeIn: the next grant is locked instead of to be locked.
LEMMA LockGrantIInv ==
  ASSUME IInv, NEW h \in Handler, LockGrant(h)
  PROVE  IInv'
<1> DEFINE r == tx[h].rev
           g == NextGrant(tx[h].todo)
           todo == tx[h].todo \ {g}
           pc == IF todo = {} THEN "commit" ELSE "grants"
           l == Moved(h, pc, todo)
           m == held[h] \cup {GrantRow(g)}
<1>1. /\ At(h, "grants") /\ held' = [held EXCEPT ![h] = m] /\ UNCHANGED <<roles, desc, grant, task>>
      /\ tx' = [tx EXCEPT ![h].pc = pc, ![h].todo = todo]
  BY DEF LockGrant, Take, Revoking, rows
<1>2. Running(h) /\ Deciding(h) /\ Kind(h) \in {"disable", "submit"} /\ ~ At(h, "idle") /\ ~ At(h, "record") /\ ~ At(h, "event")
  BY <1>1 DEF IInv, Running, At
<1>3. /\ r \in DOMAIN desc /\ Descriptor(r) \in held[h]
      /\ \A k \in ListGrantsOfDescriptor(r) : k \in tx[h].todo \/ GrantRow(k) \in held[h]
  BY <1>1, <1>2 DEF Deciding, At
<1>4. todo \in SUBSET Grant /\ pc \in {"commit", "grants"} /\ (todo = {} <=> pc = "commit")
  BY DEF IInv, TypeOK, TxRecord
<1>5. /\ Descriptor(r) \in m /\ \A q \in Nat : Descriptor(q) \in m => Descriptor(q) \in held[h]
      /\ EventRow \in m <=> EventRow \in held[h]
  BY <1>3, RowsDiffer
<1>6. \A k \in ListGrantsOfDescriptor(r) : k \in todo \/ GrantRow(k) \in m
  BY <1>3
<1> HIDE DEF g, pc, todo
<1>7. tx' = [tx EXCEPT ![h] = l] /\ l \in TxRecord
  <2>1. pc \in Pc
    BY <1>4 DEF Pc
  <2>2. \A s \in SUBSET Grant :
          /\ tx' = [tx EXCEPT ![h].pc = pc, ![h].todo = s] => tx' = [tx EXCEPT ![h] = Moved(h, pc, s)]
          /\ Moved(h, pc, s) \in TxRecord
    BY <2>1, MovedIs
  <2> QED BY <1>1, <1>4, <2>2, Zenon
<1>8. l.pc = pc /\ l.cmd = tx[h].cmd /\ l.task = tx[h].task /\ l.rev = r /\ l.todo = todo
  BY DEF Moved, Local
<1> HIDE DEF l, m
<1>9. tx'[h] = l /\ held'[h] = m
  BY <1>1, <1>7, Zenon DEF IInv, TypeOK
<1>10. Kind(h)' = Kind(h) /\ Req(h)' = Req(h) /\ \A p : At(h, p)' <=> pc = p
  BY <1>8, <1>9 DEF Kind, Req, At
<1>11. ListGrantsOfDescriptor(r)' = ListGrantsOfDescriptor(r)
  BY <1>1, <1>8, <1>9 DEF ListGrantsOfDescriptor
<1>12. EventRow \in held[h]
  BY <1>1, <1>2 DEF Running
<1>13. Running(h)'
  BY <1>1, <1>2, <1>4, <1>5, <1>8, <1>9, <1>10, <1>12, ZenonT(60) DEF Running, At, Require
<1>14. Deciding(h)'
  BY <1>1, <1>2, <1>3, <1>4, <1>5, <1>6, <1>8, <1>9, <1>10, <1>11, <1>12, Zenon DEF Deciding
<1> QED BY <1>1, <1>5, <1>7, <1>13, <1>14, MoveIInv, Zenon

\* A handler that takes up a task starts from an idle one.
LEMMA TakesUp ==
  ASSUME NEW pc, NEW t, NEW rev
  PROVE  [Idle EXCEPT !.pc = pc, !.task = t, !.rev = rev] = Local(pc, None, t, rev, None, {})
<1>1. [Idle EXCEPT !.pc = pc] = Local(pc, None, None, 0, None, {})
  BY DEF Idle, Local
<1>2. [Local(pc, None, None, 0, None, {}) EXCEPT !.task = t] = Local(pc, None, t, 0, None, {})
  BY DEF Local
<1>3. [Local(pc, None, t, 0, None, {}) EXCEPT !.rev = rev] = Local(pc, None, t, rev, None, {})
  BY DEF Local
<1>4. [Idle EXCEPT !.pc = pc, !.task = t, !.rev = rev] = [[[Idle EXCEPT !.pc = pc] EXCEPT !.task = t] EXCEPT !.rev = rev]
  OBVIOUS
<1> QED BY <1>1, <1>2, <1>3, <1>4, Zenon

\* A refresh begins its read, or the acceptance of its result.
LEMMA BeginTaskIInv ==
  ASSUME IInv, NEW h \in Handler, NEW t \in Task, Advance(h, t) \/ Submit(h, t)
  PROVE  IInv'
<1>1. /\ At(h, "idle") /\ task[t].state = "leased" /\ UNCHANGED <<roles, desc, grant, task>>
  BY Zenon DEF Advance, Submit, rows
<1>2. EventRow \notin held[h]
  BY <1>1 DEF IInv, Running, At
<1>3. held = [k \in Handler |-> held[k]] /\ task[t] \in TaskRecord /\ t # None /\ TaskRecord # {}
  BY CatalogAssumption DEF IInv, TypeOK, CatalogAssumption
<1>4. PICK pc \in {"record", "share"}, d \in Live \cup {None}, m \in {held[h], held[h] \cup {TaskRow(t)}} :
        /\ tx' = [tx EXCEPT ![h] = Local(pc, None, t, task[t].rev, d, {})]
        /\ held' = [held EXCEPT ![h] = m]
        /\ pc = "share" => task[t].record # "none"
        /\ pc = "record" => d \in Live
  <2>1. CASE Advance(h, t)
    <3>1. PICK v \in Live :
            tx' = [tx EXCEPT ![h] = [Idle EXCEPT !.pc = "record", !.task = t, !.rev = task[t].rev, !.digest = v]]
      BY <2>1, Zenon DEF Advance
    <3>2. tx' = [tx EXCEPT ![h] = Local("record", None, t, task[t].rev, v, {})]
      <4> DEFINE rev == task[t].rev
                 begun == [Idle EXCEPT !.pc = "record", !.task = t, !.rev = rev]
      <4>1. begun = Local("record", None, t, rev, None, {})
        BY TakesUp, Zenon
      <4>2. [Local("record", None, t, rev, None, {}) EXCEPT !.digest = v] = Local("record", None, t, rev, v, {})
        BY DEF Local
      <4>3. [Idle EXCEPT !.pc = "record", !.task = t, !.rev = rev, !.digest = v] = [begun EXCEPT !.digest = v]
        OBVIOUS
      <4> HIDE DEF begun
      <4>4. [Idle EXCEPT !.pc = "record", !.task = t, !.rev = rev, !.digest = v] = Local("record", None, t, rev, v, {})
        BY <4>1, <4>2, <4>3
      <4> QED BY <3>1, <4>4, Zenon
    <3>3. held' = [held EXCEPT ![h] = held[h]]
      BY <1>3, <2>1, Zenon DEF Advance
    <3> QED BY <3>2, <3>3, Zenon
  <2>2. CASE Submit(h, t)
    <3>1. tx' = [tx EXCEPT ![h] = Local("share", None, t, task[t].rev, None, {})]
      BY <2>2, TakesUp, Zenon DEF Submit
    <3>2. held' = [held EXCEPT ![h] = held[h] \cup {TaskRow(t)}] /\ task[t].record # "none"
      BY <2>2 DEF Submit, Take
    <3> QED BY <3>1, <3>2, Zenon
  <2> QED BY <2>1, <2>2
<1> DEFINE l == Local(pc, None, t, task[t].rev, d, {})
<1>5. /\ l \in TxRecord /\ l.pc = pc /\ l.cmd = None /\ l.task = t /\ l.rev = task[t].rev
      /\ l.digest = d /\ l.todo = {}
  <2>1. pc \in Pc /\ task[t].rev \in Nat
    BY <1>3 DEF Pc, TaskRecord
  <2> QED BY <2>1, LocalType
<1>6. tx' = [tx EXCEPT ![h] = l]
  BY <1>4
<1> HIDE DEF l
<1>7. EventRow \notin m /\ \A r \in Nat : Descriptor(r) \in m => Descriptor(r) \in held[h]
  BY <1>2, <1>4, RowsDiffer
<1>8. tx'[h] = l /\ held'[h] = m => Running(h)' /\ Deciding(h)'
  BY <1>1, <1>3, <1>4, <1>5, <1>7, ZenonT(60) DEF Running, Deciding, At, Kind
<1> QED BY <1>1, <1>4, <1>5, <1>6, <1>7, <1>8, MoveIInv, ZenonT(60)
-----------------------------------------------------------------------------
(* Tasks and the barrier.                                                  *)

\* A step outside the handlers keeps the invariant if its writes do, change
\* no revision and open no grant.
LEMMA OutsideIInv ==
  ASSUME IInv, UNCHANGED <<roles, desc, tx, held>>,
         grant' \in [Grant -> GrantRecord], task' \in [Task -> TaskRecord],
         GrantsOK', TasksOK', DriftIsWithdrawn',
         \A t \in Task : task[t].state # "none" =>
             /\ task'[t].state # "none" /\ task'[t].rev = task[t].rev
             /\ task[t].record # "none" => task'[t].record # "none",
         \A g \in Grant : Open(g)' => Open(g) /\ grant'[g].rev = grant[g].rev
  PROVE  IInv'
<1>1. ASSUME NEW k \in Handler PROVE Running(k)' /\ Deciding(k)'
  BY OthersKeep, Zenon
<1>2. TypeOK' /\ Exclusive' /\ RevisionsOK'
  BY Zenon DEF IInv, TypeOK, NewAuthorizer, Exclusive, RevisionsOK, Require
<1>3. OpenGrantIsApproved'
  BY DEF IInv, OpenGrantIsApproved, Open
<1> QED BY <1>1, <1>2, <1>3, ZenonT(60) DEF IInv

\* What a write of a task's state leaves alone.
LEMMA TaskStateIs ==
  ASSUME IInv, NEW t \in Task, NEW s \in {"none", "pending", "leased", "accepted", "canceled"},
         task' = [task EXCEPT ![t].state = s]
  PROVE  /\ task' \in [Task -> TaskRecord] /\ task'[t].state = s
         /\ \A u \in Task : /\ task'[u].rev = task[u].rev /\ task'[u].record = task[u].record
                            /\ u # t => task'[u].state = task[u].state
<1>1. task \in [Task -> TaskRecord]
  BY DEF IInv, TypeOK
<1>2. ASSUME NEW u \in Task
      PROVE  task'[u] = IF u = t THEN [task[t] EXCEPT !.state = s] ELSE task[u]
  BY <1>1
<1>3. /\ [task[t] EXCEPT !.state = s] \in TaskRecord
      /\ [task[t] EXCEPT !.state = s].state = s /\ [task[t] EXCEPT !.state = s].rev = task[t].rev
      /\ [task[t] EXCEPT !.state = s].record = task[t].record
  BY <1>1 DEF TaskRecord
<1>4. task' \in [Task -> TaskRecord]
  BY <1>1, <1>3
<1> QED BY <1>2, <1>3, <1>4

\* The barrier of a grant opens none.
LEMMA BarrierIInv ==
  ASSUME IInv, NEW g \in Grant, BarrierStep(g)
  PROVE  IInv'
<1>1. PICK s \in BarrierMove[grant[g].state] : grant' = [grant EXCEPT ![g].state = s]
  BY Zenon DEF BarrierStep
<1>2. /\ grant[g].state \in {"pending", "active", "expired", "registration_failed", "revoking"}
      /\ s \in {"active", "registration_failed", "revoking", "expired", "revoked"}
      /\ s = "active" => grant[g].state = "pending"
  BY <1>1 DEF BarrierStep, BarrierMove
<1>3. grant \in [Grant -> GrantRecord] /\ UNCHANGED <<roles, desc, task, tx, held>>
  BY DEF BarrierStep, IInv, TypeOK
<1>4. s \in GrantState
  BY <1>2 DEF GrantState, BarrierMove
<1>5. /\ [grant[g] EXCEPT !.state = s] \in GrantRecord
      /\ [grant[g] EXCEPT !.state = s].state = s /\ [grant[g] EXCEPT !.state = s].rev = grant[g].rev
      /\ [grant[g] EXCEPT !.state = s].by = grant[g].by /\ [grant[g] EXCEPT !.state = s].of = grant[g].of
  BY <1>3, <1>4 DEF GrantRecord
<1>6. grant' \in [Grant -> GrantRecord]
      /\ \A k \in Grant : grant'[k] = IF k = g THEN [grant[g] EXCEPT !.state = s] ELSE grant[k]
  BY <1>1, <1>3, <1>5
<1>7. \A k \in Grant : /\ Open(k)' => Open(k)
                       /\ grant'[k].rev = grant[k].rev /\ grant'[k].by = grant[k].by /\ grant'[k].of = grant[k].of
                       /\ grant'[k].state # "none" => grant[k].state # "none"
  BY <1>2, <1>5, <1>6, Zenon DEF Open
<1>8. GrantsOK' /\ TasksOK' /\ DriftIsWithdrawn'
  BY <1>3, <1>7 DEF IInv, GrantsOK, TasksOK, DriftIsWithdrawn, Approved, Require
<1> QED BY <1>3, <1>6, <1>7, <1>8, OutsideIInv DEF IInv, TypeOK

\* A refresh task is requested on an approved revision.
LEMMA ScheduleIInv ==
  ASSUME IInv, NEW t \in Task, Schedule(t)
  PROVE  IInv'
<1>1. PICK g \in ListRefreshTargets :
        task' = [task EXCEPT ![t] = [state |-> "pending", rev |-> grant[g].rev, grant |-> g, record |-> "none", read |-> None]]
  BY ZenonT(60) DEF Schedule
<1>2. task[t].state = "none" /\ UNCHANGED <<roles, desc, grant, tx, held>>
  BY DEF Schedule
<1>3. g \in Grant /\ grant[g] \in GrantRecord /\ Approved(grant[g].rev)
  BY <1>1 DEF ListRefreshTargets, IInv, TypeOK, GrantsOK
<1> DEFINE n == [state |-> "pending", rev |-> grant[g].rev, grant |-> g, record |-> "none", read |-> None]
<1>4. n \in TaskRecord /\ n.state = "pending" /\ n.rev = grant[g].rev /\ n.record = "none"
  BY <1>3 DEF TaskRecord, GrantRecord
<1>5. task' = [task EXCEPT ![t] = n] /\ task \in [Task -> TaskRecord]
  BY <1>1 DEF IInv, TypeOK
<1> HIDE DEF n
<1>6. task' \in [Task -> TaskRecord] /\ task'[t] = n /\ \A u \in Task : u # t => task'[u] = task[u]
  BY <1>4, <1>5
<1>7. TasksOK' /\ DriftIsWithdrawn'
  BY <1>2, <1>3, <1>4, <1>6 DEF IInv, TasksOK, DriftIsWithdrawn, Approved
<1>8. GrantsOK' /\ grant' \in [Grant -> GrantRecord] /\ \A k \in Grant : Open(k)' => Open(k)
  BY <1>2 DEF IInv, TypeOK, GrantsOK, Approved, Require, Open
<1> QED BY <1>2, <1>4, <1>6, <1>7, <1>8, OutsideIInv

\* A lease is taken or runs out.
LEMMA LeaseIInv ==
  ASSUME IInv, NEW t \in Task, Lease(t)
  PROVE  IInv'
<1>1. task[t].state \in {"pending", "leased"} /\ UNCHANGED <<roles, desc, grant, tx, held>>
  BY DEF Lease
<1>2. PICK s \in {"pending", "leased"} : task' = [task EXCEPT ![t].state = s]
  BY Zenon DEF Lease, IInv, TypeOK
<1>3. /\ task' \in [Task -> TaskRecord] /\ task'[t].state = s
      /\ \A u \in Task : /\ task'[u].rev = task[u].rev /\ task'[u].record = task[u].record
                         /\ u # t => task'[u].state = task[u].state
  BY <1>2, TaskStateIs, Zenon
<1>4. TasksOK' /\ DriftIsWithdrawn'
  BY <1>1, <1>2, <1>3 DEF IInv, TasksOK, DriftIsWithdrawn, Approved
<1>5. GrantsOK' /\ grant' \in [Grant -> GrantRecord] /\ \A k \in Grant : Open(k)' => Open(k)
  BY <1>1 DEF IInv, TypeOK, GrantsOK, Approved, Require, Open
<1>6. \A u \in Task : task[u].state # "none" => task'[u].state # "none"
  BY <1>1, <1>2, <1>3
<1> QED BY <1>1, <1>3, <1>4, <1>5, <1>6, OutsideIInv

\* The result of a refresh is recorded once.
LEMMA InsertRefreshIInv ==
  ASSUME IInv, NEW h \in Handler, InsertRefresh(h)
  PROVE  IInv'
<1> DEFINE t == tx[h].task
<1>1. At(h, "record") /\ End(h) /\ UNCHANGED <<roles, desc, grant>>
  BY DEF InsertRefresh
<1>2. Kind(h) = "submit" /\ tx[h].digest \in Live /\ t \in Task
  <2>1. Running(h) /\ ~ At(h, "idle")
    BY <1>1 DEF IInv, At
  <2>2. Kind(h) = "submit" /\ tx[h].digest \in Live
    BY <1>1, <2>1 DEF Running, At
  <2> QED BY <2>1, <2>2, KindIs
<1>3. task \in [Task -> TaskRecord] /\ task[t] \in TaskRecord
  BY <1>2 DEF IInv, TypeOK
<1>4. /\ task' \in [Task -> TaskRecord]
      /\ \A u \in Task : /\ task'[u].state = task[u].state /\ task'[u].rev = task[u].rev
                         /\ task[u].record # "none" => task'[u].record = task[u].record
  <2>1. CASE task[t].record # "none"
    BY <1>3, <2>1 DEF InsertRefresh
  <2>2. CASE task[t].record = "none"
    <3>1. PICK c \in {"same", "drift"} : task' = [task EXCEPT ![t].record = c, ![t].read = tx[h].digest]
      BY <2>2, Zenon DEF InsertRefresh
    <3> DEFINE n == [state |-> task[t].state, rev |-> task[t].rev, grant |-> task[t].grant, record |-> c, read |-> tx[h].digest]
               o == [state |-> task[t].state, rev |-> task[t].rev, grant |-> task[t].grant, record |-> c, read |-> task[t].read]
    <3>2. [task[t] EXCEPT !.record = c] = o
      BY <1>3 DEF TaskRecord
    <3>3. [o EXCEPT !.read = tx[h].digest] = n
      OBVIOUS
    <3>4. n \in TaskRecord /\ n.state = task[t].state /\ n.rev = task[t].rev /\ n.record = c
      BY <1>2, <1>3 DEF TaskRecord
    <3> HIDE DEF n, o
    <3>5. task' = [task EXCEPT ![t] = [[task[t] EXCEPT !.record = c] EXCEPT !.read = tx[h].digest]]
      BY <1>2, <1>3, <3>1, Zenon
    <3>6. task' = [task EXCEPT ![t] = n]
      BY <3>2, <3>3, <3>5, ZenonT(60)
    <3> QED BY <1>2, <1>3, <2>2, <3>4, <3>6
  <2> QED BY <2>1, <2>2
<1>5. TasksOK' /\ DriftIsWithdrawn'
  BY <1>1, <1>4 DEF IInv, TasksOK, DriftIsWithdrawn, Approved
<1>6. /\ GrantsOK' /\ RevisionsOK' /\ OpenGrantIsApproved' /\ grant' \in [Grant -> GrantRecord]
      /\ desc' \in Seq(Revision) /\ \A g \in Grant : Open(g)' => Open(g) /\ grant'[g].rev = grant[g].rev
  BY <1>1 DEF IInv, TypeOK, GrantsOK, RevisionsOK, OpenGrantIsApproved, Approved, Require, Open
<1> QED BY <1>1, <1>4, <1>5, <1>6, CommitIInv

\* The acceptance of a result looks at the task's grant.
LEMMA ShareGrantIInv ==
  ASSUME IInv, NEW h \in Handler, ShareGrant(h)
  PROVE  IInv'
<1> DEFINE t == tx[h].task
           lock == GrantShare(task[t].grant)
<1>1. At(h, "share") /\ UNCHANGED <<roles, desc, grant>>
  BY SMTT(30) DEF ShareGrant
<1>2. Running(h) /\ Kind(h) = "submit" /\ tx[h].todo = {} /\ EventRow \notin held[h] /\ ~ At(h, "idle") /\ ~ At(h, "record")
  BY <1>1 DEF IInv, Running, At
<1>3. t \in Task /\ t # None /\ task[t].record # "none"
  BY <1>2, KindIs, ZenonT(60) DEF Running
<1>4. CASE task' = task /\ Goto(h, "descriptor") /\ Take(h, lock)
  <2> DEFINE l == Moved(h, "descriptor", tx[h].todo)
             m == held[h] \cup {lock}
  <2>1. tx' = [tx EXCEPT ![h] = l] /\ l \in TxRecord
    <3>1. "descriptor" \in Pc
      BY SMTT(30) DEF Pc
    <3> QED BY <1>4, <3>1, MovedIs, Zenon
  <2>2. l.pc = "descriptor" /\ l.cmd = tx[h].cmd /\ l.task = t /\ l.rev = tx[h].rev /\ l.todo = {}
    BY <1>2 DEF Moved, Local
  <2> HIDE DEF l
  <2>3. EventRow \notin m /\ \A r \in Nat : Descriptor(r) \in m => Descriptor(r) \in held[h]
    BY <1>2, RowsDiffer
  <2>4. held' = [held EXCEPT ![h] = m]
    BY <1>4 DEF Take
  <2> HIDE DEF m
  <2>5. tx'[h] = l /\ held'[h] = m => Running(h)' /\ Deciding(h)'
    <3> SUFFICES ASSUME tx'[h] = l, held'[h] = m PROVE Running(h)' /\ Deciding(h)'
      OBVIOUS
    <3>1. Kind(h)' = "submit" /\ \A p : At(h, p)' <=> p = "descriptor"
      BY <1>3, <2>2 DEF Kind, At
    <3>2. tx[h].rev = task[t].rev /\ task[t].state # "none"
      BY <1>2, <1>3 DEF Running
    <3> QED BY <1>3, <1>4, <2>2, <2>3, <3>1, <3>2, ZenonT(60) DEF Running, Deciding
  <2> QED BY <1>1, <1>4, <2>1, <2>3, <2>4, <2>5, MoveIInv, Zenon
<1>5. CASE ~ (task' = task /\ Goto(h, "descriptor") /\ Take(h, lock))
  <2>1. End(h) /\ \E s \in {"accepted", "canceled"} :
          task' = [task EXCEPT ![t].state = s] /\ (s = "accepted" => task[t].record # "drift")
    BY <1>5 DEF ShareGrant, Lock
  <2>2. PICK s \in {"accepted", "canceled"} :
          task' = [task EXCEPT ![t].state = s] /\ (s = "accepted" => task[t].record # "drift")
    BY <2>1, Zenon
  <2>3. /\ task' \in [Task -> TaskRecord] /\ task'[t].state = s
        /\ \A u \in Task : /\ task'[u].rev = task[u].rev /\ task'[u].record = task[u].record
                           /\ u # t => task'[u].state = task[u].state
    BY <1>3, <2>2, TaskStateIs, ZenonT(60)
  <2>4. task[t].state # "none"
    BY <1>2, <1>3 DEF Running
  <2>5. TasksOK' /\ DriftIsWithdrawn'
    BY <1>1, <1>3, <2>2, <2>3, <2>4, ZenonT(60) DEF IInv, TasksOK, DriftIsWithdrawn, Approved
  <2>6. /\ GrantsOK' /\ RevisionsOK' /\ OpenGrantIsApproved' /\ grant' \in [Grant -> GrantRecord]
        /\ desc' \in Seq(Revision) /\ \A g \in Grant : Open(g)' => Open(g) /\ grant'[g].rev = grant[g].rev
    BY <1>1 DEF IInv, TypeOK, GrantsOK, RevisionsOK, OpenGrantIsApproved, Approved, Require, Open
  <2>7. \A u \in Task : task[u].state # "none" => task'[u].state # "none"
    BY <1>3, <2>2, <2>3
  <2> QED BY <1>1, <2>1, <2>3, <2>5, <2>6, <2>7, CommitIInv
<1> QED BY <1>4, <1>5
-----------------------------------------------------------------------------
(* Commits.                                                                *)

\* UpdateDescriptorState changes one revision, and there only its state and
\* its reviewer.
LEMMA UpdateIs ==
  ASSUME IInv, NEW r \in DOMAIN desc, NEW s \in DescState, NEW a \in Actor \cup {None},
         desc' = UpdateDescriptorState(r, s, a)
  PROVE  /\ desc' \in Seq(Revision) /\ DOMAIN desc' = DOMAIN desc
         /\ \A q \in DOMAIN desc : /\ q # r => desc'[q] = desc[q]
                                  /\ desc'[q].digest = desc[q].digest /\ desc'[q].by = desc[q].by
         /\ desc'[r].state = s /\ desc'[r].reviewer = IF a = None THEN desc[r].reviewer ELSE a
<1> DEFINE b == IF a = None THEN desc[r].reviewer ELSE a
           o == [digest |-> desc[r].digest, state |-> s, by |-> desc[r].by, reviewer |-> desc[r].reviewer]
           n == [digest |-> desc[r].digest, state |-> s, by |-> desc[r].by, reviewer |-> b]
<1>1. desc \in Seq(Revision) /\ desc[r] \in Revision
  BY DEF IInv, TypeOK
<1>2. [desc[r] EXCEPT !.state = s] = o
  BY <1>1 DEF Revision
<1>3. [o EXCEPT !.reviewer = b] = n
  OBVIOUS
<1>4. n \in Revision /\ n.state = s /\ n.reviewer = b /\ n.digest = desc[r].digest /\ n.by = desc[r].by
  BY <1>1 DEF Revision
<1>5. o.reviewer = desc[r].reviewer
  OBVIOUS
<1> HIDE DEF n, o
<1>6. desc' = [desc EXCEPT ![r] = [o EXCEPT !.reviewer = b]]
  BY <1>1, <1>2, <1>5, Zenon DEF UpdateDescriptorState
<1>7. desc' = [desc EXCEPT ![r] = n]
  BY <1>3, <1>6, Zenon
<1> QED BY <1>1, <1>4, <1>7

\* The lock of a revision keeps every other transaction off it.
LEMMA OnlyHolder ==
  ASSUME IInv, NEW h \in Handler, NEW r \in DOMAIN desc, Descriptor(r) \in held[h]
  PROVE  r \in Nat /\ \A k \in Handler \ {h} : Descriptor(r) \notin held[k]
<1>1. r \in Nat
  BY DEF IInv, TypeOK
<1> QED BY <1>1 DEF IInv, Exclusive

\* A discovery adds a revision that waits for its review, or nothing.
LEMMA DiscoverIInv ==
  ASSUME IInv, NEW h \in Handler, At(h, "commit"), Kind(h) = "discover",
         CommitDiscover(h), End(h), UNCHANGED <<roles, task>>
  PROVE  IInv'
<1>1. tx[h].digest \in Content /\ tx[h].cmd \in Command
  <2>1. Running(h) /\ ~ At(h, "idle")
    BY DEF IInv, At
  <2>2. tx[h].digest \in Content
    BY <2>1 DEF Running, At
  <2> QED BY <2>1, <2>2, KindIs
<1> DEFINE n == [digest |-> tx[h].digest, state |-> "review_pending", by |-> Req(h).actor, reviewer |-> None]
<1>2. n \in Revision /\ n.state = "review_pending" /\ n.reviewer = None
  BY <1>1 DEF Revision, DescState, Actor, Req
<1>3. grant' = grant /\ (desc' = desc \/ desc' = Append(desc, n))
  BY DEF CommitDiscover, InsertDescriptor
<1> HIDE DEF n
<1>4. /\ desc' \in Seq(Revision) /\ \A r \in DOMAIN desc : r \in DOMAIN desc' /\ desc'[r] = desc[r]
      /\ \A r \in DOMAIN desc' : r \in DOMAIN desc \/ desc'[r] = n
  <2>1. desc \in Seq(Revision)
    BY DEF IInv, TypeOK
  <2>2. CASE desc' = Append(desc, n)
    <3>1. desc' \in Seq(Revision) /\ Len(desc') = Len(desc) + 1 /\ desc'[Len(desc) + 1] = n
      BY <1>2, <2>1, <2>2
    <3>2. \A r \in 1..Len(desc) : desc'[r] = desc[r]
      BY <2>1, <2>2
    <3>3. DOMAIN desc = 1..Len(desc) /\ DOMAIN desc' = 1..Len(desc') /\ Len(desc) \in Nat
      BY <2>1, <3>1
    <3> QED BY <3>1, <3>2, <3>3
  <2> QED BY <1>3, <2>1, <2>2
<1>5. RevisionsOK'
  BY <1>2, <1>4 DEF IInv, RevisionsOK, Require
<1>6. GrantsOK' /\ TasksOK' /\ OpenGrantIsApproved' /\ DriftIsWithdrawn'
  <2>1. \A b, k : Require(b, k)' <=> Require(b, k)
    BY Zenon DEF Require
  <2>2. \A q : Approved(q) => Approved(q)' /\ desc'[q] = desc[q]
    BY <1>4, Zenon DEF Approved
  <2>3. GrantsOK'
    BY <1>3, <2>1, <2>2, Zenon DEF IInv, GrantsOK
  <2>4. TasksOK'
    BY <2>2, Zenon DEF IInv, TasksOK
  <2>5. OpenGrantIsApproved'
    BY <1>3, <1>4, Zenon DEF IInv, OpenGrantIsApproved
  <2>6. DriftIsWithdrawn'
    BY <2>2 DEF IInv, TasksOK, DriftIsWithdrawn
  <2> QED BY <2>3, <2>4, <2>5, <2>6
<1>7. /\ grant' \in [Grant -> GrantRecord] /\ task' \in [Task -> TaskRecord]
      /\ \A g \in Grant : Open(g)' => Open(g) /\ grant'[g].rev = grant[g].rev
  BY <1>3 DEF IInv, TypeOK, Open
<1> QED BY <1>4, <1>5, <1>6, <1>7, CommitIInv, ZenonT(60)

\* A review decides on a revision no grant is on yet.
LEMMA ReviewIInv ==
  ASSUME IInv, NEW h \in Handler, At(h, "commit"), Kind(h) = "review",
         CommitReview(h), End(h), UNCHANGED <<roles, task>>
  PROVE  IInv'
<1> DEFINE r == tx[h].rev
           a == Req(h).actor
           s == Req(h).decision
<1>1. Running(h) /\ Deciding(h) /\ ~ At(h, "idle")
  BY SMTT(30) DEF IInv, At
<1>2. tx[h].cmd \in Command /\ tx[h].task = None /\ Req(h).kind = "review"
  BY <1>1, KindIs DEF Req
<1>3. Require(a, "review") /\ a \in Actor /\ a # None /\ s \in {"approved", "rejected"}
  BY <1>1, <1>2, CatalogAssumption, ZenonT(60) DEF Running, Req, Actor, CatalogAssumption
<1>4. /\ r \in DOMAIN desc /\ Descriptor(r) \in held[h] /\ desc[r].state = "review_pending"
      /\ desc[r].by # a
  BY <1>1, ZenonT(60) DEF Deciding, CheckReview, At
<1>5. desc' = UpdateDescriptorState(r, s, a) /\ grant' = grant
  BY ZenonT(60) DEF CommitReview, Decide
<1> HIDE DEF r, a, s
<1>6. /\ desc' \in Seq(Revision) /\ DOMAIN desc' = DOMAIN desc
      /\ \A q \in DOMAIN desc : q # r => desc'[q] = desc[q]
      /\ desc'[r].by = desc[r].by /\ desc'[r].state = s /\ desc'[r].reviewer = a
  BY <1>3, <1>4, <1>5, UpdateIs DEF DescState
<1>7. RevisionsOK'
  <2>1. \A b, k : Require(b, k)' <=> Require(b, k)
    BY DEF Require
  <2>2. ASSUME NEW q \in DOMAIN desc
        PROVE  /\ desc'[q].state = "review_pending" => desc'[q].reviewer = None
               /\ desc'[q].state = "approved" => desc'[q].reviewer # None
               /\ desc'[q].reviewer # None => Require(desc'[q].reviewer, "review") /\ desc'[q].reviewer # desc'[q].by
    <3>1. CASE q = r
      BY <1>3, <1>4, <1>6, <3>1, SMTT(30)
    <3>2. CASE q # r
      BY <1>6, <3>2 DEF IInv, RevisionsOK
    <3> QED BY <3>1, <3>2
  <2> QED BY <1>6, <2>1, <2>2 DEF RevisionsOK
<1>8. /\ \A g \in Grant : grant[g].state # "none" => grant[g].rev # r
      /\ \A t \in Task : task[t].state # "none" => task[t].rev # r
  BY <1>4 DEF IInv, GrantsOK, TasksOK, Approved
<1>9. OpenGrantIsApproved' /\ GrantsOK' /\ TasksOK' /\ DriftIsWithdrawn'
  <2>1. GrantsOK' /\ TasksOK'
    BY <1>5, <1>6, <1>8, SMTT(30) DEF IInv, GrantsOK, TasksOK, Approved, Require
  <2>2. OpenGrantIsApproved' /\ DriftIsWithdrawn'
    BY <1>5, <1>6, <1>8 DEF IInv, OpenGrantIsApproved, DriftIsWithdrawn, GrantsOK, TasksOK, Approved
  <2> QED BY <2>1, <2>2, SMTT(30)
<1>10. /\ grant' \in [Grant -> GrantRecord] /\ task' \in [Task -> TaskRecord]
       /\ \A g \in Grant : Open(g)' => Open(g) /\ grant'[g].rev = grant[g].rev
  BY <1>5 DEF IInv, TypeOK, Open
<1>11. \A q \in DOMAIN desc : q \in DOMAIN desc' /\ \A k \in Handler \ {h} : Descriptor(q) \in held[k] => desc'[q] = desc[q]
  BY <1>4, <1>6, OnlyHolder, ZenonT(60)
<1> QED BY <1>6, <1>7, <1>9, <1>10, <1>11, CommitIInv, Zenon

\* Disabling a revision revokes every grant that is open on it, because the
\* transaction has locked each of them and no other transaction could add
\* one: the row of the revision is locked.
LEMMA DisableLockedIInv ==
  ASSUME IInv, NEW h \in Handler, At(h, "commit"), Kind(h) \in {"disable", "submit"},
         DisableLocked(h), End(h), roles' = roles, task' \in [Task -> TaskRecord],
         \A u \in Task : /\ task'[u].rev = task[u].rev /\ task'[u].record = task[u].record
                        /\ \/ task'[u].state = task[u].state
                           \/ /\ task[u].state # "none" /\ task'[u].state = "accepted"
                              /\ task[u].record # "none" /\ task[u].rev = tx[h].rev
  PROVE  IInv'
<1> DEFINE r == tx[h].rev
<1>1. Running(h) /\ Deciding(h) /\ tx[h].todo = {}
  BY ZenonT(60) DEF IInv, Running, At
<1>2. /\ r \in DOMAIN desc /\ Descriptor(r) \in held[h]
      /\ \A g \in ListGrantsOfDescriptor(r) : GrantRow(g) \in held[h]
  BY <1>1, Zenon DEF Deciding, At
<1>3. /\ desc' = UpdateDescriptorState(r, "disabled", None)
      /\ grant' = [g \in Grant |->
                     IF GrantRow(g) \in held[h] /\ grant[g].state \notin {"none", "revoking", "revoked"}
                     THEN [grant[g] EXCEPT !.state = "revoking"] ELSE grant[g]]
  BY SMTT(30) DEF DisableLocked, Decide, RevokeLocked
<1>4. \A g \in Grant : Open(g) /\ grant[g].rev = r => GrantRow(g) \in held[h]
  BY <1>2, ZenonT(60) DEF ListGrantsOfDescriptor, Open
<1> HIDE DEF r
<1>5. /\ desc' \in Seq(Revision) /\ DOMAIN desc' = DOMAIN desc
      /\ \A q \in DOMAIN desc : q # r => desc'[q] = desc[q]
      /\ \A q \in DOMAIN desc : /\ desc'[q].digest = desc[q].digest /\ desc'[q].by = desc[q].by
                               /\ desc'[q].reviewer = desc[q].reviewer
                               /\ desc'[q].state \in {desc[q].state, "disabled"}
      /\ desc'[r].state = "disabled"
  BY <1>2, <1>3, UpdateIs DEF DescState
<1>6. ASSUME NEW g \in Grant
      PROVE  /\ grant'[g] \in GrantRecord /\ grant'[g].rev = grant[g].rev /\ grant'[g].by = grant[g].by /\ grant'[g].of = grant[g].of
             /\ Open(g)' => Open(g) /\ grant[g].rev # r
             /\ grant'[g].state # "none" => grant[g].state # "none"
  <2>1. grant[g] \in GrantRecord
    BY DEF IInv, TypeOK
  <2>2. CASE GrantRow(g) \in held[h] /\ grant[g].state \notin {"none", "revoking", "revoked"}
    <3>1. grant'[g] = [grant[g] EXCEPT !.state = "revoking"]
      BY <1>3, <2>2
    <3>2. "revoking" \in GrantState
      BY Zenon DEF GrantState, BarrierMove
    <3>3. /\ grant'[g] \in GrantRecord /\ grant'[g].rev = grant[g].rev /\ grant'[g].by = grant[g].by
          /\ grant'[g].of = grant[g].of /\ grant'[g].state = "revoking"
      BY <2>1, <3>1, <3>2 DEF GrantRecord
    <3> QED BY <2>2, <3>3, Zenon DEF Open
  <2>3. CASE ~ (GrantRow(g) \in held[h] /\ grant[g].state \notin {"none", "revoking", "revoked"})
    <3>1. grant'[g] = grant[g]
      BY <1>3, <2>3
    <3> QED BY <1>4, <2>1, <2>3, <3>1 DEF Open
  <2> QED BY <2>2, <2>3, Zenon
<1>7. grant' \in [Grant -> GrantRecord]
  BY <1>3, <1>6
<1>8. RevisionsOK'
  <2>1. \A b, k : Require(b, k)' <=> Require(b, k)
    BY Zenon DEF Require
  <2>2. ASSUME NEW q \in DOMAIN desc
        PROVE  /\ desc'[q].state = "review_pending" => desc'[q].reviewer = None
               /\ desc'[q].state = "approved" => desc'[q].reviewer # None
               /\ desc'[q].reviewer # None => Require(desc'[q].reviewer, "review") /\ desc'[q].reviewer # desc'[q].by
    <3>1. /\ desc'[q].by = desc[q].by /\ desc'[q].reviewer = desc[q].reviewer
          /\ desc'[q].state = desc[q].state \/ desc'[q].state = "disabled"
      BY <1>5
    <3>2. /\ desc[q].state = "review_pending" => desc[q].reviewer = None
          /\ desc[q].state = "approved" => desc[q].reviewer # None
          /\ desc[q].reviewer # None => Require(desc[q].reviewer, "review") /\ desc[q].reviewer # desc[q].by
      BY Zenon DEF IInv, RevisionsOK
    <3> QED BY <3>1, <3>2
  <2> QED BY <1>5, <2>1, <2>2, Zenon DEF RevisionsOK
<1>9. \A q : Approved(q) => Approved(q)'
  BY <1>5 DEF Approved
<1>10. ASSUME NEW u \in Task, task'[u].state # "none"
       PROVE  /\ Approved(task[u].rev)'
              /\ task'[u].state = "accepted" => task'[u].record # "none"
              /\ task'[u].state = "accepted" /\ task'[u].record = "drift" => desc'[task'[u].rev].state = "disabled"
  <2>1. task[u].state # "none" /\ task'[u].rev = task[u].rev /\ task'[u].record = task[u].record /\ Approved(task[u].rev)
    BY <1>10 DEF IInv, TasksOK
  <2>2. task[u].rev \in DOMAIN desc
    BY <2>1, SMTT(30) DEF Approved
  <2>3. CASE task'[u].state = task[u].state
    BY <1>5, <1>9, <2>1, <2>2, <2>3, SMTT(30) DEF IInv, TasksOK, DriftIsWithdrawn
  <2>4. CASE task'[u].state # task[u].state
    BY <1>5, <1>9, <2>1, <2>2, <2>4 DEF r
  <2> QED BY <2>3, <2>4, SMTT(30)
<1>11. TasksOK' /\ DriftIsWithdrawn'
  BY <1>10 DEF TasksOK, DriftIsWithdrawn
<1>12. OpenGrantIsApproved'
  BY <1>5, <1>6 DEF IInv, OpenGrantIsApproved, Open
<1>13. GrantsOK'
  <2>1. \A b, k : Require(b, k)' <=> Require(b, k)
    BY DEF Require
  <2>2. \A q : Approved(q) => q \in DOMAIN desc /\ desc'[q].digest = desc[q].digest
    BY <1>5 DEF Approved
  <2>3. ASSUME NEW g \in Grant, grant'[g].state # "none"
        PROVE  /\ Approved(grant[g].rev)' /\ Require(grant[g].by, "create")'
               /\ grant'[g].of = desc'[grant'[g].rev].digest
    <3>1. grant[g].state # "none" /\ grant'[g].rev = grant[g].rev /\ grant'[g].by = grant[g].by /\ grant'[g].of = grant[g].of
      BY <1>6, <2>3, Zenon
    <3>2. Approved(grant[g].rev) /\ grant[g].of = desc[grant[g].rev].digest /\ Require(grant[g].by, "create")
      BY <3>1, Zenon DEF IInv, GrantsOK
    <3> QED BY <1>9, <2>1, <2>2, <3>1, <3>2, Zenon
  <2> QED BY <2>3, Zenon DEF GrantsOK
<1>14. \A q \in DOMAIN desc : q \in DOMAIN desc' /\ \A k \in Handler \ {h} : Descriptor(q) \in held[k] => desc'[q] = desc[q]
  BY <1>2, <1>5, OnlyHolder
<1>15. \A u \in Task : task[u].state # "none" =>
         /\ task'[u].state # "none" /\ task'[u].rev = task[u].rev
         /\ task[u].record # "none" => task'[u].record # "none"
  OBVIOUS
<1> QED BY <1>5, <1>6, <1>7, <1>8, <1>11, <1>12, <1>13, <1>14, <1>15, CommitIInv, ZenonT(60)

\* A step that ends a transaction and leaves the catalog, the grants and the
\* tasks as they are.
LEMMA EmptyCommitIInv ==
  ASSUME IInv, NEW h \in Handler, End(h), UNCHANGED <<roles, desc, grant, task>>
  PROVE  IInv'
BY EndsIdle, LocalIInv, ZenonT(60) DEF End

\* A disable.
LEMMA DisableIInv ==
  ASSUME IInv, NEW h \in Handler, At(h, "commit"), Kind(h) = "disable",
         CommitDisable(h), End(h), UNCHANGED <<roles, task>>
  PROVE  IInv'
<1>1. CASE desc[tx[h].rev].state = "disabled"
  BY <1>1, EmptyCommitIInv DEF CommitDisable
<1>2. CASE desc[tx[h].rev].state # "disabled"
  <2>1. DisableLocked(h)
    BY <1>2 DEF CommitDisable
  <2>2. task' \in [Task -> TaskRecord]
    BY DEF IInv, TypeOK
  <2> QED BY <2>1, <2>2, DisableLockedIInv
<1> QED BY <1>1, <1>2

\* The commit of a discovery, a review or a disable.
LEMMA CommandIInv ==
  ASSUME IInv, NEW h \in Handler, CommitCommand(h)
  PROVE  IInv'
<1>1. At(h, "commit") /\ Kind(h) \in {"discover", "review", "disable"}
  BY DEF CommitCommand
<1>2. CASE recorded[tx[h].cmd] # 0
  BY <1>2, RollbackIInv DEF CommitCommand, DuplicateKey
<1>3. CASE recorded[tx[h].cmd] = 0
  <2>1. End(h) /\ UNCHANGED <<roles, task>>
    BY <1>3 DEF CommitCommand
  <2>2. CASE Kind(h) = "discover"
    BY <1>1, <1>3, <2>1, <2>2, DiscoverIInv DEF CommitCommand
  <2>3. CASE Kind(h) = "review"
    BY <1>1, <1>3, <2>1, <2>3, ReviewIInv DEF CommitCommand
  <2>4. CASE Kind(h) = "disable"
    BY <1>1, <1>3, <2>1, <2>4, DisableIInv DEF CommitCommand
  <2> QED BY <1>1, <2>2, <2>3, <2>4
<1> QED BY <1>2, <1>3

\* The acceptance of a drift withdraws the revision, or finds it withdrawn.
LEMMA CommitSubmitIInv ==
  ASSUME IInv, NEW h \in Handler, CommitSubmit(h)
  PROVE  IInv'
<1> DEFINE t == tx[h].task
           r == tx[h].rev
<1>1. At(h, "commit") /\ Kind(h) = "submit" /\ End(h) /\ roles' = roles /\ task' = [task EXCEPT ![t].state = "accepted"]
  BY DEF CommitSubmit
<1>2. Running(h) /\ Deciding(h) /\ ~ At(h, "idle") /\ ~ At(h, "record")
  BY <1>1 DEF IInv, At
<1>3. t \in Task /\ r = task[t].rev /\ task[t].state # "none" /\ task[t].record # "none"
  BY <1>1, <1>2, KindIs DEF Running
<1>4. /\ task' \in [Task -> TaskRecord] /\ task'[t].state = "accepted"
      /\ \A u \in Task : /\ task'[u].rev = task[u].rev /\ task'[u].record = task[u].record
                         /\ u # t => task'[u].state = task[u].state
  BY <1>1, <1>3, TaskStateIs, ZenonT(60)
<1>5. \A u \in Task : /\ task'[u].rev = task[u].rev /\ task'[u].record = task[u].record
                      /\ \/ task'[u].state = task[u].state
                         \/ /\ task[u].state # "none" /\ task'[u].state = "accepted"
                            /\ task[u].record # "none" /\ task[u].rev = r
  BY <1>3, <1>4
<1>6. CASE EventRow \in held[h]
  <2>1. DisableLocked(h)
    BY <1>6 DEF CommitSubmit
  <2> QED BY <1>1, <1>4, <1>5, <2>1, DisableLockedIInv
<1>7. CASE EventRow \notin held[h]
  <2>1. UNCHANGED <<desc, grant>>
    BY <1>7 DEF CommitSubmit
  <2>2. r \in DOMAIN desc /\ desc[r].state = "disabled"
    BY <1>1, <1>2, <1>7 DEF Deciding, At
  <2>3. ASSUME NEW u \in Task, task'[u].state # "none"
        PROVE  /\ Approved(task[u].rev)'
               /\ task'[u].state = "accepted" => task'[u].record # "none"
               /\ task'[u].state = "accepted" /\ task'[u].record = "drift" => desc'[task'[u].rev].state = "disabled"
    <3>1. task[u].state # "none" /\ task'[u].rev = task[u].rev /\ task'[u].record = task[u].record
      BY <1>5, <2>3
    <3>2. Approved(task[u].rev)'
      BY <2>1, <3>1, Zenon DEF IInv, TasksOK, Approved
    <3>3. CASE task'[u].state = task[u].state
      <4>1. /\ task[u].state = "accepted" => task[u].record # "none"
            /\ task[u].state = "accepted" /\ task[u].record = "drift" => desc[task[u].rev].state = "disabled"
        BY <3>1, Zenon DEF IInv, TasksOK, DriftIsWithdrawn
      <4> QED BY <2>1, <3>1, <3>2, <3>3, <4>1
    <3>4. CASE task'[u].state # task[u].state
      <4>1. task[u].record # "none" /\ task[u].rev = r
        BY <1>5, <3>4
      <4> QED BY <2>1, <2>2, <3>1, <3>2, <4>1
    <3> QED BY <3>3, <3>4
  <2>4. TasksOK' /\ DriftIsWithdrawn'
    BY <2>3, Zenon DEF TasksOK, DriftIsWithdrawn
  <2>5. /\ GrantsOK' /\ RevisionsOK' /\ OpenGrantIsApproved' /\ grant' \in [Grant -> GrantRecord]
        /\ desc' \in Seq(Revision) /\ \A g \in Grant : Open(g)' => Open(g) /\ grant'[g].rev = grant[g].rev
    BY <1>1, <2>1 DEF IInv, TypeOK, GrantsOK, RevisionsOK, OpenGrantIsApproved, Approved, Require, Open
  <2>6. \A u \in Task : task[u].state # "none" => task'[u].state # "none"
    BY <1>4, <1>5
  <2> QED BY <1>1, <1>4, <2>1, <2>4, <2>5, <2>6, CommitIInv
<1> QED BY <1>6, <1>7

\* A grant is created on an approved revision whose row is locked.
LEMMA CreateIInv ==
  ASSUME IInv, NEW h \in Handler, CommitCreate(h)
  PROVE  IInv'
<1> DEFINE r == tx[h].rev
           c == tx[h].cmd
           g == Req(h).grant
           n == [state |-> "pending", rev |-> r, by |-> Req(h).actor, of |-> Req(h).digest]
<1>1. CASE grant[g].state # "none"
  BY <1>1, RollbackIInv DEF CommitCreate, DuplicateKey
<1>2. CASE grant[g].state = "none"
  <2>1. /\ At(h, "commit") /\ Kind(h) = "create" /\ End(h) /\ UNCHANGED <<roles, desc, task>>
        /\ grant' = [grant EXCEPT ![g] = n]
    BY <1>2 DEF CommitCreate, InsertGrant
  <2>2. Running(h) /\ Deciding(h) /\ ~ At(h, "idle")
    BY <2>1, SMTT(30) DEF IInv, At
  <2>3. c \in CommandsOf("create") /\ tx[h].task = None /\ Req(h) = Request[c]
    BY <2>1, <2>2, KindIs DEF CommandsOf, Req
  <2>4. Require(Req(h).actor, "create")
    BY <2>1, <2>2, <2>3, CatalogAssumption, ZenonT(60) DEF Running, CommandsOf, CatalogAssumption
  <2>5. /\ r \in DOMAIN desc /\ Descriptor(r) \in held[h]
        /\ desc[r].digest = Req(h).digest /\ desc[r].state = "approved"
    BY <2>1, <2>2, ZenonT(60) DEF Deciding, NewGrant, At
  <2>6. g \in Grant /\ Req(h).actor \in Actor
    BY <2>3 DEF Grant, CommandsOf, Actor
  <2>7. r \in Nat
    BY <2>5, OnlyHolder
  <2>8. n \in GrantRecord /\ n.state = "pending" /\ n.rev = r /\ n.by = Req(h).actor /\ n.of = Req(h).digest
    BY <2>3, <2>6, <2>7 DEF GrantRecord, GrantState, BarrierMove
  <2> HIDE DEF n, g
  <2>9. grant' \in [Grant -> GrantRecord] /\ grant'[g] = n /\ \A k \in Grant : k # g => grant'[k] = grant[k]
    BY <2>1, <2>6, <2>8 DEF IInv, TypeOK
  <2>10. Approved(r)
    BY <2>5, ZenonT(60) DEF IInv, RevisionsOK, Approved
  <2>11. /\ \A b, k : Require(b, k)' <=> Require(b, k)
         /\ \A q : Approved(q)' <=> Approved(q)
    BY <2>1 DEF Require, Approved
  <2>12. GrantsOK'
    BY <2>1, <2>4, <2>5, <2>8, <2>9, <2>10, <2>11, ZenonT(60) DEF IInv, GrantsOK
  <2>13. OpenGrantIsApproved'
    BY <2>1, <2>5, <2>8, <2>9 DEF IInv, OpenGrantIsApproved
  <2>14. RevisionsOK' /\ TasksOK' /\ DriftIsWithdrawn' /\ desc' \in Seq(Revision) /\ task' \in [Task -> TaskRecord]
    BY <2>1, <2>11 DEF IInv, TypeOK, RevisionsOK, TasksOK, DriftIsWithdrawn
  <2>15. ASSUME NEW k \in Grant, NEW i \in Handler \ {h}, Open(k)', Descriptor(grant'[k].rev) \in held[i]
         PROVE  Open(k) /\ grant'[k].rev = grant[k].rev
    <3>1. \A j \in Handler \ {h} : Descriptor(r) \notin held[j]
      BY <2>5, OnlyHolder
    <3>2. k # g
      BY <2>8, <2>9, <2>15, <3>1
    <3> QED BY <2>9, <2>15, <3>2 DEF Open
  <2> QED BY <2>1, <2>9, <2>12, <2>13, <2>14, <2>15, CommitIInv
<1> QED BY <1>1, <1>2
-----------------------------------------------------------------------------
(* The theorems.                                                           *)

\* Every step keeps the invariant.
LEMMA NextIInv ==
  ASSUME IInv, [Next]_vars
  PROVE  IInv'
<1>1. CASE UNCHANGED vars
  BY <1>1, SameIInv DEF vars, rows
<1>2. ASSUME NEW h \in Handler, Statement(h) PROVE IInv'
  BY <1>2, ReadLiveIInv, ServerIInv, LockDescriptorIInv, NextEventRevisionIInv, LockGrantIInv, CommandIInv,
     CreateIInv, InsertRefreshIInv, ShareGrantIInv, CommitSubmitIInv DEF Statement
<1>3. ASSUME NEW h \in Handler, BreakDeadlock(h) \/ Fail(h) PROVE IInv'
  BY <1>3, RollbackIInv DEF BreakDeadlock, Fail
<1>4. ASSUME NEW h \in Handler, NEW c \in Command, Replay(h, c) PROVE IInv'
  BY <1>4, ReplayIInv
<1>5. ASSUME NEW h \in Handler, NEW t \in Task, Advance(h, t) \/ Submit(h, t) PROVE IInv'
  BY <1>5, BeginTaskIInv
<1>6. ASSUME NEW g \in Grant, BarrierStep(g) PROVE IInv'
  BY <1>6, BarrierIInv
<1>7. ASSUME NEW t \in Task, Schedule(t) \/ Lease(t) PROVE IInv'
  BY <1>7, ScheduleIInv, LeaseIInv
<1> QED BY <1>1, <1>2, <1>3, <1>4, <1>5, <1>6, <1>7, RestartIInv DEF Next

\* The invariant holds in every behaviour.
THEOREM Invariance == Spec => []IInv
<1>1. Init => IInv
  BY InitIInv
<1>2. IInv /\ [Next]_vars => IInv'
  BY NextIInv
<1> QED BY <1>1, <1>2, PTL DEF Spec

\* The rows, the handlers and their locks keep their shapes: every revision's
\* content was read from the server under a declaration, and every decision
\* and grant is somebody's who sent a command.
THEOREM TypeCorrect == Spec => []TypeOK
<1>1. IInv => TypeOK
  BY DEF IInv
<1> QED BY <1>1, Invariance, PTL

\* However Create, the barrier, Disable and accepted drifts interleave, a
\* grant that is pending or active is on an approved revision.
THEOREM OpenGrantsApproved == Spec => []OpenGrantIsApproved
<1>1. IInv => OpenGrantIsApproved
  BY DEF IInv
<1> QED BY <1>1, Invariance, PTL

\* An accepted refresh that found drift has withdrawn its revision.
THEOREM DriftWithdrawn == Spec => []DriftIsWithdrawn
<1>1. IInv => DriftIsWithdrawn
  BY DEF IInv
<1> QED BY <1>1, Invariance, PTL

\* An accepted role file gives nobody both reviews and grants.
LEMMA RolesApart ==
  ASSUME NEW file, NewAuthorizer(file), NEW a
  PROVE  ~ (Allowed(file, a, "review") /\ Allowed(file, a, "create"))
<1> SUFFICES ASSUME Allowed(file, a, "review"), Allowed(file, a, "create") PROVE FALSE
  OBVIOUS
<1>1. PICK x \in file : x[1] = a /\ <<x[2], "review">> \in Policies
  BY DEF Allowed
<1>2. PICK y \in file : y[1] = a /\ <<y[2], "create">> \in Policies
  BY DEF Allowed
<1>3. x[2] = "catalog_reviewer"
  BY <1>1 DEF Policies
<1>4. y[2] = "grant_manager"
  BY <1>2 DEF Policies
<1> QED BY <1>1, <1>2, <1>3, <1>4 DEF NewAuthorizer

\* Nobody approves what they discovered, a grant is on the approved content,
\* and who approved a content hands out access to it only after the operator
\* took one role from them and gave them the other, whatever files are deployed.
THEOREM AccessSeparated == Spec => []AccessIsSeparated
<1>1. ASSUME IInv PROVE AccessIsSeparated
  <2>1. ASSUME NEW r \in DOMAIN desc PROVE desc[r].reviewer # desc[r].by
    <3>1. desc[r] \in Revision
      BY <1>1 DEF IInv, TypeOK
    <3>2. desc[r].by # None
      BY <3>1, CatalogAssumption, SMTT(30) DEF Revision, Actor, CatalogAssumption
    <3> QED BY <1>1, <3>2 DEF IInv, RevisionsOK
  <2>2. ASSUME NEW g \in Grant, grant[g].state # "none"
        PROVE  /\ desc[grant[g].rev].reviewer # None
               /\ grant[g].of = desc[grant[g].rev].digest
               /\ grant[g].by = desc[grant[g].rev].reviewer =>
                     \E old, new \in roles :
                        old # new /\ Allowed(old, grant[g].by, "review") /\ Allowed(new, grant[g].by, "create")
    <3>1. Approved(grant[g].rev) /\ grant[g].of = desc[grant[g].rev].digest /\ Require(grant[g].by, "create")
      BY <1>1, <2>2 DEF IInv, GrantsOK
    <3>2. desc[grant[g].rev].reviewer # None /\ Require(desc[grant[g].rev].reviewer, "review")
      BY <1>1, <3>1 DEF Approved, IInv, RevisionsOK
    <3>3. PICK new \in roles : Allowed(new, grant[g].by, "create")
      BY <3>1 DEF Require
    <3>4. PICK old \in roles : Allowed(old, desc[grant[g].rev].reviewer, "review")
      BY <3>2 DEF Require
    <3>5. grant[g].by = desc[grant[g].rev].reviewer => old # new
      BY <1>1, <3>3, <3>4, RolesApart DEF IInv, TypeOK
    <3> QED BY <3>1, <3>2, <3>3, <3>4, <3>5
  <2> QED BY <2>1, <2>2 DEF AccessIsSeparated
<1> QED BY <1>1, Invariance, PTL

\* Only the commit of a command records one, and only one not recorded yet.
LEMMA RecordsOnce ==
  ASSUME Next
  PROVE  \/ recorded' = recorded
         \/ \E h \in Handler : \E r : recorded[tx[h].cmd] = 0 /\ recorded' = [recorded EXCEPT ![tx[h].cmd] = r]
<1>1. ASSUME NEW h \in Handler, CommitCommand(h)
      PROVE  recorded' = recorded \/ \E r : recorded[tx[h].cmd] = 0 /\ recorded' = [recorded EXCEPT ![tx[h].cmd] = r]
  BY <1>1, Zenon DEF CommitCommand, DuplicateKey, Rollback, CommitDiscover, CommitReview, CommitDisable, Record
<1>2. ASSUME NEW h \in Handler, Statement(h), ~ CommitCommand(h) PROVE recorded' = recorded
  BY <1>2, Zenon DEF Statement, ReadLive, SelectServer, InsertServer, DuplicateKey, LockDescriptor, Rollback, NextEventRevision,
     LockGrant, CommitCreate, InsertRefresh, ShareGrant, CommitSubmit, rows
<1>3. ASSUME NEW h \in Handler, BreakDeadlock(h) \/ Fail(h) PROVE recorded' = recorded
  BY <1>3 DEF BreakDeadlock, Fail, Rollback
<1>4. ASSUME NEW h \in Handler, NEW c \in Command, Replay(h, c) PROVE recorded' = recorded
  BY <1>4 DEF Replay, rows
<1>5. ASSUME NEW h \in Handler, NEW t \in Task, Advance(h, t) \/ Submit(h, t) PROVE recorded' = recorded
  BY <1>5, Zenon DEF Advance, Submit, rows
<1>6. ASSUME NEW g \in Grant, BarrierStep(g) PROVE recorded' = recorded
  BY <1>6 DEF BarrierStep
<1>7. ASSUME NEW t \in Task, Schedule(t) \/ Lease(t) PROVE recorded' = recorded
  BY <1>7 DEF Schedule, Lease
<1>8. CASE Restart
  BY <1>8, SMTT(30) DEF Restart, rows
<1> QED BY <1>1, <1>2, <1>3, <1>4, <1>5, <1>6, <1>7, <1>8 DEF Next

\* What a step may do to the revisions there are.
Keeps(r) ==
    /\ desc'[r].digest = desc[r].digest /\ desc'[r].by = desc[r].by
    /\ desc[r].reviewer # None => desc'[r].reviewer = desc[r].reviewer
    /\ desc'[r].state # desc[r].state => desc[r].state = "review_pending" \/ desc'[r].state = "disabled"

\* A disabled revision keeps its content and its reviewer.
LEMMA DisableKeeps ==
  ASSUME IInv, NEW h \in Handler, At(h, "commit"), Kind(h) \in {"disable", "submit"}, DisableLocked(h), NEW r \in DOMAIN desc
  PROVE  Keeps(r)
<1>1. tx[h].rev \in DOMAIN desc
  BY ZenonT(60) DEF IInv, Deciding, At
<1>2. desc' = UpdateDescriptorState(tx[h].rev, "disabled", None)
  BY DEF DisableLocked, Decide
<1> QED BY <1>1, <1>2, UpdateIs DEF Keeps, DescState

\* A commit of a command keeps the decisions taken before it.
LEMMA CommandKeeps ==
  ASSUME IInv, NEW h \in Handler, CommitCommand(h), NEW r \in DOMAIN desc
  PROVE  Keeps(r)
<1>1. At(h, "commit") /\ Kind(h) \in {"discover", "review", "disable"} /\ Running(h) /\ Deciding(h)
  BY DEF CommitCommand, IInv
<1>2. CASE desc' = desc
  BY <1>2 DEF Keeps
<1>3. CASE recorded[tx[h].cmd] # 0
  BY <1>2, <1>3 DEF CommitCommand, DuplicateKey, Rollback
<1>4. CASE recorded[tx[h].cmd] = 0 /\ Kind(h) = "discover"
  <2>1. CommitDiscover(h)
    BY <1>4 DEF CommitCommand
  <2>2. desc' = desc \/ desc' = InsertDescriptor(h)
    BY <2>1 DEF CommitDiscover
  <2> DEFINE n == [digest |-> tx[h].digest, state |-> "review_pending", by |-> Req(h).actor, reviewer |-> None]
  <2>3. n \in Revision
    <3>1. tx[h].cmd \in Command /\ tx[h].digest \in Content
      BY <1>1, <1>4, KindIs, Zenon DEF Running, At
    <3> QED BY <3>1 DEF Revision, DescState, Actor, Req
  <2>4. InsertDescriptor(h) = Append(desc, n) /\ desc \in Seq(Revision)
    BY DEF InsertDescriptor, IInv, TypeOK
  <2> HIDE DEF n
  <2>5. desc' = Append(desc, n) => desc'[r] = desc[r]
    BY <2>3, <2>4
  <2> QED BY <1>2, <2>2, <2>4, <2>5 DEF Keeps
<1>5. CASE recorded[tx[h].cmd] = 0 /\ Kind(h) = "review"
  <2> DEFINE q == tx[h].rev
             a == Req(h).actor
             s == Req(h).decision
  <2>1. desc' = UpdateDescriptorState(q, s, a)
    BY <1>5, SMTT(30) DEF CommitCommand, CommitReview, Decide
  <2>2. q \in DOMAIN desc /\ desc[q].state = "review_pending"
    BY <1>1, <1>5, ZenonT(60) DEF Deciding, CheckReview, At
  <2>3. desc[q].reviewer = None
    BY <2>2 DEF IInv, RevisionsOK
  <2>4. tx[h].cmd \in Command /\ Req(h).kind = "review"
    BY <1>1, <1>5, KindIs DEF At, Req
  <2>5. a \in Actor /\ s \in DescState
    BY <2>4, CatalogAssumption DEF Actor, Req, DescState, CatalogAssumption
  <2> HIDE DEF q, a, s
  <2> QED BY <2>1, <2>2, <2>3, <2>5, UpdateIs DEF Keeps
<1>6. CASE recorded[tx[h].cmd] = 0 /\ Kind(h) = "disable"
  <2>1. DisableLocked(h) \/ desc' = desc
    BY <1>6 DEF CommitCommand, CommitDisable
  <2> QED BY <1>1, <1>2, <1>6, <2>1, DisableKeeps
<1> QED BY <1>1, <1>3, <1>4, <1>5, <1>6, Zenon

\* Every step keeps the decisions taken before it.
LEMMA NextKeeps ==
  ASSUME IInv, Next, NEW r \in DOMAIN desc
  PROVE  Keeps(r)
<1>1. CASE desc' = desc
  BY <1>1 DEF Keeps
<1>2. ASSUME NEW h \in Handler, CommitCommand(h) PROVE Keeps(r)
  BY <1>2, CommandKeeps
<1>3. ASSUME NEW h \in Handler, CommitSubmit(h) PROVE Keeps(r)
  <2>1. At(h, "commit") /\ Kind(h) = "submit" /\ (DisableLocked(h) \/ desc' = desc)
    BY <1>3 DEF CommitSubmit
  <2> QED BY <1>1, <2>1, DisableKeeps
<1>4. ASSUME NEW h \in Handler, Statement(h), ~ CommitCommand(h), ~ CommitSubmit(h) PROVE desc' = desc
  BY <1>4, Zenon DEF Statement, ReadLive, SelectServer, InsertServer, DuplicateKey, LockDescriptor, Rollback, NextEventRevision,
     LockGrant, CommitCreate, InsertRefresh, ShareGrant, rows
<1>5. ASSUME NEW h \in Handler, BreakDeadlock(h) \/ Fail(h) PROVE desc' = desc
  BY <1>5 DEF BreakDeadlock, Fail, Rollback
<1>6. ASSUME NEW h \in Handler, NEW c \in Command, Replay(h, c) PROVE desc' = desc
  BY <1>6 DEF Replay, rows
<1>7. ASSUME NEW h \in Handler, NEW t \in Task, Advance(h, t) \/ Submit(h, t) PROVE desc' = desc
  BY <1>7, Zenon DEF Advance, Submit, rows
<1>8. ASSUME NEW g \in Grant, BarrierStep(g) PROVE desc' = desc
  BY <1>8 DEF BarrierStep
<1>9. ASSUME NEW t \in Task, Schedule(t) \/ Lease(t) PROVE desc' = desc
  BY <1>9 DEF Schedule, Lease
<1>10. CASE Restart
  BY <1>1, <1>10 DEF Restart, rows
<1> QED BY <1>1, <1>2, <1>3, <1>4, <1>5, <1>6, <1>7, <1>8, <1>9, <1>10 DEF Next

\* The record of commands is over all commands.
LEMMA RecordedShape == Spec => [](DOMAIN recorded = Command)
<1>1. Init => DOMAIN recorded = Command
  BY DEF Init
<1>2. DOMAIN recorded = Command /\ [Next]_vars => (DOMAIN recorded = Command)'
  BY RecordsOnce DEF vars, rows
<1> QED BY <1>1, <1>2, PTL DEF Spec

\* No decision on a revision and no recorded command is ever taken back.
THEOREM DecisionsAreKept == Spec => DecisionsStay
<1> DEFINE Kept == /\ \A r \in DOMAIN desc :
                        /\ desc'[r].digest = desc[r].digest /\ desc'[r].by = desc[r].by
                        /\ desc[r].reviewer # None => desc'[r].reviewer = desc[r].reviewer
                        /\ desc'[r].state # desc[r].state => desc[r].state = "review_pending" \/ desc'[r].state = "disabled"
                   /\ \A c \in Command : recorded[c] # 0 => recorded'[c] = recorded[c]
<1>1. IInv /\ DOMAIN recorded = Command /\ [Next]_vars => [Kept]_vars
  <2>1. ASSUME IInv, Next PROVE \A r \in DOMAIN desc : Keeps(r)
    BY <2>1, NextKeeps
  <2>2. ASSUME DOMAIN recorded = Command, Next, NEW c \in Command, recorded[c] # 0 PROVE recorded'[c] = recorded[c]
    BY <2>2, RecordsOnce
  <2> QED BY <2>1, <2>2 DEF Keeps
<1>2. Spec => [][Next]_vars
  BY PTL DEF Spec
<1> QED BY <1>1, <1>2, Invariance, RecordedShape, PTL DEF DecisionsStay
=============================================================================
