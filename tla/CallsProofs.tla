---------------------------- MODULE CallsProofs ----------------------------
(***************************************************************************)
(* Proofs about Calls for any number of calls, replicas, operators, grants *)
(* and faults.                                                             *)
(***************************************************************************)
EXTENDS Calls, TLAPS

\* States of a row before or without its send marker.
Unsent == {"none", "accepted", "admitted", "denied", "canceled"}
\* Where an operator's reconciliation may be.
OperatorPc == {"idle", "reload", "observe", "observed", "gettool", "resolve", "abandon"}

\* The marker precedes the send, and a row without a marker was never sent.
RowOK ==
    \A c \in Call :
        /\ row[c].state \in Unsent => ~row[c].marker
        /\ sends[c] # 0 => row[c].marker
        /\ sends[c] <= 1

\* What a worker relies on: the call it works on and the value it carries.
CarryOK(w) ==
    /\ wk[w].pc # "idle" => wk[w].call \in Call
    /\ wk[w].pc = "record" => wk[w].val \in {"succeeded", "failed", "unknown"}
    /\ wk[w].pc = "resolve" => wk[w].val \in {"succeeded", "failed"} /\ wk[w].val = Resolution(ctl[wk[w].call])
    /\ w \in Operation => wk[w].pc \in OperatorPc

\* A worker that has just committed the marker: nothing was sent, and no
\* other worker is there with the same call.
MarkedOK ==
    /\ \A w \in Worker : wk[w].pc = "marked" => row[wk[w].call].marker /\ sends[wk[w].call] = 0
    /\ \A v, w \in Worker : wk[v].pc = "marked" /\ wk[w].pc = "marked" /\ wk[v].call = wk[w].call => v = w

IInv == TypeOK /\ RowOK /\ (\A w \in Worker : CarryOK(w)) /\ MarkedOK
-----------------------------------------------------------------------------
(* What a worker's next local state is.                                    *)

\* Fresh is a well-typed local state.
LEMMA FreshLocal ==
  ASSUME TypeOK, NEW w \in Worker, NEW pc \in Pc, NEW c \in Call \cup {None}
  PROVE  /\ Fresh(w, pc, c) \in Local
         /\ Fresh(w, pc, c).pc = pc /\ Fresh(w, pc, c).call = c
         /\ Fresh(w, pc, c).val = "none" /\ Fresh(w, pc, c).page = wk[w].page
BY DEF TypeOK, Fresh, Idle, Local, Val, CallState

\* An idle worker's local state is well-typed.
LEMMA IdleLocal == Idle \in Local /\ Idle.pc = "idle"
BY DEF Idle, Local, Val, CallState, Pc

\* A loaded row.
Shot == [call : Call, state : CallState \cup {"none"}, observed : BOOLEAN, seq : Nat]

\* Start with a loaded row is a well-typed local state at the given step.
LEMMA StartLocal ==
  ASSUME TypeOK, NEW w \in Worker, NEW pc \in Pc, NEW s \in Shot
  PROVE  /\ Start(w, s, pc) \in Local
         /\ Start(w, s, pc).pc = pc /\ Start(w, s, pc).call = s.call /\ Start(w, s, pc).page = wk[w].page
<1> DEFINE f == Fresh(w, pc, s.call)
<1>1. s.call \in Call /\ s.state \in CallState \cup {"none"} /\ s.seq \in Nat
  BY DEF Shot
<1>2. f \in Local /\ f.pc = pc /\ f.call = s.call /\ f.page = wk[w].page
  BY <1>1, FreshLocal
<1> HIDE DEF f
<1>3. [f EXCEPT !.seen = s.state, !.seq = s.seq] \in Local
  BY <1>1, <1>2 DEF Local
<1>4. Start(w, s, pc) = IF pc = "observe" THEN [f EXCEPT !.seen = s.state, !.seq = s.seq] ELSE f
  BY DEF Start, f
<1> QED BY <1>1, <1>2, <1>3, <1>4 DEF Local

\* The local state GoWith leads to.
LEMMA WithLocal ==
  ASSUME TypeOK, NEW w \in Worker, NEW pc \in Pc, NEW v \in Val, GoWith(w, pc, v)
  PROVE  /\ wk' \in [Worker -> Local]
         /\ wk'[w].pc = pc /\ wk'[w].val = v /\ wk'[w].call = wk[w].call
         /\ \A u \in Worker : u # w => wk'[u] = wk[u]
<1> DEFINE l == [wk[w] EXCEPT !.pc = pc, !.val = v]
<1>1. wk \in [Worker -> Local] /\ wk[w] \in Local
  BY DEF TypeOK
<1>2. l \in Local /\ l.pc = pc /\ l.val = v /\ l.call = wk[w].call
  BY <1>1 DEF Local
<1>3. wk' = [wk EXCEPT ![w] = l]
  BY <1>1 DEF GoWith
<1> HIDE DEF l
<1> QED BY <1>1, <1>2, <1>3

\* A loaded row is well-typed, and a listed one is a page entry.
LEMMA SnapshotShot ==
  ASSUME TypeOK, NEW c \in Call
  PROVE  /\ Snapshot(c) \in Shot
         /\ row[c].state # "none" => Snapshot(c) \in Entry
         /\ Snapshot(c).call = c /\ Snapshot(c).state = row[c].state /\ Snapshot(c).observed = row[c].observed
BY DEF TypeOK, Snapshot, Shot, Entry, Row
-----------------------------------------------------------------------------
(* Steps that neither mark nor send.                                       *)

\* Rows keep their markers, and an unsent state has none.
RowsKeep ==
    \A c \in Call :
        /\ row'[c].state \in Unsent => ~row'[c].marker
        /\ row[c].marker => row'[c].marker

\* Control's settled records stay.
RecordsKeep ==
    \A c \in Call : Resolution(ctl[c]) # "none" => Resolution(ctl'[c]) = Resolution(ctl[c])

\* A worker that changes its page at most.
Stays(w) == wk'[w].pc = wk[w].pc /\ wk'[w].call = wk[w].call /\ wk'[w].val = wk[w].val

\* Workers that move carry what they need, and none becomes "marked".
Moves ==
    /\ wk' \in [Worker -> Local]
    /\ \A w \in Worker : Stays(w) \/ (wk'[w].pc # "marked" /\ CarryOK(w)')

\* A step that keeps markers, settled records and sends keeps the invariant.
LEMMA KeepsIInv ==
  ASSUME IInv, TypeOK', Moves, RowsKeep, RecordsKeep, sends' = sends
  PROVE  IInv'
<1> USE DEF Moves, Stays
<1>1. RowOK'
  BY DEF IInv, RowOK, RowsKeep
<1>2. ASSUME NEW w \in Worker PROVE CarryOK(w)'
  <2>1. CASE Stays(w)
    BY <2>1 DEF IInv, CarryOK, RecordsKeep, Resolution
  <2> QED BY <2>1
<1>3. MarkedOK'
  BY DEF IInv, MarkedOK, CarryOK, RowsKeep
<1> QED BY <1>1, <1>2, <1>3 DEF IInv

\* A step that only moves workers.
LEMMA OnlyMoves ==
  ASSUME IInv, Moves, UNCHANGED <<row, ctl, sends, owner, replica, grant>>,
         budget' \in [faults : 0..MaxFaults, stops : 0..MaxStops]
  PROVE  IInv'
<1>1. TypeOK'
  BY DEF IInv, TypeOK, Moves
<1>2. RowsKeep /\ RecordsKeep
  BY DEF IInv, RowOK, RowsKeep, RecordsKeep
<1> QED BY <1>1, <1>2, KeepsIInv

\* A worker moves to a local state that carries no value.
Plain == Pc \ {"marked", "record", "resolve"}

\* Replacing a worker's local state by one that carries no value is a move.
LEMMA LocalMoves ==
  ASSUME IInv, NEW w \in Worker, NEW l \in Local, wk' = [wk EXCEPT ![w] = l], l.pc \in Plain,
         l.pc # "idle" => l.call \in Call, w \in Operation => l.pc \in OperatorPc
  PROVE  Moves
<1>1. wk' \in [Worker -> Local] /\ wk'[w] = l /\ \A u \in Worker : u # w => wk'[u] = wk[u]
  BY DEF IInv, TypeOK
<1>2. wk'[w].pc # "marked" /\ CarryOK(w)'
  BY <1>1 DEF CarryOK, Plain
<1> QED BY <1>1, <1>2 DEF Moves, Stays

\* Go is a move, except to the steps that carry a value.
LEMMA GoMoves ==
  ASSUME IInv, NEW w \in Worker, NEW pc \in Plain, Go(w, pc), wk[w].pc # "idle", w \in Operation => pc \in OperatorPc
  PROVE  Moves
<1>1. wk[w].call \in Call
  BY DEF IInv, CarryOK
<1> DEFINE l == Fresh(w, pc, wk[w].call)
<1>2. l \in Local /\ l.pc = pc /\ l.call = wk[w].call
  BY <1>1, FreshLocal DEF IInv, Plain
<1>3. wk' = [wk EXCEPT ![w] = l]
  BY DEF Go
<1> HIDE DEF l
<1> QED BY <1>1, <1>2, <1>3, LocalMoves

\* A worker that ends its work moves.
LEMMA EndMoves ==
  ASSUME IInv, NEW w \in Worker, End(w)
  PROVE  Moves
<1> DEFINE l == Fresh(w, "idle", None)
<1>2. l \in Local /\ l.pc = "idle"
  BY FreshLocal DEF IInv, Pc
<1>3. wk' = [wk EXCEPT ![w] = l]
  BY DEF End
<1> HIDE DEF l
<1> QED BY <1>2, <1>3, LocalMoves DEF Plain, Pc, OperatorPc

\* A worker that takes a value along moves if the step accepts the value.
LEMMA WithMoves ==
  ASSUME IInv, NEW w \in Worker, NEW pc \in Pc, NEW v \in Val, GoWith(w, pc, v), wk[w].pc # "idle", w \in Operation => pc \in OperatorPc,
         pc # "marked", pc = "record" => v \in {"succeeded", "failed", "unknown"},
         pc = "resolve" => v \in {"succeeded", "failed"} /\ v = Resolution(ctl'[wk[w].call])
  PROVE  Moves
<1>1. wk[w].call \in Call
  BY DEF IInv, CarryOK
<1>2. /\ wk' \in [Worker -> Local]
      /\ wk'[w].pc = pc /\ wk'[w].val = v /\ wk'[w].call = wk[w].call
      /\ \A u \in Worker : u # w => wk'[u] = wk[u]
  BY WithLocal DEF IInv
<1>3. CarryOK(w)'
  BY <1>1, <1>2 DEF CarryOK, Resolution
<1> QED BY <1>2, <1>3 DEF Moves, Stays

\* A step that updates one row and moves workers.
LEMMA RowStep ==
  ASSUME IInv, Moves, NEW c \in Call, NEW new \in Row, row' = [row EXCEPT ![c] = new],
         new.state \in Unsent => ~new.marker, row[c].marker => new.marker, UNCHANGED <<ctl, Rest, Ghosts>>
  PROVE  IInv'
<1>1. TypeOK'
  BY DEF IInv, TypeOK, Moves, Rest, Ghosts
<1>2. RowsKeep /\ RecordsKeep
  BY DEF IInv, TypeOK, RowOK, RowsKeep, RecordsKeep
<1>3. sends' = sends
  BY DEF Ghosts
<1> QED BY <1>1, <1>2, <1>3, KeepsIInv

\* A step that updates one of Control's records and moves workers.
LEMMA RecordStep ==
  ASSUME IInv, Moves, NEW c \in Call, NEW new \in Record, ctl' = [ctl EXCEPT ![c] = new],
         Resolution(ctl[c]) # "none" => Resolution(new) = Resolution(ctl[c]), UNCHANGED <<row, Rest, Ghosts>>
  PROVE  IInv'
<1>1. TypeOK'
  BY DEF IInv, TypeOK, Moves, Rest, Ghosts
<1>2. \A d \in Call : ctl'[d] = IF d = c THEN new ELSE ctl[d]
  BY DEF IInv, TypeOK
<1>3. RowsKeep /\ RecordsKeep
  BY <1>2 DEF IInv, RowOK, RowsKeep, RecordsKeep, Resolution
<1>4. sends' = sends
  BY DEF Ghosts
<1> QED BY <1>1, <1>3, <1>4, KeepsIInv

\* A step that changes nothing but local states keeps the invariant.
LEMMA QuietStep ==
  ASSUME IInv, Moves, UNCHANGED <<row, ctl, Rest, Ghosts>>
  PROVE  IInv'
BY OnlyMoves DEF IInv, TypeOK, Rest, Ghosts
-----------------------------------------------------------------------------
(* Every action keeps the invariant.                                       *)

\* The abandonment age and the bound on ages are natural numbers.
LEMMA MaxAgeNat == MaxAge \in Nat /\ sentAge \in Nat /\ MaxAge = sentAge + 1
BY CallsAssumption DEF CallsAssumption, MaxAge, sentAge

\* The row InsertToolRequest writes is well-typed, accepted and unmarked.
LEMMA InsertedRow == Inserted \in Row /\ Inserted.state = "accepted" /\ ~Inserted.marker
<1>2. 0 \in 0..MaxAge
  BY MaxAgeNat
<1>3. Inserted \in Row
  BY <1>2 DEF Inserted, BareRow, Row, CallState
<1> QED BY <1>3 DEF Inserted, BareRow

\* A CreateCall handler is a worker and not an operator's reconciliation.
LEMMA CreatorIsWorker ==
  ASSUME NEW w \in Creator
  PROVE  w \in Worker /\ w \notin Operation /\ w.call \in Call
BY DEF Creator, Worker, Operation

\* The steps of Calls.Create up to the detached goroutine keep the invariant.
LEMMA CreateIInv ==
  ASSUME IInv, NEW w \in Creator, CreateStep(w)
  PROVE  IInv'
<1>0. w \in Worker /\ w \notin Operation /\ w.call \in Call
  BY CreatorIsWorker
<1>1. CASE CreateBegin(w)
  <2> DEFINE l == Fresh(w, "checked", w.call)
  <2>1. l \in Local /\ l.pc = "checked" /\ l.call = w.call
    BY <1>0, FreshLocal DEF IInv, Pc
  <2>2. wk' = [wk EXCEPT ![w] = l]
    BY <1>1 DEF CreateBegin
  <2> HIDE DEF l
  <2>3. Moves
    BY <1>0, <2>1, <2>2, LocalMoves DEF Plain, Pc
  <2> QED BY <1>1, <2>3, QuietStep DEF CreateBegin
<1>2. CASE CreateLock(w)
  <2>1. Moves
    BY <1>0, <1>2, GoMoves, EndMoves DEF CreateLock, At, Plain, Pc
  <2> QED BY <1>2, <2>1, QuietStep DEF CreateLock
<1>3. CASE CreateInsert(w)
  <2>0. wk[w].pc = "inserting" /\ (Go(w, "inserted") \/ End(w))
    BY <1>3 DEF CreateInsert, Update, At
  <2>1. Moves
    BY <1>0, <2>0, GoMoves, EndMoves DEF Plain, Pc
  <2>2. Inserted \in Row /\ Inserted.state = "accepted" /\ ~Inserted.marker
    BY InsertedRow
  <2>3. wk[w].call \in Call
    BY <1>0, <1>3 DEF CreateInsert, At, IInv, CarryOK
  <2>4. CASE UNCHANGED row
    BY <1>3, <2>1, <2>4, QuietStep DEF CreateInsert
  <2>5. CASE row[wk[w].call].state = "none" /\ row' = [row EXCEPT ![wk[w].call] = Inserted]
    <3>1. ~row[wk[w].call].marker
      BY <2>3, <2>5 DEF IInv, RowOK, Unsent
    <3> QED BY <1>3, <2>1, <2>2, <2>3, <2>5, <3>1, RowStep DEF CreateInsert
  <2> QED BY <1>3, <2>4, <2>5 DEF CreateInsert, Update
<1>4. CASE CreateTrack(w)
  <2>1. Moves
    BY <1>0, <1>4, GoMoves DEF CreateTrack, At, Plain, Pc
  <2> QED BY <1>4, <2>1, QuietStep DEF CreateTrack
<1>5. CASE Advance(w)
  <2>1. ASSUME wk' = [wk EXCEPT ![w] = Start(w, Snapshot(w.call), "observe")] PROVE Moves
    <3> DEFINE l == Start(w, Snapshot(w.call), "observe")
    <3>1. l \in Local /\ l.pc = "observe" /\ l.call = w.call
      BY <1>0, SnapshotShot, StartLocal DEF IInv, Pc
    <3> HIDE DEF l
    <3>2. wk' = [wk EXCEPT ![w] = l]
      BY <2>1 DEF l
    <3> QED BY <1>0, <3>1, <3>2, LocalMoves DEF Plain, Pc
  <2>2. Moves
    BY <1>0, <1>5, <2>1, GoMoves, EndMoves DEF Advance, At, Plain, Pc
  <2> QED BY <1>5, <2>2, QuietStep DEF Advance
<1> QED BY <1>1, <1>2, <1>3, <1>4, <1>5 DEF CreateStep

\* Where a worker is, it has a call, and an operator's is not a sender's.
LEMMA Busy ==
  ASSUME IInv, NEW w \in Worker, wk[w].pc # "idle"
  PROVE  /\ wk[w] \in Local /\ wk[w].call \in Call /\ row[wk[w].call] \in Row /\ ctl[wk[w].call] \in Record
         /\ wk[w].pc \notin OperatorPc => w \notin Operation
BY DEF IInv, TypeOK, CarryOK

\* Control's AdmitTool keeps the invariant.
LEMMA AdmitToolIInv ==
  ASSUME IInv, NEW w \in Worker, AdmitTool(w)
  PROVE  IInv'
<1> DEFINE c == wk[w].call
<1>1. c \in Call /\ ctl[c] \in Record /\ w \notin Operation /\ wk[w].pc # "idle"
  BY Busy DEF AdmitTool, At, OperatorPc
<1>2. ASSUME NEW v \in {"allowed", "denied", "recorded"}, GoWith(w, "answered", v) PROVE Moves
  BY <1>1, <1>2, WithMoves DEF Val, Pc
<1>3. CASE ctl[c].state # "none" /\ UNCHANGED ctl /\ \E v \in {"denied", "recorded"} : GoWith(w, "answered", v)
  BY <1>2, <1>3, QuietStep DEF AdmitTool
<1>4. ASSUME NEW answer \in {"authorized", "denied"}, ctl[c].state = "none", ctl' = [ctl EXCEPT ![c].state = answer],
             GoWith(w, "answered", IF answer = "authorized" THEN "allowed" ELSE "denied")
      PROVE  IInv'
  <2>1. Moves
    BY <1>2, <1>4
  <2>2. [ctl[c] EXCEPT !.state = answer] \in Record /\ ctl' = [ctl EXCEPT ![c] = [ctl[c] EXCEPT !.state = answer]]
    BY <1>1, <1>4 DEF Record
  <2>3. Resolution(ctl[c]) = "none"
    BY <1>4 DEF Resolution
  <2> QED BY <1>1, <2>1, <2>2, <2>3, RecordStep DEF AdmitTool
<1> QED BY <1>3, <1>4 DEF AdmitTool

\* Recording Control's answer keeps the invariant.
LEMMA SetAdmissionIInv ==
  ASSUME IInv, NEW w \in Worker, SetAdmission(w)
  PROVE  IInv'
<1> DEFINE c == wk[w].call
           admitted == [row[c] EXCEPT !.state = "admitted", !.dispatch = TRUE]
           denied == [admitted EXCEPT !.state = "denied"]
<1>1. c \in Call /\ row[c] \in Row /\ w \notin Operation /\ wk[w].pc = "answered"
  BY Busy DEF SetAdmission, At, OperatorPc
<1>2. Go(w, "prepare") \/ Go(w, "cancel") \/ End(w)
  BY DEF SetAdmission, Update
<1>3. Moves
  BY <1>1, <1>2, GoMoves, EndMoves DEF Plain, Pc
<1>4. admitted \in Row /\ admitted.marker = row[c].marker /\ denied \in Row /\ denied.marker = row[c].marker
  BY <1>1 DEF Row, CallState
<1>5. \/ UNCHANGED row
      \/ AdmissionAdmits(c) /\ \E new \in {admitted, denied} : row' = [row EXCEPT ![c] = new]
  BY DEF SetAdmission, Update
<1> HIDE DEF admitted, denied
<1>6. CASE UNCHANGED row
  BY <1>3, <1>6, QuietStep DEF SetAdmission
<1>7. CASE AdmissionAdmits(c) /\ \E new \in {admitted, denied} : row' = [row EXCEPT ![c] = new]
  <2>1. ~row[c].marker
    BY <1>1, <1>7 DEF AdmissionAdmits, IInv, RowOK, Unsent
  <2> QED BY <1>1, <1>3, <1>4, <1>7, <2>1, RowStep DEF SetAdmission
<1> QED BY <1>5, <1>6, <1>7

\* The checks before the marker keep the invariant.
LEMMA PrepareIInv ==
  ASSUME IInv, NEW w \in Worker, Prepare(w)
  PROVE  IInv'
<1>1. w \notin Operation /\ wk[w].pc = "prepare"
  BY Busy DEF Prepare, At, OperatorPc
<1>2. Moves
  BY <1>1, GoMoves DEF Prepare, OpenAnswers, Plain, Pc
<1> QED BY <1>2, QuietStep DEF Prepare

\* The marker transaction keeps the invariant: an admitted, unmarked row was
\* never sent, and no other worker is past the marker of the same call.
LEMMA MarkIInv ==
  ASSUME IInv, NEW w \in Worker, Mark(w)
  PROVE  IInv'
<1> DEFINE c == wk[w].call
           l == Fresh(w, "marked", c)
           new == [row[c] EXCEPT !.state = "sent", !.marker = TRUE]
<1>1. c \in Call /\ row[c] \in Row /\ wk[w].pc = "mark" /\ w \notin Operation
  BY Busy DEF Mark, At, OperatorPc
<1>2. CASE Go(w, "cancel") /\ UNCHANGED <<row, owner>>
  <2>1. Moves
    BY <1>1, <1>2, GoMoves DEF Plain, Pc
  <2> QED BY <1>2, <2>1, QuietStep DEF Mark, Rest, Ghosts
<1>3. CASE MarkerAdmits(c) /\ row' = [row EXCEPT ![c].state = "sent", ![c].marker = TRUE]
           /\ owner' = [owner EXCEPT ![c] = w.at] /\ Go(w, "marked")
  <2>0. l \in Local /\ l.pc = "marked" /\ l.call = c
    BY <1>1, FreshLocal DEF IInv, Pc
  <2>1. new \in Row /\ new.state = "sent" /\ new.marker
    BY <1>1 DEF Row, CallState
  <2>2. w.at \in Replica
    BY <1>1 DEF Worker, Creator, Reconciler, Stopper, Operation
  <2>3. wk' = [wk EXCEPT ![w] = l] /\ row' = [row EXCEPT ![c] = new]
    BY <1>1, <1>3 DEF Go, IInv, TypeOK
  <2> HIDE DEF l, new
  <2>4. ctl' = ctl /\ sends' = sends
    BY DEF Mark
  <2>5. TypeOK'
    BY <1>1, <1>3, <2>0, <2>1, <2>2, <2>3, <2>4 DEF IInv, TypeOK, Mark, Rest
  <2>6. /\ \A d \in Call : row'[d] = IF d = c THEN new ELSE row[d]
        /\ \A u \in Worker : wk'[u] = IF u = w THEN l ELSE wk[u]
    BY <2>3 DEF IInv, TypeOK
  <2>7. ~row[c].marker /\ sends[c] = 0
    BY <1>1, <1>3 DEF MarkerAdmits, IInv, RowOK, TypeOK
  <2>8. RowOK'
    BY <2>1, <2>4, <2>6, <2>7 DEF IInv, RowOK, Unsent
  <2>9. ASSUME NEW u \in Worker PROVE CarryOK(u)'
    BY <1>1, <2>0, <2>4, <2>6 DEF IInv, CarryOK, Resolution
  <2>10. MarkedOK'
    BY <1>1, <2>0, <2>1, <2>4, <2>6, <2>7 DEF IInv, MarkedOK, CarryOK
  <2> QED BY <2>5, <2>8, <2>9, <2>10 DEF IInv
<1> QED BY <1>2, <1>3 DEF Mark

\* The send keeps the invariant: the one worker past the marker sends a call
\* that was not sent before.
LEMMA SendStartIInv ==
  ASSUME IInv, NEW w \in Worker, SendStart(w)
  PROVE  IInv'
<1> DEFINE c == wk[w].call
           l == Fresh(w, "sending", c)
<1>1. c \in Call /\ wk[w].pc = "marked" /\ w \notin Operation
  BY Busy DEF SendStart, At, OperatorPc
<1>2. CASE GoWith(w, "record", "unknown") /\ UNCHANGED sends
  <2>1. Moves
    BY <1>1, <1>2, WithMoves DEF Val, Pc
  <2> QED BY <1>2, <2>1, QuietStep DEF SendStart, Rest, Ghosts
<1>3. CASE sends' = [sends EXCEPT ![c] = @ + 1] /\ Go(w, "sending")
  <2>1. l \in Local /\ l.pc = "sending" /\ l.call = c
    BY <1>1, FreshLocal DEF IInv, Pc
  <2>2. wk' = [wk EXCEPT ![w] = l]
    BY <1>3 DEF Go
  <2> HIDE DEF l
  <2>3. row' = row /\ ctl' = ctl
    BY DEF SendStart
  <2>4. TypeOK'
    BY <1>1, <1>3, <2>1, <2>2, <2>3 DEF IInv, TypeOK, SendStart, Rest
  <2>5. /\ \A u \in Worker : wk'[u] = IF u = w THEN l ELSE wk[u]
        /\ \A d \in Call : sends'[d] = IF d = c THEN sends[d] + 1 ELSE sends[d]
    BY <1>3, <2>2 DEF IInv, TypeOK
  <2>6. row[c].marker /\ sends[c] = 0
    BY <1>1 DEF IInv, MarkedOK
  <2>7. RowOK'
    BY <1>1, <2>3, <2>5, <2>6 DEF IInv, RowOK
  <2>8. ASSUME NEW u \in Worker PROVE CarryOK(u)'
    BY <1>1, <2>1, <2>3, <2>5 DEF IInv, CarryOK, Resolution
  <2>9. MarkedOK'
    BY <1>1, <2>1, <2>3, <2>5 DEF IInv, MarkedOK, CarryOK
  <2> QED BY <2>4, <2>7, <2>8, <2>9 DEF IInv
<1> QED BY <1>2, <1>3 DEF SendStart

\* The upstream's answer keeps the invariant.
LEMMA SendReturnIInv ==
  ASSUME IInv, NEW w \in Worker, SendReturn(w)
  PROVE  IInv'
<1>1. wk[w].pc = "sending" /\ w \notin Operation
  BY Busy DEF SendReturn, At, OperatorPc
<1>2. PICK reply \in Replies : GoWith(w, "record", OutcomeOf(reply))
  BY DEF SendReturn
<1>3. OutcomeOf(reply) \in {"succeeded", "failed", "unknown"}
  BY DEF OutcomeOf
<1>4. Moves
  BY <1>1, <1>2, <1>3, WithMoves DEF Val, Pc
<1> QED BY <1>4, QuietStep DEF SendReturn

\* SetToolRequestOutcome to a state that needs no marker, or had it before.
LEMMA OutcomeStep ==
  ASSUME IInv, NEW w \in Worker, wk[w].pc # "idle", NEW expected, NEW state \in CallState, Moves,
         \/ UNCHANGED row
         \/ /\ OutcomeAdmits(wk[w].call, expected)
            /\ row' = [row EXCEPT ![wk[w].call] = [row[wk[w].call] EXCEPT !.state = state]],
         state \in Unsent => expected \in Unsent,
         UNCHANGED <<ctl, Rest, Ghosts>>
  PROVE  IInv'
<1> DEFINE c == wk[w].call
           new == [row[c] EXCEPT !.state = state]
<1>1. c \in Call /\ row[c] \in Row
  BY Busy
<1>2. new \in Row /\ new.state = state /\ new.marker = row[c].marker
  BY <1>1 DEF Row
<1>3. CASE OutcomeAdmits(c, expected) /\ row' = [row EXCEPT ![c] = new]
  <2>1. state \in Unsent => ~row[c].marker
    BY <1>1, <1>3 DEF OutcomeAdmits, IInv, RowOK
  <2> HIDE DEF new
  <2> QED BY <1>1, <1>2, <1>3, <2>1, RowStep
<1> QED BY <1>3, QuietStep

\* Recording the send's outcome keeps the invariant.
LEMMA RecordOutcomeIInv ==
  ASSUME IInv, NEW w \in Worker, RecordOutcome(w)
  PROVE  IInv'
<1>1. wk[w].pc = "record" /\ w \notin Operation /\ wk[w].val \in {"succeeded", "failed", "unknown"}
  BY Busy DEF RecordOutcome, At, OperatorPc, IInv, CarryOK
<1>2. Go(w, "reload") \/ End(w)
  BY DEF RecordOutcome, SetOutcome, Update
<1>3. Moves
  BY <1>1, <1>2, GoMoves, EndMoves DEF Plain, Pc
<1>4. \/ UNCHANGED row
      \/ /\ OutcomeAdmits(wk[w].call, "sent")
         /\ row' = [row EXCEPT ![wk[w].call] = [row[wk[w].call] EXCEPT !.state = wk[w].val]]
  BY DEF RecordOutcome, SetOutcome, Update
<1>5. UNCHANGED <<ctl, Rest, Ghosts>>
  BY DEF RecordOutcome
<1>6. wk[w].val \in CallState /\ wk[w].val \notin Unsent
  BY <1>1 DEF CallState, Unsent
<1> QED BY <1>1, <1>3, <1>4, <1>5, <1>6, OutcomeStep

\* Cancelling an admitted, unmarked call keeps the invariant.
LEMMA CancelIInv ==
  ASSUME IInv, NEW w \in Worker, Cancel(w)
  PROVE  IInv'
<1>1. wk[w].pc = "cancel" /\ w \notin Operation
  BY Busy DEF Cancel, At, OperatorPc
<1>2. Go(w, "reload") \/ End(w)
  BY DEF Cancel, SetOutcome, Update
<1>3. Moves
  BY <1>1, <1>2, GoMoves, EndMoves DEF Plain, Pc
<1>4. \/ UNCHANGED row
      \/ /\ OutcomeAdmits(wk[w].call, "admitted")
         /\ row' = [row EXCEPT ![wk[w].call] = [row[wk[w].call] EXCEPT !.state = "canceled"]]
  BY DEF Cancel, SetOutcome, Update
<1>5. UNCHANGED <<ctl, Rest, Ghosts>>
  BY DEF Cancel
<1> QED BY <1>1, <1>3, <1>4, <1>5, OutcomeStep DEF CallState, Unsent

\* Resolving an unknown call keeps the invariant.
LEMMA ResolveIInv ==
  ASSUME IInv, NEW w \in Worker, Resolve(w)
  PROVE  IInv'
<1>1. wk[w].pc = "resolve" /\ wk[w].val \in {"succeeded", "failed"}
  BY DEF Resolve, At, IInv, CarryOK
<1>2. Moves
  BY EndMoves DEF Resolve, SetOutcome, Update
<1>3. \/ UNCHANGED row
      \/ /\ OutcomeAdmits(wk[w].call, "unknown")
         /\ row' = [row EXCEPT ![wk[w].call] = [row[wk[w].call] EXCEPT !.state = wk[w].val]]
  BY DEF Resolve, SetOutcome, Update
<1>4. UNCHANGED <<ctl, Rest, Ghosts>>
  BY DEF Resolve
<1>5. wk[w].val \in CallState /\ wk[w].val \notin Unsent
  BY <1>1 DEF CallState, Unsent
<1> QED BY <1>1, <1>2, <1>3, <1>4, <1>5, OutcomeStep

\* Abandoning a marked call past its send bound keeps the invariant.
LEMMA AbandonIInv ==
  ASSUME IInv, NEW w \in Worker, Abandon(w)
  PROVE  IInv'
<1>1. wk[w].pc = "abandon"
  BY DEF Abandon, At
<1>2. Go(w, "reload") \/ End(w)
  BY DEF Abandon, Update
<1>3. Moves
  BY <1>1, <1>2, GoMoves, EndMoves DEF Plain, Pc, OperatorPc
<1>4. \/ UNCHANGED row
      \/ /\ OutcomeAdmits(wk[w].call, "sent")
         /\ row' = [row EXCEPT ![wk[w].call] = [row[wk[w].call] EXCEPT !.state = "unknown"]]
  BY DEF Abandon, Update, AbandonAdmits, OutcomeAdmits
<1>5. UNCHANGED <<ctl, Rest, Ghosts>>
  BY DEF Abandon
<1> QED BY <1>1, <1>3, <1>4, <1>5, OutcomeStep DEF CallState, Unsent

\* Loading the row again keeps the invariant.
LEMMA ReloadIInv ==
  ASSUME IInv, NEW w \in Worker, Reload(w)
  PROVE  IInv'
<1> DEFINE l == Start(w, Snapshot(wk[w].call), "observe")
<1>1. wk[w].call \in Call
  BY Busy DEF Reload, At
<1>2. l \in Local /\ l.pc = "observe" /\ l.call = wk[w].call
  BY <1>1, SnapshotShot, StartLocal DEF IInv, Pc
<1>3. wk' = [wk EXCEPT ![w] = l]
  BY DEF Reload
<1> HIDE DEF l
<1>4. Moves
  BY <1>1, <1>2, <1>3, LocalMoves DEF Plain, Pc, OperatorPc
<1> QED BY <1>4, QuietStep DEF Reload

\* Control's ObserveTool keeps the invariant: what is settled there stays.
LEMMA ObserveToolIInv ==
  ASSUME IInv, NEW w \in Worker, ObserveTool(w)
  PROVE  IInv'
<1> DEFINE c == wk[w].call
           old == ctl[c]
           fresh == wk[w].seq \notin old.reported /\ old.state \in {"authorized", "unknown"}
           new == [state |-> IF ~fresh THEN old.state ELSE IF wk[w].seen = "unknown" THEN "unknown" ELSE "observed",
                   outcome |-> IF fresh THEN wk[w].seen ELSE old.outcome,
                   reported |-> old.reported \cup {wk[w].seq}, manual |-> old.manual]
           l == [wk[w] EXCEPT !.pc = "observed"]
<1>1. c \in Call /\ old \in Record /\ wk[w] \in Local /\ wk[w].pc = "observe"
  BY Busy DEF ObserveTool, At
<1>2. l \in Local /\ l.pc = "observed" /\ l.call = c /\ wk' = [wk EXCEPT ![w] = l]
  BY <1>1 DEF ObserveTool, Local, Pc
<1>3. Moves
  <2> HIDE DEF l
  <2> QED BY <1>1, <1>2, LocalMoves DEF Plain, Pc, OperatorPc
<1>4. ctl' = [ctl EXCEPT ![c] = new]
  BY <1>1 DEF ObserveTool, IInv, TypeOK
<1>5. /\ new.state = IF ~fresh THEN old.state ELSE IF wk[w].seen = "unknown" THEN "unknown" ELSE "observed"
      /\ new.outcome = IF fresh THEN wk[w].seen ELSE old.outcome
  OBVIOUS
<1>6. new \in Record
  BY <1>1 DEF Record, Local, CallState
<1> HIDE DEF new
<1>7. Resolution(old) # "none" => Resolution(new) = Resolution(old)
  BY <1>5 DEF Resolution
<1> QED BY <1>1, <1>3, <1>4, <1>6, <1>7, RecordStep DEF ObserveTool

\* Whatever follows a report is a move.
LEMMA AfterObserveMoves ==
  ASSUME IInv, NEW w \in Worker, wk[w].pc # "idle", AfterObserve(w)
  PROVE  Moves
BY GoMoves, EndMoves DEF AfterObserve, Plain, Pc, OperatorPc

\* A reported row is well-typed and keeps its state and marker.
LEMMA ObservedRow ==
  ASSUME NEW r \in Row
  PROVE  LET new == [r EXCEPT !.observed = TRUE, !.seq = @ + 1]
         IN  new \in Row /\ new.state = r.state /\ new.marker = r.marker
<1>1. r.seq + 1 \in Nat
  BY DEF Row
<1> DEFINE n == r.seq + 1
<1> HIDE DEF n
<1>2. ASSUME NEW m \in Nat
      PROVE  LET new == [r EXCEPT !.observed = TRUE, !.seq = m]
             IN  new \in Row /\ new.state = r.state /\ new.marker = r.marker
  BY DEF Row
<1> QED BY <1>1, <1>2, Zenon

\* Recording that the outcome was reported keeps the invariant.
LEMMA SetObservedIInv ==
  ASSUME IInv, NEW w \in Worker, SetObserved(w)
  PROVE  IInv'
<1> DEFINE c == wk[w].call
           new == [row[c] EXCEPT !.observed = TRUE, !.seq = @ + 1]
<1>1. c \in Call /\ row[c] \in Row /\ wk[w].pc = "observed"
  BY Busy DEF SetObserved, At
<1>2. Moves
  BY <1>1, AfterObserveMoves DEF SetObserved
<1>3. new \in Row /\ new.state = row[c].state /\ new.marker = row[c].marker
  BY <1>1, ObservedRow
<1>4. UNCHANGED row \/ row' = [row EXCEPT ![c] = new]
  BY <1>1 DEF SetObserved, IInv, TypeOK
<1>5. CASE UNCHANGED row
  BY <1>2, <1>5, QuietStep DEF SetObserved
<1>6. CASE row' = [row EXCEPT ![c] = new]
  <2> HIDE DEF new
  <2>1. row[c].state \in Unsent => ~row[c].marker
    BY <1>1 DEF IInv, RowOK
  <2> QED BY <1>1, <1>2, <1>3, <1>6, <2>1, RowStep DEF SetObserved
<1> QED BY <1>4, <1>5, <1>6

\* What Control's record resolves a call to.
LEMMA ResolutionValues == \A v : Resolution(v) \in {"succeeded", "failed", "none"}
BY DEF Resolution

\* Reading Control's record keeps the invariant.
LEMMA GetToolIInv ==
  ASSUME IInv, NEW w \in Worker, GetTool(w)
  PROVE  IInv'
<1>1. wk[w].pc = "gettool" /\ ctl' = ctl
  BY DEF GetTool, At
<1>2. ASSUME Resolution(ctl[wk[w].call]) # "none", GoWith(w, "resolve", Resolution(ctl[wk[w].call]))
      PROVE  Moves
  BY <1>1, <1>2, ResolutionValues, WithMoves DEF Val, Pc, OperatorPc
<1>3. Moves
  BY <1>2, EndMoves DEF GetTool
<1> QED BY <1>3, QuietStep DEF GetTool

\* Every step of advance, admit, send, cancel, observe and resolve keeps the
\* invariant.
LEMMA StepIInv ==
  ASSUME IInv, NEW w \in Worker, Step(w)
  PROVE  IInv'
BY AdmitToolIInv, SetAdmissionIInv, PrepareIInv, MarkIInv, SendStartIInv, SendReturnIInv, RecordOutcomeIInv, CancelIInv,
   ReloadIInv, ObserveToolIInv, SetObservedIInv, GetToolIInv, ResolveIInv, AbandonIInv DEF Step
-----------------------------------------------------------------------------
(* The reconciler, the operator, and stopping.                             *)

\* reconcileOne goes to a step that carries no value, and never to admit or
\* cancel for a row that is neither accepted nor admitted.
LEMMA StepForPlain ==
  ASSUME NEW s
  PROVE  /\ StepFor(s) \in Plain /\ StepFor(s) # "idle"
         /\ s.state \notin {"accepted", "admitted"} => StepFor(s) \in OperatorPc
BY DEF StepFor, Plain, Pc, OperatorPc

\* Only a worker's page changes.
LEMMA PageMoves ==
  ASSUME IInv, NEW w \in Worker, NEW page \in SUBSET Entry, wk' = [wk EXCEPT ![w].page = page]
  PROVE  Moves
BY DEF IInv, TypeOK, Local, Moves, Stays

\* Reconcilers, stopping processes and operators are workers.
LEMMA KindIsWorker ==
  /\ \A w \in Reconciler \cup Stopper : w \in Worker /\ w \notin Operation /\ w.at \in Replica
  /\ \A w \in Operation : w \in Worker
BY DEF Reconciler, Stopper, Worker, Operation

\* A reconciler pass's listing keeps the invariant.
LEMMA ListIInv ==
  ASSUME IInv, NEW w \in Reconciler, List(w)
  PROVE  IInv'
<1>0. w \in Worker
  BY KindIsWorker
<1>1. PICK page \in SUBSET {c \in Call : OpenRow(c)} : wk' = [wk EXCEPT ![w].page = {Snapshot(c) : c \in page}]
  BY DEF List
<1>2. ASSUME NEW c \in Call, OpenRow(c) PROVE Snapshot(c) \in Entry
  BY <1>2, SnapshotShot DEF IInv, OpenRow, Unreported, AbandonAdmits, Observable
<1>3. {Snapshot(c) : c \in page} \in SUBSET Entry
  BY <1>1, <1>2
<1>4. Moves
  BY <1>0, <1>1, <1>3, PageMoves
<1> QED BY <1>4, QuietStep DEF List

\* The local state of a worker that takes up a row from its page.
LEMMA TakenLocal ==
  ASSUME NEW l \in Local, NEW s
  PROVE  LET k == [l EXCEPT !.page = @ \ {s}] IN k \in Local /\ k.pc = l.pc /\ k.call = l.call
BY DEF Local

\* Taking up a listed row keeps the invariant.
LEMMA TakeIInv ==
  ASSUME IInv, NEW w \in Reconciler, Take(w)
  PROVE  IInv'
<1>0. w \in Worker /\ w \notin Operation
  BY KindIsWorker
<1>1. PICK s \in wk[w].page : wk' = [wk EXCEPT ![w] = [Start(w, s, StepFor(s)) EXCEPT !.page = @ \ {s}]]
  BY DEF Take
<1>2. s \in Shot
  BY <1>0, <1>1 DEF IInv, TypeOK, Local, Entry, Shot
<1> DEFINE l == Start(w, s, StepFor(s))
           k == [l EXCEPT !.page = @ \ {s}]
<1>3. StepFor(s) \in Plain /\ StepFor(s) # "idle" /\ StepFor(s) \in Pc
  BY StepForPlain DEF Plain
<1>4. l \in Local /\ l.pc = StepFor(s) /\ l.call = s.call
  BY <1>0, <1>2, <1>3, StartLocal DEF IInv
<1> HIDE DEF l
<1>5. k \in Local /\ k.pc = StepFor(s) /\ k.call = s.call
  BY <1>4, TakenLocal, Zenon
<1>6. wk' = [wk EXCEPT ![w] = k]
  BY <1>1 DEF l
<1> HIDE DEF k
<1>7. s.call \in Call
  BY <1>2 DEF Shot
<1>8. Moves
  BY <1>0, <1>3, <1>5, <1>6, <1>7, LocalMoves
<1> QED BY <1>8, QuietStep DEF Take

\* A local state with another value is well-typed.
LEMMA ValLocal ==
  ASSUME NEW l \in Local, NEW v \in Val
  PROVE  LET k == [l EXCEPT !.val = v] IN k \in Local /\ k.pc = l.pc /\ k.call = l.call
BY DEF Local

\* ReconcileCall keeps the invariant.
LEMMA OperateIInv ==
  ASSUME IInv, NEW w \in Operation, Operate(w)
  PROVE  IInv'
<1>0. w \in Worker
  BY KindIsWorker
<1>1. PICK c \in Call :
        /\ row[c].state \in {"unknown", "sent"} \/ Unreported(c)
        /\ wk' = [wk EXCEPT ![w] = [Start(w, Snapshot(c), StepFor(Snapshot(c)))
                                       EXCEPT !.val = IF row[c].state = "unknown" THEN "resolve" ELSE "none"]]
  BY DEF Operate
<1> DEFINE s == Snapshot(c)
           l == Start(w, s, StepFor(s))
           v == IF row[c].state = "unknown" THEN "resolve" ELSE "none"
           k == [l EXCEPT !.val = v]
<1>2. s \in Shot /\ s.call = c /\ s.state = row[c].state
  BY SnapshotShot DEF IInv
<1>3. StepFor(s) \in Plain /\ StepFor(s) # "idle" /\ StepFor(s) \in Pc /\ StepFor(s) \in OperatorPc
  BY <1>1, <1>2, StepForPlain DEF Plain, Unreported, Observable
<1>4. l \in Local /\ l.pc = StepFor(s) /\ l.call = c
  BY <1>0, <1>2, <1>3, StartLocal DEF IInv
<1>5. v \in Val
  BY DEF Val
<1>6. wk' = [wk EXCEPT ![w] = k]
  BY <1>1
<1> HIDE DEF l, v, s
<1>7. k \in Local /\ k.pc = StepFor(s) /\ k.call = c
  BY <1>4, <1>5, ValLocal, Zenon
<1> HIDE DEF k
<1>8. Moves
  BY <1>0, <1>3, <1>6, <1>7, LocalMoves
<1> QED BY <1>8, QuietStep DEF Operate

\* Workers that end or go on as they were.
LEMMA IdleMoves ==
  ASSUME IInv, wk' \in [Worker -> Local], \A w \in Worker : wk'[w] = wk[w] \/ wk'[w] = Idle
  PROVE  Moves
<1>1. ASSUME NEW w \in Worker, wk'[w] = Idle PROVE wk'[w].pc # "marked" /\ CarryOK(w)'
  BY <1>1, IdleLocal DEF CarryOK, OperatorPc
<1> QED BY <1>1 DEF Moves, Stays

\* A step of a process's life cycle.
LEMMA LifeStep ==
  ASSUME IInv, Moves, UNCHANGED <<row, ctl, sends, owner, grant>>,
         replica' \in [Replica -> {"up", "closing", "recording", "drained", "stopped"}],
         budget' \in [faults : 0..MaxFaults, stops : 0..MaxStops]
  PROVE  IInv'
<1>1. TypeOK'
  BY DEF IInv, TypeOK, Moves
<1>2. RowsKeep /\ RecordsKeep
  BY DEF IInv, RowOK, RowsKeep, RecordsKeep
<1> QED BY <1>1, <1>2, KeepsIInv

\* The fault and stop budgets stay within their bounds.
LEMMA SpendType ==
  ASSUME TypeOK, NEW what \in {"faults", "stops"}, Spend(what)
  PROVE  budget' \in [faults : 0..MaxFaults, stops : 0..MaxStops]
BY CallsAssumption DEF CallsAssumption, TypeOK, Spend

\* Killing the workers of a process is a move.
LEMMA KilledMoves ==
  ASSUME IInv, NEW r \in Replica, wk' = Killed(r)
  PROVE  Moves
BY IdleMoves, IdleLocal DEF Killed, IInv, TypeOK

\* Leaving the workers alone is a move.
LEMMA StayMoves ==
  ASSUME IInv, wk' = wk
  PROVE  Moves
BY DEF IInv, TypeOK, Moves, Stays

\* Stopping, exiting, restarting and crashing keep the invariant.
LEMMA LifecycleIInv ==
  ASSUME IInv, NEW r \in Replica, Lifecycle(r)
  PROVE  IInv'
<1> USE DEF Phase, Others, Ghosts
<1>0. TypeOK /\ replica \in [Replica -> {"up", "closing", "recording", "drained", "stopped"}]
  BY DEF IInv, TypeOK
<1>1. CASE CloseCalls(r)
  <2>1. wk' \in [Worker -> Local] /\ \A w \in Worker : wk'[w] = wk[w] \/ wk'[w] = Idle
    BY <1>1, IdleLocal DEF CloseCalls, IInv, TypeOK
  <2>2. Moves
    BY <2>1, IdleMoves
  <2> QED BY <1>0, <1>1, <2>2, SpendType, LifeStep DEF CloseCalls
<1>2. CASE ShutdownDrained(r)
  BY <1>0, <1>2, StayMoves, LifeStep DEF ShutdownDrained, IInv, TypeOK
<1>3. CASE Exit(r)
  BY <1>0, <1>3, KilledMoves, LifeStep DEF Exit, IInv, TypeOK
<1>4. CASE Restart(r)
  BY <1>0, <1>4, StayMoves, LifeStep DEF Restart, IInv, TypeOK
<1>5. CASE Crash(r)
  BY <1>0, <1>5, KilledMoves, SpendType, LifeStep DEF Crash
<1> QED BY <1>1, <1>2, <1>3, <1>4, <1>5 DEF Lifecycle

\* What Shutdown lists of a live call.
LEMMA ListedEntry ==
  ASSUME NEW s \in Shot
  PROVE  [s EXCEPT !.state = "sent", !.observed = FALSE, !.seq = 0] \in Entry
BY DEF Shot, Entry, CallState

\* Shutdown's UNKNOWN for a marked call keeps the invariant.
LEMMA ShutdownRecordIInv ==
  ASSUME IInv, NEW w \in Stopper, ShutdownRecord(w)
  PROVE  IInv'
<1>0. w \in Worker /\ w \notin Operation /\ wk[w] \in Local
  BY KindIsWorker DEF IInv, TypeOK
<1>1. PICK s \in wk[w].page :
        LET rest == [Idle EXCEPT !.page = wk[w].page \ {s}] IN
        \/ /\ OutcomeAdmits(s.call, "sent")
           /\ row' = [row EXCEPT ![s.call].state = "unknown"]
           /\ wk' = [wk EXCEPT ![w] = [rest EXCEPT !.pc = "reload", !.call = s.call]]
        \/ UNCHANGED row /\ wk' = [wk EXCEPT ![w] = rest]
  BY DEF ShutdownRecord
<1>2. s.call \in Call /\ wk[w].page \ {s} \in SUBSET Entry
  BY <1>0, <1>1 DEF Local, Entry
<1> DEFINE rest == [Idle EXCEPT !.page = wk[w].page \ {s}]
           l == [rest EXCEPT !.pc = "reload", !.call = s.call]
           new == [row[s.call] EXCEPT !.state = "unknown"]
<1>3. rest \in Local /\ rest.pc = "idle"
  BY <1>2 DEF Idle, Local, Val, CallState, Pc
<1>4. CASE UNCHANGED row /\ wk' = [wk EXCEPT ![w] = rest]
  <2> HIDE DEF rest
  <2>1. Moves
    BY <1>0, <1>3, <1>4, LocalMoves DEF Plain, Pc, OperatorPc
  <2> QED BY <1>4, <2>1, QuietStep DEF ShutdownRecord
<1>5. CASE OutcomeAdmits(s.call, "sent") /\ row' = [row EXCEPT ![s.call].state = "unknown"] /\ wk' = [wk EXCEPT ![w] = l]
  <2>1. l \in Local /\ l.pc = "reload" /\ l.call = s.call
    <3> HIDE DEF rest
    <3> QED BY <1>2, <1>3 DEF Local, Pc
  <2>2. row[s.call] \in Row
    BY <1>2 DEF IInv, TypeOK
  <2>3. new \in Row /\ new.state = "unknown" /\ new.marker = row[s.call].marker
    BY <2>2 DEF Row, CallState
  <2>4. row' = [row EXCEPT ![s.call] = new]
    BY <1>5
  <2> HIDE DEF l, rest, new
  <2>5. Moves
    BY <1>0, <1>2, <1>5, <2>1, LocalMoves DEF Plain, Pc, OperatorPc
  <2> QED BY <1>2, <2>3, <2>4, <2>5, RowStep DEF ShutdownRecord, Unsent
<1> QED BY <1>1, <1>4, <1>5

\* The steps of Calls.Shutdown keep the invariant.
LEMMA StopIInv ==
  ASSUME IInv, NEW w \in Stopper, StopStep(w)
  PROVE  IInv'
<1> USE DEF Phase, Others, Ghosts
<1>0. /\ w \in Worker /\ w.at \in Replica
      /\ TypeOK /\ replica \in [Replica -> {"up", "closing", "recording", "drained", "stopped"}]
  BY KindIsWorker DEF IInv, TypeOK
<1>1. CASE ShutdownTimeout(w)
  <2> DEFINE page == {[Snapshot(c) EXCEPT !.state = "sent", !.observed = FALSE, !.seq = 0] : c \in Live(w.at)}
  <2>1. \A c \in Live(w.at) : c \in Call
    BY DEF Live, Creator
  <2>2. \A c \in Call : [Snapshot(c) EXCEPT !.state = "sent", !.observed = FALSE, !.seq = 0] \in Entry
    BY <1>0, SnapshotShot, ListedEntry, Zenon
  <2>3. page \in SUBSET Entry
    BY <2>1, <2>2, Zenon
  <2>4. wk' = [wk EXCEPT ![w].page = page]
    BY <1>1 DEF ShutdownTimeout
  <2> HIDE DEF page
  <2>5. Moves
    BY <1>0, <2>3, <2>4, PageMoves
  <2>6. replica' \in [Replica -> {"up", "closing", "recording", "drained", "stopped"}]
    BY <1>0, <1>1 DEF ShutdownTimeout
  <2>7. UNCHANGED <<row, ctl, sends, owner, grant>> /\ budget' \in [faults : 0..MaxFaults, stops : 0..MaxStops]
    BY <1>0, <1>1 DEF ShutdownTimeout, TypeOK
  <2> QED BY <2>5, <2>6, <2>7, LifeStep
<1>2. CASE ShutdownRecord(w)
  BY <1>2, ShutdownRecordIInv
<1>3. CASE ShutdownDone(w)
  BY <1>0, <1>3, StayMoves, LifeStep DEF ShutdownDone, TypeOK
<1> QED BY <1>1, <1>2, <1>3 DEF StopStep

-----------------------------------------------------------------------------
(* Failures and the environment.                                           *)

\* A failed statement or a lost answer keeps the invariant.
LEMMA FailIInv ==
  ASSUME IInv, NEW w \in Worker, Fail(w)
  PROVE  IInv'
<1>1. wk[w].pc # "idle" /\ (AfterObserve(w) \/ End(w))
  BY DEF Fail
<1>2. Moves
  BY <1>1, AfterObserveMoves, EndMoves
<1>3. budget' \in [faults : 0..MaxFaults, stops : 0..MaxStops]
  BY SpendType DEF Fail, IInv
<1> QED BY <1>2, <1>3, OnlyMoves DEF Fail, Ghosts

\* A row that ages is well-typed and keeps its state and marker.
LEMMA OlderRow ==
  ASSUME NEW r \in Row, r.age < MaxAge
  PROVE  LET new == [r EXCEPT !.age = @ + 1] IN new \in Row /\ new.state = r.state /\ new.marker = r.marker
<1>1. r.age + 1 \in 0..MaxAge
  BY MaxAgeNat DEF Row
<1>2. ASSUME NEW a \in 0..MaxAge
      PROVE  LET new == [r EXCEPT !.age = a] IN new \in Row /\ new.state = r.state /\ new.marker = r.marker
  BY DEF Row
<1> QED BY <1>1, <1>2, Zenon

\* The passing of time keeps the invariant.
LEMMA TickIInv ==
  ASSUME IInv, Tick
  PROVE  IInv'
<1> DEFINE older(c) == [row[c] EXCEPT !.age = @ + 1]
<1>1. row' = [c \in Call |-> IF row[c].state = "sent" /\ row[c].age < MaxAge THEN older(c) ELSE row[c]]
  BY DEF Tick
<1>2. ASSUME NEW c \in Call, row[c].age < MaxAge
      PROVE  older(c) \in Row /\ older(c).state = row[c].state /\ older(c).marker = row[c].marker
  <2>1. row[c] \in Row
    BY DEF IInv, TypeOK
  <2> QED BY <1>2, <2>1, OlderRow, Zenon
<1> HIDE DEF older
<1>3. \A c \in Call : row'[c] \in Row /\ row'[c].state = row[c].state /\ row'[c].marker = row[c].marker
  BY <1>1, <1>2 DEF IInv, TypeOK
<1>4. Moves
  BY StayMoves DEF Tick
<1>5. TypeOK'
  BY <1>1, <1>3 DEF IInv, TypeOK, Tick, Rest, Ghosts
<1>6. RowsKeep /\ RecordsKeep
  BY <1>3 DEF IInv, RowOK, RowsKeep, RecordsKeep, Tick
<1> QED BY <1>4, <1>5, <1>6, KeepsIInv DEF Tick, Ghosts

\* An operator's resolution at Control keeps the invariant: it settles only
\* what was unknown there.
LEMMA ControlResolveIInv ==
  ASSUME IInv, NEW c \in Call, ControlResolve(c)
  PROVE  IInv'
<1>1. Moves /\ ctl[c] \in Record
  BY StayMoves DEF ControlResolve, IInv, TypeOK
<1>2. \E new \in Record : ctl' = [ctl EXCEPT ![c] = new]
  <2>1. CASE ctl' = [ctl EXCEPT ![c].state = "confirmed_not_sent", ![c].manual = TRUE]
    <3>1. [ctl[c] EXCEPT !.state = "confirmed_not_sent", !.manual = TRUE] \in Record
      BY <1>1 DEF Record
    <3>2. ctl' = [ctl EXCEPT ![c] = [ctl[c] EXCEPT !.state = "confirmed_not_sent", !.manual = TRUE]]
      BY <2>1 DEF IInv, TypeOK
    <3> QED BY <3>1, <3>2
  <2>2. ASSUME NEW v \in ViewOutcome, ctl' = [ctl EXCEPT ![c].state = "observed", ![c].outcome = v, ![c].manual = TRUE]
        PROVE  \E new \in Record : ctl' = [ctl EXCEPT ![c] = new]
    <3>1. [ctl[c] EXCEPT !.state = "observed", !.outcome = v, !.manual = TRUE] \in Record
      BY <1>1 DEF Record, CallState, ViewOutcome
    <3>2. ctl' = [ctl EXCEPT ![c] = [ctl[c] EXCEPT !.state = "observed", !.outcome = v, !.manual = TRUE]]
      BY <2>2 DEF IInv, TypeOK
    <3> QED BY <3>1, <3>2
  <2> QED BY <2>1, <2>2 DEF ControlResolve
<1>3. Resolution(ctl[c]) = "none"
  BY DEF ControlResolve, Resolution
<1> QED BY <1>1, <1>2, <1>3, RecordStep DEF ControlResolve

\* A change of grants alone keeps the invariant.
LEMMA GrantIInv ==
  ASSUME IInv, UNCHANGED <<row, ctl, wk, replica, sends, owner, budget>>,
         grant' \in [Grant -> {"pending", "active", "revoking", "revoked", "expired", "registration_failed"}]
  PROVE  IInv'
<1>1. Moves
  BY StayMoves
<1>2. TypeOK'
  BY DEF IInv, TypeOK
<1>3. RowsKeep /\ RecordsKeep
  BY DEF IInv, RowOK, RowsKeep, RecordsKeep
<1> QED BY <1>1, <1>2, <1>3, KeepsIInv

\* The invariant is inductive.
LEMMA NextIInv ==
  ASSUME IInv, [Next]_vars
  PROVE  IInv'
<1>1. CASE CallsNext
  BY <1>1, StepIInv, FailIInv, CreateIInv, ListIInv, TakeIInv, OperateIInv, StopIInv, LifecycleIInv, ControlResolveIInv,
     TickIInv DEF CallsNext, ReconcileStep
<1>2. CASE \E g \in Grant : RevokeGrant(g)
  BY <1>2, GrantIInv DEF RevokeGrant, Ghosts, IInv, TypeOK
<1>3. CASE UNCHANGED vars
  BY <1>3, GrantIInv DEF vars, IInv, TypeOK
<1> QED BY <1>1, <1>2, <1>3 DEF Next

\* The invariant holds of an empty table.
LEMMA InitIInv ==
  ASSUME Init
  PROVE  IInv
<1> USE DEF Init, CallsInit
<1>1. NoRow \in Row /\ NoRow.state = "none" /\ ~NoRow.marker
  <2>1. 0 \in 0..MaxAge
    BY MaxAgeNat
  <2>2. NoRow \in Row
    BY <2>1 DEF NoRow, BareRow, Row
  <2> QED BY <2>2 DEF NoRow, BareRow
<1>2. [state |-> "none", outcome |-> "none", reported |-> {}, manual |-> FALSE] \in Record
  BY DEF Record
<1>3. TypeOK
  <2>1. row \in [Call -> Row] /\ ctl \in [Call -> Record] /\ wk \in [Worker -> Local]
    BY <1>1, <1>2, IdleLocal
  <2>2. budget \in [faults : 0..MaxFaults, stops : 0..MaxStops]
    BY CallsAssumption DEF CallsAssumption
  <2> QED BY <2>1, <2>2 DEF TypeOK
<1>4. RowOK
  BY <1>1 DEF RowOK
<1>5. \A w \in Worker : wk[w].pc = "idle"
  BY IdleLocal
<1>6. (\A w \in Worker : CarryOK(w)) /\ MarkedOK
  BY <1>5 DEF CarryOK, MarkedOK, OperatorPc
<1> QED BY <1>3, <1>4, <1>6 DEF IInv

\* The invariant the theorems rest on holds in every reachable state.
THEOREM Invariance == Spec => []IInv
BY InitIInv, NextIInv, PTL DEF Spec

\* Every statement of application/calls.go, whichever worker runs it, keeps
\* the types of the rows, of Control's records and of the workers' locals.
THEOREM TypeCorrect == Spec => []TypeOK
<1>1. IInv => TypeOK
  BY DEF IInv
<1> QED BY <1>1, Invariance, PTL

\* A call is sent upstream at most once (domain/call.go:13-17), for any
\* number of calls, replicas, operators, faults and stops.
THEOREM SendOnce == Spec => []AtMostOneSend
<1>1. IInv => AtMostOneSend
  BY DEF IInv, RowOK, AtMostOneSend
<1> QED BY <1>1, Invariance, PTL

\* A call without a committed send marker, or canceled or denied, was never
\* sent: the zero usage reported for it is the truth (calls.go:667-668).
THEOREM NeverSentUnmarked == Spec => []UnmarkedNeverSent
<1>1. IInv => UnmarkedNeverSent
  BY DEF IInv, TypeOK, RowOK, UnmarkedNeverSent, Unsent
<1> QED BY <1>1, Invariance, PTL
=============================================================================
