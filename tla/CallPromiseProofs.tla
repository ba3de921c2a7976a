-------------------------- MODULE CallPromiseProofs --------------------------
(***************************************************************************)
(* Proof that guarded tool execution (Calls) implements CallPromise, and   *)
(* that an uncertain or ended call is never overwritten, from the          *)
(* invariant of CallsProofs.                                               *)
(***************************************************************************)
EXTENDS CallsProofs

\* The changes of a row's state that the statements of queries/calls.sql
\* allow, an UNKNOWN one following Control's record of its dispatch.
Changes(c) ==
    \/ row[c].state = "none" /\ row'[c].state = "accepted"
    \/ row[c].state = "accepted" /\ row'[c].state \in {"admitted", "denied"}
    \/ row[c].state = "admitted" /\ row'[c].state \in {"sent", "canceled"}
    \/ row[c].state = "sent" /\ row'[c].state \in {"succeeded", "failed", "unknown"}
    \/ row[c].state = "unknown" /\ row'[c].state \in {"succeeded", "failed"} /\ row'[c].state = Resolution(ctl[c])

\* A step leaves every row's state and every count of sends alone,
StatesStay == sends' = sends /\ \A c \in Call : row'[c].state = row[c].state
\* changes the state of one row,
OneChanges ==
    sends' = sends /\ \E c \in Call : Changes(c) /\ \A d \in Call : d # c => row'[d].state = row[d].state
\* or sends one marked call that was not sent before.
OneSent ==
    row' = row /\ \E c \in Call : row[c].marker /\ sends[c] = 0 /\ sends' = [sends EXCEPT ![c] = 1]

Effect == StatesStay \/ OneChanges \/ OneSent

\* An update of one row changes no other.
LEMMA UpdateEffect ==
  ASSUME IInv, NEW c \in Call, NEW new, row' = [row EXCEPT ![c] = new], sends' = sends, Changes(c) \/ new.state = row[c].state
  PROVE  Effect
BY DEF IInv, TypeOK, Effect, StatesStay, OneChanges

\* A step that writes no row and sends nothing has no effect.
LEMMA NoEffect ==
  ASSUME row' = row, sends' = sends
  PROVE  Effect
BY DEF Effect, StatesStay

\* CreateCall inserts an accepted row, and only where there is none.
LEMMA CreateEffect ==
  ASSUME IInv, NEW w \in Creator, CreateStep(w)
  PROVE  Effect
<1>0. w \in Worker
  BY CreatorIsWorker
<1>1. CASE CreateInsert(w)
  <2> DEFINE c == wk[w].call
  <2>1. c \in Call /\ row \in [Call -> Row] /\ sends' = sends
    BY <1>0, <1>1, Busy DEF CreateInsert, At, IInv, TypeOK, Ghosts
  <2>2. CASE row[c].state = "none" /\ row' = [row EXCEPT ![c] = Inserted]
    <3>1. Changes(c)
      BY <2>1, <2>2, InsertedRow DEF Changes
    <3> QED BY <2>1, <2>2, <3>1, UpdateEffect
  <2> QED BY <1>1, <2>1, <2>2, NoEffect DEF CreateInsert, Update
<1>2. CASE CreateBegin(w) \/ CreateLock(w) \/ CreateTrack(w) \/ Advance(w)
  BY <1>2, NoEffect DEF CreateBegin, CreateLock, CreateTrack, Advance, Ghosts
<1> QED BY <1>1, <1>2 DEF CreateStep

\* Control's answer is recorded on an accepted row only.
LEMMA AdmissionEffect ==
  ASSUME IInv, NEW w \in Worker, SetAdmission(w)
  PROVE  Effect
<1> DEFINE c == wk[w].call
           admitted == [row[c] EXCEPT !.state = "admitted", !.dispatch = TRUE]
           denied == [admitted EXCEPT !.state = "denied"]
<1>1. c \in Call /\ row[c] \in Row /\ row \in [Call -> Row] /\ sends' = sends
  BY Busy DEF SetAdmission, At, IInv, TypeOK, Ghosts
<1>2. admitted.state = "admitted" /\ denied.state = "denied"
  BY <1>1 DEF Row
<1>3. \/ UNCHANGED row
      \/ AdmissionAdmits(c) /\ \E new \in {admitted, denied} : row' = [row EXCEPT ![c] = new]
  BY DEF SetAdmission, Update
<1> HIDE DEF admitted, denied
<1>4. ASSUME AdmissionAdmits(c), NEW new \in {admitted, denied}, row' = [row EXCEPT ![c] = new] PROVE Effect
  <2>1. Changes(c)
    BY <1>1, <1>2, <1>4 DEF Changes, AdmissionAdmits
  <2> QED BY <1>1, <1>4, <2>1, UpdateEffect
<1> QED BY <1>1, <1>3, <1>4, NoEffect

\* The marker turns an admitted row into a sent one.
LEMMA MarkEffect ==
  ASSUME IInv, NEW w \in Worker, Mark(w)
  PROVE  Effect
<1> DEFINE c == wk[w].call
           new == [row[c] EXCEPT !.state = "sent", !.marker = TRUE]
<1>1. c \in Call /\ row[c] \in Row /\ row \in [Call -> Row] /\ sends' = sends
  BY Busy DEF Mark, At, IInv, TypeOK
<1>2. CASE MarkerAdmits(c) /\ row' = [row EXCEPT ![c].state = "sent", ![c].marker = TRUE]
  <2>1. new.state = "sent" /\ row' = [row EXCEPT ![c] = new]
    BY <1>1, <1>2 DEF Row
  <2> HIDE DEF new
  <2>2. Changes(c)
    BY <1>1, <1>2, <2>1 DEF Changes, MarkerAdmits
  <2> QED BY <1>1, <2>1, <2>2, UpdateEffect
<1> QED BY <1>1, <1>2, NoEffect DEF Mark

\* SetToolRequestOutcome changes the state it expects, or nothing.
LEMMA OutcomeEffect ==
  ASSUME IInv, NEW c \in Call, NEW expected, NEW state \in CallState, sends' = sends,
         \/ UNCHANGED row
         \/ OutcomeAdmits(c, expected) /\ row' = [row EXCEPT ![c] = [row[c] EXCEPT !.state = state]],
         \/ expected = "admitted" /\ state = "canceled"
         \/ expected = "sent" /\ state \in {"succeeded", "failed", "unknown"}
         \/ expected = "unknown" /\ state \in {"succeeded", "failed"} /\ state = Resolution(ctl[c])
  PROVE  Effect
<1> DEFINE new == [row[c] EXCEPT !.state = state]
<1>1. row[c] \in Row /\ row \in [Call -> Row]
  BY DEF IInv, TypeOK
<1>2. new.state = state
  BY <1>1 DEF Row
<1>3. CASE OutcomeAdmits(c, expected) /\ row' = [row EXCEPT ![c] = new]
  <2> HIDE DEF new
  <2>1. Changes(c)
    BY <1>1, <1>2, <1>3 DEF Changes, OutcomeAdmits
  <2> QED BY <1>3, <2>1, UpdateEffect
<1> QED BY <1>3, NoEffect

\* The outcomes written by a sender, a cancellation, a resolution and an
\* abandonment.
LEMMA OutcomesEffect ==
  ASSUME IInv, NEW w \in Worker, RecordOutcome(w) \/ Cancel(w) \/ Resolve(w) \/ Abandon(w)
  PROVE  Effect
<1> DEFINE c == wk[w].call
<1>1. c \in Call /\ sends' = sends
  BY Busy DEF RecordOutcome, Cancel, Resolve, Abandon, At, Ghosts
<1>2. CASE RecordOutcome(w)
  <2>1. wk[w].val \in {"succeeded", "failed", "unknown"}
    BY <1>2 DEF RecordOutcome, At, IInv, CarryOK
  <2>2. \/ UNCHANGED row
        \/ OutcomeAdmits(c, "sent") /\ row' = [row EXCEPT ![c] = [row[c] EXCEPT !.state = wk[w].val]]
    BY <1>2 DEF RecordOutcome, SetOutcome, Update
  <2>3. wk[w].val \in CallState
    BY <2>1 DEF CallState
  <2> QED BY <1>1, <2>1, <2>2, <2>3, OutcomeEffect
<1>3. CASE Cancel(w)
  <2>1. \/ UNCHANGED row
        \/ OutcomeAdmits(c, "admitted") /\ row' = [row EXCEPT ![c] = [row[c] EXCEPT !.state = "canceled"]]
    BY <1>3 DEF Cancel, SetOutcome, Update
  <2> QED BY <1>1, <2>1, OutcomeEffect DEF CallState
<1>4. CASE Resolve(w)
  <2>1. wk[w].val \in {"succeeded", "failed"} /\ wk[w].val = Resolution(ctl[c])
    BY <1>4 DEF Resolve, At, IInv, CarryOK
  <2>2. \/ UNCHANGED row
        \/ OutcomeAdmits(c, "unknown") /\ row' = [row EXCEPT ![c] = [row[c] EXCEPT !.state = wk[w].val]]
    BY <1>4 DEF Resolve, SetOutcome, Update
  <2>3. wk[w].val \in CallState
    BY <2>1 DEF CallState
  <2> QED BY <1>1, <2>1, <2>2, <2>3, OutcomeEffect
<1>5. CASE Abandon(w)
  <2>1. \/ UNCHANGED row
        \/ OutcomeAdmits(c, "sent") /\ row' = [row EXCEPT ![c] = [row[c] EXCEPT !.state = "unknown"]]
    BY <1>5 DEF Abandon, AbandonAdmits, OutcomeAdmits, Update
  <2> QED BY <1>1, <2>1, OutcomeEffect DEF CallState
<1> QED BY <1>2, <1>3, <1>4, <1>5

\* tools/call leaves only for a marked call that was never sent.
LEMMA SendEffect ==
  ASSUME IInv, NEW w \in Worker, SendStart(w)
  PROVE  Effect
<1> DEFINE c == wk[w].call
<1>1. c \in Call /\ wk[w].pc = "marked" /\ row' = row
  BY Busy DEF SendStart, At
<1>2. row[c].marker /\ sends[c] = 0
  BY <1>1 DEF IInv, MarkedOK
<1>3. CASE sends' = [sends EXCEPT ![c] = @ + 1]
  <2>1. sends' = [sends EXCEPT ![c] = 1]
    BY <1>2, <1>3
  <2> QED BY <1>1, <1>2, <2>1 DEF Effect, OneSent
<1> QED BY <1>1, <1>3, NoEffect DEF SendStart

\* Recording the report leaves the state alone.
LEMMA ObservedEffect ==
  ASSUME IInv, NEW w \in Worker, SetObserved(w)
  PROVE  Effect
<1> DEFINE c == wk[w].call
           new == [row[c] EXCEPT !.observed = TRUE, !.seq = @ + 1]
<1>1. c \in Call /\ row[c] \in Row /\ sends' = sends
  BY Busy DEF SetObserved, At, Ghosts
<1>2. new.state = row[c].state
  BY <1>1, ObservedRow
<1>3. UNCHANGED row \/ row' = [row EXCEPT ![c] = new]
  BY <1>1 DEF SetObserved, IInv, TypeOK
<1> HIDE DEF new
<1> QED BY <1>1, <1>2, <1>3, UpdateEffect, NoEffect

\* A worker's steps.
LEMMA StepEffect ==
  ASSUME IInv, NEW w \in Worker, Step(w)
  PROVE  Effect
<1>1. CASE AdmitTool(w) \/ Prepare(w) \/ SendReturn(w) \/ Reload(w) \/ ObserveTool(w) \/ GetTool(w)
  BY <1>1, NoEffect DEF AdmitTool, Prepare, SendReturn, Reload, ObserveTool, GetTool, Ghosts
<1> QED BY <1>1, AdmissionEffect, MarkEffect, SendEffect, OutcomesEffect, ObservedEffect DEF Step

\* Shutdown records UNKNOWN on a sent row only.
LEMMA StopEffect ==
  ASSUME IInv, NEW w \in Stopper, StopStep(w)
  PROVE  Effect
<1>0. w \in Worker
  BY KindIsWorker
<1>1. CASE ShutdownRecord(w)
  <2>1. PICK s \in wk[w].page :
          UNCHANGED row \/ (OutcomeAdmits(s.call, "sent") /\ row' = [row EXCEPT ![s.call].state = "unknown"])
    BY <1>1 DEF ShutdownRecord
  <2>2. s.call \in Call /\ sends' = sends
    BY <1>0, <1>1, <2>1 DEF IInv, TypeOK, Local, Entry, ShutdownRecord, Ghosts
  <2> DEFINE c == s.call
  <2>3. \/ UNCHANGED row
        \/ OutcomeAdmits(c, "sent") /\ row' = [row EXCEPT ![c] = [row[c] EXCEPT !.state = "unknown"]]
    BY <2>1
  <2> QED BY <2>2, <2>3, OutcomeEffect DEF CallState
<1>2. CASE ShutdownTimeout(w) \/ ShutdownDone(w)
  BY <1>2, NoEffect DEF ShutdownTimeout, ShutdownDone, Ghosts
<1> QED BY <1>1, <1>2 DEF StopStep

\* Time changes the age of rows, not their state.
LEMMA TickEffect ==
  ASSUME IInv, Tick
  PROVE  Effect
<1>1. ASSUME NEW c \in Call PROVE row'[c].state = row[c].state
  <2>1. row[c] \in Row /\ row'[c] = IF row[c].state = "sent" /\ row[c].age < MaxAge THEN [row[c] EXCEPT !.age = @ + 1] ELSE row[c]
    BY DEF IInv, TypeOK, Tick
  <2>2. row[c].age < MaxAge => [row[c] EXCEPT !.age = @ + 1].state = row[c].state
    BY <2>1, OlderRow, Zenon
  <2> QED BY <2>1, <2>2
<1> QED BY <1>1 DEF Effect, StatesStay, Tick, Ghosts

\* Every step stays, changes one row's state, or sends one call.
LEMMA NextEffect ==
  ASSUME IInv, [Next]_vars
  PROVE  Effect
<1>1. ASSUME NEW w \in Worker, Fail(w) PROVE Effect
  BY <1>1, NoEffect DEF Fail, Ghosts
<1>2. ASSUME NEW w \in Reconciler, ReconcileStep(w) PROVE Effect
  BY <1>2, NoEffect DEF ReconcileStep, List, Take, Ghosts
<1>3. ASSUME NEW w \in Operation, Operate(w) PROVE Effect
  BY <1>3, NoEffect DEF Operate, Ghosts
<1>4. ASSUME NEW r \in Replica, Lifecycle(r) PROVE Effect
  BY <1>4, NoEffect DEF Lifecycle, CloseCalls, ShutdownDrained, Exit, Restart, Crash, Ghosts
<1>5. ASSUME NEW c \in Call, ControlResolve(c) PROVE Effect
  BY <1>5, NoEffect DEF ControlResolve, Ghosts
<1>6. ASSUME NEW g \in Grant, RevokeGrant(g) PROVE Effect
  BY <1>6, NoEffect DEF RevokeGrant, Ghosts
<1>7. CASE UNCHANGED vars
  BY <1>7, NoEffect DEF vars
<1> QED BY <1>1, <1>2, <1>3, <1>4, <1>5, <1>6, <1>7, StepEffect, CreateEffect, StopEffect, TickEffect DEF Next, CallsNext

-----------------------------------------------------------------------------
\* An UNKNOWN call changes only to what Control's record says and an ended
\* one not at all (calls.go:29-31): no late answer of a sender, no stale page
\* entry and no second reconciler overwrites it, for any number of them.
THEOREM UncertainStays == Spec => UncertainOnlyResolved
<1>1. ASSUME IInv, [Next]_vars
      PROVE  \A c \in Call :
               /\ row[c].state \in Terminal => row'[c].state = row[c].state
               /\ row[c].state = "unknown" => row'[c].state \in {"unknown", Resolution(ctl[c])}
  <2>1. Effect
    BY <1>1, NextEffect
  <2> QED BY <2>1 DEF Effect, StatesStay, OneChanges, OneSent, Changes, Terminal
<1>2. IInv /\ [Next]_vars => [\A c \in Call :
               /\ row[c].state \in Terminal => row'[c].state = row[c].state
               /\ row[c].state = "unknown" => row'[c].state \in {"unknown", Resolution(ctl[c])}]_vars
  BY <1>1
<1> QED BY <1>2, Invariance, PTL DEF Spec, UncertainOnlyResolved

\* Guarded tool execution implements CallPromise: each step of each worker is
\* one of the promise's steps, or none.
THEOREM Implements == Spec => KeepsPromise
<1> DEFINE phase == [c \in Call |-> PhaseOf(row[c].state)]
<1>1. Init => Promise!Init
  BY DEF Init, CallsInit, NoRow, BareRow, PhaseOf, Promise!Init
<1>2. ASSUME IInv, [Next]_vars PROVE [Promise!Next]_(Promise!vars)
  <2>1. Effect
    BY <1>2, NextEffect
  <2>2. CASE StatesStay
    BY <2>2 DEF StatesStay, Promise!vars
  <2>3. ASSUME NEW c \in Call, Changes(c), sends' = sends, \A d \in Call : d # c => row'[d].state = row[d].state
        PROVE  [Promise!Next]_(Promise!vars)
    <3>1. phase' = [phase EXCEPT ![c] = PhaseOf(row'[c].state)]
      BY <2>3
    <3>2. \/ phase' = phase
          \/ Promise!Track(c) \/ Promise!Refuse(c) \/ Promise!Mark(c) \/ Promise!Settle(c) \/ Promise!Lose(c) \/ Promise!Resolve(c)
      <4>1. phase[c] = PhaseOf(row[c].state) /\ (PhaseOf(row'[c].state) = phase[c] => phase' = phase)
        BY <3>1
      <4>2. LET from == PhaseOf(row[c].state)
                to == PhaseOf(row'[c].state)
            IN \/ from = to
               \/ from = "absent" /\ to = "open"
               \/ from = "open" /\ to \in {"refused", "marked"}
               \/ from = "marked" /\ to \in {"settled", "uncertain"}
               \/ from = "uncertain" /\ to = "settled"
        BY <2>3 DEF Changes, PhaseOf
      <4> HIDE DEF phase
      <4> QED BY <2>3, <3>1, <4>1, <4>2
              DEF Promise!Track, Promise!Refuse, Promise!Mark, Promise!Settle, Promise!Lose, Promise!Resolve, Promise!Move
    <3> QED BY <2>3, <3>2 DEF Promise!Next, Promise!vars
  <2>4. CASE OneSent
    <3>1. PICK c \in Call : row[c].marker /\ sends[c] = 0 /\ sends' = [sends EXCEPT ![c] = 1]
      BY <2>4 DEF OneSent
    <3>2. row[c].state \notin Unsent /\ row[c].state \in CallState
      BY <1>2, <3>1 DEF IInv, RowOK, TypeOK, Row, Unsent
    <3>3. phase[c] \in {"marked", "uncertain", "settled"} /\ phase' = phase
      BY <2>4, <3>2 DEF OneSent, PhaseOf, Unsent, CallState
    <3> QED BY <3>1, <3>3 DEF Promise!Next, Promise!Send
  <2> QED BY <2>1, <2>2, <2>3, <2>4 DEF Effect, OneChanges
<1> QED BY <1>1, <1>2, Invariance, PTL DEF Spec, KeepsPromise, Promise!Spec
=============================================================================
