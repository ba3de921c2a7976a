--------------------------- MODULE CallSendProofs ---------------------------
(***************************************************************************)
(* Proof that the outcome of a send inside its bound is the sender's, for  *)
(* any number of calls, replicas, operators and faults: one worker is past *)
(* the marker of a call, and no send is in flight beyond its bound.        *)
(***************************************************************************)
EXTENDS CallPromiseProofs

\* The steps of a sender between its marker and its outcome.
Past == {"marked", "sending", "record"}

\* A sender has marked its call, is the only one to have done so, and while
\* it sends the call is inside the bound or no longer marked as sent.
SInv ==
    /\ \A w \in Worker : wk[w].pc \in Past => row[wk[w].call].marker
    /\ \A v, w \in Worker : wk[v].pc \in Past /\ wk[w].pc \in Past /\ wk[v].call = wk[w].call => v = w
    /\ \A w \in Worker : wk[w].pc = "sending" /\ row[wk[w].call].state = "sent" => row[wk[w].call].age <= SendTimeout

\* A worker goes on with its call, or is not a sender afterwards.
Calm == \A w \in Worker : (wk'[w].pc = wk[w].pc /\ wk'[w].call = wk[w].call) \/ wk'[w].pc \notin Past

\* Marked rows keep their marker and its age.
RowsAge == \A c \in Call : row[c].marker => row'[c].marker /\ row'[c].age = row[c].age

\* A marked row does not become sent again.
LEMMA SentBefore ==
  ASSUME IInv, Effect, NEW c \in Call, row[c].marker, row'[c].state = "sent"
  PROVE  row[c].state = "sent"
<1>1. row[c].state \notin Unsent
  BY DEF IInv, RowOK
<1> QED BY <1>1 DEF Effect, StatesStay, OneChanges, OneSent, Changes, Unsent

\* A step without a new sender that keeps markers and ages.
LEMMA KeepsSInv ==
  ASSUME IInv, SInv, Effect, Calm, RowsAge
  PROVE  SInv'
<1>1. ASSUME NEW w \in Worker, wk'[w].pc \in Past
      PROVE  /\ wk[w].pc = wk'[w].pc /\ wk[w].call = wk'[w].call /\ wk[w].call \in Call
             /\ row[wk[w].call].marker
  BY <1>1 DEF Calm, SInv, IInv, CarryOK, Past
<1>2. ASSUME NEW w \in Worker, wk'[w].pc \in Past PROVE row'[wk'[w].call].marker
  BY <1>1, <1>2 DEF RowsAge
<1>3. ASSUME NEW v \in Worker, NEW w \in Worker, wk'[v].pc \in Past, wk'[w].pc \in Past, wk'[v].call = wk'[w].call
      PROVE  v = w
  BY <1>1, <1>3 DEF SInv
<1>4. ASSUME NEW w \in Worker, wk'[w].pc = "sending", row'[wk'[w].call].state = "sent"
      PROVE  row'[wk'[w].call].age <= SendTimeout
  <2>1. PICK c \in Call : c = wk[w].call /\ c = wk'[w].call /\ row[c].marker /\ wk[w].pc = "sending"
    BY <1>1, <1>4 DEF Past
  <2>2. row[c].state = "sent" /\ row'[c].age = row[c].age
    BY <1>4, <2>1, SentBefore DEF RowsAge
  <2> QED BY <2>1, <2>2, ZenonT(30) DEF SInv
<1> QED BY <1>2, <1>3, <1>4 DEF SInv
-----------------------------------------------------------------------------
(* Workers' moves and rows' updates.                                       *)

\* One worker moves, not to a sender's step.
LEMMA OneCalm ==
  ASSUME IInv, NEW w \in Worker, NEW l, wk' = [wk EXCEPT ![w] = l], l.pc \notin Past
  PROVE  Calm
<1>1. wk'[w] = l /\ \A u \in Worker : u # w => wk'[u] = wk[u]
  BY DEF IInv, TypeOK
<1> QED BY <1>1 DEF Calm

\* Go, to another step than a sender's.
LEMMA GoCalm ==
  ASSUME IInv, NEW w \in Worker, NEW pc \in Pc \ Past, Go(w, pc), wk[w].pc # "idle"
  PROVE  Calm
<1> DEFINE l == Fresh(w, pc, wk[w].call)
<1>1. l.pc = pc /\ wk' = [wk EXCEPT ![w] = l]
  BY FreshLocal DEF IInv, CarryOK, Go
<1> HIDE DEF l
<1> QED BY <1>1, OneCalm, ZenonT(30)

\* A worker that ends its work.
LEMMA EndCalm ==
  ASSUME IInv, NEW w \in Worker, End(w)
  PROVE  Calm
<1> DEFINE l == Fresh(w, "idle", None)
<1>1. l.pc = "idle" /\ wk' = [wk EXCEPT ![w] = l]
  BY FreshLocal DEF IInv, End, Pc
<1> HIDE DEF l
<1> QED BY <1>1, OneCalm, ZenonT(30) DEF Past

\* GoWith, to another step than a sender's.
LEMMA WithCalm ==
  ASSUME IInv, NEW w \in Worker, NEW pc \in Pc \ Past, NEW v \in Val, GoWith(w, pc, v)
  PROVE  Calm
BY WithLocal DEF IInv, Calm

\* A worker starts with a loaded row, not as a sender.
LEMMA StartCalm ==
  ASSUME IInv, NEW w \in Worker, NEW pc \in Pc \ Past, NEW s \in Shot, wk' = [wk EXCEPT ![w] = Start(w, s, pc)]
  PROVE  Calm
<1> DEFINE l == Start(w, s, pc)
<1>1. l.pc = pc /\ wk' = [wk EXCEPT ![w] = l]
  BY StartLocal DEF IInv
<1> HIDE DEF l
<1> QED BY <1>1, OneCalm, ZenonT(30)

\* Workers that end or go on as they were.
LEMMA IdleCalm ==
  ASSUME \A w \in Worker : wk'[w] = wk[w] \/ wk'[w] = Idle
  PROVE  Calm
BY IdleLocal DEF Calm, Past

\* Nothing but workers' local states changes.
LEMMA QuietSInv ==
  ASSUME IInv, SInv, Effect, Calm, row' = row
  PROVE  SInv'
BY KeepsSInv DEF RowsAge

\* One row changes, and not the age of its marker.
LEMMA RowSInv ==
  ASSUME IInv, SInv, Effect, Calm, NEW c \in Call, NEW new, row' = [row EXCEPT ![c] = new],
         row[c].marker => new.marker /\ new.age = row[c].age
  PROVE  SInv'
<1>1. \A d \in Call : row'[d] = IF d = c THEN new ELSE row[d]
  BY DEF IInv, TypeOK
<1> QED BY <1>1, KeepsSInv DEF RowsAge
-----------------------------------------------------------------------------
(* The actions.                                                            *)

\* The marker's commit: nobody was past the marker of an unmarked call.
LEMMA MarkSInv ==
  ASSUME IInv, SInv, Effect, NEW w \in Worker, Mark(w)
  PROVE  SInv'
<1>1. PICK c \in Call : c = wk[w].call /\ row[c] \in Row /\ row \in [Call -> Row] /\ wk[w].pc # "idle"
  BY Busy DEF Mark, At, IInv, TypeOK
<1>2. CASE Go(w, "cancel") /\ row' = row
  BY <1>1, <1>2, GoCalm, QuietSInv DEF Pc, Past
<1>3. CASE MarkerAdmits(c) /\ row' = [row EXCEPT ![c].state = "sent", ![c].marker = TRUE] /\ Go(w, "marked")
  <2> DEFINE l == Fresh(w, "marked", c)
  <2>1. l.pc = "marked" /\ l.call = c /\ wk' = [wk EXCEPT ![w] = l]
    BY <1>1, <1>3, FreshLocal DEF IInv, Pc, Go
  <2> HIDE DEF l
  <2>2. wk'[w] = l /\ \A u \in Worker : u # w => wk'[u] = wk[u]
    BY <2>1 DEF IInv, TypeOK
  <2>3. ~row[c].marker /\ row'[c].marker /\ \A d \in Call : d # c => row'[d] = row[d]
    BY <1>1, <1>3 DEF MarkerAdmits, Row
  <2>4. ASSUME NEW u \in Worker, u # w, wk'[u].pc \in Past
        PROVE  /\ wk'[u] = wk[u] /\ wk[u].call \in Call /\ wk[u].call # c /\ row'[wk[u].call] = row[wk[u].call]
    BY <2>2, <2>3, <2>4 DEF SInv, IInv, CarryOK, Past
  <2>5. \A u \in Worker : wk'[u].pc \in Past => row'[wk'[u].call].marker
    BY <2>1, <2>2, <2>3, <2>4 DEF SInv
  <2>6. \A u, v \in Worker : wk'[u].pc \in Past /\ wk'[v].pc \in Past /\ wk'[u].call = wk'[v].call => u = v
    BY <2>1, <2>2, <2>4 DEF SInv
  <2>7. ASSUME NEW u \in Worker, wk'[u].pc = "sending", row'[wk'[u].call].state = "sent"
        PROVE  row'[wk'[u].call].age <= SendTimeout
    <3>1. u # w
      BY <2>1, <2>2, <2>7
    <3> QED BY <2>4, <2>7, <3>1 DEF SInv, Past
  <2> QED BY <2>5, <2>6, <2>7 DEF SInv
<1> QED BY <1>1, <1>2, <1>3 DEF Mark

\* A sender that stays one: it sends inside the bound, or has its outcome.
LEMMA SenderSInv ==
  ASSUME IInv, SInv, NEW w \in Worker, wk[w].pc \in Past, row' = row, NEW l \in Local,
         wk' = [wk EXCEPT ![w] = l], l.call = wk[w].call,
         l.pc = "sending" => row[wk[w].call].age <= SendTimeout
  PROVE  SInv'
<1>1. wk'[w] = l /\ \A u \in Worker : u # w => wk'[u] = wk[u]
  BY DEF IInv, TypeOK
<1>2. \A u \in Worker : wk'[u].call = wk[u].call /\ (wk'[u].pc \in Past => wk[u].pc \in Past)
  BY <1>1
<1>3. ASSUME NEW u \in Worker, wk'[u].pc = "sending", row'[wk'[u].call].state = "sent"
      PROVE  row'[wk'[u].call].age <= SendTimeout
  BY <1>1, <1>2, <1>3 DEF SInv
<1>4. \A u \in Worker : wk'[u].pc \in Past => row'[wk'[u].call].marker
  BY <1>2 DEF SInv
<1>5. \A u, v \in Worker : wk'[u].pc \in Past /\ wk'[v].pc \in Past /\ wk'[u].call = wk'[v].call => u = v
  BY <1>2 DEF SInv
<1> QED BY <1>3, <1>4, <1>5 DEF SInv

\* The send starts inside its bound and ends with an outcome.
LEMMA SendSInv ==
  ASSUME IInv, SInv, NEW w \in Worker, SendStart(w) \/ SendReturn(w)
  PROVE  SInv'
<1>1. wk[w].pc \in Past /\ wk[w].pc # "idle" /\ row' = row
  BY DEF SendStart, SendReturn, At, Past
<1>2. wk[w] \in Local /\ wk[w].call \in Call /\ row[wk[w].call] \in Row /\ wk \in [Worker -> Local]
  BY <1>1, Busy DEF IInv, TypeOK
<1>3. ASSUME NEW v \in Val, GoWith(w, "record", v) PROVE SInv'
  <2> DEFINE l == [wk[w] EXCEPT !.pc = "record", !.val = v]
  <2>1. l \in Local /\ l.pc = "record" /\ l.call = wk[w].call
    BY <1>2, ZenonT(30) DEF Local, Pc
  <2>2. wk' = [wk EXCEPT ![w] = l]
    BY <1>2, <1>3, ZenonT(30) DEF GoWith
  <2> HIDE DEF l
  <2> QED BY <1>1, <2>1, <2>2, SenderSInv, ZenonT(30)
<1>4. ASSUME row[wk[w].call].age < SendTimeout, Go(w, "sending") PROVE SInv'
  <2> DEFINE l == Fresh(w, "sending", wk[w].call)
  <2>1. l \in Local /\ l.pc = "sending" /\ l.call = wk[w].call
    BY <1>2, FreshLocal DEF IInv, Pc
  <2>2. wk' = [wk EXCEPT ![w] = l]
    BY <1>4 DEF Go
  <2> HIDE DEF l
  <2>3. row[wk[w].call].age <= SendTimeout
    BY <1>2, <1>4, MaxAgeNat, CallsAssumption DEF Row, CallsAssumption
  <2> QED BY <1>1, <2>1, <2>2, <2>3, SenderSInv, ZenonT(30)
<1>5. \A reply : OutcomeOf(reply) \in Val
  BY DEF OutcomeOf, Val
<1> QED BY <1>3, <1>4, <1>5 DEF SendStart, SendReturn, Val

\* Time passes: not beyond the bound of a send in flight.
LEMMA TickSInv ==
  ASSUME IInv, SInv, Effect, Tick
  PROVE  SInv'
<1>1. wk' = wk
  BY DEF Tick
<1>2. ASSUME NEW c \in Call
      PROVE  /\ row'[c].state = row[c].state /\ row'[c].marker = row[c].marker
             /\ row'[c].age \in {row[c].age, row[c].age + 1}
  <2>1. row[c] \in Row
    BY DEF IInv, TypeOK
  <2>2. ASSUME NEW a
        PROVE  LET r == [row[c] EXCEPT !.age = a] IN r.state = row[c].state /\ r.marker = row[c].marker /\ r.age = a
    BY <2>1 DEF Row
  <2>3. row'[c] = row[c] \/ row'[c] = [row[c] EXCEPT !.age = row[c].age + 1]
    BY DEF Tick
  <2> QED BY <2>2, <2>3, ZenonT(30)
<1>3. ASSUME NEW w \in Worker, wk[w].pc \in Past PROVE wk[w].call \in Call
  BY <1>3 DEF IInv, CarryOK, Past
<1>4. ASSUME NEW w \in Worker, wk[w].pc = "sending", row'[wk[w].call].state = "sent"
      PROVE  row'[wk[w].call].age <= SendTimeout
  <2>1. PICK c \in Call : c = wk[w].call
    BY <1>3, <1>4 DEF Past
  <2>2. row[c].state = "sent" /\ row[c].age < SendTimeout
    BY <1>2, <1>4, <2>1 DEF Tick, At
  <2>3. row[c].age \in Nat /\ SendTimeout \in Nat
    BY MaxAgeNat, CallsAssumption DEF IInv, TypeOK, Row, CallsAssumption
  <2> QED BY <1>2, <2>1, <2>2, <2>3
<1> QED BY <1>1, <1>2, <1>3, <1>4 DEF SInv

\* Steps of a worker that read, ask Control or are done with their report.
LEMMA AskSInv ==
  ASSUME IInv, SInv, Effect, NEW w \in Worker,
         AdmitTool(w) \/ Prepare(w) \/ Reload(w) \/ ObserveTool(w) \/ GetTool(w) \/ Fail(w)
  PROVE  SInv'
<1>1. wk[w].pc # "idle" /\ row' = row
  BY DEF AdmitTool, Prepare, Reload, ObserveTool, GetTool, Fail, At
<1>2. wk[w].call \in Call /\ wk[w] \in Local /\ wk \in [Worker -> Local]
  BY <1>1, Busy DEF IInv, TypeOK
<1>3. CASE AdmitTool(w) \/ GetTool(w)
  <2>1. \/ \E v \in {"allowed", "denied", "recorded"} : GoWith(w, "answered", v)
        \/ \E v \in {"succeeded", "failed", "none"} : GoWith(w, "resolve", v)
        \/ End(w)
    BY <1>3, ResolutionValues DEF AdmitTool, GetTool
  <2>2. Calm
    BY <2>1, WithCalm, EndCalm, SMTT(30) DEF Pc, Past, Val
  <2> QED BY <1>1, <2>2, QuietSInv
<1>4. CASE Prepare(w) \/ Fail(w)
  <2>1. Go(w, "mark") \/ Go(w, "cancel") \/ Go(w, "gettool") \/ End(w)
    BY <1>4 DEF Prepare, Fail, AfterObserve
  <2>2. Calm
    BY <1>1, <2>1, GoCalm, EndCalm DEF Pc, Past
  <2> QED BY <1>1, <2>2, QuietSInv
<1>5. CASE Reload(w)
  <2>1. Calm
    BY <1>2, <1>5, SnapshotShot, StartCalm, ZenonT(30) DEF Reload, IInv, Pc, Past
  <2> QED BY <1>1, <2>1, QuietSInv
<1>6. CASE ObserveTool(w)
  <2> DEFINE l == [wk[w] EXCEPT !.pc = "observed"]
  <2>1. l.pc = "observed" /\ wk' = [wk EXCEPT ![w] = l]
    BY <1>2, <1>6 DEF ObserveTool, Local
  <2> HIDE DEF l
  <2>2. Calm
    BY <2>1, OneCalm, ZenonT(30) DEF Past
  <2> QED BY <1>1, <2>2, QuietSInv
<1> QED BY <1>3, <1>4, <1>5, <1>6

\* Steps of a worker that write its row.
LEMMA WriteSInv ==
  ASSUME IInv, SInv, Effect, NEW w \in Worker,
         SetAdmission(w) \/ SetObserved(w) \/ RecordOutcome(w) \/ Cancel(w) \/ Resolve(w) \/ Abandon(w)
  PROVE  SInv'
<1> DEFINE c == wk[w].call
           r == row[c]
<1>1. wk[w].pc # "idle"
  BY DEF SetAdmission, SetObserved, RecordOutcome, Cancel, Resolve, Abandon, At
<1>2. c \in Call /\ r \in Row /\ row \in [Call -> Row]
  BY <1>1, Busy DEF IInv, TypeOK
<1>3. Calm
  <2>1. Go(w, "prepare") \/ Go(w, "cancel") \/ Go(w, "reload") \/ Go(w, "gettool") \/ End(w)
    BY DEF SetAdmission, SetObserved, AfterObserve, RecordOutcome, Cancel, Resolve, Abandon, SetOutcome, Update
  <2> QED BY <1>1, <2>1, GoCalm, EndCalm DEF Pc, Past
<1>4. ASSUME NEW new, row' = [row EXCEPT ![c] = new], new.marker = r.marker, new.age = r.age PROVE SInv'
  BY <1>2, <1>3, <1>4, RowSInv, ZenonT(30)
<1>5. CASE row' = row
  BY <1>3, <1>5, QuietSInv
<1>6. ASSUME NEW s, row' = [row EXCEPT ![c] = [r EXCEPT !.state = s]] PROVE SInv'
  <2> DEFINE new == [r EXCEPT !.state = s]
  <2>1. new.marker = r.marker /\ new.age = r.age
    BY <1>2 DEF Row
  <2> HIDE DEF new, r
  <2> QED BY <1>4, <1>6, <2>1, ZenonT(30) DEF new
<1>7. CASE SetObserved(w)
  <2> DEFINE new == [r EXCEPT !.observed = TRUE, !.seq = @ + 1]
  <2>1. new.marker = r.marker /\ new.age = r.age
    <3>1. ASSUME NEW n
          PROVE  LET k == [r EXCEPT !.observed = TRUE, !.seq = n] IN k.marker = r.marker /\ k.age = r.age
      BY <1>2, SMTT(30) DEF Row
    <3> QED BY <3>1, Zenon
  <2>2. row' = row \/ row' = [row EXCEPT ![c] = new]
    BY <1>2, <1>7, ZenonT(30) DEF SetObserved
  <2> HIDE DEF new
  <2> QED BY <1>4, <1>5, <2>1, <2>2
<1>8. CASE SetAdmission(w)
  <2> DEFINE admitted == [r EXCEPT !.state = "admitted", !.dispatch = TRUE]
             denied == [admitted EXCEPT !.state = "denied"]
  <2>1. admitted.marker = r.marker /\ admitted.age = r.age /\ denied.marker = r.marker /\ denied.age = r.age
    BY <1>2 DEF Row
  <2>2. row' = row \/ row' = [row EXCEPT ![c] = admitted] \/ row' = [row EXCEPT ![c] = denied]
    BY <1>8 DEF SetAdmission, Update
  <2> HIDE DEF admitted, denied
  <2> QED BY <1>4, <1>5, <2>1, <2>2
<1>9. CASE RecordOutcome(w) \/ Cancel(w) \/ Resolve(w) \/ Abandon(w)
  <2>1. row' = row \/ \E s : row' = [row EXCEPT ![c] = [r EXCEPT !.state = s]]
    BY <1>9, ZenonT(30) DEF RecordOutcome, Cancel, Resolve, Abandon, SetOutcome, Update
  <2> QED BY <1>5, <1>6, <2>1, ZenonT(30)
<1> QED BY <1>7, <1>8, <1>9

\* The steps of Calls.Create up to the detached goroutine.
LEMMA CreateSInv ==
  ASSUME IInv, SInv, Effect, NEW w \in Creator, CreateStep(w)
  PROVE  SInv'
<1>0. w \in Worker /\ w.call \in Call
  BY CreatorIsWorker
<1>1. CASE CreateBegin(w)
  <2> DEFINE l == Fresh(w, "checked", w.call)
  <2>1. l.pc = "checked" /\ wk' = [wk EXCEPT ![w] = l] /\ row' = row
    BY <1>0, <1>1, FreshLocal DEF IInv, Pc, CreateBegin
  <2> HIDE DEF l
  <2>2. Calm
    BY <1>0, <2>1, OneCalm, ZenonT(30) DEF Past
  <2> QED BY <2>1, <2>2, QuietSInv
<1>2. CASE CreateLock(w) \/ CreateTrack(w)
  <2>1. wk[w].pc # "idle" /\ row' = row /\ (Go(w, "inserting") \/ Go(w, "advance") \/ End(w))
    BY <1>2 DEF CreateLock, CreateTrack, At
  <2>2. Calm
    BY <1>0, <2>1, GoCalm, EndCalm DEF Pc, Past
  <2> QED BY <2>1, <2>2, QuietSInv
<1>3. CASE CreateInsert(w)
  <2>1. /\ wk[w].pc # "idle" /\ (Go(w, "inserted") \/ End(w))
        /\ row' = row \/ (row[wk[w].call].state = "none" /\ row' = [row EXCEPT ![wk[w].call] = Inserted])
    BY <1>3 DEF CreateInsert, At, Update
  <2>2. Calm
    BY <1>0, <2>1, GoCalm, EndCalm, SMTT(30) DEF Pc, Past
  <2>3. wk[w].call \in Call /\ (row[wk[w].call].state = "none" => ~row[wk[w].call].marker)
    BY <1>0, <2>1, Busy DEF IInv, RowOK, Unsent
  <2> QED BY <2>1, <2>2, <2>3, QuietSInv, RowSInv
<1>4. CASE Advance(w)
  <2>1. /\ wk[w].pc # "idle" /\ row' = row
        /\ Go(w, "admit") \/ End(w) \/ wk' = [wk EXCEPT ![w] = Start(w, Snapshot(w.call), "observe")]
    BY <1>4 DEF Advance, At
  <2>2. Snapshot(w.call) \in Shot /\ "observe" \in Pc \ Past
    BY <1>0, SnapshotShot DEF IInv, Pc, Past
  <2>3. Calm
    BY <1>0, <2>1, <2>2, GoCalm, EndCalm, StartCalm DEF Pc, Past
  <2> QED BY <2>1, <2>3, QuietSInv
<1> QED BY <1>1, <1>2, <1>3, <1>4 DEF CreateStep

\* A reconciler's pass and an operator's reconciliation start with a row, and
\* never as senders.
LEMMA ReconcileSInv ==
  ASSUME IInv, SInv, Effect, NEW w \in Worker, List(w) \/ Take(w) \/ Operate(w)
  PROVE  SInv'
<1>0. row' = row /\ wk \in [Worker -> Local] /\ wk[w] \in Local
  BY DEF List, Take, Operate, IInv, TypeOK
<1>1. \A s : StepFor(s) \in Pc \ Past
  BY DEF StepFor, Pc, Past
<1>2. CASE List(w)
  <2>1. PICK page : wk' = [wk EXCEPT ![w].page = page]
    BY <1>2, ZenonT(30) DEF List
  <2>2. wk'[w].pc = wk[w].pc /\ wk'[w].call = wk[w].call /\ \A u \in Worker : u # w => wk'[u] = wk[u]
    BY <1>0, <2>1 DEF Local
  <2>3. Calm
    BY <2>2 DEF Calm
  <2> QED BY <1>0, <2>3, QuietSInv
<1>3. CASE Take(w)
  <2>1. PICK s \in wk[w].page : wk' = [wk EXCEPT ![w] = [Start(w, s, StepFor(s)) EXCEPT !.page = @ \ {s}]]
    BY <1>3, ZenonT(30) DEF Take
  <2> DEFINE l == Start(w, s, StepFor(s))
             k == [l EXCEPT !.page = @ \ {s}]
  <2>2. s \in Shot
    BY <1>0, <2>1 DEF Local, Entry, Shot
  <2>3. l \in Local /\ l.pc \notin Past
    BY <1>1, <2>2, StartLocal DEF IInv
  <2>4. wk' = [wk EXCEPT ![w] = k]
    BY <2>1
  <2> HIDE DEF l
  <2>5. k.pc \notin Past
    BY <2>3, TakenLocal, Zenon
  <2> HIDE DEF k
  <2>6. Calm
    BY <2>4, <2>5, OneCalm, ZenonT(30)
  <2> QED BY <1>0, <2>6, QuietSInv
<1>4. CASE Operate(w)
  <2>1. PICK c \in Call, v \in {"resolve", "none"} :
          wk' = [wk EXCEPT ![w] = [Start(w, Snapshot(c), StepFor(Snapshot(c))) EXCEPT !.val = v]]
    BY <1>4, ZenonT(30) DEF Operate
  <2> DEFINE l == Start(w, Snapshot(c), StepFor(Snapshot(c)))
             k == [l EXCEPT !.val = v]
  <2>2. l \in Local /\ l.pc \notin Past
    BY <1>1, SnapshotShot, StartLocal DEF IInv
  <2>3. wk' = [wk EXCEPT ![w] = k] /\ v \in Val
    BY <2>1 DEF Val
  <2> HIDE DEF l
  <2>4. k.pc \notin Past
    BY <2>2, <2>3, ValLocal, Zenon
  <2> HIDE DEF k
  <2>5. Calm
    BY <2>3, <2>4, OneCalm, ZenonT(30)
  <2> QED BY <1>0, <2>5, QuietSInv
<1> QED BY <1>2, <1>3, <1>4

\* The steps of Calls.Shutdown.
LEMMA StopSInv ==
  ASSUME IInv, SInv, Effect, NEW w \in Stopper, StopStep(w)
  PROVE  SInv'
<1>0. w \in Worker /\ wk \in [Worker -> Local] /\ wk[w] \in Local
  BY KindIsWorker DEF IInv, TypeOK
<1>1. CASE ShutdownTimeout(w)
  <2>1. row' = row /\ \E page : wk' = [wk EXCEPT ![w].page = page]
    BY <1>1, ZenonT(30) DEF ShutdownTimeout
  <2>2. wk'[w].pc = wk[w].pc /\ wk'[w].call = wk[w].call /\ \A u \in Worker : u # w => wk'[u] = wk[u]
    BY <1>0, <2>1 DEF Local
  <2>3. Calm
    BY <2>2 DEF Calm
  <2> QED BY <2>1, <2>3, QuietSInv
<1>2. CASE ShutdownRecord(w)
  <2>1. PICK s \in wk[w].page :
          LET rest == [Idle EXCEPT !.page = wk[w].page \ {s}] IN
          \/ /\ row' = [row EXCEPT ![s.call].state = "unknown"]
             /\ wk' = [wk EXCEPT ![w] = [rest EXCEPT !.pc = "reload", !.call = s.call]]
          \/ UNCHANGED row /\ wk' = [wk EXCEPT ![w] = rest]
    BY <1>2, ZenonT(30) DEF ShutdownRecord
  <2>2. PICK c \in Call : c = s.call
    BY <1>0, <2>1 DEF Local, Entry
  <2> DEFINE rest == [Idle EXCEPT !.page = wk[w].page \ {s}]
             l == [rest EXCEPT !.pc = "reload", !.call = c]
             new == [row[c] EXCEPT !.state = "unknown"]
  <2>3. rest.pc = "idle" /\ l.pc = "reload"
    BY DEF Idle
  <2>4. new.marker = row[c].marker /\ new.age = row[c].age
    BY DEF IInv, TypeOK, Row
  <2>5. \/ row' = [row EXCEPT ![c] = new] /\ wk' = [wk EXCEPT ![w] = l]
        \/ row' = row /\ wk' = [wk EXCEPT ![w] = rest]
    BY <2>1, <2>2
  <2> HIDE DEF rest, l, new
  <2>6. Calm
    BY <1>0, <2>3, <2>5, OneCalm, ZenonT(30) DEF Past
  <2> QED BY <2>4, <2>5, <2>6, QuietSInv, RowSInv
<1>3. CASE ShutdownDone(w)
  BY <1>3, IdleCalm, QuietSInv DEF ShutdownDone
<1> QED BY <1>1, <1>2, <1>3 DEF StopStep

\* Every step keeps the senders apart and their sends inside the bound.
LEMMA NextSInv ==
  ASSUME IInv, SInv, [Next]_vars
  PROVE  SInv'
<1>0. Effect
  BY NextEffect
<1>1. ASSUME NEW r \in Replica, Lifecycle(r) PROVE SInv'
  <2>1. row' = row
    BY <1>1 DEF Lifecycle, CloseCalls, ShutdownDrained, Exit, Restart, Crash
  <2>2. \A w \in Worker : wk'[w] = wk[w] \/ wk'[w] = Idle
    BY <1>1 DEF Lifecycle, CloseCalls, ShutdownDrained, Exit, Restart, Crash, Killed
  <2> QED BY <1>0, <2>1, <2>2, IdleCalm, QuietSInv
<1>2. CASE UNCHANGED <<row, wk>>
  BY <1>0, <1>2, IdleCalm, QuietSInv
<1>3. ASSUME NEW c \in Call, ControlResolve(c) PROVE SInv'
  BY <1>2, <1>3 DEF ControlResolve
<1>4. ASSUME NEW g \in Grant, RevokeGrant(g) PROVE SInv'
  BY <1>2, <1>4 DEF RevokeGrant
<1>5. CASE UNCHANGED vars
  BY <1>2, <1>5 DEF vars
<1>6. ASSUME NEW w \in Worker, Step(w) \/ Fail(w) PROVE SInv'
  BY <1>0, <1>6, AskSInv, WriteSInv, MarkSInv, SendSInv DEF Step
<1>7. ASSUME NEW w \in Reconciler \cup Operation, ReconcileStep(w) \/ Operate(w) PROVE SInv'
  BY <1>0, <1>7, KindIsWorker, ReconcileSInv DEF ReconcileStep
<1> QED BY <1>0, <1>1, <1>3, <1>4, <1>5, <1>6, <1>7, CreateSInv, StopSInv, TickSInv DEF Next, CallsNext

\* In the beginning nobody sends.
LEMMA InitSInv == Init => SInv
<1>1. Init => \A w \in Worker : wk[w].pc = "idle"
  BY IdleLocal, SMTT(30) DEF Init, CallsInit
<1> QED BY <1>1 DEF SInv, Past
-----------------------------------------------------------------------------
(* Who may end a call that is being sent.                                  *)

\* No worker's step ends a send inside its bound.
LEMMA StepSpares ==
  ASSUME IInv, SInv, NEW w \in Worker, wk[w].pc = "sending", NEW c \in Call, c = wk[w].call, row[c].state = "sent",
         NEW u \in Worker, Step(u)
  PROVE  row'[c].state = "sent"
<1>0. row \in [Call -> Row]
  BY SMTT(30) DEF IInv, TypeOK
<1>1. CASE AdmitTool(u) \/ Prepare(u) \/ SendStart(u) \/ SendReturn(u) \/ Reload(u) \/ ObserveTool(u) \/ GetTool(u)
  BY <1>1 DEF AdmitTool, Prepare, SendStart, SendReturn, Reload, ObserveTool, GetTool
<1>2. CASE RecordOutcome(u)
  <2>1. wk[u].call # c
    BY <1>2 DEF RecordOutcome, At, SInv, Past
  <2> QED BY <1>0, <1>2, <2>1 DEF RecordOutcome, SetOutcome, Update
<1>3. CASE Abandon(u)
  <2>1. ~AbandonAdmits(c)
    <3>1. row[c].age <= SendTimeout
      BY DEF SInv
    <3>2. row[c].age \in Nat
      BY MaxAgeNat DEF IInv, TypeOK, Row
    <3>3. sentAge > SendTimeout /\ sentAge \in Nat /\ SendTimeout \in Nat
      BY CallsAssumption DEF CallsAssumption, sentAge
    <3> QED BY <3>1, <3>2, <3>3 DEF AbandonAdmits
  <2> QED BY <1>0, <1>3, <2>1 DEF Abandon, Update
<1>4. CASE Cancel(u) \/ Resolve(u) \/ SetAdmission(u)
  <2>1. row' = row \/ (row[wk[u].call].state # "sent" /\ \E new : row' = [row EXCEPT ![wk[u].call] = new])
    BY <1>4 DEF Cancel, Resolve, SetAdmission, AdmissionAdmits, SetOutcome, OutcomeAdmits, Update
  <2> QED BY <1>0, <2>1, SMTT(30)
<1>5. CASE Mark(u)
  BY <1>5 DEF Mark, MarkerAdmits, IInv, TypeOK
<1>6. CASE SetObserved(u)
  <2> DEFINE new == [row[c] EXCEPT !.observed = TRUE, !.seq = @ + 1]
  <2>1. new.state = row[c].state
    BY ObservedRow, ZenonT(30) DEF IInv, TypeOK
  <2>2. row'[c] = row[c] \/ row'[c] = new
    BY <1>6, ZenonT(30) DEF SetObserved, IInv, TypeOK
  <2> HIDE DEF new
  <2> QED BY <2>1, <2>2, SMTT(30)
<1> QED BY <1>1, <1>2, <1>3, <1>4, <1>5, <1>6 DEF Step

\* Only a stopping process does.
LEMMA NextSpares ==
  ASSUME IInv, SInv, [Next]_vars, NEW w \in Worker, wk[w].pc = "sending", NEW c \in Call, c = wk[w].call,
         row[c].state = "sent", row'[c].state # "sent"
  PROVE  \E v \in Stopper : wk'[v] # wk[v]
<1>1. CASE row' = row
  BY <1>1
<1>2. ASSUME NEW u \in Creator, CreateStep(u) PROVE row'[c].state = "sent"
  <2>1. row' = row \/ (row[wk[u].call].state = "none" /\ \E new : row' = [row EXCEPT ![wk[u].call] = new])
    BY <1>2 DEF CreateStep, CreateBegin, CreateLock, CreateInsert, CreateTrack, Advance, Update
  <2> QED BY <2>1 DEF IInv, TypeOK
<1>3. ASSUME Tick PROVE row'[c].state = "sent"
  <2>1. ASSUME NEW a PROVE [row[c] EXCEPT !.age = a].state = row[c].state
    BY DEF IInv, TypeOK, Row
  <2>2. row'[c] = row[c] \/ row'[c] = [row[c] EXCEPT !.age = row[c].age + 1]
    BY <1>3 DEF Tick
  <2> QED BY <2>1, <2>2, ZenonT(30)
<1>4. ASSUME NEW v \in Stopper, StopStep(v), row' # row PROVE wk'[v] # wk[v]
  <2>1. PICK s \in wk[v].page :
          wk' = [wk EXCEPT ![v] = [[Idle EXCEPT !.page = wk[v].page \ {s}] EXCEPT !.pc = "reload", !.call = s.call]]
    BY <1>4, ZenonT(30) DEF StopStep, ShutdownTimeout, ShutdownRecord, ShutdownDone
  <2>2. v \in Worker /\ wk[v].pc = "idle"
    BY <1>4, KindIsWorker, ZenonT(30) DEF StopStep, ShutdownTimeout, ShutdownRecord, ShutdownDone, At
  <2>3. wk'[v].pc = "reload"
    BY <2>1, <2>2 DEF IInv, TypeOK, Idle
  <2> QED BY <2>2, <2>3
<1>5. ASSUME NEW u \in Worker, Fail(u) \/ ReconcileStep(u) \/ Operate(u) PROVE row' = row
  BY <1>5 DEF Fail, ReconcileStep, List, Take, Operate
<1>6. ASSUME NEW r \in Replica, Lifecycle(r) PROVE row' = row
  BY <1>6 DEF Lifecycle, CloseCalls, ShutdownDrained, Exit, Restart, Crash
<1>7. CASE (\E d \in Call : ControlResolve(d)) \/ (\E g \in Grant : RevokeGrant(g)) \/ UNCHANGED vars
  BY <1>1, <1>7, ZenonT(30) DEF ControlResolve, RevokeGrant, vars
<1> QED BY <1>1, <1>2, <1>3, <1>4, <1>5, <1>6, <1>7, StepSpares, KindIsWorker DEF Next, CallsNext

\* While a send is inside its bound nobody takes its outcome away but a
\* Shutdown that lists the call (calls.go:778-780, queries/calls.sql:39-42),
\* for any bounds, calls, replicas, operators and faults.
THEOREM SendKeepsOutcome == Spec => InBoundSendKeepsOutcome
<1>1. ASSUME IInv, SInv, [Next]_vars
      PROVE  \A w \in Worker :
               At(w, "sending") /\ row[wk[w].call].state = "sent" /\ row'[wk[w].call].state # "sent" =>
                 \E v \in Stopper : wk'[v] # wk[v]
  <2>1. \A w \in Worker : At(w, "sending") => wk[w].call \in Call /\ wk[w].pc = "sending"
    BY <1>1 DEF At, IInv, CarryOK
  <2> QED BY <1>1, <2>1, NextSpares
<1>2. IInv /\ SInv /\ [Next]_vars => [\A w \in Worker :
               At(w, "sending") /\ row[wk[w].call].state = "sent" /\ row'[wk[w].call].state # "sent" =>
                 \E v \in Stopper : wk'[v] # wk[v]]_vars
  BY <1>1
<1> QED BY <1>2, InitSInv, NextSInv, Invariance, PTL DEF Spec, InBoundSendKeepsOutcome
=============================================================================
