-------------------------- MODULE CallReportProofs --------------------------
(***************************************************************************)
(* Proof that a call reported to Control and ended here has the same       *)
(* outcome there, for any number of calls, replicas, operators and faults, *)
(* from the invariant of CallsProofs and the effects of CallPromiseProofs. *)
(***************************************************************************)
EXTENDS CallPromiseProofs

\* Outcomes that are certain, and what Control's record says once it has
\* allowed the dispatch, and once it is settled.
Certain == {"succeeded", "failed", "canceled"}
Allowed == {"authorized", "unknown", "observed", "confirmed_not_sent"}
Settled == {"observed", "confirmed_not_sent"}

\* The row has the certain outcome that Control's record says, or that
\* follows from what an operator settled there.
Agrees(c) ==
    /\ row[c].state \in Certain /\ ctl[c].state \in Settled
    /\ ctl[c].manual =>
         row[c].state = IF ctl[c].state = "observed" /\ ctl[c].outcome = "succeeded" THEN "succeeded" ELSE "failed"
    /\ ~ctl[c].manual => ctl[c].state = "observed" /\ ctl[c].outcome = row[c].state

\* The row and Control's record: only an allowed dispatch passes admission; a
\* dispatch Control holds for unknown is unknown here; a settled one is what
\* the row says, or an operator settled it and the row is still to follow; a
\* report leaves a trace.
RecordOK(c) ==
    /\ row[c].state \notin {"none", "accepted", "denied"} => ctl[c].state \in Allowed
    /\ ctl[c].state = "unknown" => row[c].state = "unknown"
    /\ ctl[c].state \in Settled =>
         \/ Agrees(c)
         \/ row[c].state = "unknown" /\ ctl[c].manual
    /\ ctl[c].manual => ctl[c].state \in Settled
    /\ ctl[c].reported # {} => ctl[c].state \in Settled \cup {"unknown"}
    /\ row[c].observed => ctl[c].reported # {}

\* What a state s that was loaded earlier still says of the row.
Loaded(s, c) ==
    /\ s \in Certain => row[c].state = s
    /\ s = "unknown" => row[c].state = "unknown" \/ Agrees(c)

\* What a worker relies on at the steps of the report, and in its page.
Claims == {"answered", "reload", "observe", "observed"}
StepOK(w) ==
    /\ wk[w].pc = "answered" => wk[w].val = "denied" \/ ctl[wk[w].call].state \in Allowed
    /\ wk[w].pc = "reload" => row[wk[w].call].state \in Observable
    /\ wk[w].pc = "observe" => wk[w].seen \in Observable /\ Loaded(wk[w].seen, wk[w].call)
    /\ wk[w].pc = "observed" => ctl[wk[w].call].reported # {}
PageOK(w) == \A s \in wk[w].page : s.state # "denied" /\ Loaded(s.state, s.call)

RInv == (\A c \in Call : RecordOK(c)) /\ \A w \in Worker : StepOK(w) /\ PageOK(w)
-----------------------------------------------------------------------------
(* Steps of rows, of Control's records and of workers.                     *)

\* What Control recorded stays: allowed, settled, reported.
Grows ==
    \A c \in Call :
        /\ ctl[c].state \in Allowed => ctl'[c].state \in Allowed
        /\ ctl[c].state \in Settled => ctl'[c].state = ctl[c].state /\ ctl'[c].outcome = ctl[c].outcome /\ ctl'[c].manual = ctl[c].manual
        /\ ctl[c].reported # {} => ctl'[c].reported # {}

\* A call whose row and record stay.
LEMMA SameRecord ==
  ASSUME NEW d, RecordOK(d), row'[d] = row[d], ctl'[d] = ctl[d]
  PROVE  RecordOK(d)'
BY DEF RecordOK, Agrees

\* Workers stay where they are, move to a step without claims, or bring what
\* the step claims.
SameStep(w) == wk'[w].pc = wk[w].pc /\ wk'[w].call = wk[w].call /\ wk'[w].val = wk[w].val /\ wk'[w].seen = wk[w].seen
Brings ==
    \A w \in Worker :
        /\ wk'[w].page \subseteq wk[w].page \/ PageOK(w)'
        /\ SameStep(w) \/ wk'[w].pc \notin Claims \/ StepOK(w)'

\* One row's state stays or changes as a statement allows.
LEMMA EffectOn ==
  ASSUME Effect, NEW c \in Call
  PROVE  row'[c].state = row[c].state \/ Changes(c)
BY DEF Effect, StatesStay, OneChanges, OneSent

\* What was loaded earlier stays true.
LEMMA LoadedStays ==
  ASSUME RInv, Effect, Grows, NEW c \in Call, RecordOK(c)', NEW s, Loaded(s, c)
  PROVE  Loaded(s, c)'
<1>1. row'[c].state = row[c].state \/ Changes(c)
  BY EffectOn
<1>2. RecordOK(c)
  BY DEF RInv
<1>3. s \in Certain => row'[c].state = s
  BY <1>1 DEF Loaded, Changes, Certain
<1>4. CASE s = "unknown" /\ Agrees(c)
  <2>1. row'[c].state = row[c].state
    BY <1>1, <1>4 DEF Agrees, Changes, Certain
  <2>2. Agrees(c)'
    BY <1>4, <2>1 DEF Agrees, Grows, Settled
  <2> QED BY <1>3, <2>2 DEF Loaded
<1>5. CASE s = "unknown" /\ row[c].state = "unknown"
  <2>1. CASE row'[c].state = row[c].state
    BY <1>3, <1>5, <2>1 DEF Loaded
  <2>2. CASE Changes(c)
    <3>1. row'[c].state \in {"succeeded", "failed"} /\ Resolution(ctl[c]) # "none"
      BY <1>5, <2>2 DEF Changes
    <3>2. ctl'[c].state \in Settled
      BY <3>1 DEF Resolution, Grows, Settled
    <3>3. Agrees(c)'
      BY <3>1, <3>2 DEF RecordOK
    <3> QED BY <1>3, <3>3 DEF Loaded
  <2> QED BY <1>1, <2>1, <2>2
<1>6. CASE s # "unknown"
  BY <1>3, <1>6 DEF Loaded
<1> QED BY <1>4, <1>5, <1>6 DEF Loaded

\* A step whose records are in order, with workers that bring what they need.
LEMMA KeepsRInv ==
  ASSUME IInv, RInv, Effect, Grows, Brings, \A c \in Call : RecordOK(c)'
  PROVE  RInv'
<1>1. ASSUME NEW w \in Worker PROVE PageOK(w)'
  <2>1. CASE wk'[w].page \subseteq wk[w].page
    <3>1. ASSUME NEW s \in wk'[w].page PROVE s.state # "denied" /\ Loaded(s.state, s.call)'
      <4>1. s \in wk[w].page /\ s.call \in Call
        BY <2>1 DEF IInv, TypeOK, Local, Entry
      <4>2. s.state # "denied" /\ Loaded(s.state, s.call)
        BY <4>1 DEF RInv, PageOK
      <4> QED BY <4>1, <4>2, LoadedStays
    <3> QED BY <3>1 DEF PageOK
  <2> QED BY <2>1 DEF Brings
<1>2. ASSUME NEW w \in Worker PROVE StepOK(w)'
  <2>1. CASE wk'[w].pc \notin Claims
    BY <2>1 DEF StepOK, Claims
  <2>2. CASE SameStep(w) /\ wk[w].pc \in Claims
    <3>1. wk[w].call \in Call /\ wk[w].seen \in CallState \cup {"none"} /\ StepOK(w)
      BY <2>2 DEF IInv, TypeOK, Local, CarryOK, RInv, Claims
    <3>2. PICK c \in Call : c = wk[w].call
      BY <3>1
    <3>3. PICK s \in CallState \cup {"none"} : s = wk[w].seen
      BY <3>1
    <3>4. wk'[w].call = c /\ wk'[w].seen = s /\ wk'[w].pc = wk[w].pc /\ wk'[w].val = wk[w].val
      BY <2>2, <3>2, <3>3 DEF SameStep
    <3>5. wk[w].pc = "reload" => row'[c].state \in Observable
      <4>1. row'[c].state = row[c].state \/ Changes(c)
        BY EffectOn
      <4> QED BY <3>1, <3>2, <4>1 DEF StepOK, Changes, Observable
    <3>6. wk[w].pc = "observe" => s \in Observable /\ Loaded(s, c)'
      BY <3>1, <3>2, <3>3, LoadedStays DEF StepOK
    <3>7. wk[w].pc = "observed" => ctl'[c].reported # {}
      BY <3>1, <3>2 DEF StepOK, Grows
    <3>8. wk[w].pc = "answered" => wk[w].val = "denied" \/ ctl'[c].state \in Allowed
      BY <3>1, <3>2 DEF StepOK, Grows
    <3> QED BY <3>4, <3>5, <3>6, <3>7, <3>8 DEF StepOK, Loaded, Agrees
  <2>3. CASE SameStep(w) /\ wk[w].pc \notin Claims
    BY <2>1, <2>3 DEF SameStep
  <2> QED BY <2>1, <2>2, <2>3 DEF Brings
<1> QED BY <1>1, <1>2 DEF RInv
-----------------------------------------------------------------------------
(* What the workers' moves bring.                                          *)

\* One worker moves.
LEMMA OneBrings ==
  ASSUME IInv, NEW w \in Worker, NEW l, wk' = [wk EXCEPT ![w] = l],
         l.page \subseteq wk[w].page \/ PageOK(w)', l.pc \notin Claims \/ StepOK(w)'
  PROVE  Brings
<1>1. wk'[w] = l /\ \A u \in Worker : u # w => wk'[u] = wk[u]
  BY DEF IInv, TypeOK
<1> QED BY <1>1 DEF Brings, SameStep

\* Go, to a step without claims.
LEMMA GoBrings ==
  ASSUME IInv, NEW w \in Worker, NEW pc \in Pc \ Claims, Go(w, pc), wk[w].pc # "idle"
  PROVE  Brings
<1> DEFINE l == Fresh(w, pc, wk[w].call)
<1>1. l.pc = pc /\ l.page = wk[w].page /\ wk' = [wk EXCEPT ![w] = l]
  BY FreshLocal DEF IInv, CarryOK, Go
<1> HIDE DEF l
<1> QED BY <1>1, OneBrings, ZenonT(30)

\* A worker that ends its work.
LEMMA EndBrings ==
  ASSUME IInv, NEW w \in Worker, End(w)
  PROVE  Brings
<1> DEFINE l == Fresh(w, "idle", None)
<1>1. l.pc = "idle" /\ l.page = wk[w].page /\ wk' = [wk EXCEPT ![w] = l]
  BY FreshLocal DEF IInv, End, Pc
<1> HIDE DEF l
<1> QED BY <1>1, OneBrings, ZenonT(30) DEF Claims

\* The local state GoWith leads to keeps the page.
LEMMA WithPage ==
  ASSUME IInv, NEW w \in Worker, NEW pc \in Pc, NEW v \in Val, GoWith(w, pc, v)
  PROVE  \E l \in Local : /\ wk' = [wk EXCEPT ![w] = l] /\ l.page = wk[w].page
                          /\ l.pc = pc /\ l.val = v /\ l.call = wk[w].call
<1> DEFINE l == [wk[w] EXCEPT !.pc = pc, !.val = v]
<1>1. wk \in [Worker -> Local] /\ wk[w] \in Local
  BY DEF IInv, TypeOK
<1>2. l \in Local /\ l.pc = pc /\ l.val = v /\ l.call = wk[w].call /\ l.page = wk[w].page
  BY <1>1, ZenonT(30) DEF Local
<1>3. wk' = [wk EXCEPT ![w] = l]
  BY <1>1, ZenonT(30) DEF GoWith
<1> HIDE DEF l
<1> QED BY <1>2, <1>3, ZenonT(30)

\* GoWith, to a step without claims.
LEMMA WithBrings ==
  ASSUME IInv, NEW w \in Worker, NEW pc \in Pc \ Claims, NEW v \in Val, GoWith(w, pc, v)
  PROVE  Brings
<1>1. PICK l \in Local : wk' = [wk EXCEPT ![w] = l] /\ l.page = wk[w].page /\ l.pc = pc
  BY WithPage
<1> QED BY <1>1, OneBrings, ZenonT(30)

\* Go to reload, with a row that has an outcome by then.
LEMMA ReloadBrings ==
  ASSUME IInv, NEW w \in Worker, Go(w, "reload"), wk[w].pc # "idle", row'[wk[w].call].state \in Observable
  PROVE  Brings
<1> DEFINE l == Fresh(w, "reload", wk[w].call)
<1>1. l.pc = "reload" /\ l.call = wk[w].call /\ l.page = wk[w].page /\ wk' = [wk EXCEPT ![w] = l]
  BY FreshLocal DEF IInv, CarryOK, Go, Pc
<1> HIDE DEF l
<1>2. wk'[w] = l
  BY <1>1 DEF IInv, TypeOK
<1>3. StepOK(w)'
  BY <1>1, <1>2 DEF StepOK
<1> QED BY <1>1, <1>3, OneBrings, ZenonT(30)

\* A worker takes the outcome of a row with it to the report.
LEMMA StartSeen ==
  ASSUME IInv, NEW w \in Worker, NEW s \in Shot
  PROVE  LET l == Start(w, s, "observe")
         IN l \in Local /\ l.pc = "observe" /\ l.call = s.call /\ l.seen = s.state /\ l.page = wk[w].page
<1> DEFINE f == Fresh(w, "observe", s.call)
           l == Start(w, s, "observe")
<1>1. f \in Local /\ f.pc = "observe" /\ f.call = s.call /\ f.page = wk[w].page
  BY FreshLocal DEF IInv, Shot, Pc
<1>2. s.state \in CallState \cup {"none"} /\ s.seq \in Nat
  BY DEF Shot
<1>3. l = [f EXCEPT !.seen = s.state, !.seq = s.seq]
  BY DEF Start
<1> HIDE DEF f, l
<1>4. l \in Local /\ l.pc = "observe" /\ l.call = s.call /\ l.seen = s.state /\ l.page = wk[w].page
  BY <1>1, <1>2, <1>3, ZenonT(30) DEF Local
<1> QED BY <1>4 DEF l

\* The report of a row as it is.
LEMMA ObserveBrings ==
  ASSUME IInv, NEW w \in Worker, NEW c \in Call, row[c].state \in Observable, row' = row, ctl' = ctl,
         wk' = [wk EXCEPT ![w] = Start(w, Snapshot(c), "observe")]
  PROVE  Brings
<1> DEFINE l == Start(w, Snapshot(c), "observe")
<1>1. Snapshot(c) \in Shot /\ Snapshot(c).call = c /\ Snapshot(c).state = row[c].state
  BY SnapshotShot DEF IInv
<1>2. l.pc = "observe" /\ l.call = c /\ l.seen = row[c].state /\ l.page = wk[w].page
  BY <1>1, StartSeen
<1>3. wk' = [wk EXCEPT ![w] = l]
  OBVIOUS
<1> HIDE DEF l
<1>4. wk'[w] = l
  BY <1>3 DEF IInv, TypeOK
<1>5. StepOK(w)'
  BY <1>2, <1>4 DEF StepOK, Loaded
<1> QED BY <1>2, <1>3, <1>5, OneBrings, ZenonT(30)

\* Workers that end or go on as they were.
LEMMA IdleBrings ==
  ASSUME \A w \in Worker : wk'[w] = wk[w] \/ wk'[w] = Idle
  PROVE  Brings
<1>1. Idle.page = {} /\ Idle.pc = "idle"
  BY DEF Idle
<1> HIDE DEF Idle
<1> QED BY <1>1 DEF Brings, SameStep, Claims
-----------------------------------------------------------------------------
(* What the steps do to rows and records.                                  *)

\* Nothing but workers' local states changes.
LEMMA QuietRInv ==
  ASSUME IInv, RInv, Effect, Brings, row' = row, ctl' = ctl
  PROVE  RInv'
<1>1. Grows
  BY DEF Grows
<1>2. \A c \in Call : RecordOK(c)'
  BY DEF RInv, RecordOK, Agrees
<1> QED BY <1>1, <1>2, KeepsRInv

\* Rows change, Control's records do not.
LEMMA RowsRInv ==
  ASSUME IInv, RInv, Effect, Brings, ctl' = ctl,
         \A c \in Call : /\ row'[c].observed => row[c].observed \/ ctl[c].reported # {}
                         /\ row[c].state = "accepted" /\ row'[c].state = "admitted" => ctl[c].state \in Allowed
  PROVE  RInv'
<1>1. Grows
  BY DEF Grows
<1>2. ASSUME NEW c \in Call PROVE RecordOK(c)'
  <2>1. RecordOK(c) /\ ctl[c] \in Record
    BY DEF RInv, IInv, TypeOK
  <2>2. row'[c].observed => ctl[c].reported # {}
    BY <2>1 DEF RecordOK
  <2>3. CASE row'[c].state = row[c].state
    BY <2>1, <2>2, <2>3 DEF RecordOK, Agrees
  <2>4. CASE row[c].state \in {"none", "accepted", "admitted", "sent"} /\ Changes(c)
    <3>1. ctl[c].state \notin Settled \cup {"unknown"}
      BY <2>1, <2>4 DEF RecordOK, Agrees, Certain
    <3>2. row'[c].state \notin {"none", "accepted", "denied"} => ctl[c].state \in Allowed
      BY <2>1, <2>4 DEF RecordOK, Changes
    <3> QED BY <2>1, <2>2, <3>1, <3>2 DEF RecordOK, Settled
  <2>5. CASE row[c].state = "unknown" /\ Changes(c)
    <3>1. row'[c].state \in {"succeeded", "failed"} /\ row'[c].state = Resolution(ctl[c])
      BY <2>5 DEF Changes
    <3>2. ctl[c].state \in Settled
      BY <3>1 DEF Resolution, Settled
    <3>3. Agrees(c)'
      BY <2>1, <2>5, <3>1, <3>2 DEF RecordOK, Agrees, Certain, Settled, Resolution
    <3> QED BY <2>1, <2>2, <3>2, <3>3 DEF RecordOK, Settled, Allowed
  <2> QED BY <2>3, <2>4, <2>5, EffectOn DEF Changes
<1> QED BY <1>1, <1>2, KeepsRInv

\* One row changes and keeps its trace of a report.
LEMMA RowRInv ==
  ASSUME IInv, RInv, Effect, Brings, ctl' = ctl, NEW c \in Call, NEW new, row' = [row EXCEPT ![c] = new],
         new.observed => row[c].observed \/ ctl[c].reported # {},
         row[c].state = "accepted" /\ new.state = "admitted" => ctl[c].state \in Allowed
  PROVE  RInv'
<1>1. \A d \in Call : row'[d] = IF d = c THEN new ELSE row[d]
  BY DEF IInv, TypeOK
<1> QED BY <1>1, RowsRInv
-----------------------------------------------------------------------------
(* The actions.                                                            *)

\* Control's AdmitTool: an answer is a claim on the record.
LEMMA AdmitToolRInv ==
  ASSUME IInv, RInv, Effect, NEW w \in Worker, AdmitTool(w)
  PROVE  RInv'
<1> DEFINE c == wk[w].call
<1>1. c \in Call /\ ctl[c] \in Record /\ ctl \in [Call -> Record] /\ RecordOK(c) /\ row' = row
  BY Busy DEF AdmitTool, At, IInv, TypeOK, RInv
<1>2. ASSUME NEW v \in {"allowed", "denied", "recorded"}, GoWith(w, "answered", v), v = "denied" \/ ctl'[c].state \in Allowed
      PROVE  Brings
  <2>1. v \in Val /\ "answered" \in Pc
    BY DEF Val, Pc
  <2>2. PICK l \in Local : /\ wk' = [wk EXCEPT ![w] = l] /\ l.page = wk[w].page
                           /\ l.pc = "answered" /\ l.val = v /\ l.call = c
    BY <1>2, <2>1, WithPage
  <2>3. wk'[w] = l
    BY <2>2 DEF IInv, TypeOK
  <2>4. StepOK(w)'
    BY <1>2, <2>2, <2>3 DEF StepOK
  <2> QED BY <2>2, <2>4, OneBrings, ZenonT(30)
<1>3. CASE ctl[c].state # "none"
  <2>1. ctl' = ctl /\ GoWith(w, "answered", IF ctl[c].state = "denied" THEN "denied" ELSE "recorded")
    BY <1>3 DEF AdmitTool
  <2>2. ctl[c].state # "denied" => ctl'[c].state \in Allowed
    BY <1>1, <1>3, <2>1 DEF Record, Allowed
  <2>3. Brings
    BY <1>2, <2>1, <2>2
  <2> QED BY <1>1, <2>1, <2>3, QuietRInv
<1>4. CASE ctl[c].state = "none"
  <2>1. PICK answer \in {"authorized", "denied"} :
          /\ ctl' = [ctl EXCEPT ![c].state = answer]
          /\ GoWith(w, "answered", IF answer = "authorized" THEN "allowed" ELSE "denied")
    BY <1>4 DEF AdmitTool
  <2>2. /\ ctl'[c].state = answer /\ ctl'[c].reported = ctl[c].reported /\ ctl'[c].manual = ctl[c].manual
        /\ \A d \in Call : d # c => ctl'[d] = ctl[d]
    BY <1>1, <2>1 DEF Record
  <2>3. Brings
    BY <1>2, <2>1, <2>2 DEF Allowed
  <2>4. ctl[c].reported = {} /\ ~ ctl[c].manual /\ row[c].state \in {"none", "accepted", "denied"} /\ ~ row[c].observed
    BY <1>1, <1>4 DEF RecordOK, Allowed, Settled
  <2>5. Grows
    BY <1>4, <2>2 DEF Grows, Allowed, Settled
  <2>6. ASSUME NEW d \in Call PROVE RecordOK(d)'
    <3>1. CASE d = c
      <4>1. /\ row'[d].state \in {"none", "accepted", "denied"} /\ ~ row'[d].observed
            /\ ctl'[d].state \in {"authorized", "denied"} /\ ctl'[d].reported = {} /\ ~ ctl'[d].manual
        BY <1>1, <2>2, <2>4, <3>1
      <4> QED BY <4>1 DEF RecordOK, Settled
    <3>2. CASE d # c
      <4>1. row'[d] = row[d] /\ ctl'[d] = ctl[d] /\ RecordOK(d)
        BY <1>1, <2>2, <3>2 DEF RInv
      <4> QED BY <4>1, SameRecord
    <3> QED BY <3>1, <3>2
  <2> QED BY <2>3, <2>5, <2>6, KeepsRInv
<1> QED BY <1>3, <1>4

\* The recording of Control's answer.
LEMMA SetAdmissionRInv ==
  ASSUME IInv, RInv, Effect, NEW w \in Worker, SetAdmission(w)
  PROVE  RInv'
<1> DEFINE c == wk[w].call
           admitted == [row[c] EXCEPT !.state = "admitted", !.dispatch = TRUE]
           denied == [admitted EXCEPT !.state = "denied"]
<1>1. c \in Call /\ row[c] \in Row /\ ctl' = ctl /\ wk[w].pc = "answered" /\ StepOK(w)
  BY Busy DEF SetAdmission, At, RInv
<1>2. Brings
  <2>1. Go(w, "prepare") \/ Go(w, "cancel") \/ End(w)
    BY DEF SetAdmission, Update
  <2> QED BY <1>1, <2>1, GoBrings, EndBrings DEF Pc, Claims
<1>3. admitted.observed = row[c].observed /\ denied.observed = row[c].observed /\ denied.state = "denied"
  BY <1>1 DEF Row
<1>4. \/ row' = row
      \/ wk[w].val # "denied" /\ row' = [row EXCEPT ![c] = admitted]
      \/ row' = [row EXCEPT ![c] = denied]
  BY DEF SetAdmission, Update
<1>5. wk[w].val # "denied" => ctl[c].state \in Allowed
  BY <1>1 DEF StepOK
<1> HIDE DEF admitted, denied
<1>6. CASE row' = row
  BY <1>1, <1>2, <1>6, QuietRInv
<1>7. CASE wk[w].val # "denied" /\ row' = [row EXCEPT ![c] = admitted]
  BY <1>1, <1>2, <1>3, <1>5, <1>7, RowRInv, ZenonT(30)
<1>8. CASE row' = [row EXCEPT ![c] = denied]
  BY <1>1, <1>2, <1>3, <1>8, RowRInv, ZenonT(30)
<1> QED BY <1>4, <1>6, <1>7, <1>8

\* The steps of a send.
LEMMA SendRInv ==
  ASSUME IInv, RInv, Effect, NEW w \in Worker, Prepare(w) \/ Mark(w) \/ SendStart(w) \/ SendReturn(w)
  PROVE  RInv'
<1> DEFINE c == wk[w].call
           new == [row[c] EXCEPT !.state = "sent", !.marker = TRUE]
<1>1. wk[w].pc # "idle" /\ ctl' = ctl
  BY DEF Prepare, Mark, SendStart, SendReturn, At
<1>2. c \in Call /\ row[c] \in Row /\ row \in [Call -> Row]
  BY <1>1, Busy DEF IInv, TypeOK
<1>3. Brings
  <2>1. \/ \E pc \in {"mark", "cancel", "marked", "sending"} : Go(w, pc)
        \/ \E v \in {"succeeded", "failed", "unknown"} : GoWith(w, "record", v)
    BY DEF Prepare, OpenAnswers, Mark, SendStart, SendReturn, OutcomeOf
  <2> QED BY <1>1, <2>1, GoBrings, WithBrings DEF Pc, Claims, Val
<1>4. CASE row' = row
  BY <1>1, <1>3, <1>4, QuietRInv
<1>5. CASE row' = [row EXCEPT ![c].state = "sent", ![c].marker = TRUE]
  <2>1. row' = [row EXCEPT ![c] = new] /\ new.observed = row[c].observed /\ new.state = "sent"
    BY <1>2, <1>5, ZenonT(30) DEF Row
  <2> HIDE DEF new
  <2> QED BY <1>1, <1>2, <1>3, <2>1, RowRInv, ZenonT(30)
<1> QED BY <1>4, <1>5 DEF Prepare, Mark, SendStart, SendReturn

\* The outcomes written by a sender, a cancellation, a resolution and an
\* abandonment.
LEMMA OutcomesRInv ==
  ASSUME IInv, RInv, Effect, NEW w \in Worker, RecordOutcome(w) \/ Cancel(w) \/ Resolve(w) \/ Abandon(w)
  PROVE  RInv'
<1> DEFINE c == wk[w].call
<1>1. wk[w].pc # "idle" /\ ctl' = ctl
  BY DEF RecordOutcome, Cancel, Resolve, Abandon, At
<1>2. c \in Call /\ row[c] \in Row /\ row \in [Call -> Row]
  BY <1>1, Busy DEF IInv, TypeOK
<1>3. \/ row' = row /\ End(w)
      \/ \E v \in {"succeeded", "failed", "unknown", "canceled"} :
           row' = [row EXCEPT ![c] = [row[c] EXCEPT !.state = v]] /\ (Go(w, "reload") \/ End(w))
  <2>1. wk[w].pc \in {"record", "resolve"} => wk[w].val \in {"succeeded", "failed", "unknown"}
    BY DEF IInv, CarryOK
  <2> QED BY <2>1 DEF RecordOutcome, Cancel, Resolve, Abandon, SetOutcome, Update, At
<1>4. CASE row' = row /\ End(w)
  BY <1>1, <1>4, EndBrings, QuietRInv
<1>5. ASSUME NEW v \in {"succeeded", "failed", "unknown", "canceled"},
             row' = [row EXCEPT ![c] = [row[c] EXCEPT !.state = v]], Go(w, "reload") \/ End(w)
      PROVE  RInv'
  <2> DEFINE new == [row[c] EXCEPT !.state = v]
  <2>1. row' = [row EXCEPT ![c] = new] /\ new.observed = row[c].observed /\ new.state = v
    BY <1>2, <1>5 DEF Row
  <2> HIDE DEF new
  <2>2. row'[c].state \in Observable
    BY <1>2, <1>5, <2>1 DEF Observable
  <2>3. Brings
    BY <1>1, <1>5, <2>2, ReloadBrings, EndBrings
  <2> QED BY <1>1, <1>2, <1>5, <2>1, <2>3, RowRInv, ZenonT(30)
<1> QED BY <1>3, <1>4, <1>5

\* A report reaches Control, new or not.
LEMMA ObserveToolRInv ==
  ASSUME IInv, RInv, Effect, NEW w \in Worker, ObserveTool(w)
  PROVE  RInv'
<1> DEFINE c == wk[w].call
           k == ctl[c]
           seen == wk[w].seen
           new == wk[w].seq \notin k.reported /\ k.state \in {"authorized", "unknown"}
           rec == [state |-> IF ~new THEN k.state ELSE IF seen = "unknown" THEN "unknown" ELSE "observed",
                   outcome |-> IF new THEN seen ELSE k.outcome,
                   reported |-> k.reported \cup {wk[w].seq}, manual |-> k.manual]
<1>1. wk[w].pc = "observe" /\ row' = row /\ wk' = [wk EXCEPT ![w].pc = "observed"] /\ ctl' = [ctl EXCEPT ![c] = rec]
  BY DEF ObserveTool, At
<1>2. /\ c \in Call /\ k \in Record /\ wk \in [Worker -> Local] /\ wk[w] \in Local /\ ctl \in [Call -> Record]
      /\ RecordOK(c) /\ seen \in Observable /\ Loaded(seen, c)
  BY <1>1, Busy DEF IInv, TypeOK, RInv, StepOK
<1>3. /\ ctl'[c].state = (IF ~new THEN k.state ELSE IF seen = "unknown" THEN "unknown" ELSE "observed")
      /\ ctl'[c].outcome = (IF new THEN seen ELSE k.outcome) /\ ctl'[c].reported # {} /\ ctl'[c].manual = k.manual
      /\ \A d \in Call : d # c => ctl'[d] = ctl[d]
  BY <1>1, <1>2, SMTT(30)
<1>4. row[c].state \in Observable /\ k.state \in Allowed
  BY <1>2, SMTT(30) DEF Loaded, Agrees, RecordOK, Observable, Certain
<1>5. ~new => k.state \in Settled \cup {"unknown"}
  BY <1>2, <1>4 DEF RecordOK, Allowed, Settled
<1>6. new /\ seen = "unknown" => row[c].state = "unknown"
  BY <1>2 DEF Loaded, Agrees, Settled
<1>7. new /\ seen # "unknown" => row[c].state = seen /\ seen \in Certain
  BY <1>2 DEF Loaded, Observable, Certain
<1>8. k.state \in Settled => ~new
  BY DEF Settled
<1>8a. new => ctl'[c].manual = FALSE
  BY <1>2, <1>3 DEF RecordOK, Settled, Record
<1> HIDE DEF new, rec
<1>9. RecordOK(c)'
  <2>1. CASE ~new
    BY <1>1, <1>2, <1>3, <1>5, <2>1, SMTT(30) DEF RecordOK, Agrees
  <2>2. CASE new /\ seen = "unknown"
    BY <1>1, <1>2, <1>3, <1>6, <1>8a, <2>2, SMTT(30) DEF RecordOK, Settled, Allowed
  <2>3. CASE new /\ seen # "unknown"
    <3>1. Agrees(c)'
      <4>1. PICK x \in Call : x = c
        BY <1>2
      <4>2. PICK y \in Certain : y = seen /\ row[c].state = y
        BY <1>7, <2>3
      <4>3. row'[x].state = y /\ ctl'[x].state = "observed" /\ ctl'[x].outcome = y
        BY <1>1, <1>3, <2>3, <4>1, <4>2
      <4>4. ctl'[x].manual = FALSE /\ wk'[w].call = x
        BY <1>1, <1>2, <1>8a, <2>3, <4>1 DEF Local
      <4>5. Agrees(x)'
        BY <4>2, <4>3, <4>4 DEF Agrees, Settled
      <4> QED BY <4>4, <4>5 DEF Agrees
    <3> QED BY <1>1, <1>2, <1>3, <1>7, <2>3, <3>1 DEF RecordOK, Settled, Allowed, Certain
  <2> QED BY <2>1, <2>2, <2>3, SMTT(30)
<1>10. \A d \in Call : RecordOK(d)'
  <2>1. \A d \in Call : d # c => RecordOK(d)'
    BY <1>1, <1>3, SameRecord DEF RInv
  <2>2. PICK x \in Call : x = c
    BY <1>2
  <2>3. wk'[w].call = x
    BY <1>1, <1>2, <2>2 DEF Local
  <2>4. RecordOK(x)'
    BY <1>9, <2>3 DEF RecordOK, Agrees
  <2> QED BY <2>1, <2>2, <2>4
<1>11. Grows
  BY <1>2, <1>3, <1>4, <1>8 DEF Grows, Allowed, Settled
<1>12. Brings
  <2> DEFINE l == [wk[w] EXCEPT !.pc = "observed"]
  <2>1. l.pc = "observed" /\ l.call = c /\ l.page = wk[w].page /\ wk' = [wk EXCEPT ![w] = l]
    BY <1>1, <1>2 DEF Local
  <2> HIDE DEF l
  <2>2. wk'[w] = l
    BY <1>2, <2>1
  <2>3. StepOK(w)'
    BY <1>3, <2>1, <2>2 DEF StepOK
  <2> QED BY <2>1, <2>3, OneBrings, ZenonT(30)
<1> QED BY <1>10, <1>11, <1>12, KeepsRInv

\* After a report.
LEMMA AfterBrings ==
  ASSUME IInv, NEW w \in Worker, wk[w].pc # "idle", AfterObserve(w)
  PROVE  Brings
BY GoBrings, EndBrings DEF AfterObserve, Pc, Claims

\* The row's trace of a report that Control has.
LEMMA SetObservedRInv ==
  ASSUME IInv, RInv, Effect, NEW w \in Worker, SetObserved(w)
  PROVE  RInv'
<1> DEFINE c == wk[w].call
           new == [row[c] EXCEPT !.observed = TRUE, !.seq = @ + 1]
<1>1. c \in Call /\ row[c] \in Row /\ wk[w].pc = "observed" /\ ctl' = ctl
  BY Busy DEF SetObserved, At
<1>2. Brings
  BY <1>1, AfterBrings DEF SetObserved
<1>3. ctl[c].reported # {}
  BY <1>1 DEF RInv, StepOK
<1>4. new.state = row[c].state
  BY <1>1, ObservedRow, ZenonT(30)
<1>5. UNCHANGED row \/ row' = [row EXCEPT ![c] = new]
  BY <1>1, ZenonT(30) DEF SetObserved, IInv, TypeOK
<1> HIDE DEF new
<1> QED BY <1>1, <1>2, <1>3, <1>4, <1>5, QuietRInv, RowRInv

\* Loading the row for the report, and reading Control's record.
LEMMA ReadRInv ==
  ASSUME IInv, RInv, Effect, NEW w \in Worker, Reload(w) \/ GetTool(w)
  PROVE  RInv'
<1>1. wk[w].pc # "idle" /\ row' = row /\ ctl' = ctl
  BY DEF Reload, GetTool, At
<1>2. CASE Reload(w)
  <2>1. wk[w].call \in Call /\ row[wk[w].call].state \in Observable
    BY <1>1, <1>2, Busy DEF Reload, At, RInv, StepOK
  <2>2. Brings
    BY <1>1, <1>2, <2>1, ObserveBrings, ZenonT(30) DEF Reload
  <2> QED BY <1>1, <2>2, QuietRInv
<1>3. CASE GetTool(w)
  <2>1. PICK v \in {"succeeded", "failed", "none"} : v = Resolution(ctl[wk[w].call])
    BY ResolutionValues
  <2>2. End(w) \/ GoWith(w, "resolve", v)
    BY <1>3, <2>1 DEF GetTool
  <2>3. Brings
    BY <2>2, EndBrings, WithBrings DEF Pc, Claims, Val
  <2> QED BY <1>1, <2>3, QuietRInv
<1> QED BY <1>2, <1>3

\* The steps of advance, admit, send, cancel, observe and resolve.
LEMMA StepRInv ==
  ASSUME IInv, RInv, Effect, NEW w \in Worker, Step(w)
  PROVE  RInv'
BY AdmitToolRInv, SetAdmissionRInv, SendRInv, OutcomesRInv, ReadRInv, ObserveToolRInv, SetObservedRInv DEF Step

\* The steps of Calls.Create up to the detached goroutine.
LEMMA CreateRInv ==
  ASSUME IInv, RInv, Effect, NEW w \in Creator, CreateStep(w)
  PROVE  RInv'
<1>0. w \in Worker /\ w.call \in Call /\ ctl' = ctl
  BY CreatorIsWorker DEF CreateStep, CreateBegin, CreateLock, CreateInsert, CreateTrack, Advance
<1>1. CASE CreateBegin(w)
  <2> DEFINE l == Fresh(w, "checked", w.call)
  <2>1. l.pc = "checked" /\ l.page = wk[w].page
    BY <1>0, FreshLocal DEF IInv, Pc
  <2>2. wk' = [wk EXCEPT ![w] = l] /\ row' = row
    BY <1>1 DEF CreateBegin
  <2> HIDE DEF l
  <2>3. Brings
    BY <1>0, <2>1, <2>2, OneBrings, ZenonT(30) DEF Claims
  <2> QED BY <1>0, <2>2, <2>3, QuietRInv
<1>2. CASE CreateLock(w) \/ CreateTrack(w)
  <2>1. wk[w].pc # "idle" /\ row' = row /\ (Go(w, "inserting") \/ Go(w, "advance") \/ End(w))
    BY <1>2 DEF CreateLock, CreateTrack, At
  <2>2. Brings
    BY <1>0, <2>1, GoBrings, EndBrings DEF Pc, Claims
  <2> QED BY <1>0, <2>1, <2>2, QuietRInv
<1>3. CASE CreateInsert(w)
  <2>1. wk[w].pc # "idle" /\ (Go(w, "inserted") \/ End(w)) /\ (row' = row \/ row' = [row EXCEPT ![wk[w].call] = Inserted])
    BY <1>3 DEF CreateInsert, At, Update
  <2>2. Brings
    BY <1>0, <2>1, GoBrings, EndBrings DEF Pc, Claims
  <2>3. wk[w].call \in Call /\ ~Inserted.observed /\ Inserted.state = "accepted"
    BY <1>0, <2>1, Busy DEF Inserted, BareRow
  <2> HIDE DEF Inserted
  <2> QED BY <1>0, <2>1, <2>2, <2>3, QuietRInv, RowRInv
<1>4. CASE Advance(w)
  <2>1. /\ wk[w].pc # "idle" /\ row' = row
        /\ \/ Go(w, "admit") \/ End(w)
           \/ row[w.call].state \in Observable /\ wk' = [wk EXCEPT ![w] = Start(w, Snapshot(w.call), "observe")]
    BY <1>4 DEF Advance, At, Unreported
  <2>2. Brings
    BY <1>0, <2>1, GoBrings, EndBrings, ObserveBrings DEF Pc, Claims
  <2> QED BY <1>0, <2>1, <2>2, QuietRInv, SMTT(30)
<1> QED BY <1>1, <1>2, <1>3, <1>4, SMTT(30) DEF CreateStep

\* A reconciler's pass: its page says what the rows said, and what it takes
\* up from the page is still so.
LEMMA ReconcileRInv ==
  ASSUME IInv, RInv, Effect, NEW w \in Reconciler, ReconcileStep(w)
  PROVE  RInv'
<1>0. w \in Worker /\ row' = row /\ ctl' = ctl /\ wk \in [Worker -> Local] /\ wk[w].page \in SUBSET Entry
  BY KindIsWorker DEF ReconcileStep, List, Take, IInv, TypeOK, Local
<1>1. CASE List(w)
  <2>1. PICK page \in SUBSET {c \in Call : OpenRow(c)} : wk' = [wk EXCEPT ![w].page = {Snapshot(c) : c \in page}]
    BY <1>1, ZenonT(30) DEF List
  <2>2. ASSUME NEW c \in page
        PROVE  Snapshot(c).state # "denied" /\ Loaded(Snapshot(c).state, Snapshot(c).call)'
    <3>1. c \in Call /\ row[c].state # "denied"
      BY <2>1 DEF OpenRow, Unreported, AbandonAdmits, Observable
    <3>2. PICK s \in Shot : s = Snapshot(c) /\ s.call = c /\ s.state = row[c].state
      BY <3>1, SnapshotShot DEF IInv
    <3>3. s.state # "denied" /\ Loaded(s.state, s.call)'
      BY <1>0, <3>1, <3>2 DEF Loaded
    <3>4. Snapshot(c)' = s
      BY <1>0, <3>2 DEF Snapshot
    <3> QED BY <3>2, <3>3, <3>4
  <2> DEFINE shots == {Snapshot(c) : c \in page}
             l == [wk[w] EXCEPT !.page = shots]
  <2>3. ASSUME NEW s \in shots PROVE s.state # "denied" /\ Loaded(s.state, s.call)'
    <3>1. PICK c \in page : s = Snapshot(c)
      OBVIOUS
    <3>2. Snapshot(c)' = s
      BY <1>0, <3>1 DEF Snapshot
    <3> QED BY <2>2, <3>1, <3>2
  <2>4. wk' = [wk EXCEPT ![w] = l]
    BY <1>0, <2>1
  <2> HIDE DEF shots
  <2>5. /\ wk'[w].page = shots /\ wk'[w].pc = wk[w].pc /\ wk'[w].call = wk[w].call
        /\ wk'[w].val = wk[w].val /\ wk'[w].seen = wk[w].seen /\ \A u \in Worker : u # w => wk'[u] = wk[u]
    BY <1>0, <2>4 DEF Local
  <2>6. PageOK(w)'
    BY <2>3, <2>5 DEF PageOK
  <2>7. Brings
    BY <2>5, <2>6 DEF Brings, SameStep
  <2> QED BY <1>0, <2>7, QuietRInv
<1>2. CASE Take(w)
  <2>1. PICK s \in wk[w].page : wk' = [wk EXCEPT ![w] = [Start(w, s, StepFor(s)) EXCEPT !.page = @ \ {s}]]
    BY <1>2, ZenonT(30) DEF Take
  <2>2. s \in Shot /\ s.call \in Call /\ s.state \in CallState
    BY <1>0, <2>1 DEF Entry, Shot
  <2>3. s.state # "denied" /\ Loaded(s.state, s.call)
    BY <1>0, <2>1 DEF RInv, PageOK
  <2>4. StepFor(s) \in Pc /\ StepFor(s) \in {"admit", "cancel", "abandon", "gettool", "observe"}
    BY StepForPlain DEF Plain, StepFor
  <2>5. StepFor(s) = "observe" => s.state \in Observable
    BY <2>2, <2>3 DEF StepFor, CallState, Observable
  <2> DEFINE l == Start(w, s, StepFor(s))
             k == [l EXCEPT !.page = @ \ {s}]
  <2>6. l \in Local /\ l.pc = StepFor(s) /\ l.call = s.call /\ l.page = wk[w].page
    BY <1>0, <2>2, <2>4, StartLocal, SMTT(30) DEF IInv
  <2>7. l.pc = "observe" => l.seen = s.state
    BY <1>0, <2>2, <2>6, StartSeen
  <2>8. wk' = [wk EXCEPT ![w] = k]
    BY <2>1
  <2> HIDE DEF l
  <2>9. k.pc = l.pc /\ k.call = l.call /\ k.seen = l.seen /\ k.page \subseteq wk[w].page
    BY <2>6 DEF Local
  <2> HIDE DEF k
  <2>10. wk'[w] = k
    BY <1>0, <2>8, SMTT(30)
  <2>11. Loaded(s.state, s.call)'
    BY <1>0, <2>3 DEF Loaded, Agrees
  <2>12. StepOK(w)'
    BY <2>4, <2>5, <2>6, <2>7, <2>9, <2>10, <2>11 DEF StepOK, Loaded, Agrees
  <2>13. Brings
    BY <1>0, <2>8, <2>9, <2>12, OneBrings, ZenonT(30)
  <2> QED BY <1>0, <2>13, QuietRInv
<1> QED BY <1>1, <1>2 DEF ReconcileStep

\* ReconcileCall reports the row as it is.
LEMMA OperateRInv ==
  ASSUME IInv, RInv, Effect, NEW w \in Operation, Operate(w)
  PROVE  RInv'
<1>0. w \in Worker /\ row' = row /\ ctl' = ctl /\ wk \in [Worker -> Local]
  BY KindIsWorker DEF Operate, IInv, TypeOK
<1>1. PICK c \in Call :
        /\ row[c].state \in {"unknown", "sent"} \/ Unreported(c)
        /\ wk' = [wk EXCEPT ![w] = [Start(w, Snapshot(c), StepFor(Snapshot(c)))
                                       EXCEPT !.val = IF row[c].state = "unknown" THEN "resolve" ELSE "none"]]
  BY ZenonT(30) DEF Operate
<1>2. PICK s \in Shot : s = Snapshot(c) /\ s.call = c /\ s.state = row[c].state
  BY SnapshotShot DEF IInv
<1> DEFINE l == Start(w, s, StepFor(s))
           v == IF row[c].state = "unknown" THEN "resolve" ELSE "none"
           k == [l EXCEPT !.val = v]
<1>3. StepFor(s) \in Pc /\ StepFor(s) \in {"admit", "cancel", "abandon", "gettool", "observe"}
  BY StepForPlain DEF Plain, StepFor
<1>4. StepFor(s) = "observe" => s.state \in Observable
  BY <1>1, <1>2, SMTT(30) DEF StepFor, Unreported, Observable
<1>5. l \in Local /\ l.pc = StepFor(s) /\ l.call = c /\ l.page = wk[w].page
  BY <1>0, <1>2, <1>3, StartLocal, SMTT(30) DEF IInv
<1>6. l.pc = "observe" => l.seen = s.state
  BY <1>0, <1>2, <1>5, StartSeen
<1>7. wk' = [wk EXCEPT ![w] = k]
  BY <1>1, <1>2
<1> HIDE DEF l, v
<1>8. k.pc = l.pc /\ k.call = l.call /\ k.seen = l.seen /\ k.page = l.page
  BY <1>5 DEF Local
<1> HIDE DEF k
<1>9. wk'[w] = k
  BY <1>0, <1>7
<1>10. Loaded(s.state, c)'
  BY <1>0, <1>2 DEF Loaded
<1>11. StepOK(w)'
  BY <1>3, <1>4, <1>5, <1>6, <1>8, <1>9, <1>10 DEF StepOK, Loaded, Agrees
<1>12. Brings
  BY <1>0, <1>5, <1>7, <1>8, <1>11, OneBrings, ZenonT(30)
<1> QED BY <1>0, <1>12, QuietRInv

\* The steps of Calls.Shutdown: what it lists claims nothing, and what it
\* records it reports.
LEMMA StopRInv ==
  ASSUME IInv, RInv, Effect, NEW w \in Stopper, StopStep(w)
  PROVE  RInv'
<1>0. w \in Worker /\ ctl' = ctl /\ wk \in [Worker -> Local] /\ wk[w] \in Local
  BY KindIsWorker, ZenonT(30) DEF StopStep, ShutdownTimeout, ShutdownRecord, ShutdownDone, IInv, TypeOK
<1>1. CASE ShutdownTimeout(w)
  <2> DEFINE page == {[Snapshot(c) EXCEPT !.state = "sent", !.observed = FALSE, !.seq = 0] : c \in Live(w.at)}
             l == [wk[w] EXCEPT !.page = page]
  <2>1. row' = row /\ wk' = [wk EXCEPT ![w] = l]
    BY <1>0, <1>1, ZenonT(30) DEF ShutdownTimeout
  <2>2. ASSUME NEW s \in page PROVE s.state = "sent"
    BY ZenonT(30) DEF Snapshot
  <2> HIDE DEF page
  <2>3. /\ wk'[w].page = page /\ wk'[w].pc = wk[w].pc /\ wk'[w].call = wk[w].call
        /\ wk'[w].val = wk[w].val /\ wk'[w].seen = wk[w].seen /\ \A u \in Worker : u # w => wk'[u] = wk[u]
    BY <1>0, <2>1 DEF Local
  <2>4. PageOK(w)'
    BY <2>2, <2>3 DEF PageOK, Loaded, Certain
  <2>5. Brings
    BY <2>3, <2>4 DEF Brings, SameStep
  <2> QED BY <1>0, <2>1, <2>5, QuietRInv
<1>2. CASE ShutdownRecord(w)
  <2>1. PICK s \in wk[w].page :
          LET rest == [Idle EXCEPT !.page = wk[w].page \ {s}] IN
          \/ /\ row' = [row EXCEPT ![s.call].state = "unknown"]
             /\ wk' = [wk EXCEPT ![w] = [rest EXCEPT !.pc = "reload", !.call = s.call]]
          \/ UNCHANGED row /\ wk' = [wk EXCEPT ![w] = rest]
    BY <1>2, ZenonT(30) DEF ShutdownRecord
  <2>2. PICK c \in Call : c = s.call
    BY <1>0, <2>1 DEF Local, Entry
  <2> DEFINE rest == [Idle EXCEPT !.page = wk[w].page \ {s}]
             l == [rest EXCEPT !.pc = "reload", !.call = c]
             new == [row[c] EXCEPT !.state = "unknown"]
  <2>3. rest.pc = "idle" /\ rest.page \subseteq wk[w].page
    BY DEF Idle
  <2>4. l.pc = "reload" /\ l.call = c /\ l.page \subseteq wk[w].page
    BY DEF Idle
  <2>5. row[c] \in Row /\ row \in [Call -> Row]
    BY DEF IInv, TypeOK
  <2>6. new.state = "unknown" /\ new.observed = row[c].observed
    BY <2>5 DEF Row
  <2>7. \/ row' = [row EXCEPT ![c] = new] /\ wk' = [wk EXCEPT ![w] = l]
        \/ row' = row /\ wk' = [wk EXCEPT ![w] = rest]
    BY <2>1, <2>2
  <2> HIDE DEF rest, l, new
  <2>8. CASE row' = [row EXCEPT ![c] = new] /\ wk' = [wk EXCEPT ![w] = l]
    <3>1. wk'[w] = l /\ row'[c].state \in Observable
      BY <1>0, <2>5, <2>6, <2>8 DEF Observable
    <3>2. StepOK(w)'
      BY <2>4, <3>1 DEF StepOK
    <3>3. Brings
      BY <1>0, <2>4, <2>8, <3>2, OneBrings, ZenonT(30)
    <3> QED BY <1>0, <2>6, <2>8, <3>3, RowRInv, ZenonT(30)
  <2>9. CASE row' = row /\ wk' = [wk EXCEPT ![w] = rest]
    <3>1. Brings
      BY <1>0, <2>3, <2>9, OneBrings, ZenonT(30) DEF Claims
    <3> QED BY <1>0, <2>9, <3>1, QuietRInv
  <2> QED BY <2>7, <2>8, <2>9
<1>3. CASE ShutdownDone(w)
  BY <1>0, <1>3, IdleBrings, QuietRInv DEF ShutdownDone
<1> QED BY <1>1, <1>2, <1>3 DEF StopStep

\* Processes stop, exit, restart and crash.
LEMMA LifecycleRInv ==
  ASSUME IInv, RInv, Effect, NEW r \in Replica, Lifecycle(r)
  PROVE  RInv'
<1>1. row' = row /\ ctl' = ctl
  BY DEF Lifecycle, CloseCalls, ShutdownDrained, Exit, Restart, Crash
<1>2. \A w \in Worker : wk'[w] = wk[w] \/ wk'[w] = Idle
  BY DEF Lifecycle, CloseCalls, ShutdownDrained, Exit, Restart, Crash, Killed
<1> QED BY <1>1, <1>2, IdleBrings, QuietRInv

\* Time only ages rows.
LEMMA TickRInv ==
  ASSUME IInv, RInv, Effect, Tick
  PROVE  RInv'
<1>1. ctl' = ctl /\ Brings
  BY IdleBrings DEF Tick
<1>2. ASSUME NEW c \in Call PROVE row'[c].observed = row[c].observed /\ row'[c].state = row[c].state
  <2>1. row[c] \in Row
    BY DEF IInv, TypeOK
  <2>2. ASSUME NEW a PROVE [row[c] EXCEPT !.age = a].observed = row[c].observed /\ [row[c] EXCEPT !.age = a].state = row[c].state
    BY <2>1 DEF Row
  <2>3. \E a : row'[c] = [row[c] EXCEPT !.age = a] \/ row'[c] = row[c]
    BY ZenonT(30) DEF Tick
  <2> QED BY <2>2, <2>3, ZenonT(30)
<1> QED BY <1>1, <1>2, RowsRInv

\* Control settles a dispatch it holds for unknown; the row is unknown too.
LEMMA ControlResolveRInv ==
  ASSUME IInv, RInv, Effect, NEW c \in Call, ControlResolve(c)
  PROVE  RInv'
<1>1. row' = row /\ wk' = wk /\ ctl[c].state = "unknown" /\ ctl \in [Call -> Record] /\ ctl[c] \in Record
  BY ZenonT(30) DEF ControlResolve, IInv, TypeOK
<1>2. /\ ctl'[c].reported = ctl[c].reported /\ ctl'[c].manual
      /\ ctl'[c].state \in {"confirmed_not_sent", "observed"}
      /\ \A d \in Call : d # c => ctl'[d] = ctl[d]
  <2>1. PICK new : /\ ctl' = [ctl EXCEPT ![c] = new]
                   /\ new.reported = ctl[c].reported /\ new.manual /\ new.state \in {"confirmed_not_sent", "observed"}
    <3>1. CASE ctl' = [ctl EXCEPT ![c].state = "confirmed_not_sent", ![c].manual = TRUE]
      <4> DEFINE new == [ctl[c] EXCEPT !.state = "confirmed_not_sent", !.manual = TRUE]
      <4>1. new.reported = ctl[c].reported /\ new.manual /\ new.state = "confirmed_not_sent"
        BY <1>1 DEF Record
      <4>2. ctl' = [ctl EXCEPT ![c] = new]
        BY <1>1, <3>1, ZenonT(30)
      <4> HIDE DEF new
      <4> QED BY <4>1, <4>2, ZenonT(30)
    <3>2. ASSUME NEW v \in ViewOutcome, ctl' = [ctl EXCEPT ![c].state = "observed", ![c].outcome = v, ![c].manual = TRUE]
          PROVE  \E new : /\ ctl' = [ctl EXCEPT ![c] = new]
                          /\ new.reported = ctl[c].reported /\ new.manual /\ new.state \in {"confirmed_not_sent", "observed"}
      <4> DEFINE new == [ctl[c] EXCEPT !.state = "observed", !.outcome = v, !.manual = TRUE]
      <4>1. new.reported = ctl[c].reported /\ new.manual /\ new.state = "observed"
        BY <1>1 DEF Record
      <4>2. ctl' = [ctl EXCEPT ![c] = new]
        BY <1>1, <3>2, ZenonT(30)
      <4> HIDE DEF new
      <4> QED BY <4>1, <4>2, ZenonT(30)
    <3> QED BY <3>1, <3>2, ZenonT(30) DEF ControlResolve
  <2> QED BY <1>1, <2>1, SMTT(30)
<1>3. RecordOK(c) /\ row[c].state = "unknown"
  BY <1>1, SMTT(30) DEF RInv, RecordOK
<1>4. RecordOK(c)'
  BY <1>1, <1>2, <1>3, SMTT(30) DEF RecordOK, Settled, Allowed
<1>5. \A d \in Call : d # c => RecordOK(d)'
  BY <1>1, <1>2, SameRecord DEF RInv
<1>6. Grows
  BY <1>1, <1>2 DEF Grows, Allowed, Settled
<1>7. Brings
  BY <1>1, IdleBrings, SMTT(30)
<1> QED BY <1>4, <1>5, <1>6, <1>7, KeepsRInv, SMTT(30)
-----------------------------------------------------------------------------
\* In the beginning nothing is recorded anywhere.
LEMMA InitRInv == Init => RInv
BY DEF Init, CallsInit, RInv, RecordOK, Settled, NoRow, BareRow, StepOK, PageOK, Idle

\* Every step keeps rows, records and what workers rely on in line.
LEMMA NextRInv ==
  ASSUME IInv, RInv, [Next]_vars
  PROVE  RInv'
<1>0. Effect
  BY NextEffect
<1>1. ASSUME NEW w \in Worker, Fail(w) PROVE RInv'
  <2>1. wk[w].pc # "idle" /\ (AfterObserve(w) \/ End(w)) /\ row' = row /\ ctl' = ctl
    BY <1>1 DEF Fail
  <2> QED BY <1>0, <2>1, AfterBrings, EndBrings, QuietRInv
<1>2. CASE UNCHANGED <<row, ctl, wk>>
  BY <1>0, <1>2, IdleBrings, QuietRInv
<1>3. ASSUME NEW g \in Grant, RevokeGrant(g) PROVE RInv'
  BY <1>2, <1>3 DEF RevokeGrant
<1>4. CASE UNCHANGED vars
  BY <1>2, <1>4 DEF vars
<1> QED BY <1>0, <1>1, <1>3, <1>4, StepRInv, CreateRInv, ReconcileRInv, OperateRInv, StopRInv, LifecycleRInv,
           TickRInv, ControlResolveRInv DEF Next, CallsNext

\* A call reported to Control and ended here has the same outcome there, or
\* the one resolve makes of what an operator settled there, which may be any
\* outcome (calls.go:683-711, 875-901), for any number of calls, replicas,
\* operators and faults: no report that is late, repeated or under a stale
\* sequence leaves Control believing something else.
THEOREM ReportsAgree == Spec => []ReportedAgrees
<1>1. RInv => ReportedAgrees
  <2>1. ASSUME RInv, NEW c \in Call, row[c].observed, row[c].state \in Terminal PROVE Agrees(c)
    <3>1. RecordOK(c) /\ row[c].state # "unknown"
      BY <2>1 DEF RInv, Terminal
    <3> QED BY <2>1, <3>1 DEF RecordOK
  <2> QED BY <2>1 DEF ReportedAgrees, Agrees
<1> QED BY <1>1, InitRInv, NextRInv, Invariance, PTL DEF Spec
=============================================================================
