------------------------------- MODULE Calls -------------------------------
(***************************************************************************)
(* Guarded tool execution: application/calls.go over the tool_requests     *)
(* table (queries/calls.sql).  A call is recorded (accepted), admitted by  *)
(* Control's single-use AdmitTool, marked as sent under the grant's share  *)
(* lock, sent once, and its outcome is recorded and reported to Control.   *)
(*                                                                         *)
(* Every database statement and every call of Control or of the upstream   *)
(* is one step of a worker; workers of several replicas interleave:        *)
(*   create     the CreateCall handler and its detached advance goroutine  *)
(*   reconcile  a replica's reconciler loop                                *)
(*   stop       Calls.Shutdown of a stopping replica                       *)
(*   operate    an operator's ReconcileCall                                *)
(***************************************************************************)
EXTENDS Naturals, FiniteSets

CONSTANTS
    Call,           \* calls, one per command identity (tenant, command id)
    Replica,        \* processes of the service
    Operator,       \* concurrent operator reconciliations
    Grant, GrantOf, \* grants, and the grant a call names
    Server, ServerOf, \* upstream servers, and the server of a grant
    None,           \* no call
    SendTimeout, Grace, ReconcileAge, \* calls.send_timeout, the 5s, calls.reconcile_age
    MaxFaults,      \* bound on failed statements, lost answers and crashes
    MaxStops        \* bound on graceful stops

ASSUME CallsAssumption ==
    /\ None \notin Call
    /\ GrantOf \in [Call -> Grant] /\ ServerOf \in [Grant -> Server]
    /\ SendTimeout \in Nat \ {0} /\ Grace \in Nat \ {0}
    /\ ReconcileAge \in Nat /\ ReconcileAge > SendTimeout
    /\ MaxFaults \in Nat /\ MaxStops \in Nat

VARIABLES
    row,     \* tool_requests
    ctl,     \* Control's dispatch records (external)
    wk,      \* where each worker is, and what it read earlier
    replica, \* the life cycle of each process
    grant,   \* grants.state, as far as calls depend on it
    sends,   \* how often each call was sent upstream (history)
    owner,   \* the process that committed a call's send marker (history)
    budget   \* faults and stops left

vars == <<row, ctl, wk, replica, grant, sends, owner, budget>>

-----------------------------------------------------------------------------
CallState == {"accepted", "admitted", "sent", "succeeded", "failed", "denied", "unknown", "canceled"}
Terminal == {"succeeded", "failed", "denied", "canceled"}
Observable == {"succeeded", "failed", "canceled", "unknown"}

\* The marker age after which a marked call's sender is gone.
sentAge == IF SendTimeout + Grace <= ReconcileAge THEN SendTimeout + Grace ELSE ReconcileAge
MaxAge == sentAge + 1   \* ages beyond sentAge behave alike

\* One row: dispatch says control_dispatch_id is set, age is the time since
\* send_marker_at (counted while the call is sent), seq observation_sequence.
BareRow(state) == [state |-> state, dispatch |-> FALSE, marker |-> FALSE, age |-> 0, observed |-> FALSE, seq |-> 0]
NoRow == BareRow("none")
Inserted == BareRow("accepted")

Creator == [kind : {"create"}, call : Call, at : Replica]
Reconciler == [kind : {"reconcile"}, at : Replica]
Stopper == [kind : {"stop"}, at : Replica]
Operation == [kind : {"operate"}, at : Operator]
Worker == Creator \cup Reconciler \cup Stopper \cup Operation

\* A worker's locals: the call it works on, the row's state and observation
\* sequence it loaded, the value it carries, and the rows or ids it has listed.
Idle == [pc |-> "idle", call |-> None, seen |-> "none", seq |-> 0, val |-> "none", page |-> {}]
Snapshot(c) == [call |-> c, state |-> row[c].state, observed |-> row[c].observed, seq |-> row[c].seq]

\* A plausible error: only a completed revocation stops execution.
ExecutableUntilRevoked(g) == grant[g] # "revoked"

\* Grant.Executable, but for the expiry: where it is judged, the expiry may
\* also have passed.
Executable(g) == grant[g] = "active"

\* The grants locked FOR SHARE by a CreateCall transaction in progress.
ShareLocked == {GrantOf[wk[w].call] : w \in {v \in Creator : wk[v].pc = "inserting"}}

Running(r) == replica[r] # "stopped"
-----------------------------------------------------------------------------
At(w, pc) == wk[w].pc = pc
Fresh(w, pc, c) == [Idle EXCEPT !.pc = pc, !.call = c, !.page = wk[w].page]
Go(w, pc) == wk' = [wk EXCEPT ![w] = Fresh(w, pc, wk[w].call)]
GoWith(w, pc, v) == wk' = [wk EXCEPT ![w].pc = pc, ![w].val = v]
End(w) == wk' = [wk EXCEPT ![w] = Fresh(w, "idle", None)]

\* Start the step "pc" with a loaded row; only a report needs what it said.
Start(w, s, pc) ==
    IF pc = "observe" THEN [Fresh(w, pc, s.call) EXCEPT !.seen = s.state, !.seq = s.seq] ELSE Fresh(w, pc, s.call)

\* A guarded update of one row: applied and followed by the step to "then",
\* or, when the guard matched no row, the worker gives up.
Update(w, guard, new, then) ==
    \/ guard /\ row' = [row EXCEPT ![wk[w].call] = new] /\ then
    \/ ~guard /\ UNCHANGED row /\ End(w)

Rest == <<replica, grant, budget>>
Ghosts == <<sends, owner>>

-----------------------------------------------------------------------------
(* CreateCall: the handler up to the detached goroutine.                   *)

HasUnknown(s) == \E c \in Call : ServerOf[GrantOf[c]] = s /\ row[c].state = "unknown"

\* The handler is past the closing flag and found no row of its command.
CreateBegin(w) ==
    /\ At(w, "idle") /\ replica[w.at] = "up" /\ row[w.call].state = "none"
    /\ wk' = [wk EXCEPT ![w] = Fresh(w, "checked", w.call)]
    /\ UNCHANGED <<row, ctl, Rest, Ghosts>>

\* The transaction takes the grant's share lock and runs its checks; those
\* on the caller, the expiry (at the clock read before), the method, the
\* descriptor, the arguments and the route may refuse the call too.
CreateLock(w) ==
    /\ At(w, "checked")
    /\ \/ Executable(GrantOf[w.call]) /\ ~HasUnknown(ServerOf[GrantOf[w.call]]) /\ Go(w, "inserting")
       \/ End(w)
    /\ UNCHANGED <<row, ctl, Rest, Ghosts>>

\* Insert and commit; a concurrent identical command may have won the key.
CreateInsert(w) ==
    /\ At(w, "inserting")
    /\ Update(w, row[wk[w].call].state = "none", Inserted, Go(w, "inserted"))
    /\ UNCHANGED <<ctl, Rest, Ghosts>>

\* track, and the start of the detached goroutine.
CreateTrack(w) ==
    /\ At(w, "inserted") /\ Go(w, "advance")
    /\ UNCHANGED <<row, ctl, Rest, Ghosts>>

Unreported(c) == row[c].state \in Observable /\ ~row[c].observed /\ row[c].dispatch

Advance(w) ==
    /\ At(w, "advance")
    /\ \/ row[w.call].state = "accepted" /\ Go(w, "admit")
       \/ Unreported(w.call) /\ wk' = [wk EXCEPT ![w] = Start(w, Snapshot(w.call), "observe")]
       \/ row[w.call].state # "accepted" /\ ~Unreported(w.call) /\ End(w)
    /\ UNCHANGED <<row, ctl, Rest, Ghosts>>
-----------------------------------------------------------------------------
(* admit: the permission to send, and its recording.                       *)

\* Control's AdmitTool: the first request of a call is allowed or denied,
\* every later one is answered with the recorded dispatch, never allowed.
AdmitTool(w) ==
    /\ At(w, "admit")
    /\ LET c == wk[w].call IN
       \/ /\ ctl[c].state = "none"
          /\ \E answer \in {"authorized", "denied"} :
               /\ ctl' = [ctl EXCEPT ![c].state = answer]
               /\ GoWith(w, "answered", IF answer = "authorized" THEN "allowed" ELSE "denied")
       \/ /\ ctl[c].state # "none"
          /\ GoWith(w, "answered", IF ctl[c].state = "denied" THEN "denied" ELSE "recorded")
          /\ UNCHANGED ctl
    /\ UNCHANGED <<row, Rest, Ghosts>>

\* SetToolRequestAdmission applies to an accepted row only.
AdmissionAdmits(c) == row[c].state = "accepted"

SetAdmission(w) ==
    /\ At(w, "answered")
    /\ LET c == wk[w].call
           admitted == [row[c] EXCEPT !.state = "admitted", !.dispatch = TRUE]
       IN \/ wk[w].val = "allowed" /\ Update(w, AdmissionAdmits(c), admitted, Go(w, "prepare"))
          \/ wk[w].val = "recorded" /\ Update(w, AdmissionAdmits(c), admitted, Go(w, "cancel"))
          \/ wk[w].val = "denied" /\ Update(w, AdmissionAdmits(c), [admitted EXCEPT !.state = "denied"], End(w))
    /\ UNCHANGED <<ctl, Rest, Ghosts>>

-----------------------------------------------------------------------------
(* send: only the request that received the permission gets here.          *)

\* Open: a session with a server whose scope, protocol, name, version, schemas
\* and annotations are the reviewed ones, or an error before anything is sent.
OpenAnswers == {"session", "not_sent"}

\* Grant, descriptor, token, route, session and send bound: any refusal or
\* failure before the marker cancels the call.
Prepare(w) ==
    /\ At(w, "prepare")
    /\ \E o \in OpenAnswers : Go(w, IF o = "session" THEN "mark" ELSE "cancel")
    /\ UNCHANGED <<row, ctl, Rest, Ghosts>>

\* SetToolRequestMarker applies to an admitted, unmarked row only.
MarkerAdmits(c) == row[c].state = "admitted" /\ ~row[c].marker

\* The marker transaction: the grant is judged again under its share lock,
\* and an expiry that has passed, at a fresh clock reading, refuses it too.
Mark(w) ==
    /\ At(w, "mark")
    /\ LET c == wk[w].call IN
       \/ /\ Executable(GrantOf[c]) /\ MarkerAdmits(c)
          /\ row' = [row EXCEPT ![c].state = "sent", ![c].marker = TRUE]
          /\ owner' = [owner EXCEPT ![c] = w.at]
          /\ Go(w, "marked")
       \/ Go(w, "cancel") /\ UNCHANGED <<row, owner>>
    /\ UNCHANGED <<ctl, sends, Rest>>

\* tools/call leaves for the upstream server while the send bound has not
\* elapsed; a bound that elapsed first ends the send as unknown.
SendStart(w) ==
    /\ At(w, "marked")
    /\ \/ /\ row[wk[w].call].age < SendTimeout
          /\ sends' = [sends EXCEPT ![wk[w].call] = @ + 1]
          /\ Go(w, "sending")
       \/ /\ row[wk[w].call].age >= SendTimeout
          /\ GoWith(w, "record", "unknown")
          /\ UNCHANGED sends
    /\ UNCHANGED <<row, ctl, owner, Rest>>

\* What Send makes of the one tools/call: a result, a tool's error, the
\* server's refusal, an answer beyond the bound, or no answer.
Replies == {"result", "tool_error", "refused", "too_large", "no_answer"}

\* Only what never produced an answer is unknown.
OutcomeOf(reply) ==
    IF reply = "result" THEN "succeeded" ELSE IF reply = "no_answer" THEN "unknown" ELSE "failed"

\* A plausible error: a send without an answer is tried once more.
SendReturnRetries(w) ==
    /\ At(w, "sending")
    /\ \/ \E reply \in Replies : GoWith(w, "record", OutcomeOf(reply))
       \/ Go(w, "marked")
    /\ UNCHANGED <<row, ctl, Rest, Ghosts>>

\* The upstream's answer, its error, or no answer within the bound.
SendReturn(w) ==
    /\ At(w, "sending")
    /\ \E reply \in Replies : GoWith(w, "record", OutcomeOf(reply))
    /\ UNCHANGED <<row, ctl, Rest, Ghosts>>

\* A plausible error: the outcome is written whatever the row's state is.
OutcomeUnguarded(c, expected) == row[c].state # "none"

\* SetToolRequestOutcome with its expected state.
OutcomeAdmits(c, expected) == row[c].state = expected
SetOutcome(w, expected, state, then) ==
    Update(w, OutcomeAdmits(wk[w].call, expected), [row[wk[w].call] EXCEPT !.state = state], then)

RecordOutcome(w) ==
    /\ At(w, "record") /\ SetOutcome(w, "sent", wk[w].val, Go(w, "reload"))
    /\ UNCHANGED <<ctl, Rest, Ghosts>>

Cancel(w) ==
    /\ At(w, "cancel") /\ SetOutcome(w, "admitted", "canceled", Go(w, "reload"))
    /\ UNCHANGED <<ctl, Rest, Ghosts>>

Reload(w) ==
    /\ At(w, "reload") /\ wk' = [wk EXCEPT ![w] = Start(w, Snapshot(wk[w].call), "observe")]
    /\ UNCHANGED <<row, ctl, Rest, Ghosts>>

-----------------------------------------------------------------------------
(* observe and resolve: the outcome to Control and back.                   *)

\* An operator's reconciliation goes on to resolve whatever observe did.
AfterObserve(w) == IF wk[w].val = "resolve" THEN Go(w, "gettool") ELSE End(w)

\* Control's ObserveTool: one report per sequence counts, and what Control
\* has settled stays settled.
ObserveTool(w) ==
    /\ At(w, "observe") /\ wk' = [wk EXCEPT ![w].pc = "observed"]
    /\ LET c == wk[w].call
           new == wk[w].seq \notin ctl[c].reported /\ ctl[c].state \in {"authorized", "unknown"}
       IN ctl' = [ctl EXCEPT ![c] =
                    [state |-> IF ~new THEN @.state ELSE IF wk[w].seen = "unknown" THEN "unknown" ELSE "observed",
                     outcome |-> IF new THEN wk[w].seen ELSE @.outcome,
                     reported |-> @.reported \cup {wk[w].seq}, manual |-> @.manual]]
    /\ UNCHANGED <<row, Rest, Ghosts>>

SetObserved(w) ==
    /\ At(w, "observed") /\ AfterObserve(w)
    /\ LET c == wk[w].call IN
       row' = IF row[c].seq = wk[w].seq
              THEN [row EXCEPT ![c].observed = TRUE, ![c].seq = @ + 1] ELSE row
    /\ UNCHANGED <<ctl, Rest, Ghosts>>

\* A plausible error: an observed dispatch taken for a success.
ResolutionOptimistic(v) ==
    IF v.state = "confirmed_not_sent" THEN "failed" ELSE IF v.state = "observed" THEN "succeeded" ELSE "none"

\* What resolve makes of Control's record; "none" leaves the call unknown.
Resolution(v) ==
    IF v.state = "confirmed_not_sent" THEN "failed"
    ELSE IF v.state = "observed" THEN (IF v.outcome = "succeeded" THEN "succeeded" ELSE "failed")
    ELSE "none"

GetTool(w) ==
    /\ At(w, "gettool")
    /\ LET v == Resolution(ctl[wk[w].call]) IN
       \/ v = "none" /\ End(w)
       \/ v # "none" /\ GoWith(w, "resolve", v)
    /\ UNCHANGED <<row, ctl, Rest, Ghosts>>

Resolve(w) ==
    /\ At(w, "resolve") /\ SetOutcome(w, "unknown", wk[w].val, End(w))
    /\ UNCHANGED <<ctl, Rest, Ghosts>>
-----------------------------------------------------------------------------
(* Reconcile and ReconcileCall.                                            *)

\* A plausible error: a marked call is abandoned at any age.
AbandonAnyAge(c) == row[c].state = "sent"

\* SetAbandonedToolRequestUnknown: only past the send bound.
AbandonAdmits(c) == row[c].state = "sent" /\ row[c].age > sentAge

Abandon(w) ==
    /\ At(w, "abandon")
    /\ Update(w, AbandonAdmits(wk[w].call), [row[wk[w].call] EXCEPT !.state = "unknown"], Go(w, "reload"))
    /\ UNCHANGED <<ctl, Rest, Ghosts>>

\* Plausible errors: rows the listing leaves out.
OpenRowUnadmitted(c) == row[c].state \in {"accepted", "unknown"} \/ Unreported(c) \/ AbandonAdmits(c)
OpenRowReported(c) == row[c].state \in {"accepted", "admitted"} \/ (row[c].observed /\ row[c].state = "unknown") \/ AbandonAdmits(c)
OpenRowResolved(c) == row[c].state \in {"accepted", "admitted"} \/ Unreported(c) \/ AbandonAdmits(c)

\* ListOpenToolRequests.  The age of a row that is not marked is left open:
\* any such row may be old enough.
OpenRow(c) ==
    \/ row[c].state \in {"accepted", "admitted", "unknown"}
    \/ Unreported(c)
    \/ AbandonAdmits(c)

\* A pass reads one page; the rows it will work on are as they were then.
List(w) ==
    /\ At(w, "idle") /\ wk[w].page = {} /\ Running(w.at)
    /\ \E page \in SUBSET {c \in Call : OpenRow(c)} :
         page # {} /\ wk' = [wk EXCEPT ![w].page = {Snapshot(c) : c \in page}]
    /\ UNCHANGED <<row, ctl, Rest, Ghosts>>

\* reconcileOne's dispatch on the state the page showed.
StepFor(s) ==
    CASE s.state = "accepted" -> "admit"
      [] s.state = "admitted" -> "cancel"
      [] s.state = "sent" -> "abandon"
      [] s.state = "unknown" -> IF s.observed THEN "gettool" ELSE "observe"
      [] OTHER -> "observe"

Take(w) ==
    /\ At(w, "idle")
    /\ \E s \in wk[w].page :
         wk' = [wk EXCEPT ![w] = [Start(w, s, StepFor(s)) EXCEPT !.page = @ \ {s}]]
    /\ UNCHANGED <<row, ctl, Rest, Ghosts>>

\* ReconcileCall: unknown calls are resolved after the report, marked ones
\* abandoned, unreported ones reported; the others are left alone.
Operate(w) ==
    /\ At(w, "idle")
    /\ \E c \in Call :
         /\ row[c].state \in {"unknown", "sent"} \/ Unreported(c)
         /\ wk' = [wk EXCEPT ![w] = [Start(w, Snapshot(c), StepFor(Snapshot(c)))
                                       EXCEPT !.val = IF row[c].state = "unknown" THEN "resolve" ELSE "none"]]
    /\ UNCHANGED <<row, ctl, Rest, Ghosts>>

-----------------------------------------------------------------------------
(* Stopping a replica: the server, Calls.Shutdown, the loops, the exit.    *)

Handling(w) == wk[w].pc \in {"checked", "inserting", "inserted"}
Live(r) == {w.call : w \in {v \in Creator : v.at = r /\ wk[v].pc # "idle" /\ ~Handling(v)}}

Phase(r, from, to) == replica[r] = from /\ replica' = [replica EXCEPT ![r] = to]
Others == <<grant, budget>>
Spend(what) == budget[what] > 0 /\ budget' = [budget EXCEPT ![what] = @ - 1]

\* The server stops, gracefully or by force (a handler whose context ends
\* gives up unless its insert has committed), and calls are closed.
CloseCalls(r) ==
    /\ Phase(r, "up", "closing")
    /\ wk' = [w \in Worker |-> IF w \in Creator /\ w.at = r /\ wk[w].pc \in {"checked", "inserting"} THEN Idle ELSE wk[w]]
    /\ Spend("stops") /\ UNCHANGED <<row, ctl, Ghosts, grant>>

\* Shutdown saw the in-flight calls end, or its bound pass and lists them.
ShutdownDrained(r) ==
    /\ Phase(r, "closing", "drained") /\ Live(r) = {}
    /\ UNCHANGED <<row, ctl, wk, Ghosts, Others>>

ShutdownTimeout(w) ==
    /\ Phase(w.at, "closing", "recording") /\ Live(w.at) # {}
    /\ wk' = [wk EXCEPT ![w].page = {[Snapshot(c) EXCEPT !.state = "sent", !.observed = FALSE, !.seq = 0] : c \in Live(w.at)}]
    /\ UNCHANGED <<row, ctl, Ghosts, Others>>

\* UNKNOWN for a live call that is still marked as sent.
ShutdownRecord(w) ==
    /\ At(w, "idle") /\ replica[w.at] = "recording"
    /\ \E s \in wk[w].page :
         LET rest == [Idle EXCEPT !.page = wk[w].page \ {s}] IN
         \/ /\ OutcomeAdmits(s.call, "sent")
            /\ row' = [row EXCEPT ![s.call].state = "unknown"]
            /\ wk' = [wk EXCEPT ![w] = [rest EXCEPT !.pc = "reload", !.call = s.call]]
         \/ ~OutcomeAdmits(s.call, "sent") /\ UNCHANGED row /\ wk' = [wk EXCEPT ![w] = rest]
    /\ UNCHANGED <<ctl, Rest, Ghosts>>

ShutdownDone(w) ==
    /\ Phase(w.at, "recording", "drained") /\ At(w, "idle") /\ wk[w].page = {}
    /\ UNCHANGED <<row, ctl, wk, Ghosts, Others>>

\* The loops are canceled and the process exits with whatever still runs.
Killed(r) == [w \in Worker |-> IF w \in Operation \/ w.at # r THEN wk[w] ELSE Idle]
Exit(r) ==
    /\ Phase(r, "drained", "stopped") /\ wk' = Killed(r)
    /\ UNCHANGED <<row, ctl, Ghosts, Others>>

Restart(r) ==
    /\ Phase(r, "stopped", "up")
    /\ UNCHANGED <<row, ctl, wk, Ghosts, Others>>

-----------------------------------------------------------------------------
(* Failures and the environment.                                           *)

\* The worker's current statement or call fails, or the answer of the one
\* before is lost: it logs and returns, a loop going on with its next row.
Fail(w) ==
    /\ Spend("faults") /\ wk[w].pc \notin {"idle", "prepare", "sending"}
    /\ IF wk[w].pc \in {"observe", "observed"} THEN AfterObserve(w) ELSE End(w)
    /\ UNCHANGED <<row, ctl, replica, grant, Ghosts>>

\* A process dies and is restarted; what it had in memory is gone.
Crash(r) ==
    /\ Spend("faults") /\ Running(r) /\ wk' = Killed(r) /\ replica' = [replica EXCEPT ![r] = "up"]
    /\ UNCHANGED <<row, ctl, grant, Ghosts>>

\* Time passes for the marked calls.  The send's context bounds it, so no
\* send is in flight beyond SendTimeout after its marker.
Tick ==
    /\ \E c \in Call : row[c].state = "sent" /\ row[c].age < MaxAge
    /\ \A w \in Worker : At(w, "sending") => row[wk[w].call].age < SendTimeout \/ row[wk[w].call].state # "sent"
    /\ row' = [c \in Call |-> IF row[c].state = "sent" /\ row[c].age < MaxAge
                             THEN [row[c] EXCEPT !.age = @ + 1] ELSE row[c]]
    /\ UNCHANGED <<ctl, wk, Rest, Ghosts>>

\* The outcomes of a dispatch view; "none" is the empty one.
ViewOutcome == {"succeeded", "failed", "canceled", "unknown", "none"}

\* An operator at Control settles a dispatch reported unknown, as not sent or
\* as observed with any outcome a view can have.
ControlResolve(c) ==
    /\ ctl[c].state = "unknown"
    /\ \/ ctl' = [ctl EXCEPT ![c].state = "confirmed_not_sent", ![c].manual = TRUE]
       \/ \E v \in ViewOutcome :
            ctl' = [ctl EXCEPT ![c].state = "observed", ![c].outcome = v, ![c].manual = TRUE]
    /\ UNCHANGED <<row, wk, Rest, Ghosts>>

\* The grant's revocation commits (its row lock excludes the share locks).
RevokeGrant(g) ==
    /\ grant[g] = "active" /\ g \notin ShareLocked
    /\ grant' = [grant EXCEPT ![g] = "revoking"]
    /\ UNCHANGED <<row, ctl, wk, replica, budget, Ghosts>>

-----------------------------------------------------------------------------
CallsInit ==
    /\ row = [c \in Call |-> NoRow]
    /\ ctl = [c \in Call |-> [state |-> "none", outcome |-> "none", reported |-> {}, manual |-> FALSE]]
    /\ wk = [w \in Worker |-> Idle]
    /\ replica = [r \in Replica |-> "up"]
    /\ sends = [c \in Call |-> 0]
    /\ owner = [c \in Call |-> None]
    /\ budget = [faults |-> MaxFaults, stops |-> MaxStops]
Init == CallsInit /\ grant = [g \in Grant |-> "active"]

\* The steps of advance, admit, send, cancel, observe and resolve, whichever
\* worker runs them.
Step(w) ==
    \/ AdmitTool(w) \/ SetAdmission(w) \/ Prepare(w) \/ Mark(w) \/ SendStart(w) \/ SendReturn(w)
    \/ RecordOutcome(w) \/ Cancel(w) \/ Reload(w) \/ ObserveTool(w) \/ SetObserved(w)
    \/ GetTool(w) \/ Resolve(w) \/ Abandon(w)

CreateStep(w) == CreateBegin(w) \/ CreateLock(w) \/ CreateInsert(w) \/ CreateTrack(w) \/ Advance(w)
ReconcileStep(w) == List(w) \/ Take(w)
StopStep(w) == ShutdownTimeout(w) \/ ShutdownRecord(w) \/ ShutdownDone(w)
Lifecycle(r) == CloseCalls(r) \/ ShutdownDrained(r) \/ Exit(r) \/ Restart(r) \/ Crash(r)

\* Everything but the grants' own changes.
CallsNext ==
    \/ \E w \in Worker : Step(w) \/ Fail(w)
    \/ \E w \in Creator : CreateStep(w)
    \/ \E w \in Reconciler : ReconcileStep(w)
    \/ \E w \in Operation : Operate(w)
    \/ \E w \in Stopper : StopStep(w)
    \/ \E r \in Replica : Lifecycle(r)
    \/ \E c \in Call : ControlResolve(c)
    \/ Tick

Next == CallsNext \/ \E g \in Grant : RevokeGrant(g)

Spec == Init /\ [][Next]_vars

\* The reconciler loop of a running process keeps going (bootstrap starts it
\* with the process) and every pass lists each row old enough; a send ends
\* with its context; time passes; a stopped Pod is replaced.
Lists(w, c) == List(w) /\ \E s \in wk'[w].page : s.call = c
Fairness ==
    /\ \A w \in Reconciler : WF_vars(Step(w)) /\ WF_vars(Take(w)) /\ \A c \in Call : SF_vars(Lists(w, c))
    /\ \A w \in Worker : WF_vars(SendReturn(w))
    /\ \A r \in Replica : WF_vars(Restart(r))
    /\ WF_vars(Tick)

FairSpec == Spec /\ Fairness
-----------------------------------------------------------------------------
(* Properties.                                                             *)

Pc == {"idle", "checked", "inserting", "inserted", "advance", "admit", "answered", "prepare", "mark", "marked",
       "sending", "record", "cancel", "reload", "observe", "observed", "gettool", "resolve", "abandon"}
Val == {"none", "allowed", "recorded", "denied", "succeeded", "failed", "unknown", "resolve"}
Entry == [call : Call, state : CallState, observed : BOOLEAN, seq : Nat]
Local == [pc : Pc, call : Call \cup {None}, seen : CallState \cup {"none"}, seq : Nat, val : Val, page : SUBSET Entry]
Row == [state : CallState \cup {"none"}, dispatch : BOOLEAN, marker : BOOLEAN, age : 0..MaxAge, observed : BOOLEAN, seq : Nat]
Record == [state : {"none", "authorized", "denied", "unknown", "observed", "confirmed_not_sent"},
           outcome : CallState \cup {"none"}, reported : SUBSET Nat, manual : BOOLEAN]

\* Types of the state.
TypeOK ==
    /\ row \in [Call -> Row]
    /\ ctl \in [Call -> Record]
    /\ wk \in [Worker -> Local]
    /\ replica \in [Replica -> {"up", "closing", "recording", "drained", "stopped"}]
    /\ grant \in [Grant -> {"pending", "active", "revoking", "revoked", "expired", "registration_failed"}]
    /\ sends \in [Call -> Nat]
    /\ owner \in [Call -> Replica \cup {None}]
    /\ budget \in [faults : 0..MaxFaults, stops : 0..MaxStops]

\* A call is sent upstream at most once, whatever replicas, reconcilers and
\* operators do and whatever fails ("sent at most once ... and never sent
\* again", domain/call.go:13-17).
AtMostOneSend == \A c \in Call : sends[c] <= 1

\* A call that ended canceled or denied, or is not marked, was never sent:
\* its zero usage is the truth (calls.go:28-29 and 667-668).
UnmarkedNeverSent ==
    \A c \in Call : row[c].state \in {"none", "accepted", "admitted", "denied", "canceled"} => sends[c] = 0

\* While a send is inside its bound nobody takes its outcome away: the
\* reconcilers and the operators abandon only what is past it.  Only a
\* Shutdown that lists the call may record UNKNOWN earlier (calls.go:778-780,
\* queries/calls.sql:39-42).
InBoundSendKeepsOutcome ==
    [][\A w \in Worker :
        At(w, "sending") /\ row[wk[w].call].state = "sent" /\ row'[wk[w].call].state # "sent" =>
            \E v \in Stopper : wk'[v] # wk[v]]_vars

\* An UNKNOWN call changes only to what Control's record of its dispatch
\* says, and a terminal one not at all: no late answer of a sender and no
\* stale page entry overwrites them (calls.go:29-31, domain/call.go:102).
UncertainOnlyResolved ==
    [][\A c \in Call :
        /\ row[c].state \in Terminal => row'[c].state = row[c].state
        /\ row[c].state = "unknown" => row'[c].state \in {"unknown", Resolution(ctl[c])}]_vars

\* A call reported to Control and terminal here has the same outcome there,
\* unless an operator settled the dispatch at Control: then the call succeeded
\* here exactly if it was settled as a success, and failed otherwise (resolve
\* makes a failure of canceled, unknown and empty outcomes).  Reports that
\* arrive late, twice or under a stale sequence never leave Control believing
\* something else for good (calls.go:683-711, 875-901).
ReportedAgrees ==
    \A c \in Call : row[c].observed /\ row[c].state \in Terminal =>
        IF ctl[c].manual
        THEN row[c].state = IF ctl[c].state = "observed" /\ ctl[c].outcome = "succeeded" THEN "succeeded" ELSE "failed"
        ELSE ctl[c].state = "observed" /\ ctl[c].outcome = row[c].state

\* The call as CallPromise sees it.
PhaseOf(state) ==
    CASE state = "none" -> "absent"
      [] state \in {"accepted", "admitted"} -> "open"
      [] state \in {"denied", "canceled"} -> "refused"
      [] state = "sent" -> "marked"
      [] state = "unknown" -> "uncertain"
      [] OTHER -> "settled"
Promise == INSTANCE CallPromise WITH phase <- [c \in Call |-> PhaseOf(row[c].state)]

\* Guarded tool execution keeps the promise of CallPromise: every step of
\* every worker is one of its steps, or none.
KeepsPromise == Promise!Spec

\* Shutdown's promise: once a process has stopped gracefully, no call whose
\* marker it committed is still marked as sent without an outcome
\* (calls.go:423-429).
StopLeavesNoMarkedCall ==
    \A r \in Replica, c \in Call : replica[r] = "stopped" /\ owner[c] = r => row[c].state # "sent"

\* Every recorded call ends or becomes UNKNOWN, wherever its creator, its
\* sender or a process stopped or failed: the reconciler picks it up
\* (calls.go:713-718).
CallSettles ==
    \A c \in Call : row[c].state = "accepted" ~> row[c].state \in Terminal \cup {"unknown"}

\* Every outcome is reported to Control in the end (calls.go:717-718).
OutcomeReported == \A c \in Call : Unreported(c) ~> row[c].observed

\* What Control has resolved reaches the UNKNOWN call, which ends the
\* server's restriction (calls.go:843-850).
ResolutionArrives ==
    \A c \in Call : row[c].state = "unknown" /\ Resolution(ctl[c]) # "none" ~> row[c].state \in Terminal
=============================================================================
