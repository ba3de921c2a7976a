---------------------------- MODULE CallPromise ----------------------------
(***************************************************************************)
(* What guarded tool execution promises about a call (domain/call.go:      *)
(* 13-17): it is tracked before anything is sent, sent at most once and    *)
(* only after its marker, and an uncertain one is settled, never resent.   *)
(***************************************************************************)
EXTENDS Naturals

CONSTANT Call
VARIABLES
    phase, \* absent, open, refused (ended unsent), marked, uncertain, settled
    sends  \* how often the call went to the upstream server

vars == <<phase, sends>>

Move(c, from, to) == phase[c] = from /\ phase' = [phase EXCEPT ![c] = to] /\ UNCHANGED sends

Init == phase = [c \in Call |-> "absent"] /\ sends = [c \in Call |-> 0]

Track(c) == Move(c, "absent", "open")
Refuse(c) == Move(c, "open", "refused")
Mark(c) == Move(c, "open", "marked")
Settle(c) == Move(c, "marked", "settled")
Lose(c) == Move(c, "marked", "uncertain")
Resolve(c) == Move(c, "uncertain", "settled")

\* The one send; an uncertain record may overtake a send that has started.
Send(c) ==
    /\ phase[c] \in {"marked", "uncertain", "settled"} /\ sends[c] = 0
    /\ sends' = [sends EXCEPT ![c] = 1] /\ UNCHANGED phase

Next == \E c \in Call : Track(c) \/ Refuse(c) \/ Mark(c) \/ Send(c) \/ Settle(c) \/ Lose(c) \/ Resolve(c)

Spec == Init /\ [][Next]_vars
=============================================================================
