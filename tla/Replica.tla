------------------------------ MODULE Replica ------------------------------
(***************************************************************************)
(* One replica: its configuration generations (Generations) and, over the  *)
(* connection of each generation's forwarder, its event consumers          *)
(* (Projection).  startForwarder starts a generation's consumer, and       *)
(* retire ends it; the revision gate and the token cache are the process's.*)
(*                                                                         *)
(* The bounds of the two parts are chosen together, at the start: many     *)
(* reloads with requests and no event, or few with events.                 *)
(***************************************************************************)
EXTENDS Generations, Projection

CONSTANT Budgets    \* bounds: the first inputs, all there may be, their changes,
                    \*   whether requests run, tokens are requested and the
                    \*   process stops, whether a forwarder's Run returns
                    \*   early, the events published and the losses

ASSUME ReplicaAssumption ==
    Budgets \subseteq [starts : SUBSET Inputs, inputs : SUBSET Inputs, changes : 0 .. MaxChange, requests : BOOLEAN,
                      tokens : BOOLEAN, stops : BOOLEAN, ends : BOOLEAN, events : 0 .. MaxEvents, lost : 0 .. MaxLost]

VARIABLE budget

replicaVars == <<genVars, projVars, budget>>

\* The consumer of a generation is started and canceled with its forwarder,
\* and does not depend on the forwarder's Run.
ConsumerOf(g) ==
    CASE rt[g].fwd \in {"running", "ended"} -> "running"
      [] rt[g].fwd \in {"canceled", "done"} -> rt[g].fwd
      [] OTHER -> "off"

Starting == {"health", "listen", "publish", "forwarder", "swap", "tune", "schema", "serve"}

\* The chosen bounds.  With events the process starts on a schema that holds
\* and serves; they, the requests for tokens and the reload come then.
Within ==
    /\ inputs \in budget.inputs /\ changes <= budget.changes /\ Len(outbox) <= budget.events /\ lost <= budget.lost
    /\ budget.requests \/ \A q \in Request : req[q] = NoRequest
    /\ budget.tokens \/ \A f \in Fetcher : fetch[f] = NoCall
    /\ budget.ends \/ \A g \in Gen : rt[g].fwd # "ended"
    /\ budget.stops \/ (schema # "behind" /\ th["main"].pc \in Starting \cup {"serving"})
    /\ budget.events > 0 /\ th["main"].pc \in Starting =>
          changes = 0 /\ Len(outbox) = 0 /\ \A f \in Fetcher : fetch[f] = NoCall

Init ==
    /\ GenInit /\ ProjInit
    /\ budget \in Budgets /\ inputs \in budget.starts

Next ==
    /\ \/ GenNext /\ run' = [c \in Consumer |-> ConsumerOf(c)]' /\ UNCHANGED <<published, consumed, tokens, lost>>
       \/ Alive /\ ProjNext /\ UNCHANGED genVars
    /\ budget' = budget
    /\ Within'

Spec == Init /\ [][Next]_replicaVars

\* Each part is scheduled; a wait that reached its limit goes on.
FairSpec == Spec /\ GenFairness /\ ProjFairness

\* Both parts keep their types, and the revision gate its limit
\* (projection.go:38-56).
TypeOK == GenTypeOK /\ ProjTypeOK
=============================================================================
