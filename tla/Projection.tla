----------------------------- MODULE Projection -----------------------------
(***************************************************************************)
(* From a committed event to an evicted token: the transactional outbox    *)
(* (adapters/outbox), the stream, the event consumers of one replica, the  *)
(* revision gate and the credential projection (application/projection.go) *)
(* and the token cache of the upstream authority (adapters/upstream).      *)
(*                                                                         *)
(* One server with its grants.  The forwarders of all replicas share one   *)
(* position, whose row one of them locks from reading an entry to its      *)
(* acknowledgement: together they are one forwarder.  The consumers are    *)
(* those of one replica, one per configuration generation.                 *)
(***************************************************************************)
EXTENDS Naturals, Sequences, FiniteSets, SequencesExt

CONSTANTS
    Consumer,       \* the consumers the replica's generations run
    Grant,          \* the server's grants
    Server, None,   \* model values
    Fetcher,        \* calls that need a token at the same time
    GateLimit,      \* NewRevisionGate's limit
    MaxEvents,      \* bound: transactions that publish an event
    MaxLost         \* bound: acknowledgements, subscriptions and reads lost

ASSUME ProjectionAssumption ==
    /\ GateLimit \in Nat \ {0} /\ MaxEvents \in Nat /\ MaxLost \in Nat
    /\ Server \notin Grant

Aggregate == Grant \cup {Server}
\* The keys of the token cache: Grant.CacheKey.  The tokens discovery uses
\* are cached apart and may be requested at any time; they are left out.
Key == Grant

VARIABLES
    outbox,     \* the entries in the order (transaction_id, offset)
    acked,      \* the consumer group's position
    inflight,   \* the entry published and not acknowledged (0: none)
    stream,     \* the messages, by outbox entry
    window,     \* the entry to publish again whose id the stream remembers (0: none)
    run,        \* each consumer: "off", "running", "canceled", "done"
    at,         \* the next message of its subscription (0: none)
    doing,      \* the entry it admitted and has not applied (0: none)
    gate,       \* RevisionGate.last
    cache,      \* the keys of the cached tokens
    fetch,      \* each call: its grant's key and whether it requests a token
    overtaken,  \* calls whose key was evicted since they were recorded (history)
    late,       \* keys whose cached token was stored by an overtaken call (history)
    told,       \* entries a consumer took from the stream
    applied,    \* entries whose eviction was done
    failed,     \* entries admitted whose handling failed
    lost        \* how often something was lost

published == <<outbox, acked, inflight, stream, window>>
consumed == <<at, doing, gate, told, applied, failed>>
tokens == <<cache, fetch, overtaken, late>>
projVars == <<published, run, consumed, tokens, lost>>

Entry == 1 .. MaxEvents
\* The committed entries; retention deletes rows, the history keeps them.
Sent == {i \in 1 .. Len(outbox) : outbox[i].state \in {"committed", "deleted"}}
Of(a) == {i \in Sent : outbox[i].of = a}
-----------------------------------------------------------------------------
(* The owner's transactions.                                               *)

\* A transaction that will publish takes its id with its first row lock.  A
\* grant's row lock is that of its event; two descriptors of one server are
\* locked apart, and their transactions meet only at the event revision.
BeginEvent(a) ==
    /\ Len(outbox) < MaxEvents
    /\ a \in Grant => /\ \A i \in 1 .. Len(outbox) : ~ (outbox[i].of = a /\ outbox[i].state = "open")
                      /\ Cardinality(Of(a)) < 2
    /\ outbox' = Append(outbox, [of |-> a, n |-> 0, evicts |-> FALSE, state |-> "open"])
    /\ UNCHANGED <<acked, inflight, stream, window, run, consumed, tokens, lost>>

\* Publish in the transaction, and its commit.  Every grant event withdraws;
\* a catalog event does when the revision was disabled or rejected.
CommitEvent(i) ==
    /\ outbox[i].state = "open"
    /\ \E e \in BOOLEAN :
          /\ outbox[i].of \in Grant => e
          /\ outbox' = [outbox EXCEPT ![i] = [of |-> @.of, n |-> Cardinality(Of(@.of)) + 1, evicts |-> e, state |-> "committed"]]
    /\ UNCHANGED <<acked, inflight, stream, window, run, consumed, tokens, lost>>

AbortEvent(i) ==
    /\ outbox[i].state = "open"
    /\ outbox' = [outbox EXCEPT ![i].state = "aborted"]
    /\ UNCHANGED <<acked, inflight, stream, window, run, consumed, tokens, lost>>

\* A plausible error: retention by age alone.
RetainOld ==
    /\ \E i \in 1 .. Len(outbox) : outbox[i].state = "committed"
    /\ outbox' = [i \in DOMAIN outbox |->
          IF outbox[i].state = "committed" THEN [outbox[i] EXCEPT !.state = "deleted"] ELSE outbox[i]]
    /\ UNCHANGED <<acked, inflight, stream, window, run, consumed, tokens, lost>>

\* Retain deletes rows at or before the group's position.
Retain ==
    /\ \E i \in 1 .. acked : outbox[i].state = "committed"
    /\ outbox' = [i \in DOMAIN outbox |->
          IF i <= acked /\ outbox[i].state = "committed" THEN [outbox[i] EXCEPT !.state = "deleted"] ELSE outbox[i]]
    /\ UNCHANGED <<acked, inflight, stream, window, run, consumed, tokens, lost>>
-----------------------------------------------------------------------------
(* The forwarder.                                                          *)

\* A plausible error: entries are read past a transaction still open.
ReadableAny == {i \in acked + 1 .. Len(outbox) : outbox[i].state = "committed"}

\* What the subscriber reads: entries after the position whose transactions
\* are older than every open one.
Readable == {i \in acked + 1 .. Len(outbox) :
                outbox[i].state = "committed" /\ \A j \in 1 .. i : outbox[j].state # "open"}

\* The first of them is published under its event id, which a stream that
\* remembers it absorbs.
Forward ==
    /\ inflight = 0 /\ Readable # {}
    /\ LET i == CHOOSE x \in Readable : \A y \in Readable : x <= y
       IN /\ inflight' = i
          /\ stream' = IF i = window THEN stream ELSE Append(stream, i)
          /\ window' = 0
    /\ UNCHANGED <<outbox, acked, run, consumed, tokens, lost>>

Ack ==
    /\ inflight # 0
    /\ acked' = inflight /\ inflight' = 0
    /\ UNCHANGED <<outbox, stream, window, run, consumed, tokens, lost>>

\* The forwarder ends, or its deadline passes, before the acknowledgement:
\* the row lock is released and the position stays.  The duplicate window may
\* pass before the next attempt.
LoseAck ==
    /\ inflight # 0 /\ lost < MaxLost
    /\ inflight' = 0 /\ lost' = lost + 1
    /\ window' \in {inflight, 0}
    /\ UNCHANGED <<outbox, acked, stream, run, consumed, tokens>>
-----------------------------------------------------------------------------
(* The consumers.                                                          *)

\* Consume: an ordered consumer from the newest message on.
Subscribe(c) ==
    /\ run[c] = "running" /\ at[c] = 0
    /\ at' = [at EXCEPT ![c] = Len(stream) + 1]
    /\ UNCHANGED <<published, run, doing, gate, told, applied, failed, tokens, lost>>

\* The subscription closes; Consume makes a new one.
Unsubscribe(c) ==
    /\ at[c] # 0 /\ run[c] = "running" /\ lost < MaxLost
    /\ at' = [at EXCEPT ![c] = 0] /\ lost' = lost + 1
    /\ UNCHANGED <<published, run, doing, gate, told, applied, failed, tokens>>

\* A plausible error: the gate's key leaves out the aggregate's identity.
StaleOfType(e) == \E a \in DOMAIN gate : e.n <= gate[a]

\* RevisionGate.Admit.
Stale(e) == e.of \in DOMAIN gate /\ e.n <= gate[e.of]

\* A plausible error: the gate keeps every aggregate.
AdmittedUnlimited(e) == [a \in DOMAIN gate \cup {e.of} |-> IF a = e.of THEN e.n ELSE gate[a]]

\* It records the revision; at its limit it forgets the others first.
Admitted(e) ==
    LET kept == IF Cardinality(DOMAIN gate) >= GateLimit THEN {} ELSE DOMAIN gate
    IN [a \in kept \cup {e.of} |-> IF a = e.of THEN e.n ELSE gate[a]]

\* Apply up to the read of the owner's record.  The read of a consumer whose
\* context has ended fails: the revision stays admitted.
Apply(c) ==
    /\ run[c] \in {"running", "canceled"} /\ doing[c] = 0
    /\ at[c] \in 1 .. Len(stream)
    /\ LET i == stream[at[c]]
           admit == ~ Stale(outbox[i])
       IN /\ at' = [at EXCEPT ![c] = @ + 1]
          /\ told' = told \cup {i}
          /\ gate' = IF admit THEN Admitted(outbox[i]) ELSE gate
          /\ doing' = IF admit /\ outbox[i].evicts /\ run[c] = "running" THEN [doing EXCEPT ![c] = i] ELSE doing
          /\ failed' = IF admit /\ outbox[i].evicts /\ run[c] = "canceled" THEN failed \cup {i} ELSE failed
    /\ UNCHANGED <<published, run, applied, tokens, lost>>

\* A plausible error: the withdrawn server's tokens are dropped, not the grant's.
EvictedByResource(e) == IF e.of = Server THEN Key ELSE {}

\* EvictResource drops the tokens of the server's grants, EvictGrant its own.
EvictedBy(e) == IF e.of = Server THEN Key ELSE {e.of}

Evict(c) ==
    /\ doing[c] # 0
    /\ LET keys == EvictedBy(outbox[doing[c]])
       IN /\ cache' = cache \ keys
          /\ late' = late \ keys
          /\ overtaken' = overtaken \cup {f \in Fetcher : fetch[f].key \in keys}
    /\ applied' = applied \cup {doing[c]}
    /\ doing' = [doing EXCEPT ![c] = 0]
    /\ UNCHANGED <<published, run, at, gate, told, failed, fetch, lost>>

\* The read fails: the generation retired, or the database did not answer.
FailRead(c) ==
    /\ doing[c] # 0
    /\ run[c] = "running" => lost < MaxLost
    /\ lost' = IF run[c] = "running" THEN lost + 1 ELSE lost
    /\ failed' = failed \cup {doing[c]}
    /\ doing' = [doing EXCEPT ![c] = 0]
    /\ UNCHANGED <<published, run, at, gate, told, applied, tokens>>
-----------------------------------------------------------------------------
(* The tokens.                                                             *)

NoCall == [pc |-> "none", key |-> None]

\* Create records a call under its grant's share lock, while no revocation of
\* the grant has committed: the last check of its state before the token.
RecordCall(f, g) ==
    /\ fetch[f] = NoCall /\ Of(g) = {}
    /\ fetch' = [fetch EXCEPT ![f] = [pc |-> "recorded", key |-> g]]
    /\ UNCHANGED <<published, run, consumed, cache, overtaken, late, lost>>

\* send, any time later, reads the grant whatever its state and asks for a
\* token: none is cached, or it is about to expire.
RequestToken(f) ==
    /\ fetch[f].pc = "recorded"
    /\ fetch' = [fetch EXCEPT ![f].pc = "requesting"]
    /\ UNCHANGED <<published, run, consumed, cache, overtaken, late, lost>>

CallDone(f) ==
    /\ fetch' = [fetch EXCEPT ![f] = NoCall]
    /\ overtaken' = overtaken \ {f}
    /\ UNCHANGED <<published, run, consumed, lost>>

\* The call needs no new token: it uses a cached one, or is not admitted.
LeaveToken(f) ==
    /\ fetch[f].pc = "recorded"
    /\ CallDone(f) /\ UNCHANGED <<cache, late>>

\* The authorization server answers: stored, or refused by a check.
StoreToken(f) ==
    /\ fetch[f].pc = "requesting"
    /\ LET g == fetch[f].key
       IN \/ /\ cache' = cache \cup {g}
             /\ late' = IF f \in overtaken THEN late \cup {g} ELSE late \ {g}
          \/ UNCHANGED <<cache, late>>
    /\ CallDone(f)
-----------------------------------------------------------------------------
ProjInit ==
    /\ outbox = <<>> /\ acked = 0 /\ inflight = 0 /\ stream = <<>> /\ window = 0
    /\ run = [c \in Consumer |-> "off"]
    /\ at = [c \in Consumer |-> 0] /\ doing = [c \in Consumer |-> 0]
    /\ gate = [a \in {} |-> 0]
    /\ told = {} /\ applied = {} /\ failed = {} /\ lost = 0
    /\ cache = {} /\ fetch = [f \in Fetcher |-> NoCall] /\ overtaken = {} /\ late = {}

Owner == Retain \/ (\E a \in Aggregate : BeginEvent(a)) \/ \E i \in 1 .. Len(outbox) : CommitEvent(i) \/ AbortEvent(i)
Forwarding == Forward \/ Ack \/ LoseAck
Consuming(c) == Subscribe(c) \/ Unsubscribe(c) \/ Apply(c) \/ Evict(c) \/ FailRead(c)
Fetching(f) == RequestToken(f) \/ LeaveToken(f) \/ StoreToken(f) \/ \E g \in Grant : RecordCall(f, g)

ProjNext ==
    \/ Owner \/ Forwarding
    \/ \E c \in Consumer : Consuming(c)
    \/ \E f \in Fetcher : Fetching(f)

\* Transactions end, and some replica's forwarder runs.
ProjFairness ==
    /\ \A i \in Entry : WF_projVars(i <= Len(outbox) /\ (CommitEvent(i) \/ AbortEvent(i)))
    /\ WF_projVars(Forward) /\ WF_projVars(Ack)
-----------------------------------------------------------------------------
(* Properties.                                                             *)

\* Every variable keeps its type.
ProjTypeOK ==
    /\ Len(outbox) <= MaxEvents /\ acked \in 0 .. Len(outbox) /\ inflight \in 0 .. Len(outbox)
    /\ \A i \in 1 .. Len(outbox) : outbox[i].of \in Aggregate /\ outbox[i].n \in 0 .. MaxEvents
    /\ Range(stream) \subseteq Sent
    /\ \A c \in Consumer : at[c] \in 0 .. Len(stream) + 1 /\ doing[c] \in 0 .. Len(outbox)
    /\ Cardinality(DOMAIN gate) <= GateLimit
    /\ cache \subseteq Key /\ late \subseteq cache

\* The position passes no event that is not on the stream: a transaction
\* that commits late is never overtaken by the forwarder, and retention
\* deletes nothing that is still to be sent (forwarder.go:43-50,
\* retention.go:20-27).
AckedIsOnStream == \A i \in Sent : (i <= acked \/ outbox[i].state = "deleted") => i \in Range(stream)

\* Every event a consumer took has its effect: the eviction it asks for is
\* done, under way or failed, or a later event of its aggregate was taken.
\* Gaps, duplicates, two consumers of two generations and a gate that forgot
\* its revisions change nothing in that (projection.go:25-31, 132-191).
TakenIsApplied ==
    \A i \in told : outbox[i].evicts =>
        \/ i \in applied \cup failed
        \/ \E c \in Consumer : doing[c] = i
        \/ \E j \in told : outbox[j].of = outbox[i].of /\ outbox[j].n > outbox[i].n

\* After the eviction of a revoked grant's tokens, the only token that can
\* be in the cache again is that of a call recorded before the eviction, which
\* may have begun its request before or after it; a call recorded later never
\* brings one back (projection.go:59-66, calls.go:330, oauth.go:190-262).
EvictedStaysOut ==
    \A g \in Grant \cap cache : (\E i \in applied : outbox[i].of = g) => g \in late

\* Every committed event reaches the stream in the end, whatever
\* acknowledgements are lost (forwarder.go:43-50).
ForwardedInTheEnd == \A i \in Entry : (i \in Sent) ~> (i \in Range(stream))
=============================================================================
