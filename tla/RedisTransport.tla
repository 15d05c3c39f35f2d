--------------------------- MODULE RedisTransport ---------------------------
(***************************************************************************)
(* RedisTransport of pkg/events/transport_redis.go under the Bus: callers  *)
(* that publish, subscribe and close, and one consume goroutine for each   *)
(* subscription.  The mutex covers t.closed, t.subs and the registration   *)
(* of a worker; the calls to Redis, the closing of the PubSubs and the     *)
(* callbacks run outside it.  A callback may itself use the bus: it is     *)
(* then a caller on the goroutine of its subscription.                     *)
(*                                                                         *)
(* External: the server and go-redis.  A message reaches any subset of the *)
(* open PubSubs of its topic, in the order the server took it; PubSub's    *)
(* channel keeps what it received after it is closed.                      *)
(***************************************************************************)
EXTENDS Envelope, Integers, Sequences, FiniteSets

CONSTANTS
    Callers,        \* goroutines of the service
    CallbackOps,    \* which of "publish", "subscribe", "close" callbacks do
    MaxSent         \* bound: the messages

ASSUME RedisTransportAssumption ==
    /\ Callers \cap Subs = {} /\ IsFiniteSet(Subs)
    /\ CallbackOps \subseteq {"publish", "subscribe", "close"}
    /\ MaxSent \in Nat

VARIABLES
    closed,         \* t.closed; the context is cancelled in the same section
    subs,           \* t.subs
    workers,        \* the WaitGroup's counter
    clientOpen,     \* whether t.client is not closed yet
    pubsub,         \* pubsub[s]: "none", "open" or "closed"
    channel,        \* channel[s]: positions in sent, received and not taken
    worker,         \* worker[s]: the consume goroutine of s
    pc,             \* pc[g]: where a goroutine is in a call to the transport
    operand,        \* operand[g]: the message, subscription or PubSubs of it
    sent,           \* what the server took, in order
    got             \* got[s]: what the handler of s was called with, in order

vars == <<closed, subs, workers, clientOpen, pubsub, channel, worker, pc,
          operand, sent, got>>

state == <<closed, subs, workers, clientOpen>>
delivery == <<pubsub, channel, worker, sent, got>>

Goroutines == Callers \cup Subs

Positions == 1 .. MaxSent

Labels == {"idle", "spawn", "send", "resend", "pubsubs", "wait", "client"}

TypeOK ==
    /\ closed \in BOOLEAN /\ clientOpen \in BOOLEAN
    /\ subs \subseteq Subs /\ workers \in 0 .. Cardinality(Subs)
    /\ pubsub \in [Subs -> {"none", "open", "closed"}]
    /\ channel \in [Subs -> Seq(Positions)] /\ got \in [Subs -> Seq(Positions)]
    /\ worker \in [Subs -> {"none", "select", "callback", "done"}]
    /\ pc \in [Goroutines -> Labels]
    /\ sent \in Seq(Messages)

Init ==
    /\ closed = FALSE /\ subs = {} /\ workers = 0 /\ clientOpen = TRUE
    /\ pubsub = [s \in Subs |-> "none"]
    /\ channel = [s \in Subs |-> <<>>]
    /\ worker = [s \in Subs |-> "none"]
    /\ pc = [g \in Goroutines |-> "idle"]
    /\ operand = [g \in Goroutines |-> {}]
    /\ sent = <<>>
    /\ got = [s \in Subs |-> <<>>]

\* g is not in a call and may make one: a callback only while it runs.
MayCall(g, op) ==
    /\ pc[g] = "idle"
    /\ g \in Subs => worker[g] = "callback" /\ op \in CallbackOps

At(g, label, x) ==
    /\ pc' = [pc EXCEPT ![g] = label]
    /\ operand' = [operand EXCEPT ![g] = x]

Done(g) == At(g, "idle", {})

-----------------------------------------------------------------------------
(* Subscribe.                                                              *)

\* Faulty: the worker is registered before t.closed is looked at.
SubscribeAddingFirst(g) ==
    /\ MayCall(g, "subscribe") /\ workers < Cardinality(Subs)
    /\ workers' = workers + 1
    /\ \/ closed /\ UNCHANGED <<subs, pubsub, pc, operand>>
       \/ /\ ~closed
          /\ \E s \in Subs :
                /\ pubsub[s] = "none"
                /\ pubsub' = [pubsub EXCEPT ![s] = "open"]
                /\ subs' = subs \cup {s}
                /\ At(g, "spawn", {s})
    /\ UNCHANGED <<closed, clientOpen, channel, worker, sent, got>>

\* Faulty: the worker is not registered with the WaitGroup.
SubscribeNoAdd(g) ==
    /\ MayCall(g, "subscribe") /\ ~closed
    /\ \E s \in Subs :
          /\ pubsub[s] = "none"
          /\ pubsub' = [pubsub EXCEPT ![s] = "open"]
          /\ subs' = subs \cup {s}
          /\ At(g, "spawn", {s})
    /\ UNCHANGED <<closed, workers, clientOpen, channel, worker, sent, got>>

\* The section under the mutex; a closed transport refuses.
Subscribe(g) ==
    /\ MayCall(g, "subscribe") /\ ~closed
    /\ \E s \in Subs :
          /\ pubsub[s] = "none"
          /\ pubsub' = [pubsub EXCEPT ![s] = "open"]
          /\ subs' = subs \cup {s}
          /\ workers' = workers + 1
          /\ At(g, "spawn", {s})
    /\ UNCHANGED <<closed, clientOpen, channel, worker, sent, got>>

\* go t.consume(...)
Spawn(g) ==
    /\ pc[g] = "spawn"
    /\ worker' = [s \in Subs |->
                    IF s \in operand[g] THEN "select" ELSE worker[s]]
    /\ Done(g)
    /\ UNCHANGED <<state, pubsub, channel, sent, got>>

-----------------------------------------------------------------------------
(* Publish.                                                                *)

\* The check under the mutex; a closed transport refuses.
Publish(g) ==
    /\ MayCall(g, "publish") /\ ~closed
    /\ \E topic \in Topics, tenant \in Tenants \cup {NoTenant} :
          At(g, "send", Finalised(topic, tenant))
    /\ UNCHANGED <<state, delivery>>

\* The server takes m and forwards it to some open PubSubs of its topic.
Forward(m) ==
    /\ Len(sent) < MaxSent
    /\ sent' = Append(sent, m)
    /\ \E R \in SUBSET {s \in Subs : pubsub[s] = "open" /\ TopicOf[s] = m.topic} :
          channel' = [s \in Subs |->
              IF s \in R THEN Append(channel[s], Len(sent) + 1) ELSE channel[s]]

\* PUBLISH, outside the mutex: the transport may have been closed since the
\* check.  It fails on a closed client, may fail in any case, and a command
\* under way when the context is cancelled may still reach the server.
Send(g) ==
    /\ pc[g] = "send"
    /\ \/ /\ clientOpen /\ Forward(operand[g])
          /\ Done(g) \/ At(g, "resend", operand[g])
       \/ Done(g) /\ UNCHANGED <<sent, channel>>
    /\ UNCHANGED <<state, pubsub, worker, got>>

\* The server took the command but its answer was lost: go-redis sends it
\* again, until it is answered or the attempts are used up.
Resend(g) ==
    /\ pc[g] = "resend"
    /\ \/ /\ clientOpen /\ Forward(operand[g])
          /\ Done(g) \/ UNCHANGED <<pc, operand>>
       \/ Done(g) /\ UNCHANGED <<sent, channel>>
    /\ UNCHANGED <<state, pubsub, worker, got>>

\* Another service publishes something that is no envelope, or one without a
\* tenant, which decodes.
ForeignPublish ==
    /\ \E topic \in Topics, tenant \in {NoTenant, Malformed} :
          Forward([topic |-> topic, tenant |-> tenant])
    /\ clientOpen
    /\ UNCHANGED <<state, pubsub, worker, pc, operand, got>>

-----------------------------------------------------------------------------
(* Close.                                                                  *)

\* The section under the mutex.  A transport that is closed, or still being
\* closed by another goroutine, is left as it is.
Close(g) ==
    /\ MayCall(g, "close")
    /\ \/ closed /\ UNCHANGED <<closed, subs, pc, operand>>
       \/ /\ ~closed /\ closed' = TRUE
          /\ At(g, "pubsubs", subs) /\ subs' = {}
    /\ UNCHANGED <<workers, clientOpen, delivery>>

ClosePubSub(g) ==
    /\ pc[g] = "pubsubs"
    /\ \/ \E s \in operand[g] :
             /\ pubsub' = [pubsub EXCEPT ![s] = "closed"]
             /\ At(g, "pubsubs", operand[g] \ {s})
       \/ operand[g] = {} /\ At(g, "wait", {}) /\ UNCHANGED pubsub
    /\ UNCHANGED <<state, channel, worker, sent, got>>

\* Faulty: the client is closed without waiting for the workers.
WaitForNobody(g) ==
    /\ pc[g] = "wait"
    /\ At(g, "client", {})
    /\ UNCHANGED <<state, delivery>>

\* t.workers.Wait()
Wait(g) ==
    /\ pc[g] = "wait" /\ workers = 0
    /\ At(g, "client", {})
    /\ UNCHANGED <<state, delivery>>

CloseClient(g) ==
    /\ pc[g] = "client"
    /\ clientOpen' = FALSE
    /\ Done(g)
    /\ UNCHANGED <<closed, subs, workers, delivery>>

-----------------------------------------------------------------------------
(* consume.                                                                *)

\* Faulty: the newest message first.
TakeLast(s) ==
    /\ worker[s] = "select" /\ channel[s] # <<>>
    /\ LET n == Len(channel[s]) IN
        /\ channel' = [channel EXCEPT ![s] = SubSeq(@, 1, n - 1)]
        /\ got' = [got EXCEPT ![s] = Append(@, channel[s][n])]
    /\ worker' = [worker EXCEPT ![s] = "callback"]
    /\ UNCHANGED <<state, pubsub, pc, operand, sent>>

\* The select takes a message, even if the context is done as well, and the
\* callback of Bus.Subscribe looks whether it is one for its handler.
Take(s) ==
    /\ worker[s] = "select" /\ channel[s] # <<>>
    /\ worker' = [worker EXCEPT ![s] = "callback"]
    /\ channel' = [channel EXCEPT ![s] = Tail(@)]
    /\ got' = [got EXCEPT ![s] =
          IF Handles(s, sent[Head(channel[s])])
          THEN Append(@, Head(channel[s])) ELSE @]
    /\ UNCHANGED <<state, pubsub, pc, operand, sent>>

CallbackReturns(s) ==
    /\ worker[s] = "callback" /\ pc[s] = "idle"
    /\ worker' = [worker EXCEPT ![s] = "select"]
    /\ UNCHANGED <<state, pubsub, channel, pc, operand, sent, got>>

\* The context is done, or the channel is closed and empty.
Exit(s) ==
    /\ worker[s] = "select"
    /\ closed \/ (pubsub[s] = "closed" /\ channel[s] = <<>>)
    /\ worker' = [worker EXCEPT ![s] = "done"]
    /\ workers' = workers - 1
    /\ UNCHANGED <<closed, subs, clientOpen, pubsub, channel, pc, operand,
                   sent, got>>

-----------------------------------------------------------------------------

CallStep(g) ==
    Spawn(g) \/ Send(g) \/ Resend(g) \/ ClosePubSub(g) \/ Wait(g) \/ CloseClient(g)

Next ==
    \/ \E g \in Goroutines :
          Subscribe(g) \/ Publish(g) \/ Close(g) \/ CallStep(g)
    \/ ForeignPublish
    \/ \E s \in Subs : Take(s) \/ CallbackReturns(s) \/ Exit(s)

Spec == Init /\ [][Next]_vars

\* Goroutines run, calls under way go on, callbacks return, and a select one
\* of whose cases stays ready takes it.
FairSpec ==
    /\ Spec
    /\ \A g \in Goroutines : WF_vars(CallStep(g))
    /\ \A s \in Subs : WF_vars(CallbackReturns(s)) /\ WF_vars(Exit(s))

-----------------------------------------------------------------------------

\* transport_redis.go:96, Close "closes every live PubSub (which unblocks each
\* consume goroutine), waits for the goroutines to exit, and then closes the
\* underlying client": a closed client has no callback running or to come and
\* no PubSub left open, whatever Subscribe raced with Close.
ReleasedTogether == ~clientOpen => \A s \in Subs :
    \/ pubsub[s] = "none"
    \/ pubsub[s] = "closed" /\ worker[s] = "done"

\* A handler sees messages in the order the server took them, each once for
\* each time that it took it, also those it takes while the transport closes.
InOrder == \A s \in Subs : \A i, j \in 1 .. Len(got[s]) :
    i < j => got[s][i] < got[s][j]

\* transport_redis.go:96, the same sentence: a Close that began gets as far as
\* the client, callbacks that use the bus included.  It does if none of them
\* closes the bus: Close waits for the goroutine it then runs on.
CloseCompletes == closed ~> ~clientOpen

\* The bus over this transport, quiet once the client is closed.
Promised == INSTANCE EventBus
    WITH shut <- ~clientOpen, Quiet <- TRUE, handled <- got

ImplementsEventBus == Promised!Spec

=============================================================================
