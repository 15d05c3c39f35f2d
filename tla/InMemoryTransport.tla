------------------------- MODULE InMemoryTransport -------------------------
(***************************************************************************)
(* InMemoryTransport of pkg/events/transport_inmemory.go under the Bus.    *)
(* Publish copies the handlers of its topic under the read lock and calls  *)
(* them, one after the other, on the goroutine of its caller.  A handler   *)
(* may itself publish: its goroutine is then in several calls of Publish,  *)
(* a stack of frames: the position of the message in sent, the handlers    *)
(* that have not returned yet, and whether the first of them runs.         *)
(***************************************************************************)
EXTENDS Envelope, Integers, FiniteSets, Sequences, SequencesExt

CONSTANTS
    Callers,        \* the goroutines
    MaxSent         \* bound: the messages

ASSUME InMemoryTransportAssumption == MaxSent \in Nat

VARIABLES
    closed,
    handlers,       \* handlers[topic]: its subscriptions, as they came
    stack,          \* stack[c]: the calls of Publish c is in, innermost first
    sent,           \* the messages published, in the order of their copies
    chain,          \* chain[i]: the correlation of sent[i], named by a position
    audience,       \* audience[i]: the handlers copied for sent[i]
    got             \* got[s]: what the handler of s was called with, in order

vars == <<closed, handlers, stack, sent, chain, audience, got>>

Positions == 1 .. MaxSent

Frames == [at: Positions, left: Seq(Subs), inHandler: BOOLEAN]

TypeOK ==
    /\ closed \in BOOLEAN
    /\ handlers \in [Topics -> Seq(Subs)]
    /\ stack \in [Callers -> Seq(Frames)]
    /\ sent \in Seq([topic: Topics, tenant: Tenants])
    /\ chain \in Seq(Positions)
    /\ audience \in Seq(Seq(Subs))
    /\ Len(audience) = Len(sent) /\ Len(chain) = Len(sent)
    /\ got \in [Subs -> Seq(Positions)]

Init ==
    /\ closed = FALSE
    /\ handlers = [t \in Topics |-> <<>>]
    /\ stack = [c \in Callers |-> <<>>]
    /\ sent = <<>>
    /\ chain = <<>>
    /\ audience = <<>>
    /\ got = [s \in Subs |-> <<>>]

\* Subscribe, under the lock; a closed transport refuses.
Subscribe(s) ==
    /\ ~closed
    /\ \A t \in Topics : s \notin ToSet(handlers[t])
    /\ handlers' = [handlers EXCEPT ![TopicOf[s]] = Append(@, s)]
    /\ UNCHANGED <<closed, stack, sent, chain, audience, got>>

\* Faulty: Publish does not look whether the transport is closed.
EnterUnchecked(c, m, correlation) ==
    /\ Len(sent) < MaxSent
    /\ sent' = Append(sent, m)
    /\ chain' = Append(chain, Correlated(correlation, Len(sent) + 1))
    /\ audience' = Append(audience, handlers[m.topic])
    /\ stack' = [stack EXCEPT ![c] =
          <<[at |-> Len(sent) + 1, left |-> handlers[m.topic],
             inHandler |-> FALSE]>> \o @]
    /\ UNCHANGED <<closed, handlers, got>>

\* The section of Publish under the read lock; a closed transport refuses.
Enter(c, m, correlation) ==
    /\ ~closed /\ Len(sent) < MaxSent
    /\ sent' = Append(sent, m)
    /\ chain' = Append(chain, Correlated(correlation, Len(sent) + 1))
    /\ audience' = Append(audience, handlers[m.topic])
    /\ stack' = [stack EXCEPT ![c] =
          <<[at |-> Len(sent) + 1, left |-> handlers[m.topic],
             inHandler |-> FALSE]>> \o @]
    /\ UNCHANGED <<closed, handlers, got>>

Publish(c) ==
    /\ stack[c] = <<>>
    /\ \E topic \in Topics, tenant \in Tenants \cup {NoTenant} :
          Enter(c, Finalised(topic, tenant), 0)

\* Faulty: the Context of a handler has no tenant.
PublishBackWithoutTenant(c) ==
    /\ stack[c] # <<>> /\ Head(stack[c]).inHandler
    /\ LET frame == Head(stack[c])
           m == sent[frame.at]
       IN  /\ Handles(Head(frame.left), m)
           /\ \E topic \in Topics :
                 Enter(c, Finalised(topic, NoTenant), chain[frame.at])

\* The handler that runs on c publishes a follow-up with the Context it was
\* given, which has the tenant and the correlation of its envelope.
PublishBack(c) ==
    /\ stack[c] # <<>> /\ Head(stack[c]).inHandler
    /\ LET frame == Head(stack[c])
           m == sent[frame.at]
       IN  /\ Handles(Head(frame.left), m)
           /\ \E topic \in Topics :
                 Enter(c, Finalised(topic, m.tenant), chain[frame.at])

\* The innermost Publish of c calls its next callback, which looks whether the
\* message is one for its handler.
CallHandler(c) ==
    /\ stack[c] # <<>>
    /\ ~Head(stack[c]).inHandler /\ Head(stack[c]).left # <<>>
    /\ LET frame == Head(stack[c]) IN
        /\ got' = [got EXCEPT ![Head(frame.left)] =
              IF Handles(Head(frame.left), sent[frame.at])
              THEN Append(@, frame.at) ELSE @]
        /\ stack' = [stack EXCEPT ![c][1].inHandler = TRUE]
    /\ UNCHANGED <<closed, handlers, sent, chain, audience>>

\* Faulty: a Publish under way stops when the transport is closed.
HandlerReturnsToClosed(c) ==
    /\ stack[c] # <<>> /\ Head(stack[c]).inHandler
    /\ stack' = [stack EXCEPT ![c][1].inHandler = FALSE,
                              ![c][1].left = IF closed THEN <<>> ELSE Tail(@)]
    /\ UNCHANGED <<closed, handlers, sent, chain, audience, got>>

HandlerReturns(c) ==
    /\ stack[c] # <<>> /\ Head(stack[c]).inHandler
    /\ stack' = [stack EXCEPT ![c][1] =
          [at |-> @.at, left |-> Tail(@.left), inHandler |-> FALSE]]
    /\ UNCHANGED <<closed, handlers, sent, chain, audience, got>>

\* Faulty: Publish needs the open transport's lock again to return.
ReturnLocked(c) ==
    /\ stack[c] # <<>> /\ ~closed
    /\ ~Head(stack[c]).inHandler /\ Head(stack[c]).left = <<>>
    /\ stack' = [stack EXCEPT ![c] = Tail(@)]
    /\ UNCHANGED <<closed, handlers, sent, chain, audience, got>>

\* All handlers were called: Publish returns to its caller.
Return(c) ==
    /\ stack[c] # <<>>
    /\ ~Head(stack[c]).inHandler /\ Head(stack[c]).left = <<>>
    /\ stack' = [stack EXCEPT ![c] = Tail(@)]
    /\ UNCHANGED <<closed, handlers, sent, chain, audience, got>>

Close ==
    /\ closed' = TRUE
    /\ handlers' = [t \in Topics |-> <<>>]
    /\ UNCHANGED <<stack, sent, chain, audience, got>>

Step(c) == CallHandler(c) \/ HandlerReturns(c) \/ Return(c)

Next ==
    \/ \E c \in Callers : Publish(c) \/ PublishBack(c) \/ Step(c)
    \/ \E s \in Subs : Subscribe(s)
    \/ Close

Spec == Init /\ [][Next]_vars

\* A goroutine in Publish runs, and the handlers return.
FairSpec == Spec /\ \A c \in Callers : WF_vars(Step(c))

-----------------------------------------------------------------------------

Pending(i) == \E c \in Callers : \E d \in 1 .. Len(stack[c]) : stack[c][d].at = i

Times(s, i) == Cardinality({j \in 1 .. Len(got[s]) : got[s][j] = i})

\* transport_inmemory.go:30, "delivers data to every registered subscriber",
\* and :11, "serially, on the caller's goroutine, before returning": when a
\* Publish has returned, exactly the subscriptions it found whose tenant it is
\* for have handled the message, each once, although others subscribed, handlers
\* published in turn and the transport was closed under it.
FanOutComplete == \A i \in 1 .. Len(sent) : ~Pending(i) =>
    \A s \in Subs :
        Times(s, i) = IF /\ s \in ToSet(audience[i])
                         /\ FilterOf[s] \in {NoFilter, sent[i].tenant}
                      THEN 1 ELSE 0

\* bus.go:62-63 and envelope.go:46-49: what handlers publish in turn, at any
\* depth and on any goroutine, stays in the chain of the event that began it,
\* and a chain stays in its tenant.
ChainsKeepTenant == \A i \in 1 .. Len(sent) :
    /\ chain[i] <= i
    /\ chain[chain[i]] = chain[i]
    /\ sent[chain[i]].tenant = sent[i].tenant

\* The comment at :38, a handler that publishes back "cannot deadlock", nor can
\* a Subscribe or Close from elsewhere: every Publish returns, if the follow-ups
\* come to an end (here at MaxSent messages).
PublishReturns == \A c \in Callers : stack[c] # <<>> ~> stack[c] = <<>>

\* The bus over this transport.  It is not quiet: a Publish under way calls
\* the handlers it copied although the transport is closed.
Promised == INSTANCE EventBus
    WITH shut <- closed, Quiet <- FALSE, handled <- got

ImplementsEventBus == Promised!Spec

=============================================================================
