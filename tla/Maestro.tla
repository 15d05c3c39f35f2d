------------------------------- MODULE Maestro -------------------------------
(***************************************************************************)
(* The durable bus of pkg/maestro: callers that build a Producer and       *)
(* Announce through it (producer.go), the Maestro broker, and the replicas *)
(* of a service that consumes (handler.go), each with a Registry that is   *)
(* filled while or before ConsumeHandlerFunc is mounted.  Each request     *)
(* runs on a goroutine of its replica.                                     *)
(*                                                                         *)
(* External: the broker.  As handler.go and its tests describe it, it      *)
(* delivers an event to some replica, again and again until an answer says *)
(* that it is consumed or makes it drop the event; where they disagree on  *)
(* what does, it may do either.  It may give up on an answer and deliver   *)
(* again while a handler still runs.  It answers 401 to a request without  *)
(* a token that is addressed to it.                                        *)
(***************************************************************************)
EXTENDS Integers, Sequences, FiniteSets, Producer

CONSTANTS
    Producers,
    Checked,      \* those that are built WithAudienceCheck
    Sources,      \* the tokens that are minted for the check ...
    Credentials,  \* ... and for the clients
    Intents,      \* what the callers want to announce
    Names,        \* event names
    NameOf,       \* NameOf[x]: the name of the event x announces
    Handled,      \* the names the service registers handlers for
    Undecodable,  \* the names of events whose request body does not decode
    Accepting,    \* the broker's replies to an announcement it accepts
    Refusing,     \* and to one it does not
    Outcomes,     \* how handlers end: nil, an ErrUnknownEvent, another error
    Replicas,
    Goroutines,   \* bound: the requests processed at a time ...
    ReplicaOf,    \* ... and ReplicaOf[g], where
    Idle,         \* a goroutine without a request
    MaxEvents,    \* bound: the announcements that are accepted
    MaxFaults     \* bound: failing handlers, lost answers and crashes

ASSUME MaestroAssumption ==
    /\ Checked \subseteq Producers
    /\ NameOf \in [Intents -> Names]
    /\ Handled \subseteq Names /\ Undecodable \subseteq Names
    /\ Sources \subseteq Tokens /\ Credentials \subseteq Tokens
    /\ Accepting \subseteq Replies /\ Refusing \subseteq Replies
    /\ \A m \in Refusing : m.success # "true"
    /\ "nil" \in Outcomes /\ Outcomes \subseteq {"nil", "error", "unknown"}
    /\ ReplicaOf \in [Goroutines -> Replicas]
    /\ MaxEvents \in Nat /\ MaxFaults \in Nat

VARIABLES
    source,       \* source[p]: what the TokenSource of the check mints
    credential,   \* credential[p]: the token p's http.Client attaches, if any
    producer,     \* producer[p]: whether NewProducer was called and refused
    minted,       \* minted[p]: the token the check saw, of history only
    denied,       \* the producers denied with that very token, of history only
    unheard,      \* the intents whose acceptance was not heard of, of history only
    muted,        \* those refused in a reply without the flag, of history only
    announced,    \* the intents for which Announce returned no error
    events,       \* what the broker accepted: an intent and what became of it
    registry,     \* registry[r]: the names with a handler in r's Registry
    serving,      \* the replicas that have mounted /consume_event
    job,          \* job[g]: the request a goroutine is at
    consumed,     \* the events some handler returned nil for
    missed,       \* those a Dispatch had no handler for, of history only
    disowned,     \* those a handler returned ErrUnknownEvent for, of history only
    faults        \* how many faults happened

producing == <<source, credential, producer, minted, denied, unheard,
               muted>>
handling == <<consumed, missed, disowned>>
consuming == <<registry, serving, job, handling>>
vars == <<producing, announced, events, consuming, faults>>

Jobs == [step: {"received", "running", "answered"}, event: 1 .. MaxEvents,
         outcome: Outcomes \cup {"none", "undecodable", "unregistered"}]

Name(i) == NameOf[events[i].intent]

Init ==
    /\ source \in [Producers -> Sources]
    /\ credential \in [Producers -> Credentials \cup {NoToken}]
    /\ producer = [p \in Producers |-> "none"]
    /\ minted = [p \in Producers |-> NoToken]
    /\ denied = {} /\ unheard = {} /\ muted = {}
    /\ announced = {}
    /\ events = <<>>
    /\ registry = [r \in Replicas |-> {}] /\ serving = {}
    /\ job = [g \in Goroutines |-> Idle]
    /\ consumed = {} /\ missed = {} /\ disowned = {}
    /\ faults = 0

Fault == faults < MaxFaults /\ faults' = faults + 1

-----------------------------------------------------------------------------
(* Announcing.                                                             *)

\* NewProducer: with a TokenSource to check, it mints one token and refuses to
\* build if that is not addressed to maestro.  What the client will attach is
\* not looked at.  A service that was refused dies and tries again when it is
\* restarted.
NewProducer(p) ==
    /\ producer[p] # "built"
    /\ minted' = IF p \in Checked THEN [minted EXCEPT ![p] = source[p]] ELSE minted
    /\ producer' = [producer EXCEPT ![p] =
          IF p \in Checked /\ ~VerifyAudience(source[p]) THEN "refused" ELSE "built"]
    /\ UNCHANGED <<source, credential, denied, unheard, muted, announced,
                   events, consuming, faults>>

\* The audiences of the client change, and with them the tokens it mints: for
\* the source, which nobody asks any more once the producer is built, for the
\* client or for both.
TokensChange(p) ==
    /\ Fault
    /\ IF producer[p] = "built" THEN UNCHANGED source
       ELSE \E t \in Sources : source' = [source EXCEPT ![p] = t]
    /\ \/ UNCHANGED credential
       \/ \E t \in Credentials : credential' = [credential EXCEPT ![p] = t]
    /\ UNCHANGED <<producer, minted, denied, unheard, muted, announced,
                   events, consuming>>

\* The tokens maestro takes: their aud is a string or a list of strings, as
\* audience.go:127-129 has it from RFC 7519, with the audience it enforces.
Addressed(t) == t.kind \in {"string", "list"} /\ Audience \in t.audiences

\* The flag of a reply, which swagger.yaml does not require, is not there.
Mute(m) == HasJSON200(m) /\ m.success = "absent"

\* The broker accepts the event or refuses it, or does not hear of it; its
\* reply may be lost.  After an error the caller may announce again.
Announce(p, x) ==
    /\ producer[p] = "built" /\ Addressed(credential[p])
    /\ x \notin announced
    /\ \E m \in Accepting \cup Refusing \cup {Lost} :
          /\ \/ /\ m \in Accepting \cup {Lost} /\ Len(events) < MaxEvents
                /\ events' = Append(events, [intent |-> x, state |-> "pending"])
                /\ unheard' = IF m = Lost THEN unheard \cup {x} ELSE unheard
                /\ UNCHANGED muted
             \/ /\ m \in Refusing \cup {Lost}
                /\ muted' = IF Mute(m) THEN muted \cup {x} ELSE muted
                /\ UNCHANGED <<events, unheard>>
          /\ announced' = IF Succeeded(m) THEN announced \cup {x} ELSE announced
    /\ UNCHANGED <<source, credential, producer, minted, denied,
                   consuming, faults>>

Denial == [status |-> 401, json |-> TRUE, decodes |-> TRUE, success |-> "absent"]

\* The broker denies a request without a token that is addressed to it, and
\* Announce makes of the denial what it makes of every reply.
AnnounceDenied(p, x) ==
    /\ producer[p] = "built" /\ ~Addressed(credential[p])
    /\ x \notin announced
    /\ denied' = IF credential[p] = minted[p] THEN denied \cup {p} ELSE denied
    /\ announced' = IF Succeeded(Denial) THEN announced \cup {x} ELSE announced
    /\ UNCHANGED <<source, credential, producer, minted, unheard, muted,
                   events, consuming, faults>>

-----------------------------------------------------------------------------
(* Consuming.                                                              *)

Register(r, n) ==
    /\ n \in Handled \ registry[r]
    /\ registry' = [registry EXCEPT ![r] = @ \cup {n}]
    /\ UNCHANGED <<producing, announced, events, serving, job, handling, faults>>

\* ConsumeHandlerFunc is mounted, with whatever is registered so far.
Mount(r) ==
    /\ r \notin serving
    /\ serving' = serving \cup {r}
    /\ UNCHANGED <<producing, announced, events, registry, job, handling, faults>>

Deliver(g) ==
    /\ job[g] = Idle
    /\ ReplicaOf[g] \in serving
    /\ \E i \in 1 .. Len(events) :
          /\ events[i].state = "pending"
          /\ job' = [job EXCEPT ![g] = [step |-> "received", event |-> i,
                                        outcome |-> "none"]]
    /\ UNCHANGED <<producing, announced, events, registry, serving, handling, faults>>

Answered(g, outcome) ==
    job' = [job EXCEPT ![g].step = "answered", ![g].outcome = outcome]

\* The body is decoded, then Dispatch looks the handler up, under the lock.
Dispatch(g) ==
    /\ job[g] # Idle /\ job[g].step = "received"
    /\ LET name == Name(job[g].event) IN
        \/ /\ name \in Undecodable
           /\ Answered(g, "undecodable")
           /\ UNCHANGED missed
        \/ /\ name \notin Undecodable \cup registry[ReplicaOf[g]]
           /\ Answered(g, "unregistered")
           /\ missed' = missed \cup {job[g].event}
        \/ /\ name \in registry[ReplicaOf[g]] \ Undecodable
           /\ job' = [job EXCEPT ![g].step = "running"]
           /\ UNCHANGED missed
    /\ UNCHANGED <<producing, announced, events, registry, serving, consumed,
                   disowned, faults>>

\* The handler returns nil, or an error, perhaps one that wraps the
\* ErrUnknownEvent of something it called.
HandlerReturns(g) ==
    /\ job[g] # Idle /\ job[g].step = "running"
    /\ \E o \in Outcomes :
          /\ Answered(g, o)
          /\ consumed' = IF o = "nil" THEN consumed \cup {job[g].event} ELSE consumed
          /\ disowned' = IF o = "unknown" THEN disowned \cup {job[g].event}
                                          ELSE disowned
          /\ IF o = "nil" THEN UNCHANGED faults ELSE Fault
    /\ UNCHANGED <<producing, announced, events, registry, serving, missed>>

Answer(status, isConsumed, isErrored) ==
    [status |-> status, isConsumed |-> isConsumed, isErrored |-> isErrored]

\* Faulty: the flag of a success is set before the error is looked at.
ResponseConsumed(outcome) ==
    CASE outcome = "undecodable" -> Answer(400, FALSE, TRUE)
      [] outcome \in {"unregistered", "unknown"} -> Answer(404, FALSE, FALSE)
      [] outcome = "nil" -> Answer(200, TRUE, FALSE)
      [] OTHER -> Answer(500, TRUE, TRUE)

\* Faulty: every error of Dispatch is answered as an unknown event.
ResponseNotFound(outcome) ==
    CASE outcome = "undecodable" -> Answer(400, FALSE, TRUE)
      [] outcome = "nil" -> Answer(200, TRUE, FALSE)
      [] OTHER -> Answer(404, FALSE, FALSE)

\* Faulty: a handler that failed is not reported as such in the body.
ResponseUnerrored(outcome) ==
    CASE outcome = "undecodable" -> Answer(400, FALSE, TRUE)
      [] outcome \in {"unregistered", "unknown"} -> Answer(404, FALSE, FALSE)
      [] outcome = "nil" -> Answer(200, TRUE, FALSE)
      [] OTHER -> Answer(500, FALSE, FALSE)

\* The answer of ConsumeHandlerFunc.  errors.Is finds ErrUnknownEvent in the
\* error of a handler ("unknown") as well as in that of Dispatch itself.
Response(outcome) ==
    CASE outcome = "undecodable" -> Answer(400, FALSE, TRUE)
      [] outcome \in {"unregistered", "unknown"} -> Answer(404, FALSE, FALSE)
      [] outcome = "nil" -> Answer(200, TRUE, FALSE)
      [] OTHER -> Answer(500, FALSE, TRUE)

\* What the broker may make of an answer.  handler.go:137-144 has it go by the
\* status, handler_test.go:109 by isErrored; they disagree about a 400.
Decisions(answer) ==
    IF answer.isConsumed THEN {"settled"}
    ELSE {IF answer.status >= 500 THEN "pending" ELSE "dropped",
          IF answer.isErrored THEN "pending" ELSE "dropped"}

\* What is decided stays so.
BrokerReads(g) ==
    /\ job[g] # Idle /\ job[g].step = "answered"
    /\ \E d \in Decisions(Response(job[g].outcome)) :
          events' = [events EXCEPT ![job[g].event].state =
                        IF @ = "pending" THEN d ELSE @]
    /\ job' = [job EXCEPT ![g] = Idle]
    /\ UNCHANGED <<producing, announced, registry, serving, handling, faults>>

\* The answer is lost, or comes after the broker gave up on it.
AnswerLost(g) ==
    /\ job[g] # Idle /\ job[g].step = "answered" /\ Fault
    /\ job' = [job EXCEPT ![g] = Idle]
    /\ UNCHANGED <<producing, announced, events, registry, serving, handling>>

\* A replica dies with its requests and its registry, and starts again.
Crash(r) ==
    /\ registry[r] # {} \/ r \in serving
    /\ Fault
    /\ registry' = [registry EXCEPT ![r] = {}]
    /\ serving' = serving \ {r}
    /\ job' = [g \in Goroutines |->
                 IF ReplicaOf[g] = r THEN Idle ELSE job[g]]
    /\ UNCHANGED <<producing, announced, events, handling>>

-----------------------------------------------------------------------------

Startup(r) == Mount(r) \/ \E n \in Names : Register(r, n)
Request(g) == Dispatch(g) \/ HandlerReturns(g) \/ BrokerReads(g)

Next ==
    \/ \E p \in Producers : \/ NewProducer(p) \/ TokensChange(p)
                            \/ \E x \in Intents : Announce(p, x) \/ AnnounceDenied(p, x)
    \/ \E r \in Replicas : Startup(r) \/ Crash(r)
    \/ \E g \in Goroutines : Deliver(g) \/ Request(g) \/ AnswerLost(g)

Spec == Init /\ [][Next]_vars

DeliverEvent(i) ==
    \E g \in Goroutines : Deliver(g) /\ job'[g].event = i

\* Replicas come up, requests are worked off, and the broker, which has always
\* again a free goroutine to deliver to, does not forget an event.
FairSpec ==
    /\ Spec
    /\ \A r \in Replicas : WF_vars(Startup(r))
    /\ \A g \in Goroutines : WF_vars(Request(g))
    /\ \A i \in 1 .. MaxEvents : SF_vars(DeliverEvent(i))

-----------------------------------------------------------------------------

\* Types; a handler that runs is one its replica has.
TypeOK ==
    /\ source \in [Producers -> Sources]
    /\ credential \in [Producers -> Credentials \cup {NoToken}]
    /\ minted \in [Producers -> Sources \cup {NoToken}]
    /\ producer \in [Producers -> {"none", "built", "refused"}]
    /\ denied \subseteq Producers
    /\ unheard \subseteq Intents /\ muted \subseteq Intents
    /\ announced \subseteq Intents
    /\ events \in Seq([intent: Intents, state: {"pending", "settled", "dropped"}])
    /\ Len(events) <= MaxEvents
    /\ registry \in [Replicas -> SUBSET Handled] /\ serving \subseteq Replicas
    /\ job \in [Goroutines -> Jobs \cup {Idle}]
    /\ \A g \in Goroutines : job[g] # Idle =>
          /\ job[g].event <= Len(events)
          /\ job[g].step = "running" =>
                Name(job[g].event) \in registry[ReplicaOf[g]]
    /\ consumed \subseteq 1 .. MaxEvents /\ missed \subseteq 1 .. MaxEvents
    /\ disowned \subseteq 1 .. MaxEvents
    /\ faults \in 0 .. MaxFaults

\* producer.go:82-90: if the client attaches the very token that the check saw,
\* the producer is not denied with it, unless null stands in its list of
\* audiences; and the check refuses no token that maestro would take.
CheckIsExact == \A p \in Checked :
    /\ p \in denied => minted[p].kind = "listWithNull"
    /\ producer[p] = "refused" => ~Addressed(minted[p])

\* audience_test.go:233-237, "aud is specified as a string or an array of
\* strings; anything else is a credential we cannot fully read", and a list
\* that is mixed "is REFUSED even when it contains our audience".
CheckRefusesMalformed == \A p \in Checked :
    producer[p] = "built" => minted[p].kind \in {"string", "list"}

\* Announce returns no error only for an event the broker has, replies lost on
\* the way and repeated announcements included, or where the broker refused it
\* in a 200 without the flag.
AnnouncedOrMuted == \A x \in announced :
    x \in muted \/ \E i \in 1 .. Len(events) : events[i].intent = x

\* producer.go:180, "Success is defined as HTTP 200 AND response.Success == true":
\* Announce returns no error only for an event the broker has.
AnnouncedMeansAccepted == \A x \in announced :
    \E i \in 1 .. Len(events) : events[i].intent = x

\* producer.go:180, "callers can retry": the broker has an event twice only
\* where the acceptance of one of the announcements was not heard of, as Announce
\* takes every acceptance it hears of for a success.
TwiceOnlyIfUnheard == \A i, j \in 1 .. Len(events) :
    i # j /\ events[i].intent = events[j].intent => events[i].intent \in unheard

\* handler.go:45-47 and :122: an event is settled only after a handler returned
\* nil for it, whatever failed and crashed meanwhile on however many replicas.
SettledMeansConsumed == \A i \in 1 .. Len(events) :
    events[i].state = "settled" => i \in consumed

\* handler.go:137-144: the broker drops an event only if its body does not
\* decode, if a replica it was delivered to had no handler for it then, or if
\* a handler answered with an ErrUnknownEvent: for no other failure of a
\* handler, whether the broker goes by the status or by the flag.
DroppedForCause == \A i \in 1 .. Len(events) : events[i].state = "dropped" =>
    Name(i) \in Undecodable \/ i \in missed \cup disowned

\* handler.go:46-47, "Returning a non-nil error signals failure (HTTP 500 to
\* Maestro; the broker retries later)": no error of a handler drops an event.
HandlerErrorsAreRetried == \A i \in 1 .. Len(events) :
    events[i].state = "dropped" => Name(i) \in Undecodable \/ i \in missed

\* handler.go:111-114, a 404 is for "events we'll never consume": no event is
\* dropped that the service has a handler for.
OnlyForeignDropped == \A i \in 1 .. Len(events) :
    events[i].state = "dropped" => Name(i) \in Undecodable \/ Name(i) \notin Handled

\* producer.go:37, the "durable, retried" bus: an event that was announced
\* without an error and that the service has a handler for is, in the end,
\* consumed, or dropped because a replica had no handler yet or a handler
\* disowned it.
Delivered == \A x \in {y \in Intents : NameOf[y] \in Handled \ Undecodable} :
    x \in announced \ muted ~>
        \E i \in 1 .. Len(events) :
            /\ events[i].intent = x
            /\ \/ i \in consumed
               \/ events[i].state = "dropped" /\ i \in missed \cup disowned

=============================================================================
