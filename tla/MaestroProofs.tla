---------------------------- MODULE MaestroProofs ----------------------------
(***************************************************************************)
(* What the consumers of a service promise about an event, for any events, *)
(* names, replicas and goroutines, however often it is delivered and       *)
(* whatever fails meanwhile.                                               *)
(***************************************************************************)
EXTENDS Maestro, SequenceTheorems, TLAPS

\* An acceptance always looks like a success.
AcceptancesSucceed == \A m \in Accepting : Succeeded(m)

\* What the broker has was announced without an error, or not heard of.
AcceptedIsKnown == \A i \in 1 .. Len(events) :
    events[i].intent \in announced \cup unheard

\* What became of a request is true.
JobsAreRight == \A g \in Goroutines : job[g] # Idle =>
    /\ job[g].outcome = "nil" => job[g].event \in consumed
    /\ job[g].outcome = "undecodable" => Name(job[g].event) \in Undecodable
    /\ job[g].outcome = "unregistered" => job[g].event \in missed
    /\ job[g].outcome = "unknown" => job[g].event \in disowned

\* The check decides by the token it saw.
CheckDecides == \A p \in Checked :
    /\ p \in denied => producer[p] = "built" /\ minted[p].kind = "listWithNull"
    /\ producer[p] = "built" => VerifyAudience(minted[p])
    /\ producer[p] = "refused" => ~VerifyAudience(minted[p])

IInv ==
    /\ TypeOK
    /\ CheckDecides
    /\ JobsAreRight
    /\ SettledMeansConsumed
    /\ DroppedForCause
    /\ AnnouncedOrMuted
    /\ AcceptancesSucceed => AcceptedIsKnown /\ TwiceOnlyIfUnheard

Entries == [intent: Intents, state: {"pending", "settled", "dropped"}]

\* audiencesOf reads the aud of a token as maestro does, but for null in a list.
LEMMA VerifiedIsAddressed ==
    ASSUME NEW t \in Tokens
    PROVE  /\ Addressed(t) => VerifyAudience(t)
           /\ VerifyAudience(t) => Addressed(t) \/ t.kind = "listWithNull"
BY DEF Tokens, VerifyAudience, HasAudiences, Addressed

\* What Announce takes for a success without the flag is mute.
LEMMA SucceededIsTrueOrMute ==
    ASSUME NEW m \in Replies \cup {Lost}, Succeeded(m)
    PROVE  m.success = "true" \/ Mute(m)
BY DEF Succeeded, Mute, Replies, Lost

\* A new event does not disturb the ones before it.
LEMMA EventAppended ==
    ASSUME TypeOK, NEW x \in Intents,
           events' = Append(events, [intent |-> x, state |-> "pending"])
    PROVE  /\ events' \in Seq(Entries)
           /\ Len(events') = Len(events) + 1
           /\ \A i \in 1 .. Len(events) : events'[i] = events[i]
           /\ events'[Len(events')] = [intent |-> x, state |-> "pending"]
<1>1. events \in Seq(Entries) /\ [intent |-> x, state |-> "pending"] \in Entries
  BY DEF TypeOK, Entries
<1> QED BY <1>1, AppendProperties

\* An answer changes what became of one event, and nothing else.
LEMMA EventDecided ==
    ASSUME TypeOK, NEW i \in 1 .. Len(events),
           NEW s \in {"pending", "settled", "dropped"},
           events' = [events EXCEPT ![i].state = s]
    PROVE  /\ events' \in Seq(Entries)
           /\ Len(events') = Len(events)
           /\ \A j \in 1 .. Len(events) :
                 /\ events'[j].intent = events[j].intent
                 /\ j # i => events'[j] = events[j]
           /\ events'[i].state = s
<1> DEFINE e == [events[i] EXCEPT !.state = s]
<1>1. events \in Seq(Entries)
  BY DEF TypeOK, Entries
<1>2. events[i] \in Entries
  BY <1>1
<1>3. e \in Entries /\ e.intent = events[i].intent /\ e.state = s
  BY <1>2 DEF Entries
<1>4. events' = [events EXCEPT ![i] = e]
  OBVIOUS
<1> HIDE DEF e
<1> QED BY <1>1, <1>3, <1>4, ExceptSeq

\* Nothing is announced and no replica serves at first.
LEMMA InvInit == Init => IInv
<1> SUFFICES ASSUME Init PROVE IInv
  OBVIOUS
<1>1. Len(events) = 0 /\ events \in Seq(Entries)
  BY DEF Init
<1>2. TypeOK
  BY <1>1, MaestroAssumption DEF Init, TypeOK, Entries
<1>3. CheckDecides
  BY MaestroAssumption DEF Init, CheckDecides
<1>4. JobsAreRight
  BY DEF Init, JobsAreRight
<1>5. AnnouncedOrMuted
  BY DEF Init, AnnouncedOrMuted
<1>6. SettledMeansConsumed /\ DroppedForCause /\ AcceptedIsKnown /\ TwiceOnlyIfUnheard
  BY <1>1 DEF SettledMeansConsumed, DroppedForCause, AcceptedIsKnown, TwiceOnlyIfUnheard
<1> QED BY <1>2, <1>3, <1>4, <1>5, <1>6 DEF IInv

\* The two ways in which Dispatch and a handler change the request they are at.
LEMMA RequestUpdates ==
    ASSUME NEW g \in Goroutines, job[g] \in Jobs
    PROVE  /\ \A o : Answered(g, o) => job' = [job EXCEPT ![g] =
                 [step |-> "answered", event |-> job[g].event, outcome |-> o]]
           /\ [job EXCEPT ![g].step = "running"] = [job EXCEPT ![g] =
                 [step |-> "running", event |-> job[g].event,
                  outcome |-> job[g].outcome]]
<1>1. [job[g] EXCEPT !.step = "running"] =
                 [step |-> "running", event |-> job[g].event,
                  outcome |-> job[g].outcome]
  BY DEF Jobs
<1>2. [job EXCEPT ![g].step = "running"] =
          [job EXCEPT ![g] = [job[g] EXCEPT !.step = "running"]]
  BY Zenon
<1>3. \A o : Answered(g, o) => job' = [job EXCEPT ![g] =
                 [step |-> "answered", event |-> job[g].event, outcome |-> o]]
  BY DEF Answered, Jobs
<1> QED BY <1>1, <1>2, <1>3

\* A request may move on if what becomes of it is true.
LEMMA RequestMoves ==
    ASSUME IInv, NEW g \in Goroutines, job[g] # Idle,
           NEW j \in Jobs, j.event = job[g].event,
           job' = [job EXCEPT ![g] = j],
           UNCHANGED <<producing, announced, events, registry, serving>>,
           consumed \subseteq consumed', consumed' \subseteq 1 .. MaxEvents,
           missed \subseteq missed', missed' \subseteq 1 .. MaxEvents,
           disowned \subseteq disowned', disowned' \subseteq 1 .. MaxEvents,
           faults' \in 0 .. MaxFaults,
           j.step = "running" => Name(j.event) \in registry[ReplicaOf[g]],
           j.outcome = "nil" => j.event \in consumed',
           j.outcome = "undecodable" => Name(j.event) \in Undecodable,
           j.outcome = "unregistered" => j.event \in missed',
           j.outcome = "unknown" => j.event \in disowned'
    PROVE  IInv'
<1>1. /\ job'[g] = j /\ job' \in [Goroutines -> Jobs \cup {Idle}]
      /\ \A h \in Goroutines : h # g => job'[h] = job[h]
  BY DEF IInv, TypeOK
<1>2. \A i \in 1 .. Len(events) : Name(i)' = Name(i)
  BY DEF Name
<1>3. \A h \in Goroutines : job[h] # Idle => job[h].event \in 1 .. Len(events)
  BY DEF IInv, TypeOK, Jobs
<1>4. TypeOK' /\ CheckDecides'
  BY <1>1, <1>2, <1>3 DEF IInv, TypeOK, CheckDecides, producing
<1>5. JobsAreRight'
  BY <1>1, <1>2, <1>3 DEF IInv, JobsAreRight
<1>6. SettledMeansConsumed'
  BY DEF IInv, SettledMeansConsumed
<1>7. DroppedForCause'
  BY <1>2 DEF IInv, DroppedForCause
<1>8. AnnouncedOrMuted'
  BY DEF IInv, AnnouncedOrMuted, producing
<1>9. AcceptancesSucceed => AcceptedIsKnown' /\ TwiceOnlyIfUnheard'
  BY DEF IInv, AcceptedIsKnown, TwiceOnlyIfUnheard, producing
<1> QED BY <1>4, <1>5, <1>6, <1>7, <1>8, <1>9
        DEF IInv, AcceptancesSucceed

\* Only a broker that reads an answer decides about an event; every other step
\* leaves what was decided as it is.
LEMMA InvStep == IInv /\ [Next]_vars => IInv'
<1> SUFFICES ASSUME IInv, [Next]_vars PROVE IInv'
  OBVIOUS
<1> USE MaestroAssumption
<1> USE DEF IInv
<1>1. CASE UNCHANGED vars
  BY <1>1 DEF vars, producing, consuming, handling, TypeOK, CheckDecides, JobsAreRight,
              SettledMeansConsumed, DroppedForCause, AnnouncedOrMuted, Name,
              AcceptedIsKnown, TwiceOnlyIfUnheard
<1>2. ASSUME NEW p \in Producers, NEW x \in Intents, Announce(p, x) PROVE IInv'
  <2>0. /\ UNCHANGED <<source, credential, producer, minted, denied>>
        /\ UNCHANGED <<registry, serving, job, consumed, missed, disowned, faults>>
        /\ x \notin announced
    BY <1>2 DEF Announce, consuming, handling
  <2>1. PICK m \in Accepting \cup Refusing \cup {Lost} :
          /\ \/ /\ m \in Accepting \cup {Lost} /\ Len(events) < MaxEvents
                /\ events' = Append(events, [intent |-> x, state |-> "pending"])
                /\ unheard' = IF m = Lost THEN unheard \cup {x} ELSE unheard
                /\ UNCHANGED muted
             \/ /\ m \in Refusing \cup {Lost}
                /\ muted' = IF Mute(m) THEN muted \cup {x} ELSE muted
                /\ UNCHANGED <<events, unheard>>
          /\ announced' = IF Succeeded(m) THEN announced \cup {x} ELSE announced
    BY <1>2 DEF Announce
  <2>2. announced' \subseteq announced \cup {x} /\ announced' \subseteq Intents
    BY <2>1 DEF TypeOK
  <2>3. CASE /\ m \in Refusing \cup {Lost}
             /\ muted' = IF Mute(m) THEN muted \cup {x} ELSE muted
             /\ UNCHANGED <<events, unheard>>
    <3>1. announced' = announced \/ x \in muted'
      <4>1. m \in Replies \cup {Lost} /\ m.success # "true"
        BY <2>3 DEF Lost
      <4> QED BY <2>1, <2>3, <4>1, SucceededIsTrueOrMute
    <3>3. muted \subseteq muted' /\ muted' \subseteq Intents
      BY <2>3 DEF TypeOK
    <3>2. announced \subseteq announced'
      BY <2>1
    <3> QED BY <2>0, <2>2, <2>3, <3>1, <3>2, <3>3
        DEF TypeOK, CheckDecides, JobsAreRight, Name, SettledMeansConsumed,
            DroppedForCause, AnnouncedOrMuted, AcceptedIsKnown,
            TwiceOnlyIfUnheard
  <2>4. CASE /\ m \in Accepting \cup {Lost} /\ Len(events) < MaxEvents
             /\ events' = Append(events, [intent |-> x, state |-> "pending"])
             /\ unheard' = IF m = Lost THEN unheard \cup {x} ELSE unheard
             /\ UNCHANGED muted
    <3>1. /\ events' \in Seq(Entries)
          /\ Len(events') = Len(events) + 1
          /\ \A i \in 1 .. Len(events) : events'[i] = events[i]
          /\ events'[Len(events')] = [intent |-> x, state |-> "pending"]
      BY <2>4, EventAppended
    <3>2. Len(events) \in Nat /\ Len(events') \in 1 .. Len(events')
      BY <3>1 DEF TypeOK
    <3>3. \A i \in 1 .. Len(events') :
            i = Len(events') \/ i \in 1 .. Len(events)
      BY <3>1, <3>2
    <3>4. \A i \in 1 .. Len(events) : Name(i)' = Name(i)
      BY <3>1 DEF Name
    <3>5. \A g \in Goroutines : job[g] # Idle =>
            job[g].event \in 1 .. Len(events)
      BY DEF TypeOK, Jobs
    <3>6. TypeOK' /\ CheckDecides'
      BY <2>0, <2>2, <2>4, <3>1, <3>2, <3>4, <3>5
      DEF TypeOK, CheckDecides, Entries
    <3>7. JobsAreRight'
      BY <2>0, <3>4, <3>5 DEF JobsAreRight
    <3>8. SettledMeansConsumed' /\ DroppedForCause'
      BY <2>0, <3>1, <3>3, <3>4 DEF SettledMeansConsumed, DroppedForCause
    <3>9. AnnouncedOrMuted'
      BY <2>2, <2>4, <3>1, <3>2 DEF AnnouncedOrMuted
    <3>10. ASSUME AcceptancesSucceed
           PROVE  AcceptedIsKnown' /\ TwiceOnlyIfUnheard'
      <4>1. x \in announced' \cup unheard'
        BY <2>1, <2>4, <3>10 DEF AcceptancesSucceed
      <4>2. announced \subseteq announced' /\ unheard \subseteq unheard'
        BY <2>1, <2>4
      <4>3. AcceptedIsKnown'
        BY <3>1, <3>3, <3>10, <4>1, <4>2 DEF AcceptedIsKnown
      <4>4. \A i \in 1 .. Len(events) : events[i].intent = x => x \in unheard'
        BY <2>0, <3>10, <4>2 DEF AcceptedIsKnown
      <4>5. \A i \in 1 .. Len(events') :
              \/ events'[i].intent = x /\ i = Len(events')
              \/ i \in 1 .. Len(events) /\ events'[i] = events[i]
        BY <3>1, <3>3
      <4> QED BY <3>10, <4>2, <4>3, <4>4, <4>5 DEF TwiceOnlyIfUnheard
    <3> QED BY <3>6, <3>7, <3>8, <3>9, <3>10
            DEF AcceptancesSucceed
  <2> QED BY <2>1, <2>3, <2>4
<1>3. ASSUME NEW r \in Replicas, NEW n \in Names, Register(r, n) PROVE IInv'
  BY <1>3 DEF Register, producing, handling, CheckDecides, TypeOK, JobsAreRight, SettledMeansConsumed,
              DroppedForCause, AnnouncedOrMuted, Name,
              AcceptedIsKnown, TwiceOnlyIfUnheard
<1>4. ASSUME NEW r \in Replicas, Mount(r) PROVE IInv'
  BY <1>4 DEF Mount, producing, handling, CheckDecides, TypeOK, JobsAreRight, SettledMeansConsumed,
              DroppedForCause, AnnouncedOrMuted, Name,
              AcceptedIsKnown, TwiceOnlyIfUnheard
<1>5. ASSUME NEW r \in Replicas, Crash(r) PROVE IInv'
  BY <1>5 DEF Crash, Fault, producing, handling, CheckDecides, TypeOK, JobsAreRight, SettledMeansConsumed,
              DroppedForCause, AnnouncedOrMuted, Name,
              AcceptedIsKnown, TwiceOnlyIfUnheard
<1>6. ASSUME NEW g \in Goroutines, Deliver(g) PROVE IInv'
  BY <1>6 DEF Deliver, producing, handling, CheckDecides, TypeOK, Jobs, JobsAreRight, SettledMeansConsumed,
              DroppedForCause, AnnouncedOrMuted, Name,
              AcceptedIsKnown, TwiceOnlyIfUnheard
<1>7. ASSUME NEW g \in Goroutines, Dispatch(g) PROVE IInv'
  <2> DEFINE name == Name(job[g].event)
             Moved(step, outcome) ==
                [step |-> step, event |-> job[g].event, outcome |-> outcome]
  <2>1. /\ UNCHANGED <<producing, announced, events, registry, serving, consumed, disowned, faults>>
        /\ job[g] # Idle /\ job[g].step = "received" /\ job[g] \in Jobs
        /\ consumed \subseteq 1 .. MaxEvents /\ faults \in 0 .. MaxFaults
        /\ missed \subseteq 1 .. MaxEvents /\ disowned \subseteq 1 .. MaxEvents
    BY <1>7 DEF Dispatch, TypeOK
  <2>2. CASE /\ name \in Undecodable /\ UNCHANGED missed
             /\ job' = [job EXCEPT ![g] = Moved("answered", "undecodable")]
    BY <2>1, <2>2, RequestMoves DEF Jobs
  <2>3. CASE /\ missed' = missed \cup {job[g].event}
             /\ job' = [job EXCEPT ![g] = Moved("answered", "unregistered")]
    BY <2>1, <2>3, RequestMoves DEF Jobs
  <2>4. CASE /\ name \in registry[ReplicaOf[g]] /\ UNCHANGED missed
             /\ job' = [job EXCEPT ![g] = Moved("running", job[g].outcome)]
    BY <2>1, <2>4, RequestMoves DEF Jobs, JobsAreRight
  <2>5. \A o : Answered(g, o) =>
            job' = [job EXCEPT ![g] = Moved("answered", o)]
    BY <2>1, RequestUpdates
  <2>6. [job EXCEPT ![g].step = "running"] =
            [job EXCEPT ![g] = Moved("running", job[g].outcome)]
    BY <2>1, RequestUpdates
  <2> HIDE DEF Moved
  <2> QED BY <1>7, <2>2, <2>3, <2>4, <2>5, <2>6 DEF Dispatch
<1>8. ASSUME NEW g \in Goroutines, HandlerReturns(g) PROVE IInv'
  <2> DEFINE Moved(o) ==
        [step |-> "answered", event |-> job[g].event, outcome |-> o]
  <2>1. PICK o \in Outcomes :
          /\ Answered(g, o)
          /\ consumed' = IF o = "nil" THEN consumed \cup {job[g].event} ELSE consumed
          /\ disowned' = IF o = "unknown" THEN disowned \cup {job[g].event}
                                          ELSE disowned
          /\ UNCHANGED faults \/ Fault
    BY <1>8 DEF HandlerReturns
  <2>2. /\ UNCHANGED <<producing, announced, events, registry, serving, missed>>
        /\ job[g] # Idle /\ job[g].step = "running" /\ job[g] \in Jobs
        /\ consumed \subseteq 1 .. MaxEvents /\ faults \in 0 .. MaxFaults
        /\ missed \subseteq 1 .. MaxEvents /\ disowned \subseteq 1 .. MaxEvents
    BY <1>8 DEF HandlerReturns, TypeOK
  <2>3. job' = [job EXCEPT ![g] = Moved(o)]
    BY <2>1, <2>2, RequestUpdates
  <2>4. /\ consumed \subseteq consumed' /\ consumed' \subseteq 1 .. MaxEvents
        /\ disowned \subseteq disowned' /\ disowned' \subseteq 1 .. MaxEvents
        /\ o = "nil" => job[g].event \in consumed'
        /\ o = "unknown" => job[g].event \in disowned'
    BY <2>1, <2>2 DEF Jobs
  <2>6. faults' \in 0 .. MaxFaults
    BY <2>1, <2>2 DEF Fault
  <2>5. Moved(o) \in Jobs /\ o \notin {"undecodable", "unregistered"}
    BY <2>1, <2>2 DEF Jobs
  <2>7. /\ job' = [job EXCEPT ![g] = Moved(o)]
        /\ Moved(o).event = job[g].event
        /\ Moved(o).outcome = o /\ Moved(o).step = "answered"
    BY <2>3
  <2> HIDE DEF Moved
  <2> QED BY <2>2, <2>4, <2>5, <2>6, <2>7, RequestMoves
<1>9. ASSUME NEW g \in Goroutines, BrokerReads(g) PROVE IInv'
  <2> DEFINE i == job[g].event
             answer == Response(job[g].outcome)
  <2>0. /\ UNCHANGED <<producing, announced, registry, serving, handling, faults>>
        /\ job' = [job EXCEPT ![g] = Idle]
        /\ job[g] # Idle
    BY <1>9 DEF BrokerReads
  <2>1. /\ job[g] \in Jobs /\ i \in Nat \ {0} /\ i <= Len(events)
        /\ events \in Seq(Entries) /\ Len(events) \in Nat
    BY <2>0 DEF TypeOK, Jobs, Entries
  <2>2. i \in 1 .. Len(events) /\ events[i] \in Entries
    BY <2>1
  <2>a. PICK d \in Decisions(answer) :
            events' = [events EXCEPT ![i].state = IF @ = "pending" THEN d ELSE @]
    BY <1>9 DEF BrokerReads
  <2> DEFINE s == IF events[i].state = "pending" THEN d ELSE events[i].state
  <2>b. events' = [events EXCEPT ![i].state = s]
    BY <2>a
  <2>c. /\ d \in {"pending", "settled", "dropped"}
        /\ d = "settled" => job[g].outcome = "nil"
        /\ d = "dropped" => job[g].outcome \in {"undecodable", "unregistered", "unknown"}
    BY <2>1, <2>a DEF Decisions, Response, Answer, Jobs
  <2>3. s \in {"pending", "settled", "dropped"}
    BY <2>2, <2>c DEF Entries
  <2>4. s = "settled" => i \in consumed
    BY <2>0, <2>2, <2>c DEF JobsAreRight, SettledMeansConsumed
  <2>5. s = "dropped" => Name(i) \in Undecodable \/ i \in missed \cup disowned
    BY <2>0, <2>2, <2>c DEF JobsAreRight, DroppedForCause
  <2> HIDE DEF i, s, answer
  <2>6. /\ events' \in Seq(Entries)
        /\ Len(events') = Len(events)
        /\ \A j \in 1 .. Len(events) :
              /\ events'[j].intent = events[j].intent
              /\ j # i => events'[j] = events[j]
        /\ events'[i].state = s
    BY <2>b, <2>2, <2>3, EventDecided
  <2>7. \A j \in 1 .. Len(events) : Name(j)' = Name(j)
    BY <2>6 DEF Name
  <2>8. \A h \in Goroutines : job[h] # Idle =>
            job[h].event \in 1 .. Len(events)
    BY DEF TypeOK, Jobs
  <2>9. \A h \in Goroutines : job'[h] # Idle => h # g /\ job'[h] = job[h]
    BY <2>0 DEF TypeOK
  <2>10. TypeOK' /\ CheckDecides'
    BY <2>0, <2>6, <2>7, <2>8, <2>9 DEF producing, handling, TypeOK, CheckDecides, Entries
  <2>11. JobsAreRight'
    BY <2>0, <2>7, <2>8, <2>9 DEF handling, JobsAreRight
  <2>12. SettledMeansConsumed'
    BY <2>0, <2>4, <2>6 DEF handling, SettledMeansConsumed
  <2>13. DroppedForCause'
    BY <2>0, <2>5, <2>6, <2>7 DEF handling, DroppedForCause
  <2>14. AnnouncedOrMuted'
    BY <2>0, <2>6 DEF producing, AnnouncedOrMuted
  <2>15. AcceptancesSucceed => AcceptedIsKnown' /\ TwiceOnlyIfUnheard'
    BY <2>0, <2>6 DEF producing, AcceptedIsKnown, TwiceOnlyIfUnheard
  <2> QED BY <2>10, <2>11, <2>12, <2>13, <2>14, <2>15
          DEF AcceptancesSucceed
<1>10. ASSUME NEW g \in Goroutines, AnswerLost(g) PROVE IInv'
  BY <1>10 DEF AnswerLost, Fault, producing, handling, CheckDecides, TypeOK, JobsAreRight, SettledMeansConsumed,
               DroppedForCause, AnnouncedOrMuted, Name,
              AcceptedIsKnown, TwiceOnlyIfUnheard
<1>11. ASSUME NEW p \in Producers, NewProducer(p) PROVE IInv'
  <2>1. UNCHANGED <<source, credential, denied, unheard, muted, announced, events,
                    registry, serving, job, consumed, missed, disowned, faults>>
        /\ producer[p] # "built"
    BY <1>11 DEF NewProducer, consuming, handling
  <2>2. /\ minted' = IF p \in Checked THEN [minted EXCEPT ![p] = source[p]] ELSE minted
        /\ producer' = [producer EXCEPT ![p] =
             IF p \in Checked /\ ~VerifyAudience(source[p]) THEN "refused" ELSE "built"]
    BY <1>11 DEF NewProducer
  <2>3. TypeOK'
    BY <2>1, <2>2 DEF TypeOK, Name
  <2>4. CheckDecides'
    BY <2>1, <2>2 DEF TypeOK, CheckDecides
  <2> QED BY <2>1, <2>3, <2>4 DEF JobsAreRight, SettledMeansConsumed,
             DroppedForCause, AnnouncedOrMuted, Name,
              AcceptedIsKnown, TwiceOnlyIfUnheard
<1>12. ASSUME NEW p \in Producers, TokensChange(p) PROVE IInv'
  BY <1>12 DEF TokensChange, Fault, consuming, handling, CheckDecides, TypeOK, JobsAreRight,
               SettledMeansConsumed, DroppedForCause, AnnouncedOrMuted, Name,
              AcceptedIsKnown, TwiceOnlyIfUnheard
<1>13. ASSUME NEW p \in Producers, NEW x \in Intents, AnnounceDenied(p, x)
       PROVE  IInv'
  <2>1. /\ producer[p] = "built" /\ ~Addressed(credential[p])
        /\ UNCHANGED <<source, credential, producer, minted, unheard, muted, events,
                       registry, serving, job, consumed, missed, disowned, faults>>
        /\ denied' = IF credential[p] = minted[p] THEN denied \cup {p} ELSE denied
    BY <1>13 DEF AnnounceDenied, consuming, handling
  <2>2. announced' = announced
    BY <1>13 DEF AnnounceDenied, Succeeded, Denial
  <2>3. credential[p] \in Tokens
    BY DEF TypeOK, Tokens, NoToken
  <2>4. p \in Checked /\ credential[p] = minted[p] => minted[p].kind = "listWithNull"
    BY <2>1, <2>3, VerifiedIsAddressed DEF CheckDecides
  <2>5. TypeOK' /\ CheckDecides'
    BY <2>1, <2>2, <2>4 DEF TypeOK, CheckDecides, Name
  <2> QED BY <2>1, <2>2, <2>5 DEF JobsAreRight, SettledMeansConsumed,
             DroppedForCause, AnnouncedOrMuted, Name,
              AcceptedIsKnown, TwiceOnlyIfUnheard
<1> QED BY <1>1, <1>2, <1>3, <1>4, <1>5, <1>6, <1>7, <1>8, <1>9, <1>10, <1>11,
           <1>12, <1>13 DEF Next, Startup, Request

\* IInv is inductive.
LEMMA Invariance == Spec => []IInv
BY InvInit, InvStep, PTL DEF Spec

\* Types; a handler that runs is one its replica has (handler.go:100-105).
THEOREM TypeCorrectness == Spec => []TypeOK
<1>1. IInv => TypeOK
  BY DEF IInv
<1> QED BY <1>1, Invariance, PTL

\* handler.go:45-47: no answer settles an event that no handler consumed.
THEOREM OnlyConsumedIsSettled == Spec => []SettledMeansConsumed
<1>1. IInv => SettledMeansConsumed
  BY DEF IInv
<1> QED BY <1>1, Invariance, PTL

\* handler.go:137-144: whichever part of an answer the broker goes by, it drops
\* an event only if its body does not decode, if a replica had no handler for it
\* or if a handler's error was an ErrUnknownEvent; no other error, lost answer
\* or restart makes it drop one.
THEOREM DropsHaveACause == Spec => []DroppedForCause
<1>1. IInv => DroppedForCause
  BY DEF IInv
<1> QED BY <1>1, Invariance, PTL

\* producer.go:180 and :209: an Announce without an error means that the broker
\* has the event or refused it in a 200 without the flag, for any replies.
THEOREM AnnouncedIsAccepted == Spec => []AnnouncedOrMuted
<1>1. IInv => AnnouncedOrMuted
  BY DEF IInv
<1> QED BY <1>1, Invariance, PTL

\* producer.go:180: if Announce takes every acceptance for a success, the broker
\* has an event twice only where one of them was not heard of.
THEOREM NoDuplicateUnlessUnheard ==
    ASSUME AcceptancesSucceed
    PROVE  Spec => []TwiceOnlyIfUnheard
<1>1. IInv => TwiceOnlyIfUnheard
  BY DEF IInv
<1> QED BY <1>1, Invariance, PTL

\* producer.go:82-90: a producer built with the audience check is denied with
\* the very token the check saw only if null is in its list of audiences, and
\* the check refuses no producer whose token maestro would take, for every shape
\* of an aud and however the tokens change after.
THEOREM AudienceCheckIsExact == Spec => []CheckIsExact
<1>1. IInv => CheckIsExact
  <2> SUFFICES ASSUME IInv, NEW p \in Checked, producer[p] = "refused"
               PROVE  ~Addressed(minted[p])
    BY DEF CheckIsExact, IInv, CheckDecides
  <2>1. minted[p] \in Tokens
    BY MaestroAssumption DEF IInv, TypeOK, Tokens, NoToken
  <2> QED BY <2>1, VerifiedIsAddressed DEF IInv, CheckDecides
<1> QED BY <1>1, Invariance, PTL

=============================================================================
