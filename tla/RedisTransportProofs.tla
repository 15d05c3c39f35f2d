------------------------ MODULE RedisTransportProofs ------------------------
(***************************************************************************)
(* How the Redis transport closes and delivers, for any goroutines,        *)
(* subscriptions and messages.  The WaitGroup counts the subscriptions     *)
(* whose worker runs or is about to be started, one goroutine at a time    *)
(* closes, and a channel continues what the handler was called with.       *)
(***************************************************************************)
EXTENDS RedisTransport, FiniteSetTheorems, TLAPS

-----------------------------------------------------------------------------
(* The invariant.                                                          *)

Spawning(g, s) == pc[g] = "spawn" /\ s \in operand[g]

Live(s) == worker[s] \in {"select", "callback"} \/ \E g \in Goroutines : Spawning(g, s)

Closing(g) == pc[g] \in {"pubsubs", "wait", "client"}

Operands ==
    /\ operand = [g \in Goroutines |-> operand[g]]
    /\ \A g \in Goroutines :
          /\ pc[g] \in {"send", "resend"} => operand[g] \in Messages
          /\ pc[g] = "spawn" => \E s \in Subs : operand[g] = {s}
          /\ pc[g] = "pubsubs" => operand[g] \subseteq Subs

\* Every worker is registered from the section that opens its PubSub to its
\* exit, and started once.
Counted == workers = Cardinality({s \in Subs : Live(s)})

Started ==
    /\ \A s \in Subs :
          /\ worker[s] # "none" => pubsub[s] # "none"
          /\ worker[s] = "none" /\ pubsub[s] # "none" => \E g \in Goroutines : Spawning(g, s)
          /\ \A g \in Goroutines : Spawning(g, s) => worker[s] = "none" /\ pubsub[s] # "none"
    /\ \A s \in Subs : \A g, h \in Goroutines : Spawning(g, s) /\ Spawning(h, s) => g = h

\* The goroutine that closed the transport takes all its PubSubs with it.
Closed ==
    /\ \A g, h \in Goroutines : Closing(g) /\ Closing(h) => g = h
    /\ \A g \in Goroutines : Closing(g) => closed /\ clientOpen
    /\ \A g \in Goroutines : pc[g] = "client" => workers = 0
    /\ ~clientOpen => closed /\ workers = 0
    /\ closed => subs = {}
    /\ \A s \in Subs : pubsub[s] = "open" =>
          s \in subs \/ \E g \in Goroutines : pc[g] = "pubsubs" /\ s \in operand[g]
    /\ \A s \in subs : pubsub[s] # "none"
    /\ \A g \in Goroutines : pc[g] = "pubsubs" => \A s \in operand[g] : pubsub[s] # "none"

Increasing(seq) == \A i, j \in 1 .. Len(seq) : i < j => seq[i] < seq[j]

\* What is in the channel of s comes after what s got, and is of its topic.
Ordered(s) ==
    /\ Increasing(got[s])
    /\ Increasing(channel[s])
    /\ \A i \in 1 .. Len(got[s]), j \in 1 .. Len(channel[s]) : got[s][i] < channel[s][j]
    /\ \A i \in 1 .. Len(got[s]) : got[s][i] <= Len(sent)
    /\ \A j \in 1 .. Len(channel[s]) :
          channel[s][j] <= Len(sent) /\ sent[channel[s][j]].topic = TopicOf[s]

Delivered == Len(sent) <= MaxSent /\ \A s \in Subs : Ordered(s)

IInv == TypeOK /\ Operands /\ Counted /\ Started /\ Closed /\ Delivered

-----------------------------------------------------------------------------
(* The operators on sequences of positions and on calls.                   *)

LEMMA IncreasingAppended ==
    ASSUME NEW seq \in Seq(Positions), NEW n \in Positions, Increasing(seq),
           \A i \in 1 .. Len(seq) : seq[i] < n
    PROVE  /\ Append(seq, n) \in Seq(Positions) /\ Len(Append(seq, n)) = Len(seq) + 1
           /\ \A i \in 1 .. Len(seq) : Append(seq, n)[i] = seq[i]
           /\ Append(seq, n)[Len(seq) + 1] = n
           /\ Increasing(Append(seq, n))
<1>1. Positions \subseteq Nat
  BY RedisTransportAssumption DEF Positions
<1> DEFINE new == Append(seq, n)
<1>2. /\ new \in Seq(Positions) /\ Len(new) = Len(seq) + 1 /\ Len(seq) \in Nat
      /\ \A i \in 1 .. Len(seq) : new[i] = seq[i]
      /\ new[Len(seq) + 1] = n
  OBVIOUS
<1> HIDE DEF new
<1>3. ASSUME NEW i \in 1 .. Len(new), NEW j \in 1 .. Len(new), i < j
      PROVE  new[i] < new[j]
  <2>1. i \in 1 .. Len(seq)
    BY <1>2, <1>3
  <2>2. CASE j = Len(seq) + 1
    BY <1>2, <2>1, <2>2
  <2>3. CASE j # Len(seq) + 1
    <3>1. j \in 1 .. Len(seq)
      BY <1>2, <2>3
    <3> QED BY <1>2, <1>3, <2>1, <3>1 DEF Increasing
  <2> QED BY <2>2, <2>3
<1> QED BY <1>2, <1>3 DEF Increasing, new

LEMMA IncreasingTail ==
    ASSUME NEW seq \in Seq(Positions), seq # <<>>, Increasing(seq)
    PROVE  /\ Head(seq) \in Positions /\ Head(seq) = seq[1] /\ 1 \in 1 .. Len(seq)
           /\ Tail(seq) \in Seq(Positions) /\ Len(Tail(seq)) = Len(seq) - 1
           /\ \A i \in 1 .. Len(Tail(seq)) :
                 /\ i + 1 \in 1 .. Len(seq) /\ Tail(seq)[i] = seq[i + 1]
                 /\ Head(seq) < Tail(seq)[i]
           /\ Increasing(Tail(seq))
<1> DEFINE n == Len(seq) - 1
           tail == Tail(seq)
<1>1. n \in Nat /\ Len(seq) = n + 1 /\ Head(seq) = seq[1]
  OBVIOUS
<1>2. tail \in Seq(Positions) /\ Len(tail) = n /\ \A i \in 1 .. n : tail[i] = seq[i + 1]
  BY <1>1
<1> HIDE DEF n, tail
<1>3. \A i \in 1 .. n : i + 1 \in 1 .. n + 1 /\ 1 < i + 1
  BY <1>1
<1>4. Increasing(tail)
  <2>1. ASSUME NEW i \in 1 .. n, NEW j \in 1 .. n, i < j PROVE tail[i] < tail[j]
    BY <1>1, <1>2, <1>3, <2>1 DEF Increasing
  <2> QED BY <1>2, <2>1 DEF Increasing
<1>5. 1 \in 1 .. Len(seq) /\ seq[1] \in Positions
  BY <1>1
<1>6. \A i \in 1 .. n : seq[1] < seq[i + 1]
  BY <1>1, <1>3, <1>5 DEF Increasing
<1> QED BY <1>1, <1>2, <1>3, <1>4, <1>5, <1>6 DEF tail, n

\* What At does to the goroutines.
LEMMA Moved ==
    ASSUME TypeOK, Operands, NEW g \in Goroutines, NEW label, NEW x, At(g, label, x)
    PROVE  /\ pc'[g] = label /\ operand'[g] = x
           /\ \A h \in Goroutines \ {g} : pc'[h] = pc[h] /\ operand'[h] = operand[h]
           /\ operand' = [h \in Goroutines |-> operand'[h]]
           /\ label \in Labels =>
                 pc' \in [Goroutines -> Labels]
BY DEF TypeOK, Operands, At

LEMMA MovedOperands ==
    ASSUME TypeOK, Operands, NEW g \in Goroutines, NEW label, NEW x, At(g, label, x),
           label \in {"send", "resend"} => x \in Messages,
           label = "spawn" => \E s \in Subs : x = {s},
           label = "pubsubs" => x \subseteq Subs
    PROVE  Operands'
<1>1. /\ operand' = [h \in Goroutines |-> operand'[h]]
      /\ pc'[g] = label /\ operand'[g] = x
      /\ \A h \in Goroutines \ {g} : pc'[h] = pc[h] /\ operand'[h] = operand[h]
  BY Moved
<1> QED BY <1>1 DEF Operands

\* The steps of calls that have nothing to do with workers being started.
LEMMA MovedSpawning ==
    ASSUME TypeOK, Operands, NEW g \in Goroutines, NEW label, NEW x, At(g, label, x),
           pc[g] # "spawn", label # "spawn"
    PROVE  \A h \in Goroutines : \A s : Spawning(h, s)' <=> Spawning(h, s)
BY Moved DEF Spawning

\* The counter and the set it counts.
LEMMA LiveSet ==
    /\ IsFiniteSet({s \in Subs : Live(s)})
    /\ Counted => workers \in Nat /\ workers <= Cardinality(Subs)
    /\ Counted => (workers = 0 <=> \A s \in Subs : ~Live(s))
<1> DEFINE L == {s \in Subs : Live(s)}
<1>1. IsFiniteSet(Subs) /\ L \in SUBSET Subs
  BY RedisTransportAssumption
<1>2. IsFiniteSet(L) /\ Cardinality(L) <= Cardinality(Subs)
  BY <1>1, FS_Subset
<1>3. Cardinality(L) \in Nat /\ (Cardinality(L) = 0 <=> L = {})
  BY <1>2, FS_CardinalityType, FS_EmptySet
<1> QED BY <1>2, <1>3 DEF Counted

LEMMA LiveSetNext == Counted' => workers' \in Nat /\ workers' <= Cardinality(Subs)
<1> DEFINE L == {s \in Subs : Live(s)}'
<1>1. IsFiniteSet(Subs) /\ L \in SUBSET Subs
  BY RedisTransportAssumption
<1>2. IsFiniteSet(L) /\ Cardinality(L) <= Cardinality(Subs)
  BY <1>1, FS_Subset
<1>3. Cardinality(L) \in Nat
  BY <1>2, FS_CardinalityType
<1> QED BY <1>2, <1>3 DEF Counted

LEMMA SameWorkers ==
    ASSUME Counted, workers' = workers, \A s \in Subs : Live(s)' <=> Live(s)
    PROVE  Counted'
<1>1. {s \in Subs : Live(s)}' = {s \in Subs : Live(s)}
  OBVIOUS
<1> QED BY <1>1 DEF Counted

LEMMA MoreWorkers ==
    ASSUME Counted, NEW x \in Subs, ~Live(x), Live(x)', workers' = workers + 1,
           \A s \in Subs \ {x} : Live(s)' <=> Live(s)
    PROVE  Counted'
<1> DEFINE L == {s \in Subs : Live(s)}
<1>1. {s \in Subs : Live(s)}' = L \cup {x} /\ x \notin L
  OBVIOUS
<1>2. Cardinality(L \cup {x}) = Cardinality(L) + 1
  BY <1>1, LiveSet, FS_AddElement
<1> QED BY <1>1, <1>2 DEF Counted

LEMMA FewerWorkers ==
    ASSUME Counted, NEW x \in Subs, Live(x), ~Live(x)', workers' = workers - 1,
           \A s \in Subs \ {x} : Live(s)' <=> Live(s)
    PROVE  Counted'
<1> DEFINE L == {s \in Subs : Live(s)}
<1>1. {s \in Subs : Live(s)}' = L \ {x} /\ x \in L
  OBVIOUS
<1>2. Cardinality(L \ {x}) = Cardinality(L) - 1
  BY <1>1, LiveSet, FS_RemoveElement
<1> QED BY <1>1, <1>2 DEF Counted

LEMMA SameDelivery ==
    ASSUME Delivered, UNCHANGED <<channel, got, sent>>
    PROVE  Delivered'
BY DEF Delivered, Ordered, Increasing

-----------------------------------------------------------------------------
(* The steps of Subscribe and Publish.                                     *)

LEMMA SubscribeStep ==
    ASSUME IInv, NEW g \in Goroutines, Subscribe(g)
    PROVE  IInv'
<1> USE DEF IInv
<1>0. PICK s \in Subs :
        /\ pubsub[s] = "none"
        /\ pubsub' = [pubsub EXCEPT ![s] = "open"]
        /\ subs' = subs \cup {s}
        /\ workers' = workers + 1
        /\ At(g, "spawn", {s})
  BY DEF Subscribe
<1>1. /\ pc[g] = "idle" /\ ~closed
      /\ UNCHANGED <<closed, clientOpen, channel, worker, sent, got>>
  BY DEF Subscribe, MayCall
<1>2. /\ pc'[g] = "spawn" /\ operand'[g] = {s}
      /\ \A h \in Goroutines \ {g} : pc'[h] = pc[h] /\ operand'[h] = operand[h]
      /\ pc' \in [Goroutines -> Labels]
  BY <1>0, Moved DEF Labels
<1>3. Operands'
  BY <1>0, MovedOperands
<1>4. /\ \A t \in Subs : \A h \in Goroutines :
            Spawning(h, t)' <=> Spawning(h, t) \/ (h = g /\ t = s)
      /\ \A h \in Goroutines : ~Spawning(h, s) /\ \A t : ~Spawning(g, t)
      /\ worker[s] = "none"
  BY <1>0, <1>1, <1>2 DEF Spawning, Started
<1>5. Counted'
  <2>1. ~Live(s) /\ Live(s)'
    BY <1>1, <1>4 DEF Live
  <2>2. \A t \in Subs \ {s} : Live(t)' <=> Live(t)
    BY <1>1, <1>4 DEF Live
  <2> QED BY <1>0, <2>1, <2>2, MoreWorkers
<1>6. /\ \A t \in Subs : pubsub'[t] = IF t = s THEN "open" ELSE pubsub[t]
      /\ pubsub' \in [Subs -> {"none", "open", "closed"}]
  BY <1>0 DEF TypeOK
<1>7. TypeOK'
  <2>1. workers' \in 0 .. Cardinality(Subs)
    <3>1. workers' \in Nat /\ workers' <= Cardinality(Subs)
      BY <1>5, LiveSetNext
    <3>2. Cardinality(Subs) \in Nat
      BY RedisTransportAssumption, FS_CardinalityType
    <3> QED BY <3>1, <3>2
  <2> QED BY <1>0, <1>1, <1>2, <1>6, <2>1 DEF TypeOK
<1>8. Started'
  BY <1>1, <1>4, <1>6 DEF Started
<1>9. Closed'
  <2>1. \A h \in Goroutines : ~Closing(h) /\ ~Closing(h)'
    BY <1>1, <1>2 DEF Closed, Closing
  <2>2. clientOpen' /\ ~closed' /\ \A h \in Goroutines : pc'[h] # "client"
    BY <1>1, <1>2, <2>1 DEF Closed, Closing
  <2>3. \A t \in Subs : pubsub'[t] = "open" => t \in subs'
    BY <1>0, <1>6, <2>1 DEF Closed, Closing
  <2>4. \A t \in subs' : pubsub'[t] # "none"
    BY <1>0, <1>6 DEF TypeOK, Closed
  <2>5. \A h \in Goroutines : pc'[h] # "pubsubs"
    BY <2>1 DEF Closing
  <2> QED BY <2>1, <2>2, <2>3, <2>4, <2>5 DEF Closed
<1>10. Delivered'
  BY <1>1, SameDelivery
<1> QED BY <1>3, <1>5, <1>7, <1>8, <1>9, <1>10

LEMMA SpawnStep ==
    ASSUME IInv, NEW g \in Goroutines, Spawn(g)
    PROVE  IInv'
<1> USE DEF IInv
<1>0. PICK s \in Subs : operand[g] = {s}
  BY DEF Spawn, Operands
<1>1. /\ pc[g] = "spawn" /\ At(g, "idle", {})
      /\ UNCHANGED <<closed, subs, workers, clientOpen, pubsub, channel, sent, got>>
      /\ worker' = [t \in Subs |-> IF t = s THEN "select" ELSE worker[t]]
  BY <1>0 DEF Spawn, Done, state
<1>2. /\ pc'[g] = "idle" /\ operand'[g] = {}
      /\ \A h \in Goroutines \ {g} : pc'[h] = pc[h] /\ operand'[h] = operand[h]
      /\ pc' \in [Goroutines -> Labels]
  BY <1>1, Moved DEF Labels
<1>3. Operands'
  BY <1>1, MovedOperands
<1>4. /\ \A t \in Subs : \A h \in Goroutines :
            Spawning(h, t)' <=> Spawning(h, t) /\ h # g
      /\ \A t : Spawning(g, t) <=> t = s
      /\ worker[s] = "none" /\ pubsub[s] # "none"
  BY <1>0, <1>1, <1>2 DEF Spawning, Started
<1>5. Counted'
  <2>1. \A t \in Subs : Live(t)' <=> Live(t)
    BY <1>1, <1>4 DEF Live
  <2> QED BY <1>1, <2>1, SameWorkers
<1>6. TypeOK'
  BY <1>1, <1>2 DEF TypeOK
<1>7. Started'
  BY <1>1, <1>4 DEF Started
<1>8. Closed'
  BY <1>1, <1>2 DEF Closed, Closing
<1>9. Delivered'
  BY <1>1, SameDelivery
<1> QED BY <1>3, <1>5, <1>6, <1>7, <1>8, <1>9

\* Publish and its steps leave closing and the workers alone.
LEMMA Publishing ==
    ASSUME IInv, NEW g \in Goroutines, NEW label \in {"idle", "send", "resend"}, NEW x,
           pc[g] \in {"idle", "send", "resend"}, At(g, label, x),
           label \in {"send", "resend"} => x \in Messages,
           UNCHANGED <<closed, subs, workers, clientOpen, pubsub, worker>>
    PROVE  /\ Operands' /\ Counted' /\ Started' /\ Closed'
           /\ pc' \in [Goroutines -> Labels]
<1> USE DEF IInv
<1>1. /\ pc'[g] = label
      /\ \A h \in Goroutines \ {g} : pc'[h] = pc[h] /\ operand'[h] = operand[h]
      /\ pc' \in [Goroutines -> Labels]
  BY Moved DEF Labels
<1>2. Operands'
  BY MovedOperands
<1>3. \A t \in Subs : \A h \in Goroutines : Spawning(h, t)' <=> Spawning(h, t)
  BY <1>1 DEF Spawning
<1>4. Counted'
  BY <1>3, SameWorkers DEF Live
<1>5. Started'
  BY <1>3 DEF Started
<1>6. Closed'
  BY <1>1 DEF Closed, Closing
<1> QED BY <1>1, <1>2, <1>4, <1>5, <1>6

LEMMA PublishStep ==
    ASSUME IInv, NEW g \in Goroutines, Publish(g)
    PROVE  IInv'
<1> USE DEF IInv
<1>0. PICK topic \in Topics, tenant \in Tenants \cup {NoTenant} :
          At(g, "send", Finalised(topic, tenant))
  BY DEF Publish
<1>1. /\ pc[g] = "idle"
      /\ UNCHANGED <<closed, subs, workers, clientOpen, pubsub, channel, worker, sent, got>>
  BY DEF Publish, MayCall, state, delivery
<1>2. Finalised(topic, tenant) \in Messages
  BY EnvelopeAssumption DEF Finalised, Messages
<1>3. /\ Operands' /\ Counted' /\ Started' /\ Closed'
      /\ pc' \in [Goroutines -> Labels]
  BY <1>0, <1>1, <1>2, Publishing
<1>4. TypeOK'
  BY <1>1, <1>3 DEF TypeOK
<1>5. Delivered'
  BY <1>1, SameDelivery
<1> QED BY <1>3, <1>4, <1>5

LEMMA Forwarded ==
    ASSUME IInv, NEW m \in Messages, Forward(m), UNCHANGED got
    PROVE  /\ sent' \in Seq(Messages) /\ channel' \in [Subs -> Seq(Positions)]
           /\ Delivered'
<1> USE DEF IInv
<1> DEFINE n == Len(sent) + 1
<1>0. PICK R \in SUBSET {s \in Subs : pubsub[s] = "open" /\ TopicOf[s] = m.topic} :
          channel' = [s \in Subs |-> IF s \in R THEN Append(channel[s], n) ELSE channel[s]]
  BY DEF Forward
<1>1. /\ Len(sent) < MaxSent /\ sent' = Append(sent, m) /\ sent \in Seq(Messages)
      /\ got' = got /\ got \in [Subs -> Seq(Positions)]
      /\ channel \in [Subs -> Seq(Positions)]
  BY DEF Forward, TypeOK
<1>2. /\ sent' \in Seq(Messages) /\ Len(sent') = n /\ sent'[n] = m
      /\ \A i \in 1 .. Len(sent) : sent'[i] = sent[i]
      /\ Len(sent) \in Nat
  BY <1>1
<1>3. n \in Positions /\ n <= MaxSent /\ MaxSent \in Nat /\ Positions \subseteq Nat
  BY <1>1, <1>2, RedisTransportAssumption DEF Positions
<1>4. n \in Nat /\ n > Len(sent)
  BY <1>2
<1> HIDE DEF n
<1>5. ASSUME NEW s \in Subs
      PROVE  channel'[s] \in Seq(Positions) /\ Ordered(s)'
  <2>0. /\ Ordered(s) /\ got'[s] = got[s] /\ channel[s] \in Seq(Positions)
        /\ got[s] \in Seq(Positions)
    BY <1>1, <1>5 DEF Delivered
  <2>1. \A j \in 1 .. Len(channel[s]) :
           /\ channel[s][j] \in Positions /\ channel[s][j] \in 1 .. Len(sent)
           /\ channel[s][j] <= Len(sent) /\ channel[s][j] < n
           /\ sent'[channel[s][j]].topic = TopicOf[s]
    <3> TAKE j \in 1 .. Len(channel[s])
    <3> DEFINE k == channel[s][j]
    <3>1. k \in Positions /\ k \in Nat /\ k >= 1
      BY <1>3, <2>0 DEF Positions
    <3>2. k <= Len(sent) /\ sent[k].topic = TopicOf[s]
      BY <2>0 DEF Ordered
    <3> HIDE DEF k
    <3>3. k \in 1 .. Len(sent) /\ k < n
      BY <1>2, <1>4, <3>1, <3>2
    <3>4. sent'[k] = sent[k]
      BY <1>2, <3>3
    <3> QED BY <3>1, <3>2, <3>3, <3>4 DEF k
  <2>2. \A i \in 1 .. Len(got[s]) :
           got[s][i] \in Positions /\ got[s][i] <= Len(sent') /\ got[s][i] < n
    <3> TAKE i \in 1 .. Len(got[s])
    <3> DEFINE k == got[s][i]
    <3>0. got[s][i] \in Positions
      BY <2>0
    <3>1. k \in Positions /\ k \in Nat
      BY <1>3, <3>0
    <3>2. k <= Len(sent)
      BY <2>0 DEF Ordered
    <3> HIDE DEF k
    <3>3. k <= Len(sent') /\ k < n
      BY <1>2, <1>4, <3>1, <3>2
    <3> QED BY <3>1, <3>3 DEF k
  <2>3. CASE s \notin R
    <3>1. channel'[s] = channel[s]
      BY <1>0, <2>3
    <3>2. \A j \in 1 .. Len(channel[s]) : channel[s][j] <= Len(sent')
      BY <1>2, <1>3, <1>4, <2>1
    <3> QED BY <2>0, <2>1, <2>2, <3>1, <3>2 DEF Ordered
  <2>4. CASE s \in R
    <3> DEFINE new == Append(channel[s], n)
    <3>1. channel'[s] = new /\ TopicOf[s] = m.topic
      BY <1>0, <2>4
    <3>2. /\ new \in Seq(Positions) /\ Len(new) = Len(channel[s]) + 1
          /\ \A j \in 1 .. Len(channel[s]) : new[j] = channel[s][j]
          /\ new[Len(channel[s]) + 1] = n
          /\ Increasing(new)
      BY <1>3, <2>0, <2>1, IncreasingAppended DEF Ordered
    <3>3. \A j \in 1 .. Len(new) : j \in 1 .. Len(channel[s]) \/ j = Len(channel[s]) + 1
      BY <2>0, <3>2
    <3> HIDE DEF new
    <3>4. \A j \in 1 .. Len(new) :
             new[j] <= Len(sent') /\ sent'[new[j]].topic = TopicOf[s]
      <4> TAKE j \in 1 .. Len(new)
      <4>1. CASE j \in 1 .. Len(channel[s])
        BY <1>2, <1>3, <1>4, <2>1, <3>2, <4>1
      <4>2. CASE j = Len(channel[s]) + 1
        BY <1>2, <1>4, <3>1, <3>2, <4>2
      <4> QED BY <3>3, <4>1, <4>2
    <3>5. \A i \in 1 .. Len(got[s]), j \in 1 .. Len(new) : got[s][i] < new[j]
      <4> TAKE i \in 1 .. Len(got[s]), j \in 1 .. Len(new)
      <4>1. CASE j \in 1 .. Len(channel[s])
        BY <2>0, <3>2, <4>1 DEF Ordered
      <4>2. CASE j = Len(channel[s]) + 1
        BY <2>2, <3>2, <4>2
      <4> QED BY <3>3, <4>1, <4>2
    <3> QED BY <2>0, <2>2, <3>1, <3>2, <3>4, <3>5 DEF Ordered
  <2> QED BY <2>3, <2>4
<1> QED BY <1>0, <1>2, <1>3, <1>5 DEF Delivered

LEMMA SendStep ==
    ASSUME IInv, NEW g \in Goroutines, Send(g)
    PROVE  IInv'
<1> USE DEF IInv
<1>1. /\ pc[g] = "send" /\ operand[g] \in Messages
      /\ UNCHANGED <<closed, subs, workers, clientOpen, pubsub, worker, got>>
  BY DEF Send, state, Operands
<1>2. ASSUME At(g, "idle", {}), UNCHANGED <<sent, channel>> PROVE IInv'
  <2>1. /\ Operands' /\ Counted' /\ Started' /\ Closed' /\ pc' \in [Goroutines -> Labels]
    BY <1>1, <1>2, Publishing
  <2>2. TypeOK' /\ Delivered'
    BY <1>1, <1>2, <2>1, SameDelivery DEF TypeOK
  <2> QED BY <2>1, <2>2
<1>3. ASSUME Forward(operand[g]), At(g, "idle", {}) \/ At(g, "resend", operand[g])
      PROVE  IInv'
  <2>1. /\ Operands' /\ Counted' /\ Started' /\ Closed' /\ pc' \in [Goroutines -> Labels]
    <3>1. CASE At(g, "idle", {})
      BY <1>1, <3>1, Publishing
    <3>2. CASE At(g, "resend", operand[g])
      <4> DEFINE x == operand[g]
      <4>1. x \in Messages /\ At(g, "resend", x)
        BY <1>1, <3>2
      <4> HIDE DEF x
      <4> QED BY <1>1, <4>1, Publishing
    <3> QED BY <1>3, <3>1, <3>2
  <2>2. /\ sent' \in Seq(Messages) /\ channel' \in [Subs -> Seq(Positions)] /\ Delivered'
    BY <1>1, <1>3, Forwarded
  <2>3. TypeOK'
    BY <1>1, <2>1, <2>2 DEF TypeOK
  <2> QED BY <2>1, <2>2, <2>3
<1> HIDE DEF IInv
<1> QED BY <1>2, <1>3 DEF Send, Done

LEMMA ResendStep ==
    ASSUME IInv, NEW g \in Goroutines, Resend(g)
    PROVE  IInv'
<1> USE DEF IInv
<1>1. /\ pc[g] = "resend" /\ operand[g] \in Messages
      /\ UNCHANGED <<closed, subs, workers, clientOpen, pubsub, worker, got>>
  BY DEF Resend, state, Operands
<1>2. /\ Operands' /\ Counted' /\ Started' /\ Closed' /\ pc' \in [Goroutines -> Labels]
  <2>1. CASE At(g, "idle", {})
    BY <1>1, <2>1, Publishing
  <2>2. CASE UNCHANGED <<pc, operand>>
    BY <1>1, <2>2
    DEF TypeOK, Operands, Counted, Live, Started, Closed, Closing, Spawning
  <2> QED BY <2>1, <2>2 DEF Resend, Done
<1>3. /\ sent' \in Seq(Messages) /\ channel' \in [Subs -> Seq(Positions)] /\ Delivered'
  <2>1. CASE Forward(operand[g])
    BY <1>1, <2>1, Forwarded
  <2>2. CASE UNCHANGED <<sent, channel>>
    BY <1>1, <2>2, SameDelivery DEF TypeOK
  <2> QED BY <2>1, <2>2 DEF Resend
<1>4. TypeOK'
  BY <1>1, <1>2, <1>3 DEF TypeOK
<1> QED BY <1>2, <1>3, <1>4

LEMMA ForeignPublishStep ==
    ASSUME IInv, ForeignPublish
    PROVE  IInv'
<1> USE DEF IInv
<1>1. UNCHANGED <<closed, subs, workers, clientOpen, pubsub, worker, pc, operand, got>>
  BY DEF ForeignPublish, state
<1>2. PICK m \in Messages : Forward(m)
  BY DEF ForeignPublish, Messages
<1>3. /\ sent' \in Seq(Messages) /\ channel' \in [Subs -> Seq(Positions)] /\ Delivered'
  BY <1>1, <1>2, Forwarded
<1>4. TypeOK'
  BY <1>1, <1>3 DEF TypeOK
<1>5. Operands' /\ Counted' /\ Started' /\ Closed'
  BY <1>1 DEF Operands, Counted, Live, Started, Closed, Closing, Spawning
<1> QED BY <1>3, <1>4, <1>5

-----------------------------------------------------------------------------
(* The steps of Close.                                                     *)

LEMMA SameState == ASSUME IInv, UNCHANGED vars PROVE IInv'
<1> USE DEF IInv, vars
<1>1. TypeOK' /\ Operands' /\ Delivered'
  BY SameDelivery DEF TypeOK, Operands
<1>2. Counted' /\ Started' /\ Closed'
  BY DEF Counted, Live, Started, Closed, Closing, Spawning
<1> QED BY <1>1, <1>2

\* A goroutine that closes goes from one place to the next.
LEMMA ClosingMoves ==
    ASSUME IInv, NEW g \in Goroutines, NEW label \in {"idle", "pubsubs", "wait", "client"},
           NEW x, pc[g] # "spawn", At(g, label, x), label = "pubsubs" => x \subseteq Subs,
           UNCHANGED <<workers, worker, channel, sent, got>>,
           pubsub' \in [Subs -> {"none", "open", "closed"}],
           \A s \in Subs : pubsub'[s] = "none" <=> pubsub[s] = "none",
           closed' \in BOOLEAN, clientOpen' \in BOOLEAN, subs' \subseteq Subs
    PROVE  /\ TypeOK' /\ Operands' /\ Counted' /\ Started' /\ Delivered'
           /\ pc'[g] = label /\ operand'[g] = x
           /\ \A h \in Goroutines \ {g} : pc'[h] = pc[h] /\ operand'[h] = operand[h]
<1> USE DEF IInv
<1>1. /\ pc'[g] = label /\ operand'[g] = x
      /\ \A h \in Goroutines \ {g} : pc'[h] = pc[h] /\ operand'[h] = operand[h]
      /\ pc' \in [Goroutines -> Labels]
  BY Moved DEF Labels
<1>2. Operands'
  BY MovedOperands
<1>3. \A t \in Subs : \A h \in Goroutines : Spawning(h, t)' <=> Spawning(h, t)
  BY <1>1 DEF Spawning
<1>4. Counted'
  BY <1>3, SameWorkers DEF Live
<1>5. Started'
  BY <1>3 DEF Started
<1>6. TypeOK'
  BY <1>1 DEF TypeOK
<1>7. Delivered'
  BY SameDelivery
<1> QED BY <1>1, <1>2, <1>4, <1>5, <1>6, <1>7

LEMMA CloseStep ==
    ASSUME IInv, NEW g \in Goroutines, Close(g)
    PROVE  IInv'
<1> USE DEF IInv
<1>1. /\ pc[g] = "idle"
      /\ UNCHANGED <<workers, clientOpen, pubsub, channel, worker, sent, got>>
  BY DEF Close, MayCall, delivery
<1>2. CASE UNCHANGED <<closed, subs, pc, operand>>
  BY <1>1, <1>2, SameState DEF vars
<1>3. CASE ~closed /\ closed' = TRUE /\ At(g, "pubsubs", subs) /\ subs' = {}
  <2>1. /\ TypeOK' /\ Operands' /\ Counted' /\ Started' /\ Delivered'
        /\ pc'[g] = "pubsubs" /\ operand'[g] = subs
        /\ \A h \in Goroutines \ {g} : pc'[h] = pc[h] /\ operand'[h] = operand[h]
    BY <1>1, <1>3, ClosingMoves DEF TypeOK
  <2>2. clientOpen /\ (\A h \in Goroutines : ~Closing(h)) /\ subs \subseteq Subs
    BY <1>3 DEF Closed, TypeOK
  <2>3. \A h \in Goroutines : Closing(h)' => h = g
    BY <2>1, <2>2 DEF Closing
  <2>4. \A h \in Goroutines : pc[h] # "pubsubs" /\ pc'[h] # "client"
    BY <2>1, <2>2 DEF Closing
  <2>5. \A s \in Subs : pubsub[s] = "open" => s \in operand'[g]
    BY <2>1, <2>4 DEF Closed
  <2>6. \A h \in Goroutines : pc'[h] = "pubsubs" => h = g
    BY <2>1, <2>4
  <2>7. \A s \in operand'[g] : pubsub'[s] # "none"
    BY <1>1, <2>1 DEF Closed
  <2>8. Closed'
    BY <1>1, <1>3, <2>1, <2>2, <2>3, <2>4, <2>5, <2>6, <2>7 DEF Closed
  <2> QED BY <2>1, <2>8
<1> QED BY <1>2, <1>3 DEF Close

LEMMA ClosePubSubStep ==
    ASSUME IInv, NEW g \in Goroutines, ClosePubSub(g)
    PROVE  IInv'
<1> USE DEF IInv
<1>1. /\ pc[g] = "pubsubs" /\ operand[g] \subseteq Subs
      /\ UNCHANGED <<closed, subs, workers, clientOpen, channel, worker, sent, got>>
      /\ closed \in BOOLEAN /\ clientOpen \in BOOLEAN /\ subs \subseteq Subs
      /\ pubsub \in [Subs -> {"none", "open", "closed"}]
  BY DEF ClosePubSub, state, Operands, TypeOK
<1>2. \A h \in Goroutines : Closing(h) => h = g
  BY <1>1 DEF Closed, Closing
<1>3. /\ closed /\ clientOpen /\ subs = {}
      /\ \A s \in Subs : pubsub[s] = "open" => s \in operand[g]
      /\ \A s \in operand[g] : pubsub[s] # "none"
  BY <1>1, <1>2 DEF Closed, Closing
<1>4. ASSUME NEW s \in operand[g], pubsub' = [pubsub EXCEPT ![s] = "closed"],
             At(g, "pubsubs", operand[g] \ {s})
      PROVE  IInv'
  <2>1. /\ pubsub' \in [Subs -> {"none", "open", "closed"}]
        /\ \A t \in Subs : pubsub'[t] = IF t = s THEN "closed" ELSE pubsub[t]
    BY <1>1, <1>4
  <2>2. /\ TypeOK' /\ Operands' /\ Counted' /\ Started' /\ Delivered'
        /\ pc'[g] = "pubsubs" /\ operand'[g] = operand[g] \ {s}
        /\ \A h \in Goroutines \ {g} : pc'[h] = pc[h] /\ operand'[h] = operand[h]
    BY <1>1, <1>3, <1>4, <2>1, ClosingMoves
  <2>3. \A h \in Goroutines : Closing(h)' => h = g
    BY <1>2, <2>2 DEF Closing
  <2>4. \A h \in Goroutines : pc'[h] = "pubsubs" => h = g /\ pc'[g] # "client"
    BY <2>2, <2>3 DEF Closing
  <2>5. \A h \in Goroutines : pc'[h] # "client"
    BY <2>2, <2>3 DEF Closing
  <2>6. Closed'
    BY <1>1, <1>3, <2>1, <2>2, <2>3, <2>4, <2>5 DEF Closed
  <2> QED BY <2>2, <2>6
<1>5. CASE operand[g] = {} /\ At(g, "wait", {}) /\ UNCHANGED pubsub
  <2>1. /\ TypeOK' /\ Operands' /\ Counted' /\ Started' /\ Delivered'
        /\ pc'[g] = "wait" /\ operand'[g] = {}
        /\ \A h \in Goroutines \ {g} : pc'[h] = pc[h] /\ operand'[h] = operand[h]
    BY <1>1, <1>5, ClosingMoves
  <2>2. \A h \in Goroutines : Closing(h)' => h = g
    BY <1>2, <2>1 DEF Closing
  <2>3. \A h \in Goroutines : pc'[h] # "client" /\ pc'[h] # "pubsubs"
    BY <2>1, <2>2 DEF Closing
  <2>4. Closed'
    BY <1>1, <1>3, <1>5, <2>1, <2>2, <2>3 DEF Closed
  <2> QED BY <2>1, <2>4
<1> QED BY <1>4, <1>5 DEF ClosePubSub

LEMMA WaitStep ==
    ASSUME IInv, NEW g \in Goroutines, Wait(g)
    PROVE  IInv'
<1> USE DEF IInv
<1>1. /\ pc[g] = "wait" /\ workers = 0 /\ At(g, "client", {})
      /\ UNCHANGED <<closed, subs, workers, clientOpen, pubsub, channel, worker, sent, got>>
      /\ closed \in BOOLEAN /\ clientOpen \in BOOLEAN /\ subs \subseteq Subs
      /\ pubsub \in [Subs -> {"none", "open", "closed"}]
  BY DEF Wait, state, delivery, TypeOK
<1>2. /\ TypeOK' /\ Operands' /\ Counted' /\ Started' /\ Delivered'
      /\ pc'[g] = "client"
      /\ \A h \in Goroutines \ {g} : pc'[h] = pc[h] /\ operand'[h] = operand[h]
  BY <1>1, ClosingMoves
<1>3. Closed'
  BY <1>1, <1>2 DEF Closed, Closing
<1> QED BY <1>2, <1>3

LEMMA CloseClientStep ==
    ASSUME IInv, NEW g \in Goroutines, CloseClient(g)
    PROVE  IInv'
<1> USE DEF IInv
<1>1. /\ pc[g] = "client" /\ clientOpen' = FALSE /\ At(g, "idle", {})
      /\ UNCHANGED <<closed, subs, workers, pubsub, channel, worker, sent, got>>
      /\ closed \in BOOLEAN /\ subs \subseteq Subs
      /\ pubsub \in [Subs -> {"none", "open", "closed"}]
  BY DEF CloseClient, Done, delivery, TypeOK
<1>2. /\ TypeOK' /\ Operands' /\ Counted' /\ Started' /\ Delivered'
      /\ pc'[g] = "idle"
      /\ \A h \in Goroutines \ {g} : pc'[h] = pc[h] /\ operand'[h] = operand[h]
  BY <1>1, ClosingMoves
<1>3. closed /\ workers = 0 /\ subs = {}
  BY <1>1 DEF Closed, Closing
<1>4. \A h \in Goroutines : ~Closing(h)'
  BY <1>1, <1>2 DEF Closed, Closing
<1>5. Closed'
  BY <1>1, <1>2, <1>3, <1>4 DEF Closed, Closing
<1> QED BY <1>2, <1>5

-----------------------------------------------------------------------------
(* The steps of consume.                                                   *)

\* A worker goes from one place to the next, or ends.
LEMMA TakeStep ==
    ASSUME IInv, NEW s \in Subs, Take(s)
    PROVE  IInv'
<1> USE DEF IInv
<1>1. /\ worker[s] = "select" /\ channel[s] # <<>>
      /\ worker' = [worker EXCEPT ![s] = "callback"]
      /\ channel' = [channel EXCEPT ![s] = Tail(@)]
      /\ got' = [got EXCEPT ![s] = IF Handles(s, sent[Head(channel[s])])
                                  THEN Append(@, Head(channel[s])) ELSE @]
      /\ UNCHANGED <<closed, subs, workers, clientOpen, pubsub, pc, operand, sent>>
  BY DEF Take, state
<1>2. /\ channel[s] \in Seq(Positions) /\ got[s] \in Seq(Positions) /\ Ordered(s)
      /\ Increasing(channel[s]) /\ Increasing(got[s])
  BY DEF TypeOK, Delivered, Ordered
<1> DEFINE head == Head(channel[s])
           tail == Tail(channel[s])
<1>3. /\ head \in Positions /\ head = channel[s][1] /\ 1 \in 1 .. Len(channel[s])
      /\ tail \in Seq(Positions) /\ Len(tail) = Len(channel[s]) - 1
      /\ \A i \in 1 .. Len(tail) :
            /\ i + 1 \in 1 .. Len(channel[s]) /\ tail[i] = channel[s][i + 1]
            /\ head < tail[i]
      /\ Increasing(tail)
  BY <1>1, <1>2, IncreasingTail
<1> HIDE DEF head, tail
<1>4. \A i \in 1 .. Len(got[s]) : got[s][i] < head
  BY <1>2, <1>3 DEF Ordered
<1>5. head <= Len(sent)
  BY <1>2, <1>3 DEF Ordered
<1>6. \A i \in 1 .. Len(tail) :
         tail[i] <= Len(sent) /\ sent[tail[i]].topic = TopicOf[s]
  BY <1>2, <1>3 DEF Ordered
<1>7. \A i \in 1 .. Len(got[s]), j \in 1 .. Len(tail) : got[s][i] < tail[j]
  BY <1>2, <1>3 DEF Ordered
<1>8. got'[s] = got[s] \/ got'[s] = Append(got[s], head)
  BY <1>1 DEF TypeOK, head
<1>9. got'[s] \in Seq(Positions) /\ Ordered(s)'
  <2>1. channel'[s] = tail /\ sent' = sent
    BY <1>1 DEF TypeOK, tail
  <2>2. CASE got'[s] = got[s]
    BY <1>2, <1>3, <1>6, <1>7, <2>1, <2>2 DEF Ordered
  <2>3. CASE got'[s] = Append(got[s], head)
    <3> DEFINE new == Append(got[s], head)
    <3>1. /\ new \in Seq(Positions) /\ Len(new) = Len(got[s]) + 1
          /\ \A i \in 1 .. Len(got[s]) : new[i] = got[s][i]
          /\ new[Len(got[s]) + 1] = head
          /\ Increasing(new)
      BY <1>2, <1>3, <1>4, IncreasingAppended
    <3>2. \A i \in 1 .. Len(new) : i \in 1 .. Len(got[s]) \/ i = Len(got[s]) + 1
      BY <1>2, <3>1
    <3> HIDE DEF new
    <3>3. \A i \in 1 .. Len(new), j \in 1 .. Len(tail) : new[i] < tail[j]
      BY <1>3, <1>7, <3>1, <3>2
    <3>4. \A i \in 1 .. Len(new) : new[i] <= Len(sent)
      <4> TAKE i \in 1 .. Len(new)
      <4>1. CASE i \in 1 .. Len(got[s])
        BY <1>2, <3>1, <4>1 DEF Ordered
      <4>2. CASE i = Len(got[s]) + 1
        BY <1>5, <3>1, <4>2
      <4> QED BY <3>2, <4>1, <4>2
    <3>5. got'[s] = new
      BY <2>3 DEF new
    <3> QED BY <1>3, <1>6, <2>1, <3>1, <3>3, <3>4, <3>5 DEF Ordered
  <2> QED BY <1>8, <2>2, <2>3
<1>10. /\ got' \in [Subs -> Seq(Positions)] /\ channel' \in [Subs -> Seq(Positions)]
       /\ \A t \in Subs \ {s} : got'[t] = got[t] /\ channel'[t] = channel[t]
       /\ worker' \in [Subs -> {"none", "select", "callback", "done"}]
       /\ \A t \in Subs : worker'[t] = IF t = s THEN "callback" ELSE worker[t]
  <2>1. got' = [got EXCEPT ![s] = got'[s]] /\ channel' = [channel EXCEPT ![s] = tail]
    BY <1>1 DEF TypeOK, tail
  <2> QED BY <1>1, <1>3, <1>9, <2>1 DEF TypeOK
<1>11. TypeOK' /\ Operands'
  BY <1>1, <1>10 DEF TypeOK, Operands
<1>12. Counted'
  BY <1>1, <1>10, SameWorkers DEF Live, Spawning
<1>13. Started' /\ Closed'
  BY <1>1, <1>10 DEF Started, Spawning, Closed, Closing
<1>14. Delivered'
  <2>1. ASSUME NEW t \in Subs \ {s} PROVE Ordered(t)'
    BY <1>1, <1>10, <2>1 DEF Delivered, Ordered
  <2> QED BY <1>1, <1>9, <2>1 DEF Delivered
<1> QED BY <1>11, <1>12, <1>13, <1>14

LEMMA CallbackReturnsStep ==
    ASSUME IInv, NEW s \in Subs, CallbackReturns(s)
    PROVE  IInv'
<1> USE DEF IInv
<1>1. /\ worker[s] = "callback"
      /\ worker' = [worker EXCEPT ![s] = "select"]
      /\ UNCHANGED <<closed, subs, workers, clientOpen, pubsub, channel, pc, operand,
                     sent, got>>
  BY DEF CallbackReturns, state
<1>2. /\ worker' \in [Subs -> {"none", "select", "callback", "done"}]
      /\ \A t \in Subs : worker'[t] = IF t = s THEN "select" ELSE worker[t]
  BY <1>1 DEF TypeOK
<1>3. TypeOK' /\ Operands'
  BY <1>1, <1>2 DEF TypeOK, Operands
<1>4. Counted'
  BY <1>1, <1>2, SameWorkers DEF Live, Spawning
<1>5. Started' /\ Closed'
  BY <1>1, <1>2 DEF Started, Spawning, Closed, Closing
<1>6. Delivered'
  BY <1>1, SameDelivery
<1> QED BY <1>3, <1>4, <1>5, <1>6

LEMMA ExitStep ==
    ASSUME IInv, NEW s \in Subs, Exit(s)
    PROVE  IInv'
<1> USE DEF IInv
<1>1. /\ worker[s] = "select" /\ workers' = workers - 1
      /\ worker' = [worker EXCEPT ![s] = "done"]
      /\ UNCHANGED <<closed, subs, clientOpen, pubsub, channel, pc, operand, sent, got>>
  BY DEF Exit
<1>2. /\ worker' \in [Subs -> {"none", "select", "callback", "done"}]
      /\ \A t \in Subs : worker'[t] = IF t = s THEN "done" ELSE worker[t]
  BY <1>1 DEF TypeOK
<1>3. \A g \in Goroutines : ~Spawning(g, s)
  BY <1>1 DEF Started
<1>4. Counted'
  <2>1. Live(s) /\ ~Live(s)'
    BY <1>1, <1>2, <1>3 DEF Live, Spawning
  <2>2. \A t \in Subs \ {s} : Live(t)' <=> Live(t)
    BY <1>1, <1>2 DEF Live, Spawning
  <2> QED BY <1>1, <2>1, <2>2, FewerWorkers
<1>5. workers > 0
  BY <1>1, LiveSet DEF Live
<1>6. workers' \in 0 .. Cardinality(Subs)
  <2>1. Cardinality(Subs) \in Nat
    BY RedisTransportAssumption, FS_CardinalityType
  <2> QED BY <1>1, <1>5, <2>1 DEF TypeOK
<1>7. TypeOK' /\ Operands'
  BY <1>1, <1>2, <1>6 DEF TypeOK, Operands
<1>8. Started'
  BY <1>1, <1>2, <1>3 DEF Started, Spawning
<1>9. Closed'
  BY <1>1, <1>5 DEF Closed, Closing
<1>10. Delivered'
  BY <1>1, SameDelivery
<1> QED BY <1>4, <1>7, <1>8, <1>9, <1>10

-----------------------------------------------------------------------------
(* The invariant holds.                                                    *)

LEMMA InitIInv == Init => IInv
<1> SUFFICES ASSUME Init PROVE IInv
  OBVIOUS
<1>1. Cardinality(Subs) \in Nat
  BY RedisTransportAssumption, FS_CardinalityType
<1>2. TypeOK /\ Operands
  <2>1. closed \in BOOLEAN /\ clientOpen \in BOOLEAN
    BY Zenon DEF Init
  <2>2. TypeOK
    BY <1>1, <2>1 DEF Init, TypeOK, Labels
  <2>3. Operands
    BY DEF Init, Operands
  <2> QED BY <2>2, <2>3
<1>3. \A s \in Subs : ~Live(s)
  BY DEF Init, Live, Spawning
<1>4. Counted
  <2>1. {s \in Subs : Live(s)} = {}
    BY <1>3
  <2> QED BY <2>1, FS_EmptySet DEF Init, Counted
<1>5. Started /\ Closed
  BY DEF Init, Started, Spawning, Closed, Closing
<1>6. Delivered
  BY RedisTransportAssumption DEF Init, Delivered, Ordered, Increasing
<1> QED BY <1>2, <1>4, <1>5, <1>6 DEF IInv

LEMMA NextIInv == IInv /\ [Next]_vars => IInv'
<1> SUFFICES ASSUME IInv, [Next]_vars PROVE IInv'
  OBVIOUS
<1>1. CASE UNCHANGED vars
  BY <1>1, SameState
<1>2. ASSUME NEW g \in Goroutines,
             Subscribe(g) \/ Publish(g) \/ Close(g) \/ CallStep(g)
      PROVE  IInv'
  BY <1>2, SubscribeStep, PublishStep, CloseStep, SpawnStep, SendStep,
     ResendStep, ClosePubSubStep, WaitStep, CloseClientStep DEF CallStep
<1>3. ASSUME NEW s \in Subs, Take(s) \/ CallbackReturns(s) \/ Exit(s)
      PROVE  IInv'
  BY <1>3, TakeStep, CallbackReturnsStep, ExitStep
<1> QED BY <1>1, <1>2, <1>3, ForeignPublishStep DEF Next

LEMMA Invariance == Spec => []IInv
BY InitIInv, NextIInv, PTL DEF Spec

\* Whatever subscribes, publishes, closes and calls back, the counter of the
\* WaitGroup never goes below zero, which would panic, and every goroutine is
\* at one of its steps (transport_redis.go:62-142).
THEOREM TypeCorrectness == Spec => []TypeOK
<1>1. IInv => TypeOK
  BY DEF IInv
<1> QED BY <1>1, Invariance, PTL

\* A closed client means that every PubSub is closed and every worker gone,
\* for any number of goroutines that subscribe, publish and close while it is
\* being closed, from callbacks too (transport_redis.go:99-122).
THEOREM NothingLeftOpen == Spec => []ReleasedTogether
<1>1. ASSUME IInv PROVE ReleasedTogether
  <2>1. SUFFICES ASSUME ~clientOpen, NEW s \in Subs, pubsub[s] # "none"
                 PROVE  pubsub[s] = "closed" /\ worker[s] = "done"
    BY DEF ReleasedTogether
  <2>2. /\ closed /\ workers = 0 /\ subs = {}
        /\ \A g \in Goroutines : pc[g] # "pubsubs"
    BY <1>1, <2>1 DEF IInv, Closed, Closing
  <2>3. ~Live(s)
    BY <1>1, <2>2, LiveSet DEF IInv
  <2>4. pubsub[s] # "open"
    BY <1>1, <2>2 DEF IInv, Closed
  <2>5. worker[s] # "none"
    BY <1>1, <2>1, <2>3 DEF IInv, Started, Live
  <2> QED BY <1>1, <2>1, <2>3, <2>4, <2>5 DEF IInv, TypeOK, Live
<1> QED BY <1>1, Invariance, PTL

\* Every handler is called in the order the server took the messages and not
\* twice for one time that it took one, however many were sent again, lost on
\* the way or taken after the transport was closed (transport_redis.go:127-142).
THEOREM HandledInOrder == Spec => []InOrder
<1>1. IInv => InOrder
  BY DEF IInv, Delivered, Ordered, Increasing, InOrder
<1> QED BY <1>1, Invariance, PTL

-----------------------------------------------------------------------------
(* The refinement.                                                         *)

LEMMA InitRefines == Init => Promised!Init
BY DEF Init, Promised!Init

LEMMA ForwardRefines ==
    ASSUME NEW m \in Messages, Forward(m), clientOpen,
           UNCHANGED <<got, clientOpen>>
    PROVE  Promised!Accept
BY DEF Forward, Promised!Accept, Messages, Promised!Messages

\* What a worker takes is of its subscription, later than all it got, and not
\* after the client was closed: the WaitGroup still counts the worker.
LEMMA TakeRefines ==
    ASSUME IInv, NEW s \in Subs, Take(s)
    PROVE  Promised!Handle(s) \/ UNCHANGED Promised!vars
<1> DEFINE i == Head(channel[s])
<1>1. /\ worker[s] = "select" /\ channel[s] # <<>>
      /\ got' = [got EXCEPT ![s] = IF Handles(s, sent[i]) THEN Append(@, i) ELSE @]
      /\ UNCHANGED <<sent, clientOpen>>
  BY DEF Take, state
<1>2. clientOpen
  <2>1. Live(s)
    BY <1>1 DEF Live
  <2> QED BY <2>1, LiveSet DEF IInv, Closed
<1>3. /\ channel[s] \in Seq(Positions) /\ Increasing(channel[s])
      /\ got[s] \in Seq(Positions) /\ sent \in Seq(Messages) /\ Ordered(s)
  BY DEF IInv, TypeOK, Delivered, Ordered
<1>4. i \in Positions /\ i = channel[s][1] /\ 1 \in 1 .. Len(channel[s])
  BY <1>1, <1>3, IncreasingTail
<1>5. /\ i <= Len(sent) /\ sent[i].topic = TopicOf[s]
      /\ \A j \in 1 .. Len(got[s]) : got[s][j] < i
  BY <1>3, <1>4 DEF Ordered
<1> HIDE DEF i
<1>6. i \in 1 .. Len(sent)
  BY <1>3, <1>4, <1>5 DEF Positions
<1>7. \A j \in 1 .. Len(got[s]) : got[s][j] # i
  <2> TAKE j \in 1 .. Len(got[s])
  <2>1. got[s][j] \in Positions /\ got[s][j] < i
    BY <1>3, <1>5
  <2> QED BY <1>4, <2>1 DEF Positions
<1>8. CASE Handles(s, sent[i])
  <2>1. sent[i] \in Messages
    BY <1>3, <1>6
  <2>2. Promised!Concerns(s, sent[i])
    BY <1>5, <1>8, <2>1 DEF Handles, Messages, Promised!Concerns
  <2>3. got' = [got EXCEPT ![s] = Append(@, i)]
    BY <1>1, <1>8
  <2> QED BY <1>1, <1>2, <1>6, <1>7, <2>2, <2>3 DEF Promised!Handle
<1>9. CASE ~Handles(s, sent[i])
  <2>1. got' = got
    BY <1>1, <1>9 DEF IInv, TypeOK
  <2> QED BY <1>1, <2>1 DEF Promised!vars
<1> QED BY <1>8, <1>9

LEMMA NextRefines == IInv /\ [Next]_vars => [Promised!Next]_Promised!vars
<1> SUFFICES ASSUME IInv, [Next]_vars
             PROVE  Promised!Next \/ UNCHANGED Promised!vars
  OBVIOUS
<1>1. CASE UNCHANGED <<sent, got, clientOpen>>
  BY <1>1 DEF Promised!vars
<1>2. ASSUME NEW g \in Goroutines,
             Subscribe(g) \/ Publish(g) \/ Close(g) \/ Spawn(g) \/ ClosePubSub(g) \/ Wait(g)
      PROVE  UNCHANGED <<sent, got, clientOpen>>
  BY <1>2 DEF Subscribe, Publish, Close, Spawn, ClosePubSub, Wait, state, delivery
<1>3. ASSUME NEW g \in Goroutines, Send(g) \/ Resend(g)
      PROVE  Promised!Accept \/ UNCHANGED <<sent, got, clientOpen>>
  <2>1. UNCHANGED <<got, clientOpen>>
    BY <1>3 DEF Send, Resend, state
  <2>2. \/ UNCHANGED sent
        \/ clientOpen /\ \E m \in Messages : Forward(m)
    BY <1>3 DEF IInv, Operands, Send, Resend
  <2> QED BY <2>1, <2>2, ForwardRefines
<1>4. ASSUME NEW g \in Goroutines, CloseClient(g) PROVE Promised!Close
  BY <1>4 DEF CloseClient, delivery, Promised!Close
<1>5. ASSUME ForeignPublish PROVE Promised!Accept
  <2>1. clientOpen /\ UNCHANGED <<got, clientOpen>>
    BY <1>5 DEF ForeignPublish, state
  <2>2. PICK m \in Messages : Forward(m)
    BY <1>5 DEF ForeignPublish, Messages
  <2> QED BY <2>1, <2>2, ForwardRefines
<1>6. ASSUME NEW s \in Subs, CallbackReturns(s) \/ Exit(s)
      PROVE  UNCHANGED <<sent, got, clientOpen>>
  BY <1>6 DEF CallbackReturns, Exit, state
<1>7. CASE UNCHANGED vars
  BY <1>1, <1>7 DEF vars
<1>8. CASE Next
  <2>1. CASE \E g \in Goroutines : Subscribe(g) \/ Publish(g) \/ Close(g) \/ CallStep(g)
    BY <1>1, <1>2, <1>3, <1>4, <2>1 DEF CallStep, Promised!Next
  <2>2. CASE ForeignPublish
    BY <1>5, <2>2 DEF Promised!Next
  <2>3. CASE \E s \in Subs : Take(s) \/ CallbackReturns(s) \/ Exit(s)
    BY <1>1, <1>6, <2>3, TakeRefines DEF Promised!Next
  <2> QED BY <1>8, <2>1, <2>2, <2>3 DEF Next
<1> QED BY <1>7, <1>8

\* Over this transport the bus keeps its promise: a subscription handles what
\* is of its topic and tenant, each envelope once, and nothing any more when
\* the client is closed (bus.go, transport_redis.go).
THEOREM BusRefined == Spec => ImplementsEventBus
BY InitRefines, NextRefines, Invariance, PTL DEF Spec, ImplementsEventBus, Promised!Spec

=============================================================================
