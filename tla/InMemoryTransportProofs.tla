----------------------- MODULE InMemoryTransportProofs -----------------------
(***************************************************************************)
(* The fan-out and the chains of the in-memory transport, for any          *)
(* goroutines, subscriptions, tenants and messages.  A message has a       *)
(* handler still to call only in the one frame of its Publish; a handler   *)
(* that was copied and is not to be called any more was called once.       *)
(***************************************************************************)
EXTENDS InMemoryTransport, FiniteSetTheorems, TLAPS

-----------------------------------------------------------------------------
(* The invariant.                                                          *)

\* No element comes twice.
Distinct(seq) == \A i, j \in 1 .. Len(seq) : seq[i] = seq[j] => i = j

Among(x, seq) == \E i \in 1 .. Len(seq) : seq[i] = x

\* The handlers of a frame that are not called yet.
ToCall(frame, s) ==
    Among(s, frame.left) /\ (frame.inHandler => s # Head(frame.left))

Waiting(s, i) == \E c \in Callers : \E d \in 1 .. Len(stack[c]) :
    stack[c][d].at = i /\ ToCall(stack[c][d], s)

FrameOK(frame) ==
    /\ frame.at \in 1 .. Len(sent)
    /\ frame.inHandler => frame.left # <<>>
    /\ Distinct(frame.left)
    /\ \A s \in Subs : Among(s, frame.left) => Among(s, audience[frame.at])

Framed ==
    /\ \A c \in Callers : \A d \in 1 .. Len(stack[c]) : FrameOK(stack[c][d])
    /\ \A c, e \in Callers : \A d \in 1 .. Len(stack[c]), f \in 1 .. Len(stack[e]) :
          stack[c][d].at = stack[e][f].at => c = e /\ d = f

Registered ==
    /\ \A t \in Topics : Distinct(handlers[t])
    /\ \A t \in Topics, s \in Subs : Among(s, handlers[t]) => TopicOf[s] = t
    /\ \A i \in 1 .. Len(sent), s \in Subs :
          Among(s, audience[i]) => TopicOf[s] = sent[i].topic

\* What a handler was called with: each message that was for it, once, unless
\* it is still waiting for it.
Called(s) ==
    /\ Distinct(got[s])
    /\ \A j \in 1 .. Len(got[s]) : got[s][j] <= Len(sent)
    /\ \A i \in 1 .. Len(sent) :
          Among(i, got[s]) <=> /\ Among(s, audience[i]) /\ ~Waiting(s, i)
                               /\ FilterOf[s] \in {NoFilter, sent[i].tenant}

IInv ==
    /\ TypeOK /\ Len(sent) <= MaxSent
    /\ Framed /\ Registered
    /\ \A s \in Subs : Called(s)
    /\ ChainsKeepTenant

-----------------------------------------------------------------------------
(* The operators on sequences.                                             *)

LEMMA Appended ==
    ASSUME NEW S, NEW seq \in Seq(S), NEW v \in S
    PROVE  /\ Append(seq, v) \in Seq(S) /\ Len(Append(seq, v)) = Len(seq) + 1
           /\ Len(seq) \in Nat
           /\ \A i \in 1 .. Len(seq) : Append(seq, v)[i] = seq[i]
           /\ Append(seq, v)[Len(seq) + 1] = v
           /\ \A i \in 1 .. Len(seq) + 1 : i \in 1 .. Len(seq) \/ i = Len(seq) + 1
           /\ \A x : Among(x, Append(seq, v)) <=> Among(x, seq) \/ x = v
           /\ Distinct(seq) /\ ~Among(v, seq) => Distinct(Append(seq, v))
<1> DEFINE new == Append(seq, v)
           n == Len(seq)
<1>1. /\ new \in Seq(S) /\ Len(new) = n + 1 /\ n \in Nat
      /\ \A i \in 1 .. n : new[i] = seq[i]
      /\ new[n + 1] = v
  OBVIOUS
<1> HIDE DEF new, n
<1>2. /\ \A i \in 1 .. n + 1 : i \in 1 .. n \/ i = n + 1
      /\ \A i \in 1 .. n : i \in 1 .. n + 1
      /\ n + 1 \in 1 .. n + 1
  BY <1>1
<1>3. \A x : Among(x, new) <=> Among(x, seq) \/ x = v
  BY <1>1, <1>2 DEF Among, n
<1>4. Distinct(seq) /\ ~Among(v, seq) => Distinct(new)
  BY <1>1, <1>2 DEF Distinct, Among, n
<1> QED BY <1>1, <1>2, <1>3, <1>4 DEF new, n

LEMMA SentTyped ==
    ASSUME TypeOK, NEW i \in 1 .. Len(sent)
    PROVE  sent[i] \in [topic: Topics, tenant: Tenants]
<1> DEFINE Accepted == [topic: Topics, tenant: Tenants]
<1>1. sent \in Seq(Accepted)
  BY DEF TypeOK
<1> HIDE DEF Accepted
<1>2. sent[i] \in Accepted
  BY <1>1
<1> QED BY <1>2 DEF Accepted

LEMMA HeadTaken ==
    ASSUME NEW S, NEW seq \in Seq(S), seq # <<>>
    PROVE  /\ Head(seq) \in S /\ Head(seq) = seq[1] /\ 1 \in 1 .. Len(seq)
           /\ Len(seq) \in Nat
           /\ Tail(seq) \in Seq(S) /\ Len(Tail(seq)) = Len(seq) - 1
           /\ \A i \in 1 .. Len(seq) - 1 : i + 1 \in 1 .. Len(seq) /\ Tail(seq)[i] = seq[i + 1]
           /\ Among(Head(seq), seq)
           /\ Distinct(seq) =>
                 /\ Distinct(Tail(seq))
                 /\ \A x : Among(x, Tail(seq)) <=> Among(x, seq) /\ x # Head(seq)
<1> DEFINE n == Len(seq) - 1
           tail == Tail(seq)
<1>1. n \in Nat /\ Len(seq) = n + 1 /\ Head(seq) = seq[1]
  OBVIOUS
<1>2. tail \in Seq(S) /\ Len(tail) = n /\ \A i \in 1 .. n : tail[i] = seq[i + 1]
  BY <1>1
<1> HIDE DEF n, tail
<1>3. /\ \A i \in 1 .. n : i + 1 \in 1 .. n + 1 /\ i + 1 # 1
      /\ \A i, j \in 1 .. n : i + 1 = j + 1 => i = j
      /\ \A i \in 1 .. n + 1 : i = 1 \/ (i - 1 \in 1 .. n /\ (i - 1) + 1 = i)
      /\ 1 \in 1 .. n + 1
  BY <1>1
<1>4. Among(Head(seq), seq)
  BY <1>1, <1>3 DEF Among
<1>5. ASSUME Distinct(seq) PROVE Distinct(tail)
  BY <1>1, <1>2, <1>3, <1>5 DEF Distinct
<1>6. ASSUME Distinct(seq), NEW x, NEW i \in 1 .. n, tail[i] = x
      PROVE  Among(x, seq) /\ x # Head(seq)
  <2>1. x = seq[i + 1] /\ i + 1 \in 1 .. Len(seq) /\ i + 1 # 1 /\ 1 \in 1 .. Len(seq)
    BY <1>1, <1>2, <1>3, <1>6
  <2> QED BY <1>1, <1>6, <2>1 DEF Among, Distinct
<1>7. ASSUME NEW x, NEW i \in 1 .. Len(seq), seq[i] = x, x # Head(seq)
      PROVE  \E j \in 1 .. n : tail[j] = x
  <2>1. i - 1 \in 1 .. n /\ (i - 1) + 1 = i
    BY <1>1, <1>3, <1>7
  <2> QED BY <1>2, <1>7, <2>1
<1>8. Distinct(seq) => \A x : Among(x, tail) <=> Among(x, seq) /\ x # Head(seq)
  BY <1>2, <1>6, <1>7 DEF Among
<1>9. seq[1] \in S
  BY <1>1, <1>3
<1> QED BY <1>1, <1>2, <1>3, <1>4, <1>5, <1>8, <1>9 DEF tail, n

\* A call of Publish begins, and the ones around it are one deeper.
LEMMA FramePushed ==
    ASSUME TypeOK, NEW c \in Callers, NEW f \in Frames,
           stack' = [stack EXCEPT ![c] = <<f>> \o @]
    PROVE  /\ stack' \in [Callers -> Seq(Frames)]
           /\ 1 \in 1 .. Len(stack'[c]) /\ stack'[c][1] = f
           /\ \A e \in Callers : \A d \in 1 .. Len(stack[e]) :
                 \E g \in 1 .. Len(stack'[e]) : stack'[e][g] = stack[e][d]
           /\ \A e \in Callers : \A g \in 1 .. Len(stack'[e]) :
                 \/ e = c /\ g = 1
                 \/ \E d \in 1 .. Len(stack[e]) :
                       /\ stack'[e][g] = stack[e][d]
                       /\ d = IF e = c THEN g - 1 ELSE g
<1> DEFINE new == <<f>> \o stack[c]
           n == Len(stack[c])
<1>1. stack \in [Callers -> Seq(Frames)]
  BY DEF TypeOK
<1>2. /\ new \in Seq(Frames) /\ Len(new) = n + 1 /\ n \in Nat
      /\ new[1] = f /\ \A d \in 1 .. n : new[d + 1] = stack[c][d]
  BY <1>1
<1>3. \A e \in Callers : stack'[e] = IF e = c THEN new ELSE stack[e]
  BY <1>1
<1>4. stack' \in [Callers -> Seq(Frames)]
  BY <1>1, <1>2
<1> HIDE DEF new, n
<1>5. /\ 1 \in 1 .. n + 1 /\ \A d \in 1 .. n : d + 1 \in 1 .. n + 1
      /\ \A g \in 1 .. n + 1 : g = 1 \/ (g - 1 \in 1 .. n /\ (g - 1) + 1 = g)
  BY <1>2
<1>6. \A e \in Callers : \A d \in 1 .. Len(stack[e]) :
         \E g \in 1 .. Len(stack'[e]) : stack'[e][g] = stack[e][d]
  BY <1>2, <1>3, <1>5 DEF n
<1>7. ASSUME NEW e \in Callers, NEW g \in 1 .. Len(stack'[e])
      PROVE  \/ e = c /\ g = 1
             \/ \E d \in 1 .. Len(stack[e]) :
                   /\ stack'[e][g] = stack[e][d]
                   /\ d = IF e = c THEN g - 1 ELSE g
  <2>1. CASE e = c
    <3>1. g \in 1 .. n + 1 /\ stack'[e] = new
      BY <1>2, <1>3, <1>7, <2>1
    <3>2. CASE g # 1
      <4>1. g - 1 \in 1 .. Len(stack[e]) /\ stack'[e][g] = stack[e][g - 1]
        BY <1>2, <1>5, <2>1, <3>1, <3>2 DEF n
      <4> QED BY <2>1, <4>1
    <3> QED BY <2>1, <3>2
  <2>2. CASE e # c
    BY <1>3, <1>7, <2>2
  <2> QED BY <2>1, <2>2
<1> QED BY <1>2, <1>3, <1>4, <1>5, <1>6, <1>7

\* The innermost call of Publish returns.
LEMMA FramePopped ==
    ASSUME TypeOK, NEW c \in Callers, stack[c] # <<>>,
           stack' = [stack EXCEPT ![c] = Tail(@)]
    PROVE  /\ stack' \in [Callers -> Seq(Frames)]
           /\ \A e \in Callers : \A d \in 1 .. Len(stack[e]) :
                 \/ e = c /\ d = 1
                 \/ \E g \in 1 .. Len(stack'[e]) : stack'[e][g] = stack[e][d]
           /\ \A e \in Callers : \A g \in 1 .. Len(stack'[e]) :
                 \E d \in 1 .. Len(stack[e]) :
                    /\ stack'[e][g] = stack[e][d]
                    /\ d = IF e = c THEN g + 1 ELSE g
<1> DEFINE new == Tail(stack[c])
           n == Len(stack[c]) - 1
<1>1. stack \in [Callers -> Seq(Frames)] /\ stack[c] \in Seq(Frames)
  BY DEF TypeOK
<1>2. n \in Nat /\ Len(stack[c]) = n + 1
  BY <1>1
<1>3. new \in Seq(Frames) /\ Len(new) = n /\ \A g \in 1 .. n : new[g] = stack[c][g + 1]
  BY <1>1, HeadTaken
<1>4. \A e \in Callers : stack'[e] = IF e = c THEN new ELSE stack[e]
  BY <1>1
<1>5. stack' \in [Callers -> Seq(Frames)]
  BY <1>1, <1>3
<1> HIDE DEF new, n
<1>6. /\ \A g \in 1 .. n : g + 1 \in 1 .. n + 1
      /\ \A d \in 1 .. n + 1 : d = 1 \/ (d - 1 \in 1 .. n /\ (d - 1) + 1 = d)
  BY <1>2
<1>7. ASSUME NEW e \in Callers, NEW d \in 1 .. Len(stack[e]), ~(e = c /\ d = 1)
      PROVE  \E g \in 1 .. Len(stack'[e]) : stack'[e][g] = stack[e][d]
  <2>1. CASE e = c
    <3>1. d - 1 \in 1 .. n /\ (d - 1) + 1 = d /\ stack'[e] = new
      BY <1>2, <1>4, <1>6, <1>7, <2>1
    <3> QED BY <1>3, <2>1, <3>1
  <2>2. CASE e # c
    BY <1>4, <1>7, <2>2
  <2> QED BY <2>1, <2>2
<1>8. ASSUME NEW e \in Callers, NEW g \in 1 .. Len(stack'[e])
      PROVE  \E d \in 1 .. Len(stack[e]) :
                /\ stack'[e][g] = stack[e][d]
                /\ d = IF e = c THEN g + 1 ELSE g
  <2>1. CASE e = c
    <3>1. g \in 1 .. n /\ stack'[e] = new
      BY <1>3, <1>4, <1>8, <2>1
    <3> QED BY <1>2, <1>3, <1>6, <2>1, <3>1
  <2>2. CASE e # c
    BY <1>4, <1>8, <2>2
  <2> QED BY <2>1, <2>2
<1> QED BY <1>5, <1>7, <1>8

\* The innermost call of Publish goes on.
LEMMA FrameReplaced ==
    ASSUME TypeOK, NEW c \in Callers, stack[c] # <<>>, NEW f \in Frames,
           stack' = [stack EXCEPT ![c] = [@ EXCEPT ![1] = f]]
    PROVE  /\ stack' \in [Callers -> Seq(Frames)]
           /\ 1 \in 1 .. Len(stack[c])
           /\ \A e \in Callers : Len(stack'[e]) = Len(stack[e])
           /\ \A e \in Callers : \A d \in 1 .. Len(stack[e]) :
                 stack'[e][d] = IF e = c /\ d = 1 THEN f ELSE stack[e][d]
<1> DEFINE new == [stack[c] EXCEPT ![1] = f]
<1>1. stack \in [Callers -> Seq(Frames)] /\ stack[c] \in Seq(Frames)
  BY DEF TypeOK
<1>2. 1 \in 1 .. Len(stack[c])
  BY <1>1
<1>3. /\ new \in Seq(Frames) /\ Len(new) = Len(stack[c])
      /\ \A d \in 1 .. Len(stack[c]) : new[d] = IF d = 1 THEN f ELSE stack[c][d]
  BY <1>1, <1>2
<1>4. \A e \in Callers : stack'[e] = IF e = c THEN new ELSE stack[e]
  BY <1>1
<1>5. stack' \in [Callers -> Seq(Frames)]
  BY <1>1, <1>3
<1> HIDE DEF new
<1> QED BY <1>2, <1>3, <1>4, <1>5

-----------------------------------------------------------------------------
(* The steps that leave the calls of Publish alone.                        *)

LEMMA SameCalls ==
    ASSUME IInv, UNCHANGED <<stack, sent, chain, audience, got>>
    PROVE  Framed' /\ (\A s \in Subs : Called(s)') /\ ChainsKeepTenant' /\ Len(sent') <= MaxSent
BY DEF IInv, Framed, FrameOK, ToCall, Among, Distinct, Called, Waiting, ChainsKeepTenant

LEMMA SubscribeStep ==
    ASSUME IInv, NEW s \in Subs, Subscribe(s)
    PROVE  IInv'
<1>1. /\ handlers' = [handlers EXCEPT ![TopicOf[s]] = Append(@, s)]
      /\ UNCHANGED <<closed, stack, sent, chain, audience, got>>
      /\ \A t \in Topics : s \notin ToSet(handlers[t])
  BY DEF Subscribe
<1>2. TypeOK /\ Registered /\ TopicOf[s] \in Topics /\ handlers \in [Topics -> Seq(Subs)]
  BY EnvelopeAssumption DEF IInv, TypeOK
<1>3. ~Among(s, handlers[TopicOf[s]])
  BY <1>1, <1>2 DEF Among, ToSet
<1>4. /\ Append(handlers[TopicOf[s]], s) \in Seq(Subs)
      /\ Distinct(Append(handlers[TopicOf[s]], s))
      /\ \A x : Among(x, Append(handlers[TopicOf[s]], s)) <=>
                Among(x, handlers[TopicOf[s]]) \/ x = s
  BY <1>2, <1>3, Appended DEF Registered
<1>5. \A t \in Topics : handlers'[t] = IF t = TopicOf[s] THEN Append(handlers[TopicOf[s]], s)
                                       ELSE handlers[t]
  BY <1>1, <1>2
<1>6. TypeOK'
  BY <1>1, <1>2, <1>4 DEF TypeOK
<1>7. Registered'
  <2>1. \A t \in Topics : Distinct(handlers'[t])
    BY <1>2, <1>4, <1>5 DEF Registered
  <2>2. \A t \in Topics, x \in Subs : Among(x, handlers'[t]) => TopicOf[x] = t
    BY <1>2, <1>4, <1>5 DEF Registered
  <2> QED BY <1>1, <1>2, <2>1, <2>2 DEF Registered, Among, Distinct
<1> QED BY <1>1, <1>6, <1>7, SameCalls DEF IInv

LEMMA CloseStep ==
    ASSUME IInv, Close
    PROVE  IInv'
<1>1. /\ closed' = TRUE /\ handlers' = [t \in Topics |-> <<>>]
      /\ UNCHANGED <<stack, sent, chain, audience, got>>
  BY DEF Close
<1>2. TypeOK'
  <2>1. closed' \in BOOLEAN
    BY <1>1, Zenon
  <2> QED BY <1>1, <2>1 DEF IInv, TypeOK
<1>3. Registered'
  BY <1>1 DEF IInv, Registered, Among, Distinct
<1> QED BY <1>1, <1>2, <1>3, SameCalls DEF IInv

-----------------------------------------------------------------------------
(* The steps of a call of Publish.                                         *)

LEMMA EnterStep ==
    ASSUME IInv, NEW c \in Callers, NEW m \in [topic: Topics, tenant: Tenants],
           NEW correlation, Enter(c, m, correlation),
           \/ correlation = 0
           \/ /\ correlation \in 1 .. Len(sent)
              /\ chain[correlation] = correlation
              /\ sent[correlation].tenant = m.tenant
    PROVE  IInv'
<1>n. PICK n : n = Len(sent) + 1
  OBVIOUS
<1>k. PICK k : k = Correlated(correlation, n)
  OBVIOUS
<1>0. PICK f : f = [at |-> n, left |-> handlers[m.topic], inHandler |-> FALSE]
  OBVIOUS
<1>1. /\ Len(sent) < MaxSent
      /\ sent' = Append(sent, m) /\ chain' = Append(chain, k)
      /\ audience' = Append(audience, handlers[m.topic])
      /\ stack' = [stack EXCEPT ![c] = <<f>> \o @]
      /\ UNCHANGED <<closed, handlers, got>>
  BY <1>n, <1>k, <1>0 DEF Enter
<1>2. /\ TypeOK /\ Framed /\ Registered /\ ChainsKeepTenant
      /\ \A s \in Subs : Called(s)
  BY DEF IInv
<1>3. /\ sent \in Seq([topic: Topics, tenant: Tenants]) /\ chain \in Seq(Positions)
      /\ audience \in Seq(Seq(Subs)) /\ Len(audience) = Len(sent) /\ Len(chain) = Len(sent)
      /\ handlers[m.topic] \in Seq(Subs) /\ m.topic \in Topics /\ m.tenant \in Tenants
      /\ got \in [Subs -> Seq(Positions)]
  BY <1>2 DEF TypeOK
<1>4. /\ n \in Nat /\ n <= MaxSent /\ n \in Positions /\ n = Len(sent) + 1
      /\ Len(sent) \in Nat /\ MaxSent \in Nat
  BY <1>n, <1>1, <1>3, InMemoryTransportAssumption DEF Positions
<1>5. /\ k \in 1 .. n
      /\ k = n \/ (k \in 1 .. Len(sent) /\ chain[k] = k /\ sent[k].tenant = m.tenant)
  BY <1>k, <1>4 DEF Correlated
<1>6. k \in Positions
  BY <1>4, <1>5 DEF Positions
<1>f. /\ f \in Frames /\ f.at = n /\ f.left = handlers[m.topic] /\ f.inHandler = FALSE
  BY <1>0, <1>3, <1>4 DEF Frames
<1>7. /\ sent' \in Seq([topic: Topics, tenant: Tenants]) /\ Len(sent') = n /\ sent'[n] = m
      /\ \A i \in 1 .. Len(sent) : sent'[i] = sent[i]
  BY <1>1, <1>3, <1>4, Appended
<1>8. /\ chain' \in Seq(Positions) /\ Len(chain') = n /\ chain'[n] = k
      /\ \A i \in 1 .. Len(sent) : chain'[i] = chain[i]
  BY <1>1, <1>3, <1>4, <1>6, Appended
<1>9. /\ audience' \in Seq(Seq(Subs)) /\ Len(audience') = n
      /\ audience'[n] = handlers[m.topic]
      /\ \A i \in 1 .. Len(sent) : audience'[i] = audience[i]
  BY <1>1, <1>3, <1>4, Appended
<1>10. /\ \A i \in 1 .. n : i \in 1 .. Len(sent) \/ i = n
       /\ \A i \in 1 .. Len(sent) : i \in 1 .. n /\ i # n
       /\ n \in 1 .. n
  BY <1>4
<1>11. /\ stack' \in [Callers -> Seq(Frames)]
       /\ 1 \in 1 .. Len(stack'[c]) /\ stack'[c][1] = f
       /\ \A e \in Callers : \A d \in 1 .. Len(stack[e]) :
             \E g \in 1 .. Len(stack'[e]) : stack'[e][g] = stack[e][d]
       /\ \A e \in Callers : \A g \in 1 .. Len(stack'[e]) :
             \/ e = c /\ g = 1
             \/ \E d \in 1 .. Len(stack[e]) :
                   /\ stack'[e][g] = stack[e][d]
                   /\ d = IF e = c THEN g - 1 ELSE g
  BY <1>1, <1>2, <1>f, FramePushed
<1>12. TypeOK'
  BY <1>1, <1>2, <1>7, <1>8, <1>9, <1>11 DEF TypeOK
<1>13. ChainsKeepTenant'
  <2>1. SUFFICES ASSUME NEW i \in 1 .. n
                 PROVE  /\ chain'[i] <= i /\ chain'[chain'[i]] = chain'[i]
                        /\ sent'[chain'[i]].tenant = sent'[i].tenant
    BY <1>7 DEF ChainsKeepTenant
  <2>2. CASE i \in 1 .. Len(sent)
    <3>1. /\ chain[i] <= i /\ chain[chain[i]] = chain[i]
          /\ sent[chain[i]].tenant = sent[i].tenant
      BY <1>2, <2>2 DEF ChainsKeepTenant
    <3>2. chain[i] \in Positions
      BY <1>3, <2>2
    <3>3. chain[i] \in 1 .. Len(sent)
      BY <1>4, <2>2, <3>1, <3>2 DEF Positions
    <3> QED BY <1>7, <1>8, <2>2, <3>1, <3>3
  <2>3. CASE i = n
    <3>1. CASE k = n
      BY <1>4, <1>8, <2>3, <3>1
    <3>2. CASE k # n
      BY <1>4, <1>5, <1>7, <1>8, <2>3, <3>2
    <3> QED BY <3>1, <3>2
  <2> QED BY <1>10, <2>2, <2>3
<1>14. FrameOK(f)'
  <2>1. Distinct(handlers[m.topic])
    BY <1>2, <1>3 DEF Registered
  <2> QED BY <1>7, <1>9, <1>10, <1>f, <2>1 DEF FrameOK
<1>15. Framed'
  <2>0. ASSUME NEW x, FrameOK(x) PROVE FrameOK(x)' /\ x.at # n
    BY <1>7, <1>9, <1>10, <2>0 DEF FrameOK
  <2>1. ASSUME NEW e \in Callers, NEW d \in 1 .. Len(stack[e]) PROVE FrameOK(stack[e][d])
    BY <1>2, <2>1 DEF Framed
  <2>2. ASSUME NEW e \in Callers, NEW g \in 1 .. Len(stack'[e]) PROVE FrameOK(stack[e][g])'
    <3>1. CASE e = c /\ g = 1
      BY <1>11, <1>14, <3>1
    <3>2. CASE ~(e = c /\ g = 1)
      <4>1. PICK d \in 1 .. Len(stack[e]) : stack'[e][g] = stack[e][d]
        BY <1>11, <3>2
      <4>2. PICK x : x = stack[e][d]
        OBVIOUS
      <4>3. FrameOK(x)'
        BY <2>0, <2>1, <4>2
      <4> QED BY <4>1, <4>2, <4>3
    <3> QED BY <3>1, <3>2
  <2>3. ASSUME NEW e1 \in Callers, NEW e2 \in Callers,
               NEW g1 \in 1 .. Len(stack'[e1]), NEW g2 \in 1 .. Len(stack'[e2]),
               stack'[e1][g1].at = stack'[e2][g2].at
        PROVE  e1 = e2 /\ g1 = g2
    <3>1. CASE e1 = c /\ g1 = 1
      <4>1. stack'[e1][g1].at = n
        BY <1>11, <1>f, <3>1
      <4>2. \A d \in 1 .. Len(stack[e2]) : stack'[e2][g2] # stack[e2][d]
        BY <2>0, <2>1, <2>3, <4>1
      <4> QED BY <1>11, <3>1, <4>2
    <3>2. CASE e2 = c /\ g2 = 1
      <4>1. stack'[e2][g2].at = n
        BY <1>11, <1>f, <3>2
      <4>2. \A d \in 1 .. Len(stack[e1]) : stack'[e1][g1] # stack[e1][d]
        BY <2>0, <2>1, <2>3, <4>1
      <4> QED BY <1>11, <3>2, <4>2
    <3>3. CASE ~(e1 = c /\ g1 = 1) /\ ~(e2 = c /\ g2 = 1)
      <4>1. PICK d1 \in 1 .. Len(stack[e1]) :
                stack'[e1][g1] = stack[e1][d1] /\ d1 = IF e1 = c THEN g1 - 1 ELSE g1
        BY <1>11, <3>3
      <4>2. PICK d2 \in 1 .. Len(stack[e2]) :
                stack'[e2][g2] = stack[e2][d2] /\ d2 = IF e2 = c THEN g2 - 1 ELSE g2
        BY <1>11, <3>3
      <4>3. e1 = e2 /\ d1 = d2
        BY <1>2, <2>3, <4>1, <4>2 DEF Framed
      <4>4. g1 \in Int /\ g2 \in Int
        OBVIOUS
      <4> QED BY <4>1, <4>2, <4>3, <4>4
    <3> QED BY <3>1, <3>2, <3>3
  <2> QED BY <2>2, <2>3 DEF Framed
<1>16. Registered'
  <2>1. ASSUME NEW i \in 1 .. n, NEW s \in Subs, Among(s, audience'[i])
        PROVE  TopicOf[s] = sent'[i].topic
    <3>1. CASE i \in 1 .. Len(sent)
      BY <1>2, <1>7, <1>9, <2>1, <3>1 DEF Registered
    <3>2. CASE i = n
      BY <1>2, <1>3, <1>7, <1>9, <2>1, <3>2 DEF Registered
    <3> QED BY <1>10, <3>1, <3>2
  <2> QED BY <1>1, <1>2, <1>7, <2>1 DEF Registered, Among, Distinct
<1>17. ASSUME NEW s \in Subs PROVE Called(s)'
  <2>0. \A i : Waiting(s, i)' <=> \E e \in Callers : \E g \in 1 .. Len(stack'[e]) :
                                   stack'[e][g].at = i /\ ToCall(stack'[e][g], s)
    BY DEF Waiting
  <2>1. ASSUME NEW i \in 1 .. Len(sent) PROVE Waiting(s, i)' <=> Waiting(s, i)
    <3>1. Waiting(s, i) => Waiting(s, i)'
      BY <1>11, <2>0 DEF Waiting
    <3>2. ASSUME NEW e \in Callers, NEW g \in 1 .. Len(stack'[e]),
                 stack'[e][g].at = i, ToCall(stack'[e][g], s)
          PROVE  Waiting(s, i)
      <4>1. ~(e = c /\ g = 1)
        BY <1>10, <1>11, <1>f, <2>1, <3>2
      <4> QED BY <1>11, <3>2, <4>1 DEF Waiting
    <3> QED BY <2>0, <3>1, <3>2
  <2>2. Waiting(s, n)' <=> Among(s, handlers[m.topic])
    <3>1. ToCall(f, s) <=> Among(s, handlers[m.topic])
      BY <1>f DEF ToCall
    <3>2. ToCall(f, s) => Waiting(s, n)'
      BY <1>11, <1>f, <2>0
    <3>3. ASSUME NEW e \in Callers, NEW g \in 1 .. Len(stack'[e]),
                 stack'[e][g].at = n, ToCall(stack'[e][g], s)
          PROVE  ToCall(f, s)
      <4>1. \A d \in 1 .. Len(stack[e]) : stack'[e][g] # stack[e][d]
        BY <1>2, <1>10, <3>3 DEF Framed, FrameOK
      <4>2. e = c /\ g = 1
        BY <1>11, <4>1
      <4> QED BY <1>11, <3>3, <4>2
    <3> QED BY <2>0, <3>1, <3>2, <3>3
  <2>3. /\ Called(s) /\ got'[s] = got[s] /\ got[s] \in Seq(Positions)
        /\ \A j \in 1 .. Len(got[s]) : got[s][j] \in Positions /\ got[s][j] <= Len(sent)
    <3>1. got'[s] = got[s] /\ got[s] \in Seq(Positions)
      BY <1>1, <1>3
    <3>2. \A j \in 1 .. Len(got[s]) : got[s][j] \in Positions
      BY <3>1
    <3>3. Called(s) /\ \A j \in 1 .. Len(got[s]) : got[s][j] <= Len(sent)
      BY <1>2 DEF Called
    <3> QED BY <3>1, <3>2, <3>3
  <2>4. \A j \in 1 .. Len(got[s]) : got[s][j] <= n /\ got[s][j] # n
    BY <1>4, <2>3 DEF Positions
  <2>5. ~Among(n, got[s])
    BY <2>4 DEF Among
  <2>6. ASSUME NEW i \in 1 .. n
        PROVE  Among(i, got[s]) <=> /\ Among(s, audience'[i]) /\ ~Waiting(s, i)'
                                    /\ FilterOf[s] \in {NoFilter, sent'[i].tenant}
    <3>1. CASE i \in 1 .. Len(sent)
      <4>1. audience'[i] = audience[i] /\ sent'[i] = sent[i]
        BY <1>7, <1>9, <3>1
      <4> QED BY <2>1, <2>3, <3>1, <4>1 DEF Called
    <3>2. CASE i = n
      BY <1>9, <2>2, <2>5, <3>2
    <3> QED BY <1>10, <3>1, <3>2
  <2> QED BY <1>7, <2>3, <2>4, <2>6 DEF Called
<1>18. Len(sent') <= MaxSent
  BY <1>4, <1>7
<1> QED BY <1>12, <1>13, <1>15, <1>16, <1>17, <1>18 DEF IInv

\* The innermost call of Publish goes on with its message: whoever waits for
\* another message still does.
LEMMA FrameGoesOn ==
    ASSUME IInv, NEW c \in Callers, stack[c] # <<>>, NEW f \in Frames, FrameOK(f),
           f.at = stack[c][1].at,
           stack' = [stack EXCEPT ![c] = [@ EXCEPT ![1] = f]],
           UNCHANGED <<closed, handlers, sent, chain, audience>>
    PROVE  /\ stack' \in [Callers -> Seq(Frames)] /\ Framed' /\ Registered'
           /\ ChainsKeepTenant' /\ Len(sent') <= MaxSent
           /\ \A s : Waiting(s, f.at) <=> ToCall(stack[c][1], s)
           /\ \A s : \A i : Waiting(s, i)' <=> IF i = f.at THEN ToCall(f, s) ELSE Waiting(s, i)
<1>1. TypeOK /\ Framed /\ Registered /\ ChainsKeepTenant /\ Len(sent) <= MaxSent
  BY DEF IInv
<1>2. /\ stack' \in [Callers -> Seq(Frames)]
      /\ 1 \in 1 .. Len(stack[c])
      /\ \A e \in Callers : Len(stack'[e]) = Len(stack[e])
      /\ \A e \in Callers : \A d \in 1 .. Len(stack[e]) :
            stack'[e][d] = IF e = c /\ d = 1 THEN f ELSE stack[e][d]
  BY <1>1, FrameReplaced
<1>3. \A e \in Callers : \A d \in 1 .. Len(stack[e]) :
         stack'[e][d].at = stack[e][d].at
  BY <1>2
<1>4. \A x : FrameOK(x)' <=> FrameOK(x)
  BY DEF FrameOK
<1>5. ASSUME NEW e \in Callers, NEW d \in 1 .. Len(stack'[e]) PROVE FrameOK(stack'[e][d])
  BY <1>1, <1>2, <1>5 DEF Framed
<1>6. Framed'
  <2>1. ASSUME NEW e \in Callers, NEW d \in 1 .. Len(stack'[e]) PROVE FrameOK(stack[e][d])'
    <3>1. PICK x : x = stack'[e][d]
      OBVIOUS
    <3>2. FrameOK(x)'
      BY <1>4, <1>5, <3>1
    <3> QED BY <3>1, <3>2
  <2>2. \A e1, e2 \in Callers : \A d \in 1 .. Len(stack'[e1]), g \in 1 .. Len(stack'[e2]) :
           stack'[e1][d].at = stack'[e2][g].at => e1 = e2 /\ d = g
    BY <1>1, <1>2, <1>3 DEF Framed
  <2> QED BY <2>1, <2>2 DEF Framed
<1>7. Registered' /\ ChainsKeepTenant' /\ Len(sent') <= MaxSent
  BY <1>1 DEF Registered, ChainsKeepTenant, Among, Distinct
<1>8. \A e \in Callers : \A d \in 1 .. Len(stack[e]) :
         stack[e][d].at = f.at => e = c /\ d = 1
  BY <1>1, <1>2 DEF Framed
<1>9. \A s : Waiting(s, f.at) <=> ToCall(stack[c][1], s)
  BY <1>2, <1>8 DEF Waiting
<1>10. ASSUME NEW s, NEW i
       PROVE  Waiting(s, i)' <=> IF i = f.at THEN ToCall(f, s) ELSE Waiting(s, i)
  <2>1. Waiting(s, i)' <=> \E e \in Callers : \E d \in 1 .. Len(stack[e]) :
                              stack'[e][d].at = i /\ ToCall(stack'[e][d], s)
    BY <1>2 DEF Waiting
  <2>2. CASE i = f.at
    BY <1>2, <1>3, <1>8, <2>1, <2>2
  <2>3. CASE i # f.at
    BY <1>2, <1>3, <1>8, <2>1, <2>3 DEF Waiting
  <2> QED BY <2>2, <2>3
<1> QED BY <1>2, <1>6, <1>7, <1>9, <1>10

\* Nobody is called and nobody stops waiting.
LEMMA SameDelivery ==
    ASSUME IInv, UNCHANGED <<sent, audience, got>>,
           \A s : \A i : Waiting(s, i)' <=> Waiting(s, i)
    PROVE  \A s \in Subs : Called(s)'
<1> SUFFICES ASSUME NEW s \in Subs PROVE Called(s)'
  OBVIOUS
<1>1. Called(s)
  BY DEF IInv
<1>2. got'[s] = got[s] /\ sent' = sent /\ audience' = audience
  OBVIOUS
<1>3. Distinct(got[s])' /\ \A j \in 1 .. Len(got'[s]) : got'[s][j] <= Len(sent')
  BY <1>1, <1>2 DEF Called, Distinct
<1>4. ASSUME NEW i \in 1 .. Len(sent')
      PROVE  Among(i, got'[s]) <=> /\ Among(s, audience'[i]) /\ ~Waiting(s, i)'
                                   /\ FilterOf[s] \in {NoFilter, sent'[i].tenant}
  <2>1. Waiting(s, i)' <=> Waiting(s, i)
    OBVIOUS
  <2>2. i \in 1 .. Len(sent)
    BY <1>2
  <2> QED BY <1>1, <1>2, <2>1, <2>2 DEF Called
<1> QED BY <1>3, <1>4 DEF Called, Among, Distinct

LEMMA HandlerReturnsStep ==
    ASSUME IInv, NEW c \in Callers, HandlerReturns(c)
    PROVE  IInv'
<1>1. PICK old : old = stack[c][1]
  OBVIOUS
<1>2. PICK f : f = [at |-> old.at, left |-> Tail(old.left), inHandler |-> FALSE]
  OBVIOUS
<1>3. /\ TypeOK /\ Framed /\ stack[c] # <<>> /\ stack[c] \in Seq(Frames)
      /\ UNCHANGED <<closed, handlers, sent, chain, audience, got>>
  BY DEF IInv, TypeOK, HandlerReturns
<1>4. 1 \in 1 .. Len(stack[c]) /\ old = Head(stack[c]) /\ old \in Frames
  BY <1>1, <1>3, HeadTaken
<1>5. /\ old.inHandler
      /\ stack' = [stack EXCEPT ![c] = [@ EXCEPT ![1] = f]]
  BY <1>1, <1>2, <1>3, <1>4 DEF HandlerReturns, TypeOK
<1>6. old.at \in Positions /\ old.left \in Seq(Subs)
  BY <1>4 DEF Frames
<1>7. FrameOK(old) /\ old.left # <<>> /\ Distinct(old.left)
  BY <1>1, <1>3, <1>4, <1>5 DEF Framed, FrameOK
<1>8. /\ Tail(old.left) \in Seq(Subs) /\ Distinct(Tail(old.left))
      /\ \A x : Among(x, Tail(old.left)) <=> Among(x, old.left) /\ x # Head(old.left)
  BY <1>6, <1>7, HeadTaken
<1>9. f \in Frames /\ f.at = old.at /\ f.left = Tail(old.left) /\ f.inHandler = FALSE
  BY <1>2, <1>6, <1>8 DEF Frames
<1>10. FrameOK(f)
  BY <1>7, <1>8, <1>9 DEF FrameOK
<1>11. \A s : ToCall(f, s) <=> ToCall(old, s)
  BY <1>5, <1>8, <1>9 DEF ToCall
<1>12. /\ stack' \in [Callers -> Seq(Frames)] /\ Framed' /\ Registered'
       /\ ChainsKeepTenant' /\ Len(sent') <= MaxSent
       /\ \A s : Waiting(s, f.at) <=> ToCall(stack[c][1], s)
       /\ \A s : \A i : Waiting(s, i)' <=> IF i = f.at THEN ToCall(f, s) ELSE Waiting(s, i)
  BY <1>1, <1>3, <1>5, <1>9, <1>10, FrameGoesOn
<1>13. \A s : \A i : Waiting(s, i)' <=> Waiting(s, i)
  BY <1>1, <1>11, <1>12
<1>14. \A s \in Subs : Called(s)'
  BY <1>3, <1>13, SameDelivery
<1>15. TypeOK'
  BY <1>3, <1>12 DEF TypeOK
<1> QED BY <1>12, <1>14, <1>15 DEF IInv

LEMMA ReturnStep ==
    ASSUME IInv, NEW c \in Callers, Return(c)
    PROVE  IInv'
<1>1. /\ TypeOK /\ Framed /\ Registered /\ ChainsKeepTenant /\ Len(sent) <= MaxSent
      /\ stack[c] # <<>> /\ stack[c] \in Seq(Frames)
      /\ stack' = [stack EXCEPT ![c] = Tail(@)]
      /\ UNCHANGED <<closed, handlers, sent, chain, audience, got>>
      /\ Head(stack[c]).left = <<>>
  BY DEF IInv, TypeOK, Return
<1>2. stack[c][1].left = <<>>
  BY <1>1, HeadTaken
<1>3. /\ stack' \in [Callers -> Seq(Frames)]
      /\ \A e \in Callers : \A d \in 1 .. Len(stack[e]) :
            \/ e = c /\ d = 1
            \/ \E g \in 1 .. Len(stack'[e]) : stack'[e][g] = stack[e][d]
      /\ \A e \in Callers : \A g \in 1 .. Len(stack'[e]) :
            \E d \in 1 .. Len(stack[e]) :
               /\ stack'[e][g] = stack[e][d]
               /\ d = IF e = c THEN g + 1 ELSE g
  BY <1>1, FramePopped
<1>4. Framed'
  <2>1. \A x : FrameOK(x)' <=> FrameOK(x)
    BY <1>1 DEF FrameOK
  <2>2. ASSUME NEW e \in Callers, NEW g \in 1 .. Len(stack'[e]) PROVE FrameOK(stack[e][g])'
    <3>1. PICK x : x = stack'[e][g]
      OBVIOUS
    <3>2. FrameOK(x)
      BY <1>1, <1>3, <3>1 DEF Framed
    <3>3. FrameOK(x)'
      BY <2>1, <3>2
    <3> QED BY <3>1, <3>3
  <2>3. ASSUME NEW e1 \in Callers, NEW e2 \in Callers,
               NEW g1 \in 1 .. Len(stack'[e1]), NEW g2 \in 1 .. Len(stack'[e2]),
               stack'[e1][g1].at = stack'[e2][g2].at
        PROVE  e1 = e2 /\ g1 = g2
    <3>1. PICK d1 \in 1 .. Len(stack[e1]) :
              stack'[e1][g1] = stack[e1][d1] /\ d1 = IF e1 = c THEN g1 + 1 ELSE g1
      BY <1>3
    <3>2. PICK d2 \in 1 .. Len(stack[e2]) :
              stack'[e2][g2] = stack[e2][d2] /\ d2 = IF e2 = c THEN g2 + 1 ELSE g2
      BY <1>3
    <3>3. e1 = e2 /\ d1 = d2
      BY <1>1, <2>3, <3>1, <3>2 DEF Framed
    <3>4. g1 \in Int /\ g2 \in Int
      OBVIOUS
    <3> QED BY <3>1, <3>2, <3>3, <3>4
  <2> QED BY <2>2, <2>3 DEF Framed
<1>5. ASSUME NEW s, NEW i PROVE Waiting(s, i)' <=> Waiting(s, i)
  <2>1. Waiting(s, i)' <=> \E e \in Callers : \E g \in 1 .. Len(stack'[e]) :
                              stack'[e][g].at = i /\ ToCall(stack'[e][g], s)
    BY DEF Waiting
  <2>2. ~ToCall(stack[c][1], s)
    BY <1>2 DEF ToCall, Among
  <2>3. Waiting(s, i)' => Waiting(s, i)
    BY <1>3, <2>1 DEF Waiting
  <2>4. ASSUME NEW e \in Callers, NEW d \in 1 .. Len(stack[e]),
               stack[e][d].at = i, ToCall(stack[e][d], s)
        PROVE  Waiting(s, i)'
    <3>1. PICK g \in 1 .. Len(stack'[e]) : stack'[e][g] = stack[e][d]
      BY <1>3, <2>2, <2>4
    <3> QED BY <2>1, <2>4, <3>1
  <2> QED BY <2>3, <2>4 DEF Waiting
<1>6. \A s \in Subs : Called(s)'
  BY <1>1, <1>5, SameDelivery
<1>7. TypeOK'
  BY <1>1, <1>3 DEF TypeOK
<1>8. Registered' /\ ChainsKeepTenant' /\ Len(sent') <= MaxSent
  BY <1>1 DEF Registered, ChainsKeepTenant, Among, Distinct
<1> QED BY <1>4, <1>6, <1>7, <1>8 DEF IInv

\* A frame whose next handler is called.
Started(old) == [at |-> old.at, left |-> old.left, inHandler |-> TRUE]

LEMMA FrameStarted ==
    ASSUME NEW old \in Frames, NEW yes, yes = TRUE
    PROVE  Started(old) = [old EXCEPT !.inHandler = yes]
<1>1. Started(old) = [at |-> old.at, left |-> old.left, inHandler |-> yes]
  BY Zenon DEF Started
<1>2. ASSUME NEW x
      PROVE  [at |-> old.at, left |-> old.left, inHandler |-> x] = [old EXCEPT !.inHandler = x]
  BY DEF Frames
<1> QED BY <1>1, <1>2, Zenon

\* CallHandler, where its frame (old, then f) and its handler s are named.
Calls(c, old, s, f) ==
    /\ old \in Frames /\ FrameOK(old) /\ ~old.inHandler
    /\ s \in Subs /\ Among(s, old.left)
    /\ f \in Frames /\ FrameOK(f) /\ f.at = old.at
    /\ \A x : ToCall(old, x) <=> ToCall(f, x) \/ x = s
    /\ ~ToCall(f, s)
    /\ stack[c] # <<>>
    /\ stack' = [stack EXCEPT ![c] = [@ EXCEPT ![1] = f]]
    /\ got' = [got EXCEPT ![s] = IF Handles(s, sent[old.at])
                                 THEN Append(@, old.at) ELSE @]
    /\ UNCHANGED <<closed, handlers, sent, chain, audience>>

LEMMA CallHandlerNamed ==
    ASSUME IInv, NEW c \in Callers, CallHandler(c),
           NEW old, old = stack[c][1], NEW s, s = Head(old.left),
           NEW f, f = Started(old)
    PROVE  Calls(c, old, s, f)
<1>1. /\ TypeOK /\ Framed /\ stack[c] # <<>> /\ stack[c] \in Seq(Frames)
      /\ UNCHANGED <<closed, handlers, sent, chain, audience>>
  BY DEF IInv, TypeOK, CallHandler
<1>2. 1 \in 1 .. Len(stack[c]) /\ old = Head(stack[c]) /\ old \in Frames
  BY <1>1, HeadTaken
<1>3. /\ ~old.inHandler /\ old.left # <<>>
      /\ got' = [got EXCEPT ![s] = IF Handles(s, sent[old.at])
                                   THEN Append(@, old.at) ELSE @]
      /\ stack' = [stack EXCEPT ![c][1].inHandler = TRUE]
  BY <1>2 DEF CallHandler
<1>4. old.at \in Positions /\ old.left \in Seq(Subs)
  BY <1>2 DEF Frames
<1>5. FrameOK(old)
  BY <1>1, <1>2 DEF Framed
<1>6. s \in Subs /\ Among(s, old.left)
  BY <1>3, <1>4, HeadTaken
<1>7. PICK yes : yes = TRUE
  OBVIOUS
<1>8. f = [old EXCEPT !.inHandler = yes]
  BY <1>2, <1>7, FrameStarted
<1>9. stack' = [stack EXCEPT ![c][1].inHandler = yes]
  BY <1>3, <1>7, Zenon
<1>10. stack' = [stack EXCEPT ![c] = [@ EXCEPT ![1] = f]]
  BY <1>1, <1>2, <1>8, <1>9 DEF TypeOK
<1>11. f.at = old.at /\ f.left = old.left /\ f.inHandler
  BY DEF Started
<1>12. f \in Frames
  BY <1>4 DEF Frames, Started
<1>13. FrameOK(f)
  BY <1>3, <1>5, <1>11 DEF FrameOK
<1>14. (\A x : ToCall(old, x) <=> ToCall(f, x) \/ x = s) /\ ~ToCall(f, s)
  BY <1>3, <1>6, <1>11 DEF ToCall
<1> QED BY <1>1, <1>2, <1>3, <1>5, <1>6, <1>10, <1>11, <1>12, <1>13, <1>14 DEF Calls

LEMMA CallHandlerStep ==
    ASSUME IInv, NEW c \in Callers, CallHandler(c)
    PROVE  IInv'
<1>1. PICK old : old = stack[c][1]
  OBVIOUS
<1>2. PICK s : s = Head(old.left)
  OBVIOUS
<1>3. PICK f : f = Started(old)
  OBVIOUS
<1>4. /\ old \in Frames /\ FrameOK(old)
      /\ s \in Subs /\ Among(s, old.left)
      /\ f \in Frames /\ FrameOK(f) /\ f.at = old.at
      /\ \A x : ToCall(old, x) <=> ToCall(f, x) \/ x = s
      /\ ~ToCall(f, s)
      /\ stack[c] # <<>>
      /\ stack' = [stack EXCEPT ![c] = [@ EXCEPT ![1] = f]]
      /\ got' = [got EXCEPT ![s] = IF Handles(s, sent[old.at])
                                   THEN Append(@, old.at) ELSE @]
      /\ UNCHANGED <<closed, handlers, sent, chain, audience>>
  <2>1. Calls(c, old, s, f)
    BY <1>1, <1>2, <1>3, CallHandlerNamed
  <2> QED BY <2>1 DEF Calls
<1>5. PICK at : at = old.at
  OBVIOUS
<1>6. /\ at \in Positions /\ at \in 1 .. Len(sent) /\ f.at = at /\ stack[c][1] = old
      /\ Among(s, audience[at])
  BY <1>1, <1>4, <1>5 DEF Frames, FrameOK
<1>7. /\ stack' \in [Callers -> Seq(Frames)] /\ Framed' /\ Registered'
      /\ ChainsKeepTenant' /\ Len(sent') <= MaxSent
      /\ \A x : Waiting(x, at) <=> ToCall(old, x)
      /\ \A x : \A i : Waiting(x, i)' <=> IF i = at THEN ToCall(f, x) ELSE Waiting(x, i)
  BY <1>1, <1>4, <1>6, FrameGoesOn
<1>8. TypeOK /\ got \in [Subs -> Seq(Positions)] /\ sent \in Seq([topic: Topics, tenant: Tenants])
  BY DEF IInv, TypeOK
<1>9. sent[at].tenant \in Tenants /\ sent[at].tenant # Malformed
  <2>1. sent[at] \in [topic: Topics, tenant: Tenants]
    BY <1>6, SentTyped DEF IInv
  <2> QED BY <2>1, EnvelopeAssumption
<1>10. PICK new : new = Append(got[s], at)
  OBVIOUS
<1>11. /\ new \in Seq(Positions) /\ Len(new) = Len(got[s]) + 1 /\ Len(got[s]) \in Nat
       /\ \A j \in 1 .. Len(got[s]) : new[j] = got[s][j]
       /\ new[Len(got[s]) + 1] = at
       /\ \A j \in 1 .. Len(got[s]) + 1 : j \in 1 .. Len(got[s]) \/ j = Len(got[s]) + 1
       /\ \A x : Among(x, new) <=> Among(x, got[s]) \/ x = at
       /\ Distinct(got[s]) /\ ~Among(at, got[s]) => Distinct(new)
  <2>1. got[s] \in Seq(Positions)
    BY <1>4, <1>8
  <2> QED BY <1>6, <1>10, <2>1, Appended
<1>12. \A x \in Subs : got'[x] = IF x = s /\ FilterOf[s] \in {NoFilter, sent[at].tenant}
                                 THEN new ELSE got[x]
  BY <1>4, <1>5, <1>8, <1>9, <1>10 DEF Handles
<1>13. got' \in [Subs -> Seq(Positions)]
  BY <1>4, <1>5, <1>8, <1>10, <1>11
<1>14. TypeOK'
  BY <1>4, <1>7, <1>8, <1>13 DEF TypeOK
<1>15. ASSUME NEW x \in Subs PROVE Called(x)'
  <2>1. Called(x)
    BY DEF IInv
  <2>2. CASE x = s /\ FilterOf[s] \in {NoFilter, sent[at].tenant}
    <3>1. got'[x] = new
      BY <1>12, <2>2
    <3>2. Waiting(s, at) /\ ~Waiting(s, at)'
      BY <1>4, <1>7
    <3>3. ~Among(at, got[s])
      BY <1>6, <2>1, <2>2, <3>2 DEF Called
    <3>4. Distinct(new) /\ \A j \in 1 .. Len(new) : new[j] <= Len(sent)
      BY <1>6, <1>11, <2>1, <2>2, <3>3 DEF Called
    <3>5. ASSUME NEW i \in 1 .. Len(sent)
          PROVE  Among(i, new) <=> /\ Among(x, audience[i]) /\ ~Waiting(x, i)'
                                   /\ FilterOf[x] \in {NoFilter, sent[i].tenant}
      <4>1. CASE i = at
        BY <1>6, <1>11, <2>2, <3>2, <4>1
      <4>2. CASE i # at
        BY <1>7, <1>11, <2>1, <2>2, <4>2 DEF Called
      <4> QED BY <4>1, <4>2
    <3> QED BY <1>4, <3>1, <3>4, <3>5 DEF Called
  <2>3. CASE ~(x = s /\ FilterOf[s] \in {NoFilter, sent[at].tenant})
    <3>1. got'[x] = got[x]
      BY <1>12, <2>3
    <3>2. ASSUME NEW i \in 1 .. Len(sent)
          PROVE  Among(i, got[x]) <=> /\ Among(x, audience[i]) /\ ~Waiting(x, i)'
                                      /\ FilterOf[x] \in {NoFilter, sent[i].tenant}
      <4>1. Among(i, got[x]) <=> /\ Among(x, audience[i]) /\ ~Waiting(x, i)
                                 /\ FilterOf[x] \in {NoFilter, sent[i].tenant}
        BY <2>1 DEF Called
      <4>2. CASE i = at /\ x = s
        BY <2>3, <4>1, <4>2
      <4>3. CASE ~(i = at /\ x = s)
        <5>1. Waiting(x, i)' <=> Waiting(x, i)
          BY <1>4, <1>7, <4>3
        <5> QED BY <4>1, <5>1
      <4> QED BY <4>2, <4>3
    <3> QED BY <1>4, <2>1, <3>1, <3>2 DEF Called
  <2> QED BY <2>2, <2>3
<1> QED BY <1>7, <1>14, <1>15 DEF IInv

-----------------------------------------------------------------------------
(* The behaviours.                                                         *)

LEMMA InitInvariant == Init => IInv
<1> SUFFICES ASSUME Init PROVE IInv
  OBVIOUS
<1> USE DEF Init
<1>1. TypeOK
  <2>1. closed \in BOOLEAN
    BY Zenon
  <2> QED BY <2>1 DEF TypeOK
<1>2. Framed /\ Registered
  BY DEF Framed, Registered, Distinct, Among
<1>3. \A s \in Subs : Called(s)
  BY DEF Called, Distinct
<1>4. ChainsKeepTenant /\ Len(sent) <= MaxSent
  BY InMemoryTransportAssumption DEF ChainsKeepTenant
<1> QED BY <1>1, <1>2, <1>3, <1>4 DEF IInv

LEMMA FinalisedHasTenant ==
    ASSUME NEW topic \in Topics, NEW tenant \in Tenants \cup {NoTenant}
    PROVE  /\ Finalised(topic, tenant) \in [topic: Topics, tenant: Tenants]
           /\ tenant \in Tenants => Finalised(topic, tenant).tenant = tenant
BY EnvelopeAssumption DEF Finalised

LEMMA PublishStep ==
    ASSUME IInv, NEW c \in Callers, Publish(c)
    PROVE  IInv'
<1>1. PICK topic \in Topics, tenant \in Tenants \cup {NoTenant} :
          Enter(c, Finalised(topic, tenant), 0)
  BY DEF Publish
<1>2. PICK m : m = Finalised(topic, tenant)
  OBVIOUS
<1>3. m \in [topic: Topics, tenant: Tenants] /\ Enter(c, m, 0)
  BY <1>1, <1>2, FinalisedHasTenant
<1> QED BY <1>3, EnterStep

\* A follow-up: the chain of the message that is handled.
LEMMA PublishBackEnters ==
    ASSUME IInv, NEW c \in Callers, PublishBack(c)
    PROVE  \E m \in [topic: Topics, tenant: Tenants], k \in 1 .. Len(sent) :
              /\ Enter(c, m, k)
              /\ chain[k] = k /\ sent[k].tenant = m.tenant
<1>1. PICK at : at = Head(stack[c]).at
  OBVIOUS
<1>2. /\ TypeOK /\ Framed /\ ChainsKeepTenant
      /\ stack[c] # <<>> /\ stack[c] \in Seq(Frames)
      /\ sent \in Seq([topic: Topics, tenant: Tenants])
      /\ chain \in Seq(Positions) /\ Len(chain) = Len(sent)
  BY DEF IInv, TypeOK, PublishBack
<1>3. PICK topic \in Topics : Enter(c, Finalised(topic, sent[at].tenant), chain[at])
  BY <1>1 DEF PublishBack
<1>4. at \in 1 .. Len(sent)
  BY <1>1, <1>2, HeadTaken DEF Framed, FrameOK
<1>5. /\ chain[at] <= at /\ chain[chain[at]] = chain[at]
      /\ sent[chain[at]].tenant = sent[at].tenant
  BY <1>2, <1>4 DEF ChainsKeepTenant
<1>6. chain[at] \in Positions /\ sent[at].tenant \in Tenants
  <2>1. sent[at] \in [topic: Topics, tenant: Tenants]
    BY <1>2, <1>4, SentTyped
  <2>2. chain[at] \in Positions
    BY <1>2, <1>4
  <2> QED BY <2>1, <2>2
<1>7. chain[at] \in 1 .. Len(sent)
  BY <1>2, <1>4, <1>5, <1>6 DEF Positions
<1>8. PICK m : m = Finalised(topic, sent[at].tenant)
  OBVIOUS
<1>9. m \in [topic: Topics, tenant: Tenants] /\ m.tenant = sent[at].tenant
  BY <1>6, <1>8, FinalisedHasTenant
<1> QED BY <1>3, <1>5, <1>7, <1>8, <1>9

LEMMA PublishBackStep ==
    ASSUME IInv, NEW c \in Callers, PublishBack(c)
    PROVE  IInv'
BY PublishBackEnters, EnterStep

LEMMA NextInvariant == IInv /\ [Next]_vars => IInv'
<1> SUFFICES ASSUME IInv, [Next]_vars PROVE IInv'
  OBVIOUS
<1>1. ASSUME NEW c \in Callers, Step(c) PROVE IInv'
  BY <1>1, CallHandlerStep, HandlerReturnsStep, ReturnStep DEF Step
<1>2. CASE UNCHANGED vars
  BY <1>2, SameCalls DEF vars, IInv, TypeOK, Registered, Distinct, Among
<1>3. CASE Next
  BY <1>1, <1>3, PublishStep, PublishBackStep, SubscribeStep, CloseStep DEF Next
<1> QED BY <1>2, <1>3

LEMMA Invariance == Spec => []IInv
BY InitInvariant, NextInvariant, PTL DEF Spec

\* What travels and who was called with it stay in their types, and every
\* frame refers to a message (the state of inMemoryTransport and its callers).
THEOREM TypeCorrectness == Spec => []TypeOK
BY Invariance, PTL DEF IInv

\* What handlers publish in turn, at any depth and on any goroutine, stays in
\* the chain and in the tenant of the event that began it (bus.go:62-63,
\* envelope.go:46-49).
THEOREM ChainStaysInTenant == Spec => []ChainsKeepTenant
BY Invariance, PTL DEF IInv

LEMMA CountedOnce ==
    ASSUME IInv, NEW s \in Subs, NEW i
    PROVE  Times(s, i) = IF Among(i, got[s]) THEN 1 ELSE 0
<1> DEFINE found == {j \in 1 .. Len(got[s]) : got[s][j] = i}
<1>1. Distinct(got[s])
  BY DEF IInv, Called
<1>2. CASE Among(i, got[s])
  <2>1. PICK j \in 1 .. Len(got[s]) : got[s][j] = i
    BY <1>2 DEF Among
  <2>2. found = {j}
    BY <1>1, <2>1 DEF Distinct
  <2> QED BY <1>2, <2>2, FS_Singleton DEF Times
<1>3. CASE ~Among(i, got[s])
  <2>1. found = {}
    BY <1>3 DEF Among
  <2> QED BY <1>3, <2>1, FS_EmptySet DEF Times
<1> QED BY <1>2, <1>3

LEMMA InvariantFansOut == IInv => FanOutComplete
<1> SUFFICES ASSUME IInv, NEW i \in 1 .. Len(sent), ~Pending(i), NEW s \in Subs
             PROVE  Times(s, i) = IF /\ s \in ToSet(audience[i])
                                     /\ FilterOf[s] \in {NoFilter, sent[i].tenant}
                                  THEN 1 ELSE 0
  BY DEF FanOutComplete
<1>1. ~Waiting(s, i)
  BY DEF Pending, Waiting
<1>2. Among(i, got[s]) <=> /\ Among(s, audience[i])
                           /\ FilterOf[s] \in {NoFilter, sent[i].tenant}
  BY <1>1 DEF IInv, Called
<1>3. s \in ToSet(audience[i]) <=> Among(s, audience[i])
  BY DEF ToSet, Among
<1> QED BY <1>2, <1>3, CountedOnce

\* When a Publish has returned, exactly the subscriptions it found whose tenant
\* it is for have handled the message, each once (transport_inmemory.go:32-49),
\* although others subscribed, handlers published in turn and the transport was
\* closed under it.
THEOREM FannedOut == Spec => []FanOutComplete
BY Invariance, InvariantFansOut, PTL

-----------------------------------------------------------------------------
(* The bus over this transport.                                            *)

LEMMA EnterRefines ==
    ASSUME NEW c \in Callers, NEW m \in [topic: Topics, tenant: Tenants], NEW k,
           Enter(c, m, k)
    PROVE  Promised!Accept
<1>1. m \in Promised!Messages
  BY DEF Promised!Messages
<1>2. ~closed /\ sent' = Append(sent, m) /\ UNCHANGED <<got, closed>>
  BY DEF Enter
<1> QED BY <1>1, <1>2 DEF Promised!Accept

LEMMA PublishRefines ==
    ASSUME IInv, NEW c \in Callers, Publish(c) \/ PublishBack(c)
    PROVE  Promised!Accept
<1>1. ASSUME Publish(c) PROVE Promised!Accept
  BY <1>1, FinalisedHasTenant, EnterRefines DEF Publish
<1>2. ASSUME PublishBack(c) PROVE Promised!Accept
  BY <1>2, PublishBackEnters, EnterRefines
<1> QED BY <1>1, <1>2

LEMMA CallRefines ==
    ASSUME IInv, NEW c \in Callers, CallHandler(c)
    PROVE  \/ \E s \in Subs : Promised!Handle(s)
           \/ UNCHANGED Promised!vars
<1>1. PICK old : old = stack[c][1]
  OBVIOUS
<1>2. PICK s : s = Head(old.left)
  OBVIOUS
<1>3. PICK at : at = old.at
  OBVIOUS
<1>4. PICK f : f = Started(old)
  OBVIOUS
<1>5. /\ old \in Frames /\ FrameOK(old) /\ ~old.inHandler
      /\ s \in Subs /\ Among(s, old.left)
      /\ \A x : ToCall(old, x) <=> ToCall(f, x) \/ x = s
      /\ stack[c] # <<>>
      /\ got' = [got EXCEPT ![s] = IF Handles(s, sent[at]) THEN Append(@, at) ELSE @]
      /\ UNCHANGED <<closed, handlers, sent, chain, audience>>
  <2>1. Calls(c, old, s, f)
    BY <1>1, <1>2, <1>4, CallHandlerNamed
  <2> QED BY <1>3, <2>1 DEF Calls
<1>6. /\ stack \in [Callers -> Seq(Frames)] /\ got \in [Subs -> Seq(Positions)]
      /\ sent \in Seq([topic: Topics, tenant: Tenants])
      /\ Registered /\ Called(s)
  BY <1>5 DEF IInv, TypeOK
<1>7. at \in 1 .. Len(sent) /\ Among(s, audience[at])
  BY <1>3, <1>5 DEF FrameOK
<1>8. CASE Handles(s, sent[at])
  <2>1. Waiting(s, at)
    <3>1. 1 \in 1 .. Len(stack[c])
      BY <1>5, <1>6, HeadTaken
    <3> QED BY <1>1, <1>3, <1>5, <3>1 DEF Waiting
  <2>2. \A j \in 1 .. Len(got[s]) : got[s][j] # at
    BY <1>6, <1>7, <2>1 DEF Called, Among
  <2>3. Promised!Concerns(s, sent[at])
    <3>1. TopicOf[s] = sent[at].topic
      BY <1>5, <1>6, <1>7 DEF Registered
    <3>2. sent[at] \in [topic: Topics, tenant: Tenants]
      BY <1>7, SentTyped DEF IInv
    <3> QED BY <1>8, <3>1, <3>2 DEF Handles, Promised!Concerns
  <2>4. got' = [got EXCEPT ![s] = Append(@, at)]
    BY <1>5, <1>8
  <2> QED BY <1>5, <1>7, <2>2, <2>3, <2>4 DEF Promised!Handle
<1>9. CASE ~Handles(s, sent[at])
  BY <1>5, <1>6, <1>9 DEF Promised!vars
<1> QED BY <1>8, <1>9

LEMMA InitRefines == Init => Promised!Init
BY DEF Init, Promised!Init

LEMMA NextRefines == IInv /\ [Next]_vars => [Promised!Next]_(Promised!vars)
<1> SUFFICES ASSUME IInv, [Next]_vars PROVE Promised!Next \/ UNCHANGED Promised!vars
  OBVIOUS
<1>1. ASSUME NEW c \in Callers, HandlerReturns(c) \/ Return(c)
      PROVE  UNCHANGED Promised!vars
  BY <1>1 DEF HandlerReturns, Return, Promised!vars
<1>2. ASSUME NEW s \in Subs, Subscribe(s) PROVE UNCHANGED Promised!vars
  BY <1>2 DEF Subscribe, Promised!vars
<1>3. ASSUME Close PROVE Promised!Close
  BY <1>3 DEF Close, Promised!Close
<1>4. CASE UNCHANGED vars
  BY <1>4 DEF vars, Promised!vars
<1>5. ASSUME NEW c \in Callers, Publish(c) \/ PublishBack(c) \/ Step(c)
      PROVE  Promised!Next \/ UNCHANGED Promised!vars
  BY <1>1, <1>5, PublishRefines, CallRefines DEF Step, Promised!Next
<1>6. CASE Next
  BY <1>2, <1>3, <1>5, <1>6 DEF Next, Promised!Next
<1> QED BY <1>4, <1>6

\* Over this transport the bus keeps its promise: a subscription handles what
\* is of its topic and tenant, each envelope once, and a closed transport
\* accepts nothing (bus.go, transport_inmemory.go).
THEOREM BusRefined == Spec => ImplementsEventBus
BY InitRefines, NextRefines, Invariance, PTL DEF Spec, ImplementsEventBus, Promised!Spec

=============================================================================
