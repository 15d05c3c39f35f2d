--------------------------- MODULE RedisQueueProofs ---------------------------
(***************************************************************************)
(* What the Redis queue keeps and hands out, for any callers, queues,      *)
(* values, types and faults.  A value whose LPUSH was not sent twice is in *)
(* one place at a time: with a command not executed yet, at one position   *)
(* of one list, in one hand, or given out.                                 *)
(***************************************************************************)
EXTENDS RedisQueue, SequenceTheorems, TLAPS

-----------------------------------------------------------------------------
(* The operators on lists.                                                 *)

\* LPUSH adds at the left end and moves the others up.
LEMMA LeftAdded ==
    ASSUME NEW S, NEW s \in Seq(S), NEW v \in S
    PROVE  /\ <<v>> \o s \in Seq(S)
           /\ Len(<<v>> \o s) = Len(s) + 1
           /\ (<<v>> \o s)[1] = v
           /\ \A i \in 1 .. Len(s) : (<<v>> \o s)[i + 1] = s[i]
OBVIOUS

\* RPOP takes the last element and leaves the others where they are.
LEMMA RightRemoved ==
    ASSUME NEW S, NEW s \in Seq(S), s # <<>>
    PROVE  /\ Len(s) \in Nat \ {0}
           /\ Last(s) = s[Len(s)] /\ Last(s) \in S
           /\ Front(s) \in Seq(S)
           /\ Len(Front(s)) = Len(s) - 1
           /\ \A i \in 1 .. Len(s) - 1 : Front(s)[i] = s[i]
<1> DEFINE n == Len(s) - 1
<1>1. n \in Nat /\ n = Len(s) - 1 /\ Front(s) = SubSeq(s, 1, n)
  BY DEF Front
<1> HIDE DEF n
<1>2. /\ SubSeq(s, 1, n) \in Seq(S) /\ Len(SubSeq(s, 1, n)) = n
      /\ \A i \in 1 .. n : SubSeq(s, 1, n)[i] = s[i]
  BY <1>1
<1> QED BY <1>1, <1>2 DEF Last

\* Read from the other end, these are Append, Head and Tail.
LEMMA ReverseTyped ==
    ASSUME NEW S, NEW s \in Seq(S)
    PROVE  /\ Reverse(s) \in Seq(S)
           /\ Len(Reverse(s)) = Len(s)
           /\ \A i \in 1 .. Len(s) : Reverse(s)[i] = s[Len(s) - i + 1]
BY DEF Reverse

LEMMA ReverseLeftAdded ==
    ASSUME NEW S, NEW s \in Seq(S), NEW v \in S
    PROVE  Reverse(<<v>> \o s) = Append(Reverse(s), v)
<1> DEFINE a == Reverse(<<v>> \o s)
           b == Append(Reverse(s), v)
<1>1. a \in Seq(S) /\ Len(a) = Len(s) + 1
  BY LeftAdded, ReverseTyped
<1>2. b \in Seq(S) /\ Len(b) = Len(s) + 1
  BY ReverseTyped
<1>3. \A i \in 1 .. Len(s) + 1 : a[i] = b[i]
  BY DEF Reverse
<1> HIDE DEF a, b
<1>4. a = b
  BY <1>1, <1>2, <1>3, SeqEqual
<1> QED BY <1>4 DEF a, b

LEMMA ReverseRightRemoved ==
    ASSUME NEW S, NEW s \in Seq(S), s # <<>>
    PROVE  /\ Reverse(s) # <<>>
           /\ Head(Reverse(s)) = Last(s)
           /\ Tail(Reverse(s)) = Reverse(Front(s))
<1> DEFINE r == Reverse(s)
           f == Reverse(Front(s))
           n == Len(s) - 1
<1>1. n \in Nat /\ Len(s) = n + 1 /\ Front(s) \in Seq(S) /\ Len(Front(s)) = n
  BY RightRemoved
<1> HIDE DEF n
<1>2. /\ r \in Seq(S) /\ Len(r) = n + 1
      /\ \A i \in 1 .. n + 1 : r[i] = s[n + 2 - i]
  BY <1>1, ReverseTyped
<1>3. /\ f \in Seq(S) /\ Len(f) = n
      /\ \A i \in 1 .. n : f[i] = s[n + 1 - i]
  <2>1. f \in Seq(S) /\ Len(f) = n /\ \A i \in 1 .. n : f[i] = Front(s)[n + 1 - i]
    BY <1>1, ReverseTyped
  <2> QED BY <1>1, <2>1, RightRemoved
<1> HIDE DEF r, f
<1>4. r # <<>> /\ Head(r) = s[n + 1]
  BY <1>1, <1>2
<1>5. Tail(r) \in Seq(S) /\ Len(Tail(r)) = n /\ \A i \in 1 .. n : Tail(r)[i] = f[i]
  BY <1>1, <1>2, <1>3, <1>4
<1>6. Tail(r) = f
  BY <1>3, <1>5, SeqEqual
<1> QED BY <1>1, <1>4, <1>6, RightRemoved DEF r, f

-----------------------------------------------------------------------------
(* The invariant.                                                          *)

Sending(c, v) == call[c].op = "LPUSH" /\ call[c].value = v /\ ~call[c].done
Pushing(c, v) == call[c].op = "LPUSH" /\ call[c].value = v

In(q, v) == \E i \in DOMAIN list[q] : list[q][i] = v
Queued(v) == \E q \in Queues : In(q, v)

OnePlaceIn(v) ==
    \A q, r \in Queues : \A i \in DOMAIN list[q], j \in DOMAIN list[r] :
        list[q][i] = v /\ list[r][j] = v => q = r /\ i = j

\* Whatever is somewhere was pushed; RPOP has nothing before it is executed.
OnlyPushed ==
    /\ \A c \in Callers :
          /\ call[c].op = "LPUSH" => call[c].value \in pushed \cap Encodable
          /\ call[c].op = "RPOP" =>
                /\ call[c].value \in pushed \cup {None}
                /\ ~call[c].done => call[c].value = None
    /\ \A q \in Queues : \A i \in DOMAIN list[q] : list[q][i] \in pushed
    /\ \A v \in Values : given[v] > 0 => v \in pushed

\* v is in one place: with an LPUSH not executed yet, in a list, in a hand or
\* given out.
Single(v) ==
    /\ OnePlaceIn(v)
    /\ \A c, d \in Callers : Pushing(c, v) /\ Pushing(d, v) => c = d
    /\ \A c, d \in Callers : Hand(c) = v /\ Hand(d) = v => c = d
    /\ \A c \in Callers : Sending(c, v) =>
          ~Queued(v) /\ given[v] = 0 /\ \A d \in Callers : Hand(d) # v
    /\ \A c \in Callers : Hand(c) = v => ~Queued(v) /\ given[v] = 0
    /\ given[v] > 0 => given[v] = 1 /\ ~Queued(v)

\* What becomes of a value after its LPUSH was executed.
Kept(q, v) ==
    \/ In(q, v)
    \/ \E c \in Callers : Hand(c) = v
    \/ given[v] > 0
    \/ v \in lost
    \/ ~DecodedByAll(v)

IInv ==
    /\ TypeOK
    /\ OnlyPushed
    /\ \A v \in Values \ resent : Single(v)
    /\ \A q \in Queues : \A v \in accepted[q] : Kept(q, v)
    /\ \A c \in Callers :
          call[c].op = "LPUSH" /\ call[c].done => Kept(call[c].queue, call[c].value)

-----------------------------------------------------------------------------
(* The effect of the two commands on the lists.                            *)

LEMMA ListPushed ==
    ASSUME TypeOK, NEW q \in Queues, NEW v \in Encodable,
           list' = [list EXCEPT ![q] = <<v>> \o @]
    PROVE  /\ list' \in [Queues -> Seq(Encodable)]
           /\ \A r \in Queues : \A x : In(r, x)' <=> In(r, x) \/ (r = q /\ x = v)
           /\ \A x : OnePlaceIn(x) /\ (x = v => ~Queued(x)) => OnePlaceIn(x)'
<1> DEFINE s == list[q]
           t == <<v>> \o s
<1>1. s \in Seq(Encodable) /\ Len(s) \in Nat /\ DOMAIN s = 1 .. Len(s)
  BY DEF TypeOK
<1>2. /\ t \in Seq(Encodable) /\ DOMAIN t = 1 .. Len(s) + 1
      /\ t[1] = v /\ \A i \in 1 .. Len(s) : t[i + 1] = s[i]
  BY <1>1, LeftAdded
<1>3. \A r \in Queues : list'[r] = IF r = q THEN t ELSE list[r]
  BY DEF TypeOK
<1> HIDE DEF t
<1>b. \A k \in DOMAIN t : k = 1 \/ (k - 1 \in DOMAIN s /\ t[k] = s[k - 1])
  <2> TAKE k \in DOMAIN t
  <2>1. k = 1 \/ (k - 1 \in 1 .. Len(s) /\ (k - 1) + 1 = k)
    BY <1>1, <1>2
  <2> QED BY <1>1, <1>2, <2>1
<1>4. \A x : (\E i \in DOMAIN t : t[i] = x) <=> (\E i \in DOMAIN s : s[i] = x) \/ x = v
  <2> TAKE x
  <2>1. ASSUME NEW i \in DOMAIN t, t[i] = x
        PROVE  (\E j \in DOMAIN s : s[j] = x) \/ x = v
    BY <1>2, <1>b, <2>1
  <2>2. ASSUME NEW j \in DOMAIN s PROVE j + 1 \in DOMAIN t /\ t[j + 1] = s[j]
    BY <1>1, <1>2
  <2>3. 1 \in DOMAIN t
    BY <1>1, <1>2
  <2> QED BY <1>2, <2>1, <2>2, <2>3
<1>5. \A r \in Queues : \A x : In(r, x)' <=> In(r, x) \/ (r = q /\ x = v)
  <2> TAKE r \in Queues
  <2> TAKE x
  <2>1. CASE r = q
    <3>1. list'[r] = t /\ list[r] = s
      BY <1>3, <2>1
    <3> QED BY <1>4, <2>1, <3>1 DEF In
  <2>2. CASE r # q
    <3>1. list'[r] = list[r]
      BY <1>3, <2>2
    <3> QED BY <2>2, <3>1 DEF In
  <2> QED BY <2>1, <2>2
<1>6. ASSUME NEW x, OnePlaceIn(x), x = v => ~Queued(x)
      PROVE  OnePlaceIn(x)'
  <2>1. SUFFICES ASSUME NEW r1 \in Queues, NEW r2 \in Queues,
                        NEW i \in DOMAIN list'[r1], NEW j \in DOMAIN list'[r2],
                        list'[r1][i] = x, list'[r2][j] = x
                 PROVE  r1 = r2 /\ i = j
    BY DEF OnePlaceIn
  <2>2. CASE x = v
    <3>1. \A r \in Queues : \A k \in DOMAIN list[r] : list[r][k] # x
      BY <1>6, <2>2 DEF Queued, In
    <3>2. ASSUME NEW r \in Queues, r # q, NEW k \in DOMAIN list'[r] PROVE list'[r][k] # x
      <4>1. list'[r] = list[r]
        BY <1>3, <3>2
      <4> QED BY <3>1, <4>1
    <3>3. \A k \in DOMAIN t : t[k] = x => k = 1
      BY <1>b, <3>1
    <3>4. r1 = q /\ r2 = q
      BY <2>1, <3>2
    <3>5. list'[q] = t
      BY <1>3
    <3> QED BY <2>1, <3>3, <3>4, <3>5
  <2>3. CASE x # v
    <3> DEFINE Old(r, k) == IF r = q THEN k - 1 ELSE k
    <3>1. ASSUME NEW r \in Queues, NEW k \in DOMAIN list'[r], list'[r][k] = x
          PROVE  Old(r, k) \in DOMAIN list[r] /\ list[r][Old(r, k)] = x
                 /\ (r = q => k \in Nat)
      <4>1. CASE r = q
        <5>1. k \in 1 .. Len(s) + 1 /\ k # 1 /\ t[k] = x
          BY <1>2, <1>3, <2>3, <3>1, <4>1
        <5> QED BY <1>1, <1>2, <1>b, <4>1, <5>1
      <4> QED BY <1>3, <3>1, <4>1
    <3>2. r1 = r2 /\ Old(r1, i) = Old(r2, j)
      BY <1>6, <2>1, <3>1 DEF OnePlaceIn
    <3>3. CASE r1 = q
      <4>1. i \in Nat /\ j \in Nat /\ i - 1 = j - 1
        BY <2>1, <3>1, <3>2, <3>3
      <4> QED BY <3>2, <4>1
    <3> QED BY <3>2, <3>3
  <2> QED BY <2>2, <2>3
<1>7. list' \in [Queues -> Seq(Encodable)]
  BY <1>1, <1>2 DEF TypeOK, t
<1> QED BY <1>5, <1>6, <1>7

LEMMA ListPopped ==
    ASSUME TypeOK, NEW q \in Queues, list[q] # <<>>,
           list' = [list EXCEPT ![q] = Front(@)]
    PROVE  /\ list' \in [Queues -> Seq(Encodable)]
           /\ Last(list[q]) \in Encodable
           /\ In(q, Last(list[q]))
           /\ \A r \in Queues : \A x :
                 /\ In(r, x)' => In(r, x)
                 /\ In(r, x) => In(r, x)' \/ x = Last(list[q])
           /\ \A x : OnePlaceIn(x) =>
                 OnePlaceIn(x)' /\ (x = Last(list[q]) => ~Queued(x)')
<1> DEFINE s == list[q]
           t == Front(s)
           n == Len(s)
<1>1. /\ s \in Seq(Encodable) /\ n \in Nat \ {0} /\ DOMAIN s = 1 .. n
      /\ Last(s) = s[n] /\ Last(s) \in Encodable
      /\ t \in Seq(Encodable) /\ DOMAIN t = 1 .. n - 1
      /\ \A i \in 1 .. n - 1 : t[i] = s[i]
  <2>1. s \in Seq(Encodable)
    BY DEF TypeOK
  <2>2. n \in Nat \ {0} /\ Last(s) = s[n] /\ Last(s) \in Encodable
    BY <2>1, RightRemoved
  <2>3. /\ t \in Seq(Encodable) /\ Len(t) = n - 1
        /\ \A i \in 1 .. n - 1 : t[i] = s[i]
    BY <2>1, RightRemoved
  <2> HIDE DEF t
  <2> QED BY <2>1, <2>2, <2>3
<1>2. \A r \in Queues : list'[r] = IF r = q THEN t ELSE list[r]
  BY DEF TypeOK
<1> HIDE DEF t, n
<1>3. \A r \in Queues :
         /\ DOMAIN list'[r] \subseteq DOMAIN list[r]
         /\ \A i \in DOMAIN list'[r] : list'[r][i] = list[r][i]
  BY <1>1, <1>2
<1>4. /\ n \in DOMAIN s /\ n \notin DOMAIN t
      /\ \A i \in DOMAIN s \ {n} : i \in DOMAIN t
  BY <1>1
<1>5. \A r \in Queues : \A x :
         /\ In(r, x)' => In(r, x)
         /\ In(r, x) => In(r, x)' \/ x = Last(s)
  <2> TAKE r \in Queues
  <2> TAKE x
  <2>1. In(r, x)' => In(r, x)
    BY <1>3 DEF In
  <2>2. ASSUME NEW i \in DOMAIN list[r], list[r][i] = x, x # Last(s)
        PROVE  i \in DOMAIN list'[r] /\ list'[r][i] = x
    <3>1. CASE r = q
      <4>1. list'[r] = t /\ list[r] = s /\ i # n
        BY <1>1, <1>2, <2>2, <3>1
      <4>2. i \in DOMAIN t
        BY <1>4, <2>2, <4>1
      <4> QED BY <1>3, <2>2, <4>1, <4>2
    <3>2. CASE r # q
      <4>1. list'[r] = list[r]
        BY <1>2, <3>2
      <4> QED BY <2>2, <4>1
    <3> QED BY <3>1, <3>2
  <2> QED BY <2>1, <2>2 DEF In
<1>6. In(q, Last(s))
  BY <1>1, <1>4 DEF In
<1>7. ASSUME NEW x, OnePlaceIn(x)
      PROVE  OnePlaceIn(x)' /\ (x = Last(s) => ~Queued(x)')
  <2>1. OnePlaceIn(x)'
    BY <1>3, <1>7 DEF OnePlaceIn
  <2>2. ASSUME x = Last(s), NEW r \in Queues, NEW i \in DOMAIN list'[r], list'[r][i] = x
        PROVE  FALSE
    <3>1. r = q /\ i = n
      BY <1>1, <1>3, <1>4, <1>7, <2>2 DEF OnePlaceIn
    <3> QED BY <1>2, <1>4, <2>2, <3>1
  <2> QED BY <2>1, <2>2 DEF Queued, In
<1>8. list' \in [Queues -> Seq(Encodable)]
  BY <1>1 DEF TypeOK, t
<1> QED BY <1>1, <1>5, <1>6, <1>7, <1>8

-----------------------------------------------------------------------------
(* The steps.                                                              *)

Command(op, q, v, done) == [op |-> op, queue |-> q, value |-> v, done |-> done]

LEMMA CallTypes ==
    ASSUME TypeOK, NEW c \in Callers
    PROVE  \/ call[c] = Idle /\ call[c].op = "idle"
           \/ /\ call[c].op = "LPUSH" /\ call[c].value \in Values
              /\ call[c].queue \in Queues /\ call[c].done \in BOOLEAN
              /\ call[c] = Command("LPUSH", call[c].queue, call[c].value, call[c].done)
           \/ /\ call[c].op = "RPOP" /\ call[c].value \in Values \cup {None}
              /\ call[c].queue \in Queues /\ call[c].done \in BOOLEAN
              /\ call[c] = Command("RPOP", call[c].queue, call[c].value, call[c].done)
BY DEF TypeOK, Calls, Idle, Command

LEMMA CommandTypes ==
    /\ Idle \in Calls
    /\ \A q \in Queues, v \in Values, d \in BOOLEAN : Command("LPUSH", q, v, d) \in Calls
    /\ \A q \in Queues, v \in Values \cup {None}, d \in BOOLEAN :
          Command("RPOP", q, v, d) \in Calls
BY DEF Calls, Idle, Command

\* What the calls become that are executed, or are to be sent again.
LEMMA PushExecuted ==
    ASSUME TypeOK, NEW c \in Callers, NEW q, NEW v,
           call[c] = Command("LPUSH", q, v, FALSE), ServerPush(c)
    PROVE  call' = [call EXCEPT ![c] = Command("LPUSH", q, v, TRUE)]
<1>1. PICK e : e = TRUE
  OBVIOUS
<1>2. [call[c] EXCEPT !.done = e] = Command("LPUSH", q, v, e)
  BY DEF Command
<1>3. call' = [call EXCEPT ![c].done = TRUE]
  BY DEF ServerPush, Command
<1>4. call' = [call EXCEPT ![c].done = e]
  BY <1>1, <1>3, Zenon
<1>5. call' = [call EXCEPT ![c] = Command("LPUSH", q, v, e)]
  BY <1>2, <1>4
<1> QED BY <1>1, <1>5, Zenon

LEMMA PopFoundNone ==
    ASSUME TypeOK, NEW c \in Callers, NEW q, NEW v,
           call[c] = Command("RPOP", q, v, FALSE), ServerPop(c), list[q] = <<>>
    PROVE  call' = [call EXCEPT ![c] = Command("RPOP", q, v, TRUE)]
<1>1. PICK e : e = TRUE
  OBVIOUS
<1>2. [call[c] EXCEPT !.done = e] = Command("RPOP", q, v, e)
  BY DEF Command
<1>3. call' = [call EXCEPT ![c].done = TRUE]
  BY DEF ServerPop, Command
<1>4. call' = [call EXCEPT ![c].done = e]
  BY <1>1, <1>3, Zenon
<1>5. call' = [call EXCEPT ![c] = Command("RPOP", q, v, e)]
  BY <1>2, <1>4
<1> QED BY <1>1, <1>5, Zenon

LEMMA PopExecuted ==
    ASSUME TypeOK, NEW c \in Callers, NEW q, NEW v,
           call[c] = Command("RPOP", q, v, FALSE), ServerPop(c), list[q] # <<>>
    PROVE  call' = [call EXCEPT ![c] = Command("RPOP", q, Last(list[q]), TRUE)]
<1>1. PICK e : e = TRUE
  OBVIOUS
<1>w. PICK w : w = Last(list[q])
  OBVIOUS
<1> DEFINE r == Command("RPOP", q, v, e)
           g == [call EXCEPT ![c].done = e, ![c].value = w]
<1>2. [call[c] EXCEPT !.done = e] = r
  BY DEF Command
<1>3. [r EXCEPT !.value = w] = Command("RPOP", q, w, e)
  BY DEF Command
<1>4. /\ g = [x \in Callers |-> g[x]]
      /\ \A b \in Callers \ {c} : g[b] = call[b]
      /\ g[c] = [[call[c] EXCEPT !.done = e] EXCEPT !.value = w]
  BY DEF TypeOK
<1>5. call' = [call EXCEPT ![c].done = TRUE, ![c].value = w]
  <2>1. call[c].queue = q
    BY DEF Command
  <2>2. call' = [call EXCEPT ![c].done = TRUE, ![c].value = Last(list[call[c].queue])]
    BY <2>1, Zenon DEF ServerPop
  <2> QED BY <1>w, <2>1, <2>2, Zenon
<1>6. call' = g
  BY <1>1, <1>5, Zenon
<1> HIDE DEF g, r
<1>7. g = [call EXCEPT ![c] = Command("RPOP", q, w, e)]
  BY <1>2, <1>3, <1>4 DEF TypeOK
<1> QED BY <1>1, <1>w, <1>6, <1>7, Zenon

LEMMA PushSentAgain ==
    ASSUME TypeOK, NEW c \in Callers, NEW q, NEW v,
           call[c] = Command("LPUSH", q, v, TRUE), SendAgain(c)
    PROVE  call' = [call EXCEPT ![c] = Command("LPUSH", q, v, FALSE)]
<1>1. PICK e : e = FALSE
  OBVIOUS
<1>2. [call[c] EXCEPT !.done = e] = Command("LPUSH", q, v, e)
  BY DEF Command
<1>3. call' = [call EXCEPT ![c].done = FALSE]
  BY DEF SendAgain, Command
<1>4. call' = [call EXCEPT ![c].done = e]
  BY <1>1, <1>3, Zenon
<1>5. call' = [call EXCEPT ![c] = Command("LPUSH", q, v, e)]
  BY <1>2, <1>4
<1> QED BY <1>1, <1>5, Zenon

LEMMA PopSentAgain ==
    ASSUME TypeOK, NEW c \in Callers, NEW q, NEW v,
           call[c] = Command("RPOP", q, v, TRUE), SendAgain(c)
    PROVE  call' = [call EXCEPT ![c] = Command("RPOP", q, None, FALSE)]
<1>1. PICK e : e = FALSE
  OBVIOUS
<1> DEFINE r == Command("RPOP", q, v, e)
           g == [call EXCEPT ![c].done = e, ![c].value = None]
<1>2. [call[c] EXCEPT !.done = e] = r
  BY DEF Command
<1>3. [r EXCEPT !.value = None] = Command("RPOP", q, None, e)
  BY DEF Command
<1>4. /\ g = [x \in Callers |-> g[x]]
      /\ \A b \in Callers \ {c} : g[b] = call[b]
      /\ g[c] = [[call[c] EXCEPT !.done = e] EXCEPT !.value = None]
  BY DEF TypeOK
<1>5. call' = [call EXCEPT ![c].done = FALSE, ![c].value = None]
  <2>1. call[c].op # "LPUSH"
    BY DEF Command
  <2> QED BY <2>1, Zenon DEF SendAgain
<1>6. call' = g
  BY <1>1, <1>5, Zenon
<1> HIDE DEF g, r
<1>7. g = [call EXCEPT ![c] = Command("RPOP", q, None, e)]
  BY <1>2, <1>3, <1>4 DEF TypeOK
<1> QED BY <1>1, <1>6, <1>7, Zenon

LEMMA PushStep ==
    ASSUME IInv, NEW c \in Callers, NEW q \in Queues, NEW v \in Values, Push(c, q, v)
    PROVE  IInv'
<1>1. /\ call[c] = Idle /\ v \notin pushed /\ pushed' = pushed \cup {v}
      /\ call' = IF v \in Encodable
                 THEN [call EXCEPT ![c] = Command("LPUSH", q, v, FALSE)] ELSE call
      /\ list' = list /\ faults' = faults /\ accepted' = accepted /\ given' = given
      /\ lost' = lost /\ resent' = resent
  BY DEF Push, Command, history
<1>2. TypeOK'
  BY <1>1, CommandTypes DEF IInv, TypeOK
<1>3. OnlyPushed'
  BY <1>1 DEF IInv, TypeOK, OnlyPushed, Command
<1>4. ~Queued(v) /\ given[v] = 0 /\ (\A d \in Callers : ~Pushing(d, v) /\ Hand(d) # v)
  BY <1>1, CallTypes, RedisQueueAssumption
     DEF IInv, TypeOK, OnlyPushed, Queued, In, Pushing, Hand, Idle
<1>5. ASSUME NEW x \in Values \ resent PROVE Single(x)'
  BY <1>1, <1>4 DEF IInv, TypeOK, Single, OnePlaceIn, Sending, Pushing, Hand, Queued,
     In, Command, Idle
<1>6. ASSUME NEW r \in Queues, NEW x, Kept(r, x) PROVE Kept(r, x)'
  BY <1>1, <1>6 DEF IInv, TypeOK, Kept, In, Hand, Command, Idle, DecodedByAll
<1>7. ASSUME NEW d \in Callers, call'[d].op = "LPUSH", call'[d].done
      PROVE  Kept(call[d].queue, call[d].value)'
  BY <1>1, <1>6, <1>7, CallTypes DEF IInv, TypeOK, Command
<1> QED BY <1>1, <1>2, <1>3, <1>5, <1>6, <1>7 DEF IInv

LEMMA ServerPushStep ==
    ASSUME IInv, NEW c \in Callers, ServerPush(c)
    PROVE  IInv'
<1>0. PICK q \in Queues, v \in Encodable \cap pushed :
          call[c] = Command("LPUSH", q, v, FALSE)
  BY CallTypes DEF IInv, OnlyPushed, ServerPush, Idle
<1>1. /\ call[c] = Command("LPUSH", q, v, FALSE)
      /\ call' = [call EXCEPT ![c] = Command("LPUSH", q, v, TRUE)]
      /\ list' = [list EXCEPT ![q] = <<v>> \o @]
      /\ UNCHANGED <<pushed, faults, accepted, given, lost, resent>>
      /\ q \in Queues /\ v \in Encodable \cap pushed
  <2>1. TypeOK
    BY DEF IInv
  <2>2. call' = [call EXCEPT ![c] = Command("LPUSH", q, v, TRUE)]
    BY <1>0, <2>1, PushExecuted
  <2>3. call[c].queue = q /\ call[c].value = v
    BY <1>0 DEF Command
  <2> QED BY <1>0, <2>2, <2>3 DEF ServerPush, history
<1>2. /\ list' \in [Queues -> Seq(Encodable)]
      /\ \A r \in Queues : \A x : In(r, x)' <=> In(r, x) \/ (r = q /\ x = v)
      /\ \A x : OnePlaceIn(x) /\ (x = v => ~Queued(x)) => OnePlaceIn(x)'
  BY <1>1, ListPushed DEF IInv
<1>3. TypeOK'
  BY <1>1, <1>2, CommandTypes, RedisQueueAssumption DEF IInv, TypeOK
<1>4. OnlyPushed'
  <2>1. \A r \in Queues : \A x : (\E i \in DOMAIN list'[r] : list'[r][i] = x) => In(r, x)'
    BY DEF In
  <2>2. \A r \in Queues : \A x : In(r, x) => x \in pushed
    BY DEF IInv, OnlyPushed, In
  <2>3. \A r \in Queues : \A i \in DOMAIN list'[r] : list'[r][i] \in pushed
    BY <1>1, <1>2, <2>1, <2>2
  <2> QED BY <1>1, <2>3 DEF IInv, TypeOK, OnlyPushed, Command
<1>5. ASSUME NEW x \in Values \ resent PROVE Single(x)'
  <2>1. Single(x)
    BY <1>5 DEF IInv
  <2>2. Sending(c, x) <=> x = v
    BY <1>1 DEF Sending, Command
  <2>3. OnePlaceIn(x)'
    BY <1>2, <2>1, <2>2 DEF Single
  <2>4. Queued(x)' <=> Queued(x) \/ x = v
    BY <1>1, <1>2 DEF Queued
  <2>5. \A d \in Callers : /\ Pushing(d, x)' <=> Pushing(d, x)
                           /\ Hand(d)' = Hand(d)
                           /\ Sending(d, x)' => Sending(d, x) /\ d # c
    BY <1>1 DEF IInv, TypeOK, Pushing, Sending, Hand, Command
  <2>6. \A d \in Callers : Sending(d, x) => Pushing(d, x)
    BY DEF Sending, Pushing
  <2> QED BY <1>1, <2>1, <2>2, <2>3, <2>4, <2>5, <2>6 DEF Single
<1>6. \A d \in Callers : Hand(d)' = Hand(d)
  BY <1>1 DEF IInv, TypeOK, Hand, Command
<1>7. ASSUME NEW r \in Queues, NEW x, Kept(r, x) PROVE Kept(r, x)'
  BY <1>1, <1>2, <1>6, <1>7 DEF Kept, DecodedByAll
<1>8. ASSUME NEW d \in Callers, call'[d].op = "LPUSH", call'[d].done
      PROVE  Kept(call[d].queue, call[d].value)'
  <2>1. CASE d = c
    <3>1. call'[d].queue = q /\ call'[d].value = v
      BY <1>1, <2>1 DEF IInv, TypeOK, Command
    <3> QED BY <1>1, <1>2, <3>1 DEF Kept
  <2>2. CASE d # c
    <3>1. call'[d] = call[d]
      BY <1>1, <2>2 DEF IInv, TypeOK
    <3> QED BY <1>7, <1>8, <3>1, CallTypes DEF IInv
  <2> QED BY <2>1, <2>2
<1> QED BY <1>1, <1>3, <1>4, <1>5, <1>7, <1>8 DEF IInv, TypeOK

LEMMA PushReturnsStep ==
    ASSUME IInv, NEW c \in Callers, PushReturns(c)
    PROVE  IInv'
<1> DEFINE q == call[c].queue
           v == call[c].value
<1>1. /\ call[c] = Command("LPUSH", q, v, TRUE)
      /\ call' = [call EXCEPT ![c] = Idle]
      /\ accepted' = [accepted EXCEPT ![q] = @ \cup {v}]
      /\ UNCHANGED <<list, pushed, faults, given, lost, resent>>
      /\ q \in Queues /\ v \in Encodable \cap pushed /\ Kept(q, v)
  BY CallTypes DEF IInv, TypeOK, OnlyPushed, PushReturns, Command, Idle, history
<1> HIDE DEF q, v
<1>2. TypeOK'
  BY <1>1, CommandTypes DEF IInv, TypeOK
<1>3. OnlyPushed'
  BY <1>1 DEF IInv, TypeOK, OnlyPushed, Command, Idle
<1>4. \A d \in Callers : Hand(d)' = Hand(d)
  BY <1>1 DEF IInv, TypeOK, Hand, Command, Idle
<1>5. ASSUME NEW x \in Values \ resent PROVE Single(x)'
  <2>1. \A d \in Callers : /\ Pushing(d, x)' => Pushing(d, x)
                           /\ Sending(d, x)' => Sending(d, x)
    BY <1>1 DEF IInv, TypeOK, Pushing, Sending, Command, Idle
  <2>2. Single(x) /\ Queued(x)' = Queued(x) /\ OnePlaceIn(x)' = OnePlaceIn(x)
    BY <1>1, <1>5 DEF IInv, Queued, In, OnePlaceIn
  <2> QED BY <1>1, <1>4, <2>1, <2>2 DEF Single
<1>6. ASSUME NEW r \in Queues, NEW x, Kept(r, x) PROVE Kept(r, x)'
  BY <1>1, <1>4, <1>6 DEF Kept, In, DecodedByAll
<1>7. ASSUME NEW d \in Callers, call'[d].op = "LPUSH", call'[d].done
      PROVE  Kept(call[d].queue, call[d].value)'
  <2>1. call'[d] = call[d]
    BY <1>1, <1>7 DEF IInv, TypeOK, Idle
  <2> QED BY <1>6, <1>7, <2>1, CallTypes DEF IInv
<1>8. ASSUME NEW r \in Queues, NEW x \in accepted'[r] PROVE Kept(r, x)'
  <2>1. x \in accepted[r] \/ (r = q /\ x = v)
    BY <1>1, <1>8 DEF IInv, TypeOK
  <2> QED BY <1>1, <1>6, <2>1 DEF IInv
<1> QED BY <1>1, <1>2, <1>3, <1>5, <1>7, <1>8 DEF IInv

LEMMA PopStep ==
    ASSUME IInv, NEW c \in Callers, NEW q \in Queues, Pop(c, q)
    PROVE  IInv'
<1>1. /\ call[c] = Idle /\ call' = [call EXCEPT ![c] = Command("RPOP", q, None, FALSE)]
      /\ UNCHANGED <<list, pushed, faults, accepted, given, lost, resent>>
  BY DEF Pop, Command, history
<1>2. TypeOK'
  BY <1>1, CommandTypes DEF IInv, TypeOK
<1>3. OnlyPushed'
  BY <1>1 DEF IInv, TypeOK, OnlyPushed, Command, Idle
<1>4. \A d \in Callers : Hand(d)' = Hand(d)
  BY <1>1 DEF IInv, TypeOK, Hand, Command, Idle
<1>5. ASSUME NEW x \in Values \ resent PROVE Single(x)'
  <2>1. \A d \in Callers : /\ Pushing(d, x)' => Pushing(d, x)
                           /\ Sending(d, x)' => Sending(d, x)
    BY <1>1 DEF IInv, TypeOK, Pushing, Sending, Command, Idle
  <2>2. Single(x) /\ Queued(x)' = Queued(x) /\ OnePlaceIn(x)' = OnePlaceIn(x)
    BY <1>1, <1>5 DEF IInv, Queued, In, OnePlaceIn
  <2> QED BY <1>1, <1>4, <2>1, <2>2 DEF Single
<1>6. ASSUME NEW r \in Queues, NEW x, Kept(r, x) PROVE Kept(r, x)'
  BY <1>1, <1>4, <1>6 DEF Kept, In, DecodedByAll
<1>7. ASSUME NEW d \in Callers, call'[d].op = "LPUSH", call'[d].done
      PROVE  Kept(call[d].queue, call[d].value)'
  <2>1. call'[d] = call[d]
    BY <1>1, <1>7 DEF IInv, TypeOK, Command
  <2> QED BY <1>6, <1>7, <2>1, CallTypes DEF IInv
<1> QED BY <1>1, <1>2, <1>3, <1>5, <1>6, <1>7 DEF IInv

LEMMA ServerPopStep ==
    ASSUME IInv, NEW c \in Callers, ServerPop(c)
    PROVE  IInv'
<1>0. PICK q \in Queues : call[c] = Command("RPOP", q, None, FALSE)
  BY CallTypes DEF IInv, OnlyPushed, ServerPop, Idle
<1>1. /\ call[c] = Command("RPOP", q, None, FALSE) /\ q \in Queues
      /\ UNCHANGED <<pushed, faults, accepted, given, lost, resent>>
      /\ call[c].queue = q
  BY <1>0 DEF ServerPop, history, Command
<1>T. TypeOK
  BY DEF IInv
<1>2. CASE list[q] = <<>>
  <2>1. call' = [call EXCEPT ![c] = Command("RPOP", q, None, TRUE)] /\ list' = list
    <3>1. call' = [call EXCEPT ![c] = Command("RPOP", q, None, TRUE)]
      BY <1>1, <1>2, <1>T, PopFoundNone
    <3> QED BY <1>1, <1>2, <3>1 DEF ServerPop
  <2>2. TypeOK'
    BY <1>1, <2>1, CommandTypes DEF IInv, TypeOK
  <2>3. OnlyPushed'
    BY <1>1, <2>1 DEF IInv, TypeOK, OnlyPushed, Command
  <2>4. \A d \in Callers : Hand(d)' = Hand(d)
    BY <1>1, <2>1 DEF IInv, TypeOK, Hand, Command
  <2>5. ASSUME NEW x \in Values \ resent PROVE Single(x)'
    <3>1. \A d \in Callers : /\ Pushing(d, x)' => Pushing(d, x)
                             /\ Sending(d, x)' => Sending(d, x)
      BY <1>1, <2>1 DEF IInv, TypeOK, Pushing, Sending, Command
    <3>2. Single(x) /\ Queued(x)' = Queued(x) /\ OnePlaceIn(x)' = OnePlaceIn(x)
      BY <2>1, <2>5 DEF IInv, Queued, In, OnePlaceIn
    <3> QED BY <1>1, <2>4, <3>1, <3>2 DEF Single
  <2>6. ASSUME NEW r \in Queues, NEW x, Kept(r, x) PROVE Kept(r, x)'
    BY <1>1, <2>1, <2>4, <2>6 DEF Kept, In, DecodedByAll
  <2>7. ASSUME NEW d \in Callers, call'[d].op = "LPUSH", call'[d].done
        PROVE  Kept(call[d].queue, call[d].value)'
    <3>1. call'[d] = call[d]
      BY <2>1, <2>7 DEF IInv, TypeOK, Command
    <3> QED BY <2>6, <2>7, <3>1, CallTypes DEF IInv
  <2> QED BY <1>1, <2>2, <2>3, <2>5, <2>6, <2>7 DEF IInv
<1>3. CASE list[q] # <<>>
  <2>0. PICK v : v = Last(list[q])
    OBVIOUS
  <2>1. /\ call' = [call EXCEPT ![c] = Command("RPOP", q, v, TRUE)]
        /\ list' = [list EXCEPT ![q] = Front(@)]
    <3>1. call' = [call EXCEPT ![c] = Command("RPOP", q, v, TRUE)]
      BY <1>1, <1>3, <1>T, <2>0, PopExecuted, Zenon
    <3> QED BY <1>1, <1>3, <3>1 DEF ServerPop
  <2>2. /\ list' \in [Queues -> Seq(Encodable)]
        /\ v \in Encodable /\ In(q, v)
        /\ \A r \in Queues : \A x :
              /\ In(r, x)' => In(r, x)
              /\ In(r, x) => In(r, x)' \/ x = v
        /\ \A x : OnePlaceIn(x) => OnePlaceIn(x)' /\ (x = v => ~Queued(x)')
    BY <1>1, <1>3, <1>T, <2>0, <2>1, ListPopped
  <2>3. v \in pushed /\ v \in Values /\ v # None
    BY <1>1, <2>2, RedisQueueAssumption DEF IInv, OnlyPushed, In
  <2>4. TypeOK'
    BY <1>1, <2>1, <2>2, <2>3, CommandTypes DEF IInv, TypeOK
  <2>5. OnlyPushed'
    <3>1. \A r \in Queues : \A x : (\E i \in DOMAIN list'[r] : list'[r][i] = x) => In(r, x)
      BY <2>2 DEF In
    <3>2. \A r \in Queues : \A x : In(r, x) => x \in pushed
      BY DEF IInv, OnlyPushed, In
    <3>3. \A r \in Queues : \A i \in DOMAIN list'[r] : list'[r][i] \in pushed
      BY <3>1, <3>2
    <3> QED BY <1>1, <2>1, <2>3, <3>3 DEF IInv, TypeOK, OnlyPushed, Command
  <2>6. /\ Hand(c)' = v /\ Hand(c) = None
        /\ \A d \in Callers \ {c} : Hand(d)' = Hand(d)
    BY <1>1, <2>1 DEF IInv, TypeOK, Hand, Command
  <2>7. ASSUME NEW x \in Values \ resent PROVE Single(x)'
    <3>1. \A d \in Callers : /\ Pushing(d, x)' => Pushing(d, x)
                             /\ Sending(d, x)' => Sending(d, x)
      BY <1>1, <2>1 DEF IInv, TypeOK, Pushing, Sending, Command
    <3>2. Single(x) /\ OnePlaceIn(x)' /\ (Queued(x)' => Queued(x))
          /\ (x = v => Queued(x) /\ ~Queued(x)')
      BY <1>1, <2>2, <2>7 DEF IInv, Queued, Single
    <3>3. given' = given /\ given[x] \in Nat
      BY <1>1, <2>7 DEF IInv, TypeOK
    <3>4. CASE x = v
      BY <2>6, <3>1, <3>2, <3>3, <3>4 DEF Single
    <3>5. CASE x # v
      <4>1. \A d \in Callers : Hand(d)' = x => Hand(d) = x
        BY <2>6, <3>5
      <4> QED BY <3>1, <3>2, <3>3, <4>1 DEF Single
    <3> QED BY <3>4, <3>5
  <2>8. ASSUME NEW r \in Queues, NEW x \in Values, Kept(r, x) PROVE Kept(r, x)'
    <3>1. (\E d \in Callers : Hand(d) = x) => \E d \in Callers : Hand(d)' = x
      BY <2>6, <2>8, RedisQueueAssumption
    <3>2. In(r, x) => In(r, x)' \/ Hand(c)' = x
      BY <2>2, <2>6
    <3> QED BY <1>1, <2>8, <3>1, <3>2 DEF Kept, DecodedByAll
  <2>9. ASSUME NEW d \in Callers, call'[d].op = "LPUSH", call'[d].done
        PROVE  Kept(call[d].queue, call[d].value)'
    <3>1. call'[d] = call[d]
      BY <2>1, <2>9 DEF IInv, TypeOK, Command
    <3> QED BY <2>8, <2>9, <3>1, CallTypes DEF IInv
  <2> QED BY <1>1, <2>4, <2>5, <2>7, <2>8, <2>9 DEF IInv, TypeOK
<1> QED BY <1>2, <1>3

LEMMA PopReturnsStep ==
    ASSUME IInv, NEW c \in Callers, PopReturns(c)
    PROVE  IInv'
<1>0. PICK q \in Queues, v \in pushed \cup {None} :
          call[c] = Command("RPOP", q, v, TRUE)
  BY CallTypes DEF IInv, OnlyPushed, PopReturns, Idle
<1>1. /\ call[c].value = v
      /\ given' = IF v \in Decodes[c] THEN [given EXCEPT ![v] = @ + 1] ELSE given
      /\ call' = [call EXCEPT ![c] = Idle]
      /\ UNCHANGED <<list, pushed, faults, accepted, lost, resent>>
  BY <1>0 DEF PopReturns, Command
<1>2. /\ Decodes[c] \subseteq Values /\ Decodes[c] \subseteq Encodable
      /\ None \notin Values /\ pushed \subseteq Values
  BY RedisQueueAssumption DEF IInv, TypeOK
<1>3. TypeOK'
  BY <1>1, <1>2, CommandTypes DEF IInv, TypeOK
<1>4. /\ given' \in [Values -> Nat]
      /\ \A x \in Values : given'[x] = IF x = v /\ v \in Decodes[c] THEN given[x] + 1
                                       ELSE given[x]
  BY <1>1, <1>2 DEF IInv, TypeOK
<1>5. OnlyPushed'
  BY <1>0, <1>1, <1>2, <1>4 DEF IInv, TypeOK, OnlyPushed, Idle
<1>6. /\ Hand(c) = v /\ Hand(c)' = None
      /\ \A d \in Callers \ {c} : Hand(d)' = Hand(d)
  BY <1>0, <1>1 DEF IInv, TypeOK, Hand, Command, Idle
<1>7. ASSUME NEW x \in Values \ resent PROVE Single(x)'
  <2>1. \A d \in Callers : /\ Pushing(d, x)' => Pushing(d, x)
                           /\ Sending(d, x)' => Sending(d, x)
    BY <1>1 DEF IInv, TypeOK, Pushing, Sending, Idle
  <2>2. Single(x) /\ Queued(x)' = Queued(x) /\ OnePlaceIn(x)' = OnePlaceIn(x)
    BY <1>1, <1>7 DEF IInv, Queued, In, OnePlaceIn
  <2>3. \A d \in Callers : Hand(d)' = x => Hand(d) = x /\ d # c
    BY <1>2, <1>6
  <2>4. given[x] \in Nat
    BY <1>7 DEF IInv, TypeOK
  <2>5. CASE x = v
    <3>1. ~Queued(x) /\ given[x] = 0 /\ (\A d \in Callers : ~Sending(d, x))
          /\ \A d \in Callers : Hand(d) = x => d = c
      BY <1>6, <2>2, <2>5 DEF Single
    <3>2. given'[x] \in {0, 1}
      BY <1>4, <2>5, <3>1
    <3> QED BY <2>1, <2>2, <2>3, <3>1, <3>2 DEF Single
  <2>6. CASE x # v
    <3>1. given'[x] = given[x]
      BY <1>4, <2>6
    <3> QED BY <2>1, <2>2, <2>3, <3>1 DEF Single
  <2> QED BY <2>5, <2>6
<1>8. ASSUME NEW r \in Queues, NEW x \in Values, Kept(r, x) PROVE Kept(r, x)'
  <2>1. CASE x = v
    <3>1. given'[x] > 0 \/ ~DecodedByAll(x)
      BY <1>4, <2>1 DEF IInv, TypeOK, DecodedByAll
    <3> QED BY <3>1 DEF Kept, DecodedByAll
  <2>2. CASE x # v
    <3>1. (\E d \in Callers : Hand(d) = x) => \E d \in Callers : Hand(d)' = x
      BY <1>6, <2>2
    <3>2. given'[x] = given[x]
      BY <1>4, <2>2
    <3> QED BY <1>1, <1>8, <3>1, <3>2 DEF Kept, In, DecodedByAll
  <2> QED BY <2>1, <2>2
<1>9. ASSUME NEW d \in Callers, call'[d].op = "LPUSH", call'[d].done
      PROVE  Kept(call[d].queue, call[d].value)'
  <2>1. call'[d] = call[d]
    BY <1>1, <1>9 DEF IInv, TypeOK, Idle
  <2> QED BY <1>8, <1>9, <2>1, CallTypes DEF IInv
<1> QED BY <1>1, <1>2, <1>3, <1>5, <1>7, <1>8, <1>9 DEF IInv, TypeOK

\* A caller that lets go of what it has: its command failed, its answer was
\* lost, or it sends RPOP again.
LEMMA LetGo ==
    ASSUME IInv, NEW c \in Callers, NEW n \in Calls,
           n.op # "LPUSH",
           n.op = "RPOP" => n.value = None,
           call' = [call EXCEPT ![c] = n], faults' \in 0 .. MaxFaults,
           lost' = IF Hand(c) # None THEN lost \cup {Hand(c)} ELSE lost,
           UNCHANGED <<list, pushed, accepted, given, resent>>
    PROVE  IInv'
<1>1. Hand(c) \in pushed \cup {None}
  BY CallTypes DEF IInv, OnlyPushed, Hand
<1>2. lost \subseteq lost' /\ lost' \subseteq pushed
  BY <1>1 DEF IInv, TypeOK
<1>3. TypeOK'
  BY <1>2 DEF IInv, TypeOK
<1>4. OnlyPushed'
  BY DEF IInv, TypeOK, OnlyPushed
<1>5. /\ Hand(c)' = None
      /\ \A d \in Callers \ {c} : Hand(d)' = Hand(d)
  BY DEF IInv, TypeOK, Hand
<1>6. ASSUME NEW x \in Values \ resent PROVE Single(x)'
  <2>1. \A d \in Callers : /\ Pushing(d, x)' => Pushing(d, x)
                           /\ Sending(d, x)' => Sending(d, x)
    BY DEF IInv, TypeOK, Pushing, Sending
  <2>2. Single(x) /\ Queued(x)' = Queued(x) /\ OnePlaceIn(x)' = OnePlaceIn(x)
    BY <1>6 DEF IInv, Queued, In, OnePlaceIn
  <2>3. \A d \in Callers : Hand(d)' = x => Hand(d) = x
    BY <1>5, RedisQueueAssumption
  <2>4. given'[x] = given[x]
    OBVIOUS
  <2> QED BY <2>1, <2>2, <2>3, <2>4 DEF Single
<1>7. ASSUME NEW r \in Queues, NEW x \in Values, Kept(r, x) PROVE Kept(r, x)'
  <2>1. ASSUME NEW d \in Callers, Hand(d) = x
        PROVE  (\E b \in Callers : Hand(b)' = x) \/ x \in lost'
    BY <1>5, <2>1, RedisQueueAssumption
  <2> QED BY <1>2, <1>7, <2>1 DEF Kept, In, DecodedByAll
<1>8. ASSUME NEW d \in Callers, call'[d].op = "LPUSH", call'[d].done
      PROVE  Kept(call[d].queue, call[d].value)'
  <2>1. call'[d] = call[d]
    BY <1>8 DEF IInv, TypeOK
  <2> QED BY <1>7, <1>8, <2>1, CallTypes DEF IInv
<1> QED BY <1>2, <1>3, <1>4, <1>6, <1>7, <1>8 DEF IInv, TypeOK

LEMMA CommandFailsStep ==
    ASSUME IInv, NEW c \in Callers, CommandFails(c)
    PROVE  IInv'
<1>1. Hand(c) = None
  BY CallTypes DEF IInv, OnlyPushed, CommandFails, Hand
<1>2. Idle \in Calls /\ Idle.op # "LPUSH" /\ Idle.op # "RPOP"
  BY CommandTypes DEF Idle
<1>3. /\ call' = [call EXCEPT ![c] = Idle]
      /\ UNCHANGED <<list, pushed, accepted, given, lost, resent>>
  BY DEF CommandFails, history
<1>4. faults' \in 0 .. MaxFaults
  BY RedisQueueAssumption DEF IInv, TypeOK, CommandFails
<1> QED BY <1>1, <1>2, <1>3, <1>4, LetGo

LEMMA AnswerLostStep ==
    ASSUME IInv, NEW c \in Callers, AnswerLost(c)
    PROVE  IInv'
<1>1. lost' = IF Hand(c) # None THEN lost \cup {Hand(c)} ELSE lost
  BY DEF AnswerLost, LoseAnswer, Hand
<1>2. Idle \in Calls /\ Idle.op # "LPUSH" /\ Idle.op # "RPOP"
  BY CommandTypes DEF Idle
<1>3. /\ call' = [call EXCEPT ![c] = Idle]
      /\ UNCHANGED <<list, pushed, accepted, given, resent>>
  BY DEF AnswerLost
<1>4. faults' \in 0 .. MaxFaults
  BY RedisQueueAssumption DEF IInv, TypeOK, AnswerLost, LoseAnswer
<1> QED BY <1>1, <1>2, <1>3, <1>4, LetGo

LEMMA SendAgainStep ==
    ASSUME IInv, NEW c \in Callers, SendAgain(c)
    PROVE  IInv'
<1>T. TypeOK
  BY DEF IInv
<1>1. /\ lost' = IF Hand(c) # None THEN lost \cup {Hand(c)} ELSE lost
      /\ call[c] # Idle /\ call[c].done
      /\ UNCHANGED <<list, pushed, accepted, given>>
  BY DEF SendAgain, LoseAnswer, Hand
<1>2. faults' \in 0 .. MaxFaults
  BY RedisQueueAssumption DEF IInv, TypeOK, SendAgain, LoseAnswer
<1>3. CASE call[c].op = "RPOP"
  <2>0. PICK q \in Queues, v \in Values \cup {None} : call[c] = Command("RPOP", q, v, TRUE)
    BY <1>1, <1>3, <1>T, CallTypes
  <2>1. call' = [call EXCEPT ![c] = Command("RPOP", q, None, FALSE)]
    BY <1>T, <2>0, PopSentAgain
  <2>2. /\ Command("RPOP", q, None, FALSE) \in Calls
        /\ Command("RPOP", q, None, FALSE).op = "RPOP"
        /\ Command("RPOP", q, None, FALSE).value = None
    BY DEF Calls, Command
  <2>3. resent' = resent
    BY <1>3 DEF SendAgain
  <2> QED BY <1>1, <1>2, <2>1, <2>2, <2>3, LetGo
<1>4. CASE call[c].op = "LPUSH"
  <2>0. PICK q \in Queues, v \in Encodable \cap pushed :
            call[c] = Command("LPUSH", q, v, TRUE)
    BY <1>1, <1>4, <1>T, CallTypes DEF IInv, OnlyPushed
  <2>1. call' = [call EXCEPT ![c] = Command("LPUSH", q, v, FALSE)]
    BY <1>T, <2>0, PushSentAgain
  <2>2. resent' = resent \cup {v} /\ lost' = lost
    BY <1>1, <1>4, <2>0 DEF SendAgain, Command, Hand
  <2>3. v \in Values
    BY RedisQueueAssumption
  <2>4. TypeOK'
    BY <1>1, <1>2, <2>1, <2>2, <2>3, CommandTypes DEF IInv, TypeOK
  <2>5. OnlyPushed'
    BY <1>1, <2>0, <2>1 DEF IInv, TypeOK, OnlyPushed, Command
  <2>6. \A d \in Callers : Hand(d)' = Hand(d)
    BY <2>0, <2>1 DEF IInv, TypeOK, Hand, Command
  <2>7. ASSUME NEW x \in Values \ resent' PROVE Single(x)'
    <3>1. x # v /\ x \notin resent
      BY <2>2, <2>7
    <3>2. \A d \in Callers : /\ Pushing(d, x)' => Pushing(d, x)
                             /\ Sending(d, x)' => Sending(d, x)
      BY <2>0, <2>1, <3>1 DEF IInv, TypeOK, Pushing, Sending, Command
    <3>3. Single(x) /\ Queued(x)' = Queued(x) /\ OnePlaceIn(x)' = OnePlaceIn(x)
      BY <1>1, <2>7, <3>1 DEF IInv, Queued, In, OnePlaceIn
    <3>4. given'[x] = given[x]
      BY <1>1
    <3> QED BY <2>6, <3>2, <3>3, <3>4 DEF Single
  <2>8. ASSUME NEW r \in Queues, NEW x \in Values, Kept(r, x) PROVE Kept(r, x)'
    BY <1>1, <2>2, <2>6, <2>8 DEF Kept, In, DecodedByAll
  <2>9. ASSUME NEW d \in Callers, call'[d].op = "LPUSH", call'[d].done
        PROVE  Kept(call[d].queue, call[d].value)'
    <3>1. call'[d] = call[d]
      BY <2>1, <2>9 DEF IInv, TypeOK, Command
    <3> QED BY <2>8, <2>9, <3>1, CallTypes DEF IInv
  <2> QED BY <1>1, <2>4, <2>5, <2>7, <2>8, <2>9 DEF IInv, TypeOK
<1> QED BY <1>1, <1>3, <1>4, <1>T, CallTypes

-----------------------------------------------------------------------------
(* The invariant holds.                                                    *)

LEMMA InitIInv == Init => IInv
<1> SUFFICES ASSUME Init PROVE IInv
  OBVIOUS
<1>1. TypeOK
  BY RedisQueueAssumption DEF Init, TypeOK, Calls
<1>2. OnlyPushed
  BY DEF Init, OnlyPushed, Idle
<1>3. \A q \in Queues : \A v : ~In(q, v)
  BY DEF Init, In
<1>4. \A c \in Callers : Hand(c) = None
  BY DEF Init, Hand, Idle
<1>5. \A c \in Callers : \A v : ~Pushing(c, v) /\ ~Sending(c, v)
  BY DEF Init, Pushing, Sending, Idle
<1>6. ASSUME NEW v \in Values PROVE Single(v)
  <2>1. OnePlaceIn(v)
    BY DEF Init, OnePlaceIn
  <2>2. given[v] = 0 /\ v # None
    BY RedisQueueAssumption DEF Init
  <2> QED BY <1>3, <1>4, <1>5, <2>1, <2>2 DEF Single, Queued
<1>7. /\ \A q \in Queues : accepted[q] = {}
      /\ \A c \in Callers : call[c].op # "LPUSH"
  BY DEF Init, Idle
<1> QED BY <1>1, <1>2, <1>6, <1>7 DEF IInv

LEMMA NextIInv == IInv /\ [Next]_vars => IInv'
<1> SUFFICES ASSUME IInv, [Next]_vars PROVE IInv'
  OBVIOUS
<1>1. CASE UNCHANGED vars
  BY <1>1 DEF vars, IInv, TypeOK, OnlyPushed, Single, OnePlaceIn, Pushing, Sending,
     Hand, Queued, In, Kept, DecodedByAll
<1>2. CASE Next
  <2> PICK c \in Callers :
        \/ \E q \in Queues, v \in Values : Push(c, q, v)
        \/ \E q \in Queues : Pop(c, q)
        \/ ServerPush(c) \/ PushReturns(c) \/ ServerPop(c) \/ PopReturns(c)
        \/ CommandFails(c) \/ AnswerLost(c) \/ SendAgain(c)
    BY <1>2 DEF Next
  <2> QED BY PushStep, PopStep, ServerPushStep, PushReturnsStep, ServerPopStep,
             PopReturnsStep, CommandFailsStep, AnswerLostStep, SendAgainStep
<1> QED BY <1>1, <1>2

LEMMA Invariance == Spec => []IInv
BY InitIInv, NextIInv, PTL DEF Spec

\* Whatever fails and whoever dies, the lists hold encoded values of this
\* queue only and every call is at one of its steps (queue_redis.go:29-51).
THEOREM TypeCorrectness == Spec => []TypeOK
<1>1. IInv => TypeOK
  BY DEF IInv
<1> QED BY <1>1, Invariance, PTL

\* A value whose Push returned nil is queued, on its way to a consumer or
\* consumed, unless its answer was lost or it does not decode, for any number
\* of callers, queues and failures (queue_redis.go:35-46).
THEOREM AcceptedStays == Spec => []AcceptedIsKept
<1>1. IInv => AcceptedIsKept
  BY DEF IInv, AcceptedIsKept, Kept, In
<1> QED BY <1>1, Invariance, PTL

\* No two Pops return a value whose LPUSH went out once, and none is returned
\* that is still queued (queue_redis.go:41).
THEOREM GivenOnlyOnce == Spec => []GivenOnce
<1>1. ASSUME IInv PROVE GivenOnce
  <2>1. ASSUME NEW v \in Values \ resent
        PROVE  /\ given[v] <= 1
               /\ given[v] = 1 =>
                    /\ \A q \in Queues : \A i \in DOMAIN list[q] : list[q][i] # v
                    /\ \A c \in Callers : Hand(c) # v
    <3>1. Single(v) /\ given[v] \in Nat
      BY <1>1, <2>1 DEF IInv, TypeOK
    <3> QED BY <3>1 DEF Single, Queued, In
  <2> QED BY <2>1 DEF GivenOnce
<1> QED BY <1>1, Invariance, PTL

-----------------------------------------------------------------------------
(* The refinement.                                                         *)

content == [q \in Queues |-> Reverse(list[q])]
hand == [c \in Callers |-> Hand(c)]

LEMMA InitRefines == Init => Promised!QueueInit
<1> SUFFICES ASSUME Init PROVE Promised!QueueInit
  OBVIOUS
<1>1. \A q \in Queues : Reverse(list[q]) = <<>>
  <2> TAKE q \in Queues
  <2>1. list[q] = <<>> /\ list[q] \in Seq(Values)
    BY DEF Init
  <2>2. Reverse(list[q]) \in Seq(Values) /\ Len(Reverse(list[q])) = 0
    BY <2>1, ReverseTyped
  <2> QED BY <2>2
<1>2. \A c \in Callers : Hand(c) = None
  BY DEF Init, Hand, Idle
<1> QED BY <1>1, <1>2 DEF Init, Promised!QueueInit

\* The steps that the interface does not see.
LEMMA Unseen ==
    ASSUME list' = list, given' = given, \A c \in Callers : Hand(c)' = Hand(c)
    PROVE  UNCHANGED Promised!queueVars
BY DEF Promised!queueVars, Hand

LEMMA ServerPushRefines ==
    ASSUME IInv, NEW c \in Callers, ServerPush(c)
    PROVE  \E q \in Queues, v \in Values : Promised!Push(q, v)
<1>T. TypeOK
  BY DEF IInv
<1>0. PICK q \in Queues, v \in Encodable \cap pushed :
          call[c] = Command("LPUSH", q, v, FALSE)
  BY CallTypes DEF IInv, OnlyPushed, ServerPush, Idle
<1>1. call' = [call EXCEPT ![c] = Command("LPUSH", q, v, TRUE)]
  BY <1>0, <1>T, PushExecuted
<1>2. call[c].queue = q /\ call[c].value = v
  BY <1>0 DEF Command
<1>3. list' = [list EXCEPT ![q] = <<v>> \o @] /\ given' = given
  BY <1>2 DEF ServerPush, history
<1>4. \A d \in Callers : Hand(d)' = Hand(d)
  BY <1>0, <1>1 DEF IInv, TypeOK, Hand, Command
<1>5. list[q] \in Seq(Encodable)
  BY DEF IInv, TypeOK
<1>6. Reverse(<<v>> \o list[q]) = Append(Reverse(list[q]), v)
  BY <1>5, ReverseLeftAdded
<1>7. content' = [content EXCEPT ![q] = Append(content[q], v)]
  <2>1. \A r \in Queues : list'[r] = IF r = q THEN <<v>> \o list[q] ELSE list[r]
    BY <1>3 DEF IInv, TypeOK
  <2> QED BY <1>6, <2>1 DEF content
<1>8. hand' = hand
  BY <1>4 DEF hand
<1>9. v \in Values
  BY RedisQueueAssumption
<1> QED BY <1>3, <1>7, <1>8, <1>9 DEF Promised!Push, content, hand, Hand

LEMMA ServerPopRefines ==
    ASSUME IInv, NEW c \in Callers, ServerPop(c)
    PROVE  \/ \E q \in Queues : Promised!Remove(c, q)
           \/ UNCHANGED Promised!queueVars
<1>T. TypeOK
  BY DEF IInv
<1>0. PICK q \in Queues : call[c] = Command("RPOP", q, None, FALSE)
  BY CallTypes DEF IInv, OnlyPushed, ServerPop, Idle
<1>1. call[c].queue = q /\ given' = given
  BY <1>0 DEF ServerPop, history, Command
<1>2. CASE list[q] = <<>>
  <2>1. call' = [call EXCEPT ![c] = Command("RPOP", q, None, TRUE)]
    BY <1>0, <1>2, <1>T, PopFoundNone
  <2>2. \A d \in Callers : Hand(d)' = Hand(d)
    BY <1>0, <2>1 DEF IInv, TypeOK, Hand, Command
  <2>3. list' = list
    BY <1>1, <1>2 DEF ServerPop
  <2> QED BY <1>1, <2>2, <2>3, Unseen
<1>3. CASE list[q] # <<>>
  <2>0. PICK v : v = Last(list[q])
    OBVIOUS
  <2>1. call' = [call EXCEPT ![c] = Command("RPOP", q, v, TRUE)]
    BY <1>0, <1>3, <1>T, <2>0, PopExecuted, Zenon
  <2>2. list' = [list EXCEPT ![q] = Front(@)]
    BY <1>1, <1>3 DEF ServerPop
  <2>3. list[q] \in Seq(Encodable)
    BY DEF IInv, TypeOK
  <2>4. /\ Reverse(list[q]) # <<>> /\ Head(Reverse(list[q])) = v
        /\ Tail(Reverse(list[q])) = Reverse(Front(list[q]))
    BY <1>3, <2>0, <2>3, ReverseRightRemoved
  <2>5. content' = [content EXCEPT ![q] = Tail(content[q])]
    <3>1. \A r \in Queues : list'[r] = IF r = q THEN Front(list[q]) ELSE list[r]
      BY <2>2 DEF IInv, TypeOK
    <3> QED BY <2>4, <3>1 DEF content
  <2>6. /\ Hand(c)' = v /\ Hand(c) = None
        /\ \A d \in Callers \ {c} : Hand(d)' = Hand(d)
    BY <1>0, <2>1 DEF IInv, TypeOK, Hand, Command
  <2>7. hand' = [hand EXCEPT ![c] = v] /\ hand[c] = None
    BY <2>6 DEF hand
  <2>8. content[q] # <<>> /\ Head(content[q]) = v
    BY <2>4 DEF content
  <2> QED BY <1>1, <2>5, <2>7, <2>8 DEF Promised!Remove, content, hand, Hand
<1> QED BY <1>2, <1>3

LEMMA LetGoRefines ==
    ASSUME IInv, NEW c \in Callers, NEW n \in Calls, n.op = "RPOP" => n.value = None,
           call' = [call EXCEPT ![c] = n], UNCHANGED <<list, given>>
    PROVE  Promised!Lose(c) \/ UNCHANGED Promised!queueVars
<1>1. /\ Hand(c)' = None
      /\ \A d \in Callers \ {c} : Hand(d)' = Hand(d)
  BY DEF IInv, TypeOK, Hand
<1>2. hand' = [hand EXCEPT ![c] = None] /\ hand[c] = Hand(c)
  BY <1>1 DEF hand
<1>3. content' = content
  BY DEF content
<1>4. CASE Hand(c) = None
  <2>1. \A d \in Callers : Hand(d)' = Hand(d)
    BY <1>1, <1>4
  <2> QED BY <2>1, Unseen
<1>5. CASE Hand(c) # None
  BY <1>2, <1>3, <1>5 DEF Promised!Lose, content, hand, Hand
<1> QED BY <1>4, <1>5

LEMMA PopReturnsRefines ==
    ASSUME IInv, NEW c \in Callers, PopReturns(c)
    PROVE  Promised!Give(c) \/ Promised!Lose(c) \/ UNCHANGED Promised!queueVars
<1>0. PICK q \in Queues, v \in pushed \cup {None} :
          call[c] = Command("RPOP", q, v, TRUE)
  BY CallTypes DEF IInv, OnlyPushed, PopReturns, Idle
<1>1. /\ call[c].value = v
      /\ given' = IF v \in Decodes[c] THEN [given EXCEPT ![v] = @ + 1] ELSE given
      /\ call' = [call EXCEPT ![c] = Idle]
      /\ list' = list
  BY <1>0 DEF PopReturns, Command
<1>2. CASE v \notin Decodes[c]
  <2>1. Idle \in Calls /\ Idle.op # "RPOP"
    BY CommandTypes DEF Idle
  <2> QED BY <1>1, <1>2, <2>1, LetGoRefines
<1>3. CASE v \in Decodes[c]
  <2>1. v # None
    BY <1>3, RedisQueueAssumption
  <2>2. /\ Hand(c) = v /\ Hand(c)' = None
        /\ \A d \in Callers \ {c} : Hand(d)' = Hand(d)
    BY <1>0, <1>1 DEF IInv, TypeOK, Hand, Command, Idle
  <2>3. hand' = [hand EXCEPT ![c] = None] /\ hand[c] = v
    BY <2>2 DEF hand
  <2>4. content' = content
    BY <1>1 DEF content
  <2> QED BY <1>1, <1>3, <2>1, <2>3, <2>4 DEF Promised!Give, content, hand, Hand
<1> QED BY <1>2, <1>3

LEMMA NextRefines == IInv /\ [Next]_vars => [Promised!QueueNext]_Promised!queueVars
<1> SUFFICES ASSUME IInv, [Next]_vars
             PROVE  Promised!QueueNext \/ UNCHANGED Promised!queueVars
  OBVIOUS
<1>T. TypeOK
  BY DEF IInv
<1>I. Idle \in Calls /\ Idle.op # "RPOP"
  BY CommandTypes DEF Idle
<1>1. CASE UNCHANGED vars
  BY <1>1, Unseen DEF vars, Hand
<1>2. ASSUME NEW c \in Callers, NEW q \in Queues, NEW v \in Values, Push(c, q, v)
      PROVE  UNCHANGED Promised!queueVars
  <2>1. \A d \in Callers : Hand(d)' = Hand(d)
    BY <1>2 DEF IInv, TypeOK, Push, Hand, Idle
  <2> QED BY <1>2, <2>1, Unseen DEF Push, history
<1>3. ASSUME NEW c \in Callers, NEW q \in Queues, Pop(c, q)
      PROVE  UNCHANGED Promised!queueVars
  <2>1. \A d \in Callers : Hand(d)' = Hand(d)
    BY <1>3 DEF IInv, TypeOK, Pop, Hand, Idle
  <2> QED BY <1>3, <2>1, Unseen DEF Pop, history
<1>4. ASSUME NEW c \in Callers, PushReturns(c) PROVE UNCHANGED Promised!queueVars
  <2>1. \A d \in Callers : Hand(d)' = Hand(d)
    BY <1>4 DEF IInv, TypeOK, PushReturns, Hand, Idle
  <2> QED BY <1>4, <2>1, Unseen DEF PushReturns
<1>5. ASSUME NEW c \in Callers, CommandFails(c) \/ AnswerLost(c)
      PROVE  Promised!Lose(c) \/ UNCHANGED Promised!queueVars
  <2>1. call' = [call EXCEPT ![c] = Idle] /\ UNCHANGED <<list, given>>
    BY <1>5 DEF CommandFails, AnswerLost, history
  <2> QED BY <1>I, <2>1, LetGoRefines
<1>6. ASSUME NEW c \in Callers, SendAgain(c)
      PROVE  Promised!Lose(c) \/ UNCHANGED Promised!queueVars
  <2>0. call[c] # Idle /\ call[c].done /\ UNCHANGED <<list, given>>
    BY <1>6 DEF SendAgain, LoseAnswer
  <2>1. CASE call[c].op = "RPOP"
    <3>0. PICK q \in Queues, v \in Values \cup {None} : call[c] = Command("RPOP", q, v, TRUE)
      BY <1>T, <2>0, <2>1, CallTypes
    <3>1. call' = [call EXCEPT ![c] = Command("RPOP", q, None, FALSE)]
      BY <1>6, <1>T, <3>0, PopSentAgain
    <3>2. /\ Command("RPOP", q, None, FALSE) \in Calls
          /\ Command("RPOP", q, None, FALSE).value = None
      BY DEF Calls, Command
    <3> QED BY <2>0, <3>1, <3>2, LetGoRefines
  <2>2. CASE call[c].op = "LPUSH"
    <3>0. PICK q \in Queues, v \in Values : call[c] = Command("LPUSH", q, v, TRUE)
      BY <1>T, <2>0, <2>2, CallTypes
    <3>1. call' = [call EXCEPT ![c] = Command("LPUSH", q, v, FALSE)]
      BY <1>6, <1>T, <3>0, PushSentAgain
    <3>2. \A d \in Callers : Hand(d)' = Hand(d)
      BY <3>0, <3>1 DEF IInv, TypeOK, Hand, Command
    <3> QED BY <2>0, <3>2, Unseen
  <2> QED BY <1>T, <2>0, <2>1, <2>2, CallTypes
<1>7. CASE Next
  <2> PICK c \in Callers :
        \/ \E q \in Queues, v \in Values : Push(c, q, v)
        \/ \E q \in Queues : Pop(c, q)
        \/ ServerPush(c) \/ PushReturns(c) \/ ServerPop(c) \/ PopReturns(c)
        \/ CommandFails(c) \/ AnswerLost(c) \/ SendAgain(c)
    BY <1>7 DEF Next
  <2> QED BY <1>2, <1>3, <1>4, <1>5, <1>6, ServerPushRefines, ServerPopRefines,
             PopReturnsRefines DEF Promised!QueueNext
<1> QED BY <1>1, <1>7

\* Whatever is pushed, popped, lost or sent again, the lists and what callers
\* hold behave as the queue of the interface: added to at one end, removed
\* from at the other, and what was removed given out or lost but never put
\* back (queue_redis.go:29-51, queue.go).
THEOREM QueueRefined == Spec => ImplementsQueue
BY InitRefines, NextRefines, Invariance, PTL DEF Spec, ImplementsQueue, Promised!QueueSpec

=============================================================================
