-------------------------- MODULE CacheLockProofs --------------------------
(***************************************************************************)
(* What the lock does ensure over any Cache[T], for any keys, processes    *)
(* and crashes: it excludes as long as nothing happened that it cannot     *)
(* stand, and it leaves no key locked behind.                              *)
(*                                                                         *)
(* And that both backends are a Cache[T].  Redis[T], for all prefixes,     *)
(* keys, types and patterns: each cache is the promised one, whatever      *)
(* those of other services do on the same server.  InMemory[T], for all    *)
(* keys, values, TTLs and runs of the clock: every operation is the        *)
(* promised one on what a Get would find, and the clock only makes entries *)
(* disappear.                                                              *)
(***************************************************************************)
EXTENDS Lock, SequenceTheorems, TLAPS

-----------------------------------------------------------------------------
(* The lock.                                                               *)

\* The cache and the processes agree: a running fn has its key in the cache; a
\* process that saw no key and has not set it yet is the only one acquiring,
\* and still right.
Agree ==
    /\ HeldWhileRunning
    /\ \A p \in Processes : pc[p] = "set" => content[key[p]] = None
    /\ \A p, q \in Processes : Acquiring(p) /\ Acquiring(q) => p = q
    /\ MutualExclusion

IInv == TypeOK /\ (Granted => Agree)

\* No process starts out in a TryFunc.
LEMMA InvInit == Init => IInv /\ NoLeak
<1> SUFFICES ASSUME Init PROVE IInv /\ NoLeak
  OBVIOUS
<1>a. 0 \in 0 .. MaxCrashes
  BY LockAssumption
<1>b. overlapped \in BOOLEAN /\ overrun \subseteq Processes /\ failed \in BOOLEAN
  BY Zenon DEF Init
<1>1. TypeOK
  BY <1>a, <1>b DEF Init, CacheInit, TypeOK
<1>2. Agree /\ NoLeak
  BY DEF Init, CacheInit, Agree, NoLeak, HeldWhileRunning, MutualExclusion,
         Holding, Acquiring
<1> QED BY <1>1, <1>2 DEF IInv

\* What the cache calls of each step do to the types.
LEMMA TypeStep == ASSUME TypeOK, [Next]_vars PROVE TypeOK'
<1> USE LockAssumption DEF TypeOK
<1>1. CASE UNCHANGED vars
  BY <1>1 DEF vars
<1>2. ASSUME NEW p \in Processes, TryFunc(p) PROVE TypeOK'
  BY <1>2 DEF TryFunc, cacheVars
<1>3. ASSUME NEW p \in Processes, isLocked(p) PROVE TypeOK'
  BY <1>3 DEF isLocked, Get, Leave
<1>4. ASSUME NEW p \in Processes, SetLock(p) PROVE TypeOK'
  BY <1>4 DEF SetLock, Set
<1>5. ASSUME NEW p \in Processes, ReleaseLock(p) PROVE TypeOK'
  BY <1>5 DEF ReleaseLock, Delete, Forget, Leave, cacheVars
<1>6. ASSUME NEW p \in Processes, Crash(p) PROVE TypeOK'
  BY <1>6 DEF Crash, Leave, cacheVars
<1>7. ASSUME NEW k \in Keys, ExpireLock(k) PROVE TypeOK'
  BY <1>7 DEF ExpireLock, Expire, Forget
<1> QED BY <1>1, <1>2, <1>3, <1>4, <1>5, <1>6, <1>7 DEF Next, Step

\* A process that leaves TryFunc disturbs nobody who stays, if the content
\* under the keys of those who stay does not change.
LEMMA LeaveKeeps ==
    ASSUME TypeOK, Agree, NEW p \in Processes, Leave(p),
           \A q \in Processes \ {p} :
               Holding(q) \/ pc[q] = "set" => content'[key[q]] = content[key[q]]
    PROVE  Agree'
<1> USE DEF Agree, HeldWhileRunning, MutualExclusion, Holding, Acquiring
<1>1. \A q \in Processes :
         /\ q # p => pc'[q] = pc[q] /\ key'[q] = key[q]
         /\ pc'[p] = "idle"
  BY DEF TypeOK, Leave
<1> QED BY <1>1

\* Under the grants every step keeps the agreement.
LEMMA AgreeStep ==
    ASSUME TypeOK, Granted', Granted => Agree, [Next]_vars
    PROVE  Agree'
<1> USE DEF Agree, HeldWhileRunning, MutualExclusion, Holding, Acquiring
<1> None \notin {Held}
  BY LockAssumption, CacheAssumption
<1>0. Granted
  BY DEF Granted, TypeOK, Next, Step, TryFunc, isLocked, SetLock, ReleaseLock,
         Crash, ExpireLock, vars
<1> Agree
  BY <1>0
<1>1. CASE UNCHANGED vars
  BY <1>1 DEF vars
<1>2. ASSUME NEW p \in Processes, TryFunc(p) PROVE Agree'
  <2>1. \A q \in Processes : ~Acquiring(q)
    BY <1>2 DEF TryFunc, Granted
  <2> QED BY <1>2, <2>1 DEF TryFunc, cacheVars, TypeOK
<1>3. ASSUME NEW p \in Processes, isLocked(p) PROVE Agree'
  <2>1. answer' = content[key[p]] /\ content' = content /\ pc[p] = "get"
    BY <1>3 DEF isLocked, Get, Granted
  <2>2. CASE Leave(p)
    BY <2>1, <2>2, LeaveKeeps
  <2>3. CASE answer' = None /\ pc' = [pc EXCEPT ![p] = "set"] /\ UNCHANGED key
    BY <2>1, <2>3 DEF TypeOK
  <2> QED BY <1>3, <2>2, <2>3 DEF isLocked
<1>4. ASSUME NEW p \in Processes, SetLock(p) PROVE Agree'
  <2>1. /\ content' = [content EXCEPT ![key[p]] = Held]
        /\ pc[p] = "set" /\ key[p] \in Keys /\ content[key[p]] = None
        /\ pc' = [pc EXCEPT ![p] = "hold"] /\ key' = key
    BY <1>4 DEF SetLock, Set, TypeOK, Granted
  <2>2. \A q \in Processes : Holding(q) => key[q] # key[p]
    BY <2>1
  <2>3. \A q \in Processes : q # p => ~Acquiring(q)
    BY <2>1
  <2> QED BY <2>1, <2>2, <2>3 DEF TypeOK
<1>5. ASSUME NEW p \in Processes, ReleaseLock(p) PROVE Agree'
  <2>1. /\ \A k \in Keys \ {key[p]} : content'[k] = content[k]
        /\ Leave(p) /\ Holding(p)
    BY <1>5 DEF ReleaseLock, Delete, Forget, cacheVars
  <2>2. \A q \in Processes \ {p} :
          Holding(q) \/ pc[q] = "set" => key[q] \in Keys \ {key[p]}
    BY <2>1 DEF TypeOK
  <2> QED BY <2>1, <2>2, LeaveKeeps
<1>6. ASSUME NEW p \in Processes, Crash(p) PROVE Agree'
  BY <1>6, LeaveKeeps DEF Crash, cacheVars
<1>7. ASSUME NEW k \in Keys, ExpireLock(k) PROVE Agree'
  <2>1. /\ content' = [j \in Keys |-> IF j \in {k} THEN None ELSE content[j]]
        /\ \A p \in Processes : Holding(p) => key[p] # k
        /\ UNCHANGED <<pc, key>>
    BY <1>7 DEF ExpireLock, Expire, Forget, Granted
  <2> QED BY <2>1 DEF TypeOK
<1> QED BY <1>1, <1>2, <1>3, <1>4, <1>5, <1>6, <1>7 DEF Next, Step

\* Whoever sets a key deletes it: NoLeak needs no help but the types.
LEMMA NoLeakStep == ASSUME TypeOK, NoLeak, [Next]_vars PROVE NoLeak'
<1> USE DEF NoLeak, Holding
<1>1. CASE UNCHANGED vars
  BY <1>1 DEF vars
<1>2. ASSUME NEW p \in Processes, TryFunc(p) PROVE NoLeak'
  BY <1>2 DEF TryFunc, cacheVars, TypeOK
<1>3. ASSUME NEW p \in Processes, isLocked(p) PROVE NoLeak'
  <2>1. pc[p] = "get" /\ content' = content /\ crashes' = crashes
    BY <1>3 DEF isLocked, Get
  <2>2. \A q \in Processes : Holding(q) => Holding(q)' /\ key'[q] = key[q]
    BY <1>3, <2>1 DEF isLocked, Leave, TypeOK
  <2>3. ~failed' => ~failed
    BY <1>3 DEF isLocked
  <2> QED BY <2>1, <2>2, <2>3
<1>4. ASSUME NEW p \in Processes, SetLock(p) PROVE NoLeak'
  <2>1. /\ \A k \in Keys \ {key[p]} : content'[k] = content[k]
        /\ pc' = [pc EXCEPT ![p] = "hold"] /\ key' = key /\ crashes' = crashes
        /\ ~failed' => ~failed
    BY <1>4 DEF SetLock, Set, TypeOK
  <2>2. Holding(p)' /\ \A q \in Processes : Holding(q) => Holding(q)'
    BY <2>1 DEF TypeOK
  <2> QED BY <2>1, <2>2
<1>5. ASSUME NEW p \in Processes, ReleaseLock(p) PROVE NoLeak'
  <2>1. /\ \A k \in Keys \ {key[p]} : content'[k] = content[k]
        /\ ~failed' => ~failed /\ content'[key[p]] = None
        /\ Leave(p) /\ crashes' = crashes
    BY <1>5 DEF ReleaseLock, Delete, Forget, cacheVars
  <2>2. \A q \in Processes \ {p} :
          Holding(q) => Holding(q)' /\ key'[q] = key[q]
    BY <2>1 DEF Leave, TypeOK
  <2> QED BY <2>1, <2>2
<1>6. ASSUME NEW p \in Processes, Crash(p) PROVE NoLeak'
  BY <1>6 DEF Crash, TypeOK
<1>7. ASSUME NEW k \in Keys, ExpireLock(k) PROVE NoLeak'
  BY <1>7 DEF ExpireLock, Expire, Forget, TypeOK
<1> QED BY <1>1, <1>2, <1>3, <1>4, <1>5, <1>6, <1>7 DEF Next, Step

LEMMA Invariance == Spec => []IInv
<1>1. IInv /\ [Next]_vars => IInv'
  BY TypeStep, AgreeStep DEF IInv
<1> QED BY <1>1, InvInit, PTL DEF Spec

\* locker.go:17 as far as the code ensures it: as long as acquisitions did not
\* overlap, no TTL passed under an fn and no command failed, two processes
\* never run their fn under one key.
THEOREM LockExcludes == Spec => []ExcludesIfGranted
<1>1. IInv => ExcludesIfGranted
  BY DEF IInv, Agree, ExcludesIfGranted
<1> QED BY <1>1, Invariance, PTL

\* Under the same conditions a process that runs its fn has its key in the
\* cache all the while: nobody else's release or expiry takes it away.
THEOREM LockStaysHeld == Spec => []HeldIfGranted
<1>1. IInv => HeldIfGranted
  BY DEF IInv, Agree, HeldIfGranted
<1> QED BY <1>1, Invariance, PTL

\* The deferred release: without crashes and failed commands a locked key has a
\* process in fn that will release it, whatever overlapped and expired.
THEOREM LockReleases == Spec => []NoLeak
<1>1. TypeOK /\ NoLeak /\ [Next]_vars => (TypeOK /\ NoLeak)'
  BY TypeStep, NoLeakStep
<1> QED BY <1>1, InvInit, PTL DEF Spec, IInv

\* Over a cache that does not fail, as the in-memory one below, no call of the
\* lock goes wrong unnoticed.
LEMMA NothingFails ==
    ASSUME MayFail = FALSE
    PROVE  Spec => []~failed
<1>1. Init => ~failed
  BY DEF Init
<1>2. TypeOK /\ ~failed /\ [Next]_vars => ~failed'
  <2> SUFFICES ASSUME TypeOK, ~failed, [Next]_vars PROVE ~failed'
    OBVIOUS
  <2>1. CASE UNCHANGED vars
    BY <2>1 DEF vars
  <2>2. ASSUME NEW p \in Processes, TryFunc(p) \/ Crash(p) PROVE ~failed'
    BY <2>2 DEF TryFunc, Crash
  <2>3. ASSUME NEW p \in Processes, isLocked(p) PROVE ~failed'
    BY <2>3 DEF isLocked, Get
  <2>4. ASSUME NEW p \in Processes, SetLock(p) PROVE ~failed'
    <3>1. content \in [Keys -> {Held, None}] /\ key[p] \in Keys
      BY <2>4 DEF SetLock, TypeOK
    <3> QED BY <2>4, <3>1 DEF SetLock, Set
  <2>5. ASSUME NEW p \in Processes, ReleaseLock(p) PROVE ~failed'
    <3>1. key[p] \in Keys
      BY <2>5 DEF ReleaseLock, Holding, TypeOK
    <3> QED BY <2>5, <3>1 DEF ReleaseLock, Delete, Forget
  <2>6. ASSUME NEW k \in Keys, ExpireLock(k) PROVE ~failed'
    BY <2>6 DEF ExpireLock
  <2> QED BY <2>1, <2>2, <2>3, <2>4, <2>5, <2>6 DEF Next, Step
<1>3. IInv => TypeOK
  BY DEF IInv
<1> QED BY <1>1, <1>2, <1>3, Invariance, PTL DEF Spec

\* The lock over the in-memory cache: among the goroutines of one process it
\* excludes, and a running fn has its key, as long as acquisitions did not
\* overlap and no TTL passed under an fn.
THEOREM LockInMemory ==
    ASSUME MayFail = FALSE
    PROVE  Spec => [](~overlapped /\ overrun = {} => MutualExclusion /\ HeldWhileRunning)
<1>1. IInv /\ ~failed => (~overlapped /\ overrun = {} => MutualExclusion /\ HeldWhileRunning)
  BY DEF IInv, Granted, Agree
<1> QED BY <1>1, NothingFails, Invariance, PTL

-----------------------------------------------------------------------------
(* Redis[T].                                                               *)

CONSTANTS Prefixes, ValuesOf, PatternsOf

VARIABLES store, listed, answers, own

Redis == INSTANCE RedisCache WITH answer <- answers

\* Keys and prefixes are sequences of segments.
Segmented(Segments) == Prefixes \subseteq Seq(Segments) /\ Keys \subseteq Seq(Segments)

LEMMA FullKeysAre ==
    ASSUME NEW p \in Prefixes, NEW k \in Keys
    PROVE  Redis!getFullKey(p, k) \in Redis!KeysOf(p) /\ Redis!getFullKey(p, k) \in Redis!FullKeys
BY DEF Redis!FullKeys, Redis!KeysOf

\* A prefix keeps keys apart.
LEMMA KeysApart ==
    ASSUME NEW Segments, Segmented(Segments), NEW p \in Prefixes,
           NEW k \in Keys, NEW l \in Keys,
           Redis!getFullKey(p, k) = Redis!getFullKey(p, l)
    PROVE  k = l
<1>1. p \in Seq(Segments) /\ k \in Seq(Segments) /\ l \in Seq(Segments)
  BY DEF Segmented
<1>2. p \o k = p \o l
  BY DEF Redis!getFullKey
<1> QED BY <1>1, <1>2, ConcatSimplifications

LEMMA RedisInit == Redis!Init => Redis!TypeOK
BY DEF Redis!Init, Redis!TypeOK, Redis!Stored

LEMMA RedisStep ==
    ASSUME Redis!RedisCacheAssumption, Redis!TypeOK, [Redis!Next]_(Redis!vars)
    PROVE  Redis!TypeOK'
<1> USE DEF Redis!TypeOK
<1>1. CASE UNCHANGED Redis!vars
  BY <1>1 DEF Redis!vars
<1>2. \A S : Redis!Without(S) \in [Redis!FullKeys -> Redis!Stored]
  BY DEF Redis!Without, Redis!Stored
<1>3. \A S : \A p \in Prefixes : Redis!OwnWithout(p, S) \in [Keys -> Redis!Stored]
  BY DEF Redis!OwnWithout, Redis!Stored
<1>4. \A p \in Prefixes : ValuesOf[p] \cup {None} \subseteq Redis!Stored
  BY DEF Redis!Stored
<1>5. ASSUME NEW p \in Prefixes, NEW k \in Keys, Redis!Get(p, k) PROVE Redis!TypeOK'
  <2>1. PICK r \in {Redis!Decoded(p, k), None} : answers' = [answers EXCEPT ![p] = r]
    BY <1>5 DEF Redis!Get
  <2>2. r \in ValuesOf[p] \cup {None}
    BY DEF Redis!Decoded
  <2> QED BY <1>4, <1>5, <2>1, <2>2 DEF Redis!Get
<1>6. ASSUME NEW p \in Prefixes, NEW k \in Keys, NEW v \in ValuesOf[p], Redis!Set(p, k, v)
      PROVE  Redis!TypeOK'
  <2>1. v \in Redis!Stored
    BY <1>4
  <2>2. store' \in [Redis!FullKeys -> Redis!Stored]
    BY <1>6, <2>1 DEF Redis!Set
  <2>3. [own[p] EXCEPT ![k] = v] \in [Keys -> Redis!Stored]
    BY <2>1
  <2>4. own' \in [Prefixes -> [Keys -> Redis!Stored]]
    BY <1>6, <2>3 DEF Redis!Set
  <2> QED BY <1>6, <2>2, <2>4 DEF Redis!Set
<1>7. ASSUME NEW p \in Prefixes, NEW S, Redis!Del(p, S)
      PROVE  store' \in [Redis!FullKeys -> Redis!Stored]
             /\ own' \in [Prefixes -> [Keys -> Redis!Stored]] /\ answers' = answers
  BY <1>2, <1>3, <1>7 DEF Redis!Del
<1>8. ASSUME NEW p \in Prefixes, NEW k \in Keys, Redis!Delete(p, k) PROVE Redis!TypeOK'
  BY <1>7, <1>8 DEF Redis!Delete
<1>9. ASSUME NEW p \in Prefixes, Redis!ListKeysMatching(p) PROVE Redis!TypeOK'
  BY <1>9, Redis!RedisCacheAssumption DEF Redis!ListKeysMatching
<1>10. ASSUME NEW p \in Prefixes, Redis!DeleteListed(p) PROVE Redis!TypeOK'
  BY <1>7, <1>10 DEF Redis!DeleteListed
<1>11. ASSUME NEW f \in Redis!FullKeys, Redis!Expire(f) PROVE Redis!TypeOK'
  BY <1>2, <1>3, <1>11 DEF Redis!Expire
<1> QED BY <1>1, <1>5, <1>6, <1>8, <1>9, <1>10, <1>11 DEF Redis!Next, Redis!Operation

\* cache_redis.go, with several services on one server: a Get never answers a
\* value of another service's type.
THEOREM RedisTypes ==
    ASSUME Redis!RedisCacheAssumption
    PROVE  Redis!Spec => []Redis!TypeOK
<1>1. Redis!TypeOK /\ [Redis!Next]_(Redis!vars) => Redis!TypeOK'
  BY RedisStep
<1> QED BY <1>1, RedisInit, PTL DEF Redis!Spec

\* Isolated is inductive with what the lists of keys to delete may hold.
ListedOwn == \A p \in Prefixes : listed[p] \subseteq UNION PatternsOf[p]

IsolatedInv == Redis!TypeOK /\ ListedOwn /\ Redis!Isolated

\* No other cache has or matches a full key of a cache that is apart.
LEMMA ApartKeys ==
    ASSUME NEW p \in Prefixes, Redis!Apart(p), NEW q \in Prefixes, p # q
    PROVE  /\ Redis!KeysOf(p) \cap Redis!KeysOf(q) = {}
           /\ Redis!KeysOf(p) \cap UNION PatternsOf[q] = {}
BY DEF Redis!Apart, Redis!KeysOf, Redis!getFullKey

\* DEL of S by q, in the view of a cache that has no key in S or is q.
LEMMA DelKeepsIsolation ==
    ASSUME IsolatedInv, NEW q \in Prefixes, NEW S, Redis!Del(q, S),
           \A p \in Prefixes : Redis!Apart(p) /\ p # q => Redis!KeysOf(p) \cap S = {}
    PROVE  Redis!Isolated'
<1> USE DEF IsolatedInv, Redis!TypeOK
<1>1. SUFFICES ASSUME NEW p \in Prefixes, Redis!Apart(p), NEW k \in Keys
               PROVE  store'[Redis!getFullKey(p, k)] = own'[p][k]
  BY DEF Redis!Isolated
<1> DEFINE f == Redis!getFullKey(p, k)
<1>2. f \in Redis!KeysOf(p) /\ f \in Redis!FullKeys
  BY FullKeysAre
<1>3. store[f] = own[p][k]
  BY <1>1 DEF Redis!Isolated
<1>4. CASE UNCHANGED <<store, own>>
  BY <1>3, <1>4
<1>5. CASE store' = Redis!Without(S) /\ own' = [own EXCEPT ![q] = Redis!OwnWithout(q, S)]
  <2>1. store'[f] = IF f \in S THEN None ELSE store[f]
    BY <1>2, <1>5 DEF Redis!Without
  <2>2. CASE p = q
    <3>1. own'[p] = Redis!OwnWithout(p, S)
      BY <1>5, <2>2
    <3>2. own'[p][k] = IF f \in S THEN None ELSE own[p][k]
      BY <3>1 DEF Redis!OwnWithout
    <3> QED BY <1>3, <2>1, <3>2
  <2>3. CASE p # q
    <3>1. f \notin S
      BY <1>1, <1>2, <2>3
    <3>2. own'[p] = own[p]
      BY <1>5, <2>3
    <3> QED BY <1>3, <2>1, <3>1, <3>2
  <2> QED BY <2>2, <2>3
<1> QED BY <1>4, <1>5 DEF Redis!Del

LEMMA IsolatedStep ==
    ASSUME NEW Segments, Segmented(Segments), Redis!RedisCacheAssumption,
           IsolatedInv, [Redis!Next]_(Redis!vars)
    PROVE  IsolatedInv'
<1> USE DEF IsolatedInv
<1>1. Redis!TypeOK'
  BY RedisStep
<1>2. \A p, q \in Prefixes : Redis!Apart(p) /\ p # q =>
         /\ Redis!KeysOf(p) \cap Redis!KeysOf(q) = {}
         /\ Redis!KeysOf(p) \cap UNION PatternsOf[q] = {}
  BY ApartKeys
<1>3. CASE UNCHANGED Redis!vars
  BY <1>1, <1>3 DEF Redis!vars, ListedOwn, Redis!Isolated
<1>4. ASSUME UNCHANGED <<store, own, listed>> PROVE ListedOwn' /\ Redis!Isolated'
  BY <1>4 DEF ListedOwn, Redis!Isolated
<1>5. ASSUME NEW q \in Prefixes, NEW l \in Keys, NEW v \in ValuesOf[q], Redis!Set(q, l, v)
      PROVE  ListedOwn' /\ Redis!Isolated'
  <2>1. CASE UNCHANGED <<store, own>>
    BY <1>4, <1>5, <2>1 DEF Redis!Set
  <2>2. CASE store' = [store EXCEPT ![Redis!getFullKey(q, l)] = v]
             /\ own' = [own EXCEPT ![q][l] = v]
    <3>1. ASSUME NEW p \in Prefixes, Redis!Apart(p), NEW k \in Keys
          PROVE  store'[Redis!getFullKey(p, k)] = own'[p][k]
      <4>1. CASE p = q /\ k = l
        BY <2>2, <4>1, FullKeysAre DEF Redis!TypeOK
      <4>2. CASE ~(p = q /\ k = l)
        <5>1. Redis!getFullKey(p, k) # Redis!getFullKey(q, l)
          BY <1>2, <3>1, <4>2, FullKeysAre, KeysApart
        <5>2. store'[Redis!getFullKey(p, k)] = store[Redis!getFullKey(p, k)]
          BY <2>2, <5>1, FullKeysAre DEF Redis!TypeOK
        <5>3. own'[p][k] = own[p][k]
          BY <2>2, <4>2 DEF Redis!TypeOK
        <5> QED BY <3>1, <5>2, <5>3 DEF Redis!Isolated
      <4> QED BY <4>1, <4>2
    <3> QED BY <1>5, <3>1 DEF Redis!Isolated, Redis!Set, ListedOwn
  <2> QED BY <1>5, <2>1, <2>2 DEF Redis!Set
<1>6. ASSUME NEW q \in Prefixes, NEW l \in Keys, Redis!Delete(q, l)
      PROVE  ListedOwn' /\ Redis!Isolated'
  <2>1. \A p \in Prefixes : Redis!Apart(p) /\ p # q => Redis!KeysOf(p) \cap {Redis!getFullKey(q, l)} = {}
    BY <1>2, FullKeysAre
  <2>2. Redis!Isolated'
    BY <1>6, <2>1, DelKeepsIsolation DEF Redis!Delete
  <2> QED BY <1>6, <2>2 DEF Redis!Delete, ListedOwn
<1>7. ASSUME NEW q \in Prefixes, Redis!ListKeysMatching(q)
      PROVE  ListedOwn' /\ Redis!Isolated'
  <2>1. PICK S \in PatternsOf[q] :
           listed' = [listed EXCEPT ![q] = {f \in S : store[f] # None}]
    BY <1>7 DEF Redis!ListKeysMatching
  <2>2. ListedOwn'
    BY <2>1 DEF ListedOwn, Redis!TypeOK
  <2> QED BY <1>7, <2>2 DEF Redis!ListKeysMatching, Redis!Isolated
<1>8. ASSUME NEW q \in Prefixes, Redis!DeleteListed(q)
      PROVE  ListedOwn' /\ Redis!Isolated'
  <2>1. \A p \in Prefixes : Redis!Apart(p) /\ p # q => Redis!KeysOf(p) \cap listed[q] = {}
    BY <1>2 DEF ListedOwn
  <2>2. Redis!Isolated'
    BY <1>8, <2>1, DelKeepsIsolation DEF Redis!DeleteListed
  <2>3. ListedOwn'
    BY <1>8 DEF Redis!DeleteListed, ListedOwn, Redis!TypeOK
  <2> QED BY <2>2, <2>3
<1>9. ASSUME NEW f \in Redis!FullKeys, Redis!Expire(f)
      PROVE  ListedOwn' /\ Redis!Isolated'
  <2>1. ASSUME NEW p \in Prefixes, Redis!Apart(p), NEW k \in Keys
        PROVE  store'[Redis!getFullKey(p, k)] = own'[p][k]
    BY <1>9, <2>1, FullKeysAre DEF Redis!Expire, Redis!Without, Redis!OwnWithout, Redis!Isolated
  <2> QED BY <1>9, <2>1 DEF Redis!Expire, Redis!Isolated, ListedOwn
<1>10. ASSUME NEW q \in Prefixes, NEW l \in Keys, Redis!Get(q, l)
       PROVE  ListedOwn' /\ Redis!Isolated'
  BY <1>4, <1>10 DEF Redis!Get
<1> QED BY <1>1, <1>3, <1>5, <1>6, <1>7, <1>8, <1>9, <1>10 DEF Redis!Next, Redis!Operation

\* cache.go:12 and :20, the namespace isolation, for any services on one server:
\* a cache whose full keys no other shares or matches finds under its keys what
\* its own operations left there, whatever lists of keys are old when they are
\* deleted, expires or fails.
THEOREM RedisIsIsolated ==
    ASSUME NEW Segments, Segmented(Segments), Redis!RedisCacheAssumption
    PROVE  Redis!Spec => []Redis!Isolated
<1>1. Redis!Init => IsolatedInv
  <2> SUFFICES ASSUME Redis!Init PROVE IsolatedInv
    OBVIOUS
  <2>1. Redis!TypeOK
    BY RedisInit
  <2>2. Redis!Isolated
    BY FullKeysAre DEF Redis!Init, Redis!Isolated
  <2> QED BY <2>1, <2>2 DEF IsolatedInv, ListedOwn, Redis!Init
<1>2. IsolatedInv /\ [Redis!Next]_(Redis!vars) => IsolatedInv'
  BY IsolatedStep
<1>3. IsolatedInv => Redis!Isolated
  BY DEF IsolatedInv
<1> QED BY <1>1, <1>2, <1>3, PTL DEF Redis!Spec

\* Two caches that share a full key store values of different types.
Distinguishable == \A p, q \in Prefixes :
    p # q /\ Redis!KeysOf(p) \cap Redis!KeysOf(q) # {} => ValuesOf[p] \cap ValuesOf[q] = {}

\* A value of the type of p under a key of p is what p itself left there.
OwnFound == \A p \in Prefixes, k \in Keys :
    store[Redis!getFullKey(p, k)] \in ValuesOf[p] =>
        store[Redis!getFullKey(p, k)] = own[p][k]

FoundInv == Redis!TypeOK /\ OwnFound

\* A removal by q, or by the server, leaves p what it had or nothing.
LEMMA RemovalKeepsFound ==
    ASSUME FoundInv, Redis!RedisCacheAssumption, NEW S,
           store' = Redis!Without(S) \/ store' = store,
           \A p \in Prefixes, k \in Keys : own'[p][k] = own[p][k]
              \/ (store' = Redis!Without(S) /\ Redis!getFullKey(p, k) \in S)
    PROVE  OwnFound'
<1> SUFFICES ASSUME NEW p \in Prefixes, NEW k \in Keys,
                    store'[Redis!getFullKey(p, k)] \in ValuesOf[p]
             PROVE  store'[Redis!getFullKey(p, k)] = own'[p][k]
  BY DEF OwnFound
<1> DEFINE f == Redis!getFullKey(p, k)
<1>1. f \in Redis!FullKeys
  BY FullKeysAre
<1>2. store' = Redis!Without(S) => store'[f] = IF f \in S THEN None ELSE store[f]
  BY <1>1 DEF Redis!Without
<1>3. None \notin ValuesOf[p]
  BY DEF Redis!RedisCacheAssumption
<1>4. store'[f] = store[f] /\ own'[p][k] = own[p][k]
  BY <1>2, <1>3
<1> QED BY <1>4 DEF FoundInv, OwnFound

LEMMA DelKeepsFound ==
    ASSUME FoundInv, Redis!RedisCacheAssumption, NEW q \in Prefixes, NEW S, Redis!Del(q, S)
    PROVE  OwnFound'
<1>1. store' = Redis!Without(S) \/ store' = store
  BY DEF Redis!Del
<1>2. ASSUME NEW p \in Prefixes, NEW k \in Keys
      PROVE  own'[p][k] = own[p][k]
             \/ (store' = Redis!Without(S) /\ Redis!getFullKey(p, k) \in S)
  <2>1. CASE UNCHANGED <<store, own>>
    BY <2>1
  <2>2. CASE store' = Redis!Without(S) /\ own' = [own EXCEPT ![q] = Redis!OwnWithout(q, S)]
    <3>1. p # q => own'[p] = own[p]
      BY <2>2
    <3>2. p = q => own'[p] = Redis!OwnWithout(p, S)
      BY <2>2 DEF FoundInv, Redis!TypeOK
    <3> QED BY <2>2, <3>1, <3>2 DEF Redis!OwnWithout
  <2> QED BY <2>1, <2>2 DEF Redis!Del
<1> QED BY <1>1, <1>2, RemovalKeepsFound

LEMMA FoundStep ==
    ASSUME NEW Segments, Segmented(Segments), Redis!RedisCacheAssumption,
           Distinguishable, FoundInv, [Redis!Next]_(Redis!vars)
    PROVE  FoundInv'
<1>1. Redis!TypeOK'
  BY RedisStep DEF FoundInv
<1>2. ASSUME UNCHANGED <<store, own>> PROVE OwnFound'
  BY <1>2 DEF FoundInv, OwnFound
<1>3. CASE UNCHANGED Redis!vars
  BY <1>1, <1>2, <1>3 DEF Redis!vars, FoundInv
<1>4. ASSUME NEW q \in Prefixes, NEW l \in Keys, NEW v \in ValuesOf[q], Redis!Set(q, l, v)
      PROVE  OwnFound'
  <2>1. CASE UNCHANGED <<store, own>>
    BY <1>2, <2>1
  <2>2. CASE store' = [store EXCEPT ![Redis!getFullKey(q, l)] = v]
             /\ own' = [own EXCEPT ![q][l] = v]
    <3>1. ASSUME NEW p \in Prefixes, NEW k \in Keys,
                 store'[Redis!getFullKey(p, k)] \in ValuesOf[p]
          PROVE  store'[Redis!getFullKey(p, k)] = own'[p][k]
      <4>1. CASE p = q /\ k = l
        BY <2>2, <4>1, FullKeysAre DEF FoundInv, Redis!TypeOK
      <4>2. CASE ~(p = q /\ k = l)
        <5>1. Redis!getFullKey(p, k) # Redis!getFullKey(q, l)
          <6>1. CASE p = q
            BY <4>2, <6>1, KeysApart
          <6>2. CASE p # q
            <7> SUFFICES ASSUME Redis!getFullKey(p, k) = Redis!getFullKey(q, l)
                         PROVE  FALSE
              OBVIOUS
            <7>1. ValuesOf[p] \cap ValuesOf[q] = {}
              BY <6>2, FullKeysAre DEF Distinguishable
            <7>2. store'[Redis!getFullKey(p, k)] = v
              BY <2>2, FullKeysAre DEF FoundInv, Redis!TypeOK
            <7> QED BY <3>1, <7>1, <7>2
          <6> QED BY <6>1, <6>2
        <5>2. store'[Redis!getFullKey(p, k)] = store[Redis!getFullKey(p, k)]
          BY <2>2, <5>1, FullKeysAre DEF FoundInv, Redis!TypeOK
        <5>3. own'[p][k] = own[p][k]
          BY <2>2, <4>2 DEF FoundInv, Redis!TypeOK
        <5> QED BY <3>1, <5>2, <5>3 DEF FoundInv, OwnFound
      <4> QED BY <4>1, <4>2
    <3> QED BY <3>1 DEF OwnFound
  <2> QED BY <1>4, <2>1, <2>2 DEF Redis!Set
<1>5. ASSUME NEW q \in Prefixes,
             (\E k \in Keys : Redis!Delete(q, k)) \/ Redis!DeleteListed(q)
      PROVE  OwnFound'
  <2>1. \E S : Redis!Del(q, S)
    BY <1>5 DEF Redis!Delete, Redis!DeleteListed
  <2> QED BY <2>1, DelKeepsFound
<1>6. ASSUME NEW f \in Redis!FullKeys, Redis!Expire(f) PROVE OwnFound'
  <2>1. store' = Redis!Without({f})
    BY <1>6 DEF Redis!Expire
  <2>2. ASSUME NEW p \in Prefixes, NEW k \in Keys
        PROVE  own'[p][k] = own[p][k] \/ Redis!getFullKey(p, k) \in {f}
    BY <1>6 DEF Redis!Expire, Redis!OwnWithout
  <2> QED BY <2>1, <2>2, RemovalKeepsFound
<1>7. ASSUME NEW q \in Prefixes,
             (\E k \in Keys : Redis!Get(q, k)) \/ Redis!ListKeysMatching(q)
      PROVE  OwnFound'
  BY <1>2, <1>7 DEF Redis!Get, Redis!ListKeysMatching
<1> QED BY <1>1, <1>3, <1>4, <1>5, <1>6, <1>7 DEF FoundInv, Redis!Next, Redis!Operation

\* To each cache, what its own DEL or an expiry took is gone.
LEMMA GoneForOne ==
    ASSUME Redis!TypeOK, NEW S, NEW p \in Prefixes, answers'[p] = answers[p],
           own'[p] = Redis!OwnWithout(p, S)
    PROVE  Redis!Promised(p)!CacheNext
<1> DEFINE T == {k \in Keys : Redis!getFullKey(p, k) \in S}
<1>1. own'[p] = [k \in Keys |-> IF k \in T THEN None ELSE own[p][k]]
  BY DEF Redis!OwnWithout
<1>2. T \in SUBSET Keys
  OBVIOUS
<1> HIDE DEF T
<1>3. Redis!Promised(p)!Forget(T)
  BY <1>1 DEF Redis!Promised!Forget
<1> QED BY <1>2, <1>3 DEF Redis!Promised!CacheNext, Redis!Promised!Expire

\* Each operation of a cache q is, to a cache p on the same server, an
\* operation of its own, the expiry of a key, or nothing.
LEMMA RedisStepPromised ==
    ASSUME FoundInv, [Redis!Next]_(Redis!vars), NEW p \in Prefixes
    PROVE  [Redis!Promised(p)!CacheNext]_(Redis!Promised(p)!cacheVars)
<1> USE DEF Redis!Promised!cacheVars, FoundInv
<1>1. CASE UNCHANGED Redis!vars
  BY <1>1 DEF Redis!vars
<1>2. ASSUME NEW q \in Prefixes, NEW k \in Keys, Redis!Get(q, k)
      PROVE  [Redis!Promised(p)!CacheNext]_(Redis!Promised(p)!cacheVars)
  <2>1. CASE q = p
    <3>1. answers'[p] = Redis!Decoded(p, k) \/ answers'[p] = None
      BY <1>2, <2>1 DEF Redis!Get, Redis!TypeOK
    <3>2. Redis!Decoded(p, k) = own[p][k] \/ Redis!Decoded(p, k) = None
      BY DEF Redis!Decoded, OwnFound
    <3>3. Redis!Promised(p)!Get(k)
      BY <1>2, <3>1, <3>2 DEF Redis!Promised!Get, Redis!Get
    <3> QED BY <3>3 DEF Redis!Promised!CacheNext
  <2>2. CASE q # p
    BY <1>2, <2>2 DEF Redis!Get, Redis!TypeOK
  <2> QED BY <2>1, <2>2
<1>3. ASSUME NEW q \in Prefixes, NEW k \in Keys, NEW v \in ValuesOf[q], Redis!Set(q, k, v)
      PROVE  [Redis!Promised(p)!CacheNext]_(Redis!Promised(p)!cacheVars)
  <2>1. answers' = answers /\ (own' = own \/ own' = [own EXCEPT ![q][k] = v])
    BY <1>3 DEF Redis!Set
  <2>2. CASE q = p /\ own' = [own EXCEPT ![q][k] = v]
    <3>1. own'[p] = [own[p] EXCEPT ![k] = v]
      BY <2>2 DEF Redis!TypeOK
    <3>2. Redis!Promised(p)!Set(k, v)
      BY <2>1, <3>1 DEF Redis!Promised!Set
    <3> QED BY <2>2, <3>2 DEF Redis!Promised!CacheNext
  <2>3. CASE q # p \/ own' = own
    <3>1. own'[p] = own[p]
      BY <2>1, <2>3 DEF Redis!TypeOK
    <3> QED BY <2>1, <3>1
  <2> QED BY <2>1, <2>2, <2>3
<1>4. ASSUME NEW q \in Prefixes, NEW S, Redis!Del(q, S)
      PROVE  [Redis!Promised(p)!CacheNext]_(Redis!Promised(p)!cacheVars)
  <2>1. answers' = answers
        /\ (own' = own \/ own' = [own EXCEPT ![q] = Redis!OwnWithout(q, S)])
    BY <1>4 DEF Redis!Del
  <2>2. CASE q = p /\ own' = [own EXCEPT ![q] = Redis!OwnWithout(q, S)]
    <3>1. own'[p] = Redis!OwnWithout(p, S)
      BY <2>2 DEF Redis!TypeOK
    <3> QED BY <2>1, <3>1, GoneForOne
  <2>3. CASE q # p \/ own' = own
    <3>1. own'[p] = own[p]
      BY <2>1, <2>3 DEF Redis!TypeOK
    <3> QED BY <2>1, <3>1
  <2> QED BY <2>1, <2>2, <2>3
<1>5. ASSUME NEW q \in Prefixes,
             (\E k \in Keys : Redis!Delete(q, k)) \/ Redis!DeleteListed(q)
      PROVE  [Redis!Promised(p)!CacheNext]_(Redis!Promised(p)!cacheVars)
  <2>1. \E S : Redis!Del(q, S)
    BY <1>5 DEF Redis!Delete, Redis!DeleteListed
  <2> QED BY <1>4, <2>1
<1>6. ASSUME NEW q \in Prefixes, Redis!ListKeysMatching(q)
      PROVE  [Redis!Promised(p)!CacheNext]_(Redis!Promised(p)!cacheVars)
  BY <1>6 DEF Redis!ListKeysMatching
<1>7. ASSUME NEW f \in Redis!FullKeys, Redis!Expire(f)
      PROVE  [Redis!Promised(p)!CacheNext]_(Redis!Promised(p)!cacheVars)
  <2>1. own'[p] = Redis!OwnWithout(p, {f}) /\ answers'[p] = answers[p]
    BY <1>7 DEF Redis!Expire
  <2> QED BY <2>1, GoneForOne
<1> QED BY <1>1, <1>2, <1>3, <1>5, <1>6, <1>7 DEF Redis!Next, Redis!Operation

\* cache.go:28 to :68 for the Redis backend: where caches that share a full key
\* store values of different types, each one is the cache of the interface to
\* its own callers, with prefixes that continue each other, patterns without a
\* prefix, lists of keys that are old when they are deleted, expiry and failing
\* commands.
THEOREM RedisImplementsCache ==
    ASSUME Redis!RedisCacheAssumption, NEW Segments, Segmented(Segments),
           Distinguishable
    PROVE  Redis!Spec => Redis!ImplementsCache
<1>1. Redis!Init => \A p \in Prefixes : Redis!Promised(p)!CacheInit
  BY DEF Redis!Init, Redis!Promised!CacheInit
<1>2. Redis!Init => FoundInv
  <2> SUFFICES ASSUME Redis!Init PROVE FoundInv
    OBVIOUS
  <2>1. OwnFound
    BY FullKeysAre DEF OwnFound, Redis!Init
  <2> QED BY <2>1, RedisInit DEF FoundInv
<1>3. FoundInv /\ [Redis!Next]_(Redis!vars) => FoundInv'
  BY FoundStep
<1>4. FoundInv /\ [Redis!Next]_(Redis!vars) =>
         \A p \in Prefixes :
            [Redis!Promised(p)!CacheNext]_(Redis!Promised(p)!cacheVars)
  BY RedisStepPromised
<1> QED BY <1>1, <1>2, <1>3, <1>4, PTL DEF Redis!Spec, Redis!ImplementsCache

-----------------------------------------------------------------------------
(* InMemory[T].                                                            *)

CONSTANTS ItemValues, TTL, MaxTime

VARIABLES data, now, found

InMemory == INSTANCE InMemoryCache WITH Values <- ItemValues, answer <- found

\* Types hold of every state.
LEMMA InMemoryTypes ==
    ASSUME InMemory!InMemoryAssumption
    PROVE  InMemory!Spec => []InMemory!TypeOK
<1>1. InMemory!Init => InMemory!TypeOK
  BY InMemory!InMemoryAssumption DEF InMemory!Init, InMemory!TypeOK
<1>2. InMemory!TypeOK /\ [InMemory!Next]_InMemory!vars => InMemory!TypeOK'
  <2> SUFFICES ASSUME InMemory!TypeOK, [InMemory!Next]_InMemory!vars PROVE InMemory!TypeOK'
    OBVIOUS
  <2> USE InMemory!InMemoryAssumption DEF InMemory!TypeOK, InMemory!Items
  <2>1. CASE UNCHANGED InMemory!vars
    BY <2>1 DEF InMemory!vars
  <2>2. ASSUME NEW k \in Keys, InMemory!Get(k) PROVE InMemory!TypeOK'
    BY <2>2 DEF InMemory!Get
  <2>3. ASSUME NEW k \in Keys, NEW v \in ItemValues, InMemory!Set(k, v) PROVE InMemory!TypeOK'
    BY <2>3 DEF InMemory!Set
  <2>4. ASSUME NEW S \in SUBSET Keys, InMemory!DeleteAll(S) PROVE InMemory!TypeOK'
    BY <2>4 DEF InMemory!DeleteAll
  <2>5. CASE InMemory!Tick
    BY <2>5 DEF InMemory!Tick
  <2> QED
    BY <2>1, <2>2, <2>3, <2>4, <2>5 DEF InMemory!Next, InMemory!Delete, InMemory!DeleteKeysMatching
<1> QED BY <1>1, <1>2, PTL DEF InMemory!Spec

\* The content of the promised cache.
Content == [k \in Keys |-> InMemory!Visible(k)]

\* An item that has expired stays expired as the clock advances, and a live
\* one either stays as it is or expires.
LEMMA TickForgets ==
    ASSUME InMemory!InMemoryAssumption, InMemory!TypeOK, InMemory!Tick
    PROVE  \E S \in SUBSET Keys :
             Content' = [k \in Keys |-> IF k \in S THEN None ELSE Content[k]]
<1> DEFINE S == {k \in Keys : InMemory!Visible(k)' = None}
<1>1. data' = data /\ now' = now + 1 /\ now \in Int
  BY DEF InMemory!Tick, InMemory!TypeOK
<1>2. ASSUME NEW k \in Keys, k \notin S
      PROVE  InMemory!Visible(k)' = InMemory!Visible(k)
  <2>1. data[k] # None /\ ~InMemory!HasTTLExpired(data[k])'
    BY <1>1, <1>2 DEF InMemory!Visible
  <2>2. data[k].cachedAt \in Int
    BY <2>1 DEF InMemory!TypeOK, InMemory!Items
  <2>3. ~InMemory!HasTTLExpired(data[k])
    BY <1>1, <2>1, <2>2, InMemory!InMemoryAssumption DEF InMemory!HasTTLExpired
  <2> QED BY <1>1, <2>1, <2>3 DEF InMemory!Visible
<1>3. \A k \in Keys :
        InMemory!Visible(k)' = IF k \in S THEN None ELSE Content[k]
  BY <1>2 DEF Content
<1>4. Content' = [k \in Keys |-> IF k \in S THEN None ELSE Content[k]]
  BY <1>3 DEF Content
<1> QED BY <1>4

\* Each step is a step, or no step, of the promised cache.
LEMMA InMemoryStepPromised ==
    ASSUME InMemory!InMemoryAssumption, InMemory!TypeOK,
           [InMemory!Next]_(InMemory!vars)
    PROVE  [InMemory!Promised!CacheNext]_(InMemory!Promised!cacheVars)
<1> USE DEF InMemory!Promised!cacheVars
<1>1. CASE UNCHANGED InMemory!vars
  BY <1>1 DEF InMemory!vars, InMemory!Visible, InMemory!HasTTLExpired
<1>2. ASSUME NEW k \in Keys, InMemory!Get(k)
      PROVE  InMemory!Promised!Get(k)
  <2>1. found' = Content[k]
    BY <1>2 DEF InMemory!Get, Content, InMemory!Visible
  <2>2. \A j \in Keys : InMemory!Visible(j)' = InMemory!Visible(j)
    BY <1>2 DEF InMemory!Get, InMemory!Visible, InMemory!HasTTLExpired, InMemory!TypeOK
  <2>3. Content' = Content
    BY <2>2 DEF Content
  <2> QED BY <2>1, <2>3 DEF InMemory!Promised!Get, Content
<1>3. ASSUME NEW k \in Keys, NEW v \in ItemValues, InMemory!Set(k, v)
      PROVE  InMemory!Promised!Set(k, v)
  <2>1. data'[k] = [value |-> v, cachedAt |-> now] /\ now' = now
        /\ now \in 0 .. MaxTime /\ found' = found
    BY <1>3 DEF InMemory!Set, InMemory!TypeOK
  <2>2. InMemory!Visible(k)' = v
    <3>1. data'[k] # None
      BY <2>1, InMemory!InMemoryAssumption DEF InMemory!Items
    <3>2. ~InMemory!HasTTLExpired(data[k])'
      BY <2>1, InMemory!InMemoryAssumption DEF InMemory!HasTTLExpired
    <3> QED BY <2>1, <3>1, <3>2 DEF InMemory!Visible
  <2>3. \A j \in Keys \ {k} : InMemory!Visible(j)' = InMemory!Visible(j)
    BY <1>3 DEF InMemory!Set, InMemory!Visible, InMemory!HasTTLExpired, InMemory!TypeOK
  <2>4. Content' = [Content EXCEPT ![k] = v]
    BY <2>2, <2>3 DEF Content
  <2> QED BY <2>1, <2>4 DEF InMemory!Promised!Set, Content
<1>4. ASSUME NEW S \in SUBSET Keys, InMemory!DeleteAll(S)
      PROVE  InMemory!Promised!Forget(S)
  <2>1. \A j \in Keys : InMemory!Visible(j)' = IF j \in S THEN None ELSE InMemory!Visible(j)
    BY <1>4 DEF InMemory!DeleteAll, InMemory!Visible, InMemory!HasTTLExpired
  <2>2. Content' = [j \in Keys |-> IF j \in S THEN None ELSE Content[j]]
    BY <2>1 DEF Content
  <2> QED BY <1>4, <2>2 DEF InMemory!DeleteAll, InMemory!Promised!Forget, Content
<1>5. ASSUME InMemory!Tick
      PROVE  \E S \in SUBSET Keys : InMemory!Promised!Expire(S)
  <2>1. PICK S \in SUBSET Keys :
          Content' = [k \in Keys |-> IF k \in S THEN None ELSE Content[k]]
    BY <1>5, TickForgets
  <2> QED
    BY <1>5, <2>1 DEF InMemory!Tick, InMemory!Promised!Expire, InMemory!Promised!Forget, Content
<1> QED
  BY <1>1, <1>2, <1>3, <1>4, <1>5
  DEF InMemory!Next, InMemory!Delete, InMemory!DeleteKeysMatching,
      InMemory!Promised!CacheNext, InMemory!Promised!Delete,
      InMemory!Promised!DeleteKeysMatching, InMemory!Promised!Expire

\* cache.go:28 to :68 for the in-memory backend, whatever the callers do.
THEOREM InMemoryImplementsCache ==
    ASSUME InMemory!InMemoryAssumption
    PROVE  InMemory!Spec => InMemory!ImplementsCache
<1>1. InMemory!Init => InMemory!Promised!CacheInit
  BY DEF InMemory!Init, InMemory!Promised!CacheInit, InMemory!Visible
<1> QED
  BY <1>1, InMemoryTypes, InMemoryStepPromised, PTL
  DEF InMemory!Spec, InMemory!ImplementsCache, InMemory!Promised!CacheSpec

=============================================================================
