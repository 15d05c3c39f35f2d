----------------------------- MODULE RedisCache -----------------------------
(***************************************************************************)
(* Redis[T] of pkg/cache/cache_redis.go: the caches of several services,   *)
(* one per prefix, on one Redis server.  A key or prefix is a sequence of  *)
(* the segments between its colons, so that prefix:key is concatenation.   *)
(* A glob pattern stands for the keys it matches.  Expiry and the failures *)
(* of single commands are the server's.  The auxiliary variable own, which *)
(* no action reads, is what each cache would hold on a server of its own.  *)
(***************************************************************************)
EXTENDS Sequences

CONSTANTS
    Prefixes,     \* the prefixes of the caches
    Keys,         \* the keys their callers use
    ValuesOf,     \* ValuesOf[p]: the values that decode to p's type T
    None,
    PatternsOf    \* PatternsOf[p]: the patterns callers of p use, as sets

\* Faulty: the prefix is left out.
getFullKeyBare(p, k) == k

getFullKey(p, k) == p \o k

KeysOf(p) == {getFullKey(p, k) : k \in Keys}

FullKeys == UNION {KeysOf(p) : p \in Prefixes}

ASSUME RedisCacheAssumption ==
    /\ \A p \in Prefixes : None \notin ValuesOf[p]
    /\ \A p \in Prefixes : PatternsOf[p] \subseteq SUBSET FullKeys

VARIABLES
    store,        \* the server: store[f] is the value under f, or None
    listed,       \* listed[p]: what Keys answered to a DeleteKeysMatching
    answer,       \* answer[p]: what the last Get of p returned
    own           \* own[p][k]: what the operations of p alone left under k

vars == <<store, listed, answer, own>>

Stored == (UNION {ValuesOf[p] : p \in Prefixes}) \cup {None}

TypeOK ==
    /\ store \in [FullKeys -> Stored]
    /\ listed \in [Prefixes -> SUBSET FullKeys]
    /\ answer \in [Prefixes -> Stored]
    /\ own \in [Prefixes -> [Keys -> Stored]]
    /\ \A p \in Prefixes : answer[p] \in ValuesOf[p] \cup {None}

Init ==
    /\ store = [f \in FullKeys |-> None]
    /\ listed = [p \in Prefixes |-> {}]
    /\ answer = [p \in Prefixes |-> None]
    /\ own = [p \in Prefixes |-> [k \in Keys |-> None]]

\* Faulty: a value of another type is handed out undecoded.
DecodedUnchecked(p, k) == store[getFullKey(p, k)]

\* What a Get that reaches the server makes of its reply: a missing key and a
\* value of another type are both "not there".
Decoded(p, k) ==
    LET v == store[getFullKey(p, k)]
    IN  IF v \in ValuesOf[p] THEN v ELSE None

Get(p, k) ==
    /\ answer' \in {[answer EXCEPT ![p] = r] : r \in {Decoded(p, k), None}}
    /\ UNCHANGED <<store, listed, own>>

\* A Set that fails does so before or after the server stored the value.
Set(p, k, v) ==
    /\ \/ /\ store' = [store EXCEPT ![getFullKey(p, k)] = v]
          /\ own' = [own EXCEPT ![p][k] = v]
       \/ UNCHANGED <<store, own>>
    /\ UNCHANGED <<listed, answer>>

Without(S) == [f \in FullKeys |-> IF f \in S THEN None ELSE store[f]]

OwnWithout(p, S) ==
    [k \in Keys |-> IF getFullKey(p, k) \in S THEN None ELSE own[p][k]]

\* DEL of S by p, which may fail before or after the server did it.
Del(p, S) ==
    /\ \/ store' = Without(S) /\ own' = [own EXCEPT ![p] = OwnWithout(p, S)]
       \/ UNCHANGED <<store, own>>
    /\ UNCHANGED answer

Delete(p, k) == Del(p, {getFullKey(p, k)}) /\ UNCHANGED listed

\* DeleteKeysMatching, first KEYS, with the caller's pattern as it is ...
ListKeysMatching(p) ==
    /\ listed[p] = {}
    /\ \E S \in PatternsOf[p] :
          listed' = [listed EXCEPT ![p] = {f \in S : store[f] # None}]
    /\ UNCHANGED <<store, answer, own>>

\* ... then DEL of the keys it answered, whatever happened to them meanwhile.
DeleteListed(p) ==
    /\ listed[p] # {}
    /\ Del(p, listed[p])
    /\ listed' = [listed EXCEPT ![p] = {}]

Expire(f) ==
    /\ store[f] # None
    /\ store' = Without({f})
    /\ own' = [p \in Prefixes |-> OwnWithout(p, {f})]
    /\ UNCHANGED <<listed, answer>>

Operation(p) ==
    \/ \E k \in Keys : Get(p, k) \/ Delete(p, k)
    \/ \E k \in Keys, v \in ValuesOf[p] : Set(p, k, v)
    \/ ListKeysMatching(p) \/ DeleteListed(p)

Next ==
    \/ \E p \in Prefixes : Operation(p)
    \/ \E f \in FullKeys : Expire(f)

Spec == Init /\ [][Next]_vars

-----------------------------------------------------------------------------

\* What callers have to see to for the isolation of a cache: no full key, as
\* cache.go:18-20 describes it, is also one of another cache, and the patterns
\* of no other match one.
Apart(p) == \A q \in Prefixes \ {p}, k, l \in Keys :
    /\ p \o k # q \o l
    /\ \A S \in PatternsOf[q] : p \o k \notin S

\* cache.go:12, "namespace isolation", and cache.go:20, "multiple services to
\* share the same Redis instance without key collisions": under its keys a
\* cache finds what its own operations left there, neither overwritten nor
\* deleted by those of another, wherever the KEYS and the DEL of a
\* DeleteKeysMatching fall among them.  It does if it is Apart, whether or not
\* the others are.
Isolated == \A p \in Prefixes : Apart(p) =>
    \A k \in Keys : store[getFullKey(p, k)] = own[p][k]

\* Each cache is the Cache of its own operations, also where full keys collide
\* and patterns reach into other caches, if colliding caches store values of
\* types that do not decode to each other: a Get never answers a value that
\* callers of the same cache did not put there, or one that they deleted or
\* that expired since.
Promised(p) == INSTANCE Cache
    WITH Values <- ValuesOf[p], MayFail <- TRUE,
         content <- own[p], answer <- answer[p]

ImplementsCache ==
    /\ \A p \in Prefixes : Promised(p)!CacheInit
    /\ [][\A p \in Prefixes :
            [Promised(p)!CacheNext]_(Promised(p)!cacheVars)]_vars

=============================================================================
