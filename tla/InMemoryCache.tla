---------------------------- MODULE InMemoryCache ----------------------------
(***************************************************************************)
(* InMemory[T] of pkg/cache/cache_inmemory.go.  Every operation holds the  *)
(* mutex from its first read to its last write: one step each.  An expired *)
(* item stays in the map until Get meets it, a Set replaces it or a delete *)
(* removes it.                                                             *)
(***************************************************************************)
EXTENDS Integers

CONSTANTS
    Keys,
    Values,
    None,
    TTL,        \* 0: items do not expire
    MaxTime     \* bound: the clock

Items == [value: Values, cachedAt: 0 .. MaxTime]

ASSUME InMemoryAssumption ==
    /\ None \notin Values \cup Items
    /\ TTL \in Nat /\ MaxTime \in Nat

VARIABLES
    data,       \* the map: None where it has no item
    now,        \* the clock
    answer      \* what the last Get returned

vars == <<data, now, answer>>

TypeOK ==
    /\ data \in [Keys -> Items \cup {None}]
    /\ now \in 0 .. MaxTime
    /\ answer \in Values \cup {None}

Init ==
    /\ data = [k \in Keys |-> None]
    /\ now = 0
    /\ answer = None

HasTTLExpired(item) == TTL > 0 /\ now - item.cachedAt > TTL

\* What a Get of k would find.
Visible(k) ==
    IF data[k] = None \/ HasTTLExpired(data[k]) THEN None ELSE data[k].value

\* Faulty: an expired item is answered until something removes it.
GetExpired(k) ==
    /\ answer' = IF data[k] = None THEN None ELSE data[k].value
    /\ UNCHANGED <<data, now>>

Get(k) ==
    /\ \/ /\ data[k] # None /\ HasTTLExpired(data[k])
          /\ data' = [data EXCEPT ![k] = None] /\ answer' = None
       \/ /\ data[k] # None /\ ~HasTTLExpired(data[k])
          /\ answer' = data[k].value /\ UNCHANGED data
       \/ /\ data[k] = None
          /\ answer' = None /\ UNCHANGED data
    /\ UNCHANGED now

Set(k, v) ==
    /\ data' = [data EXCEPT ![k] = [value |-> v, cachedAt |-> now]]
    /\ UNCHANGED <<now, answer>>

\* Both deletions: of one key, and of the keys (expired ones too) that a
\* regular expression matches.
DeleteAll(S) ==
    /\ data' = [k \in Keys |-> IF k \in S THEN None ELSE data[k]]
    /\ UNCHANGED <<now, answer>>

Delete(k) == DeleteAll({k})

DeleteKeysMatching == \E S \in SUBSET Keys : DeleteAll(S)

Tick ==
    /\ now < MaxTime
    /\ now' = now + 1
    /\ UNCHANGED <<data, answer>>

Next ==
    \/ \E k \in Keys : Get(k) \/ Delete(k) \/ \E v \in Values : Set(k, v)
    \/ DeleteKeysMatching
    \/ Tick

Spec == Init /\ [][Next]_vars

\* cache.go:12 to :20 and its interface: the lazy expiry is invisible.  A Get
\* answers the value last set under its key if neither a deletion nor the TTL
\* came after, and an item that expired never comes back.
Promised == INSTANCE Cache
    WITH content <- [k \in Keys |-> Visible(k)], MayFail <- FALSE

ImplementsCache == Promised!CacheSpec

=============================================================================
