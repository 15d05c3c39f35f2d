-------------------------------- MODULE Cache --------------------------------
(***************************************************************************)
(* Cache[T] of pkg/cache/cache.go: what its callers, the lock among them,  *)
(* may rely on, whatever the backend.  Operations are atomic.  An entry    *)
(* disappears when it is deleted or its TTL passes, and where the backend  *)
(* is a server that can fail, Set and Delete may do nothing and Get may    *)
(* answer "not there", all without telling the caller.                     *)
(***************************************************************************)

CONSTANTS
    Keys,
    Values,
    None,       \* no entry; Get's exist = false
    MayFail     \* whether the backend's errors are swallowed

ASSUME CacheAssumption == None \notin Values /\ MayFail \in BOOLEAN

VARIABLES
    content,    \* content[k]: the value under k, or None
    answer      \* what the last Get returned

cacheVars == <<content, answer>>

CacheInit ==
    /\ content = [k \in Keys |-> None]
    /\ answer = None

Get(k) ==
    /\ \/ answer' = content[k]
       \/ MayFail /\ answer' = None
    /\ UNCHANGED content

Set(k, v) ==
    /\ \/ content' = [content EXCEPT ![k] = v]
       \/ MayFail /\ UNCHANGED content
    /\ UNCHANGED answer

\* The entries under S are gone.
Forget(S) ==
    /\ content' = [k \in Keys |-> IF k \in S THEN None ELSE content[k]]
    /\ UNCHANGED answer

Delete(k) == Forget({k}) \/ (MayFail /\ UNCHANGED cacheVars)

\* A server's failure in the middle leaves any part of them.
DeleteKeysMatching(S) ==
    Forget(S) \/ (MayFail /\ \E T \in SUBSET S : Forget(T))

\* The TTL of the entries under S passes.
Expire(S) == Forget(S)

CacheNext ==
    \/ \E k \in Keys : Get(k) \/ Delete(k) \/ \E v \in Values : Set(k, v)
    \/ \E S \in SUBSET Keys : DeleteKeysMatching(S) \/ Expire(S)

CacheSpec == CacheInit /\ [][CacheNext]_cacheVars

=============================================================================
