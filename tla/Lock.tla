-------------------------------- MODULE Lock --------------------------------
(***************************************************************************)
(* Lock of pkg/lock/lock.go over a Cache: processes calling TryFunc.  A    *)
(* lock is held while its key is in the cache; who put it there is not     *)
(* recorded.  AcquireLock is a Get and then a Set of the cache, two steps. *)
(*                                                                         *)
(* Three auxiliary variables record what has happened so far that a        *)
(* deployment may or may not rule out; no action reads them.               *)
(***************************************************************************)
EXTENDS Cache, Integers

CONSTANTS
    Processes,    \* goroutines or service instances
    Held,         \* the empty struct stored under a locked key
    MaxCrashes    \* bound: the crashes of all processes

ASSUME LockAssumption == Values = {Held} /\ MaxCrashes \in Nat

VARIABLES
    pc,           \* pc[p]: the next cache call of p, "hold" while fn runs
    key,          \* key[p]: the key of p's TryFunc
    crashes,
    overlapped,   \* an AcquireLock began while another was under way
    overrun,      \* the processes under whose fn a TTL passed
    failed        \* a cache call failed and that made a difference

vars == <<content, answer, pc, key, crashes, overlapped, overrun, failed>>

TypeOK ==
    /\ content \in [Keys -> {Held, None}]
    /\ answer \in {Held, None}
    /\ pc \in [Processes -> {"idle", "get", "set", "hold"}]
    /\ key \in [Processes -> Keys \cup {None}]
    /\ \A p \in Processes : pc[p] # "idle" => key[p] \in Keys
    /\ crashes \in 0 .. MaxCrashes
    /\ overlapped \in BOOLEAN /\ overrun \subseteq Processes /\ failed \in BOOLEAN

Init ==
    /\ CacheInit
    /\ pc = [p \in Processes |-> "idle"]
    /\ key = [p \in Processes |-> None]
    /\ crashes = 0
    /\ overlapped = FALSE /\ overrun = {} /\ failed = FALSE

Acquiring(p) == pc[p] \in {"get", "set"}
Holding(p) == pc[p] = "hold"

\* TryFunc of p ends, or p does.
Leave(p) ==
    /\ pc' = [pc EXCEPT ![p] = "idle"]
    /\ key' = [key EXCEPT ![p] = None]

TryFunc(p) ==
    /\ pc[p] = "idle"
    /\ \E k \in Keys : key' = [key EXCEPT ![p] = k]
    /\ pc' = [pc EXCEPT ![p] = "get"]
    /\ overlapped' = (overlapped \/ \E q \in Processes : Acquiring(q))
    /\ UNCHANGED <<cacheVars, crashes, overrun, failed>>

\* Faulty: AcquireLock does not look at what isLocked returned.
isLockedIgnored(p) ==
    /\ pc[p] = "get"
    /\ Get(key[p])
    /\ failed' = (failed \/ answer' # content[key[p]])
    /\ pc' = [pc EXCEPT ![p] = "set"]
    /\ UNCHANGED <<key, crashes, overlapped, overrun>>

\* Faulty: the release is deferred before AcquireLock is known to succeed.
isLockedReleasing(p) ==
    /\ pc[p] = "get"
    /\ \/ content[key[p]] # None /\ Forget({key[p]}) /\ Leave(p)
       \/ /\ content[key[p]] = None /\ pc' = [pc EXCEPT ![p] = "set"]
          /\ UNCHANGED <<cacheVars, key>>
    /\ UNCHANGED <<crashes, overlapped, overrun, failed>>

\* AcquireLock returns false where the key is there.
isLocked(p) ==
    /\ pc[p] = "get"
    /\ Get(key[p])
    /\ failed' = (failed \/ answer' # content[key[p]])
    /\ \/ answer' # None /\ Leave(p)
       \/ answer' = None /\ pc' = [pc EXCEPT ![p] = "set"] /\ UNCHANGED key
    /\ UNCHANGED <<crashes, overlapped, overrun>>

\* AcquireLock returns true, whatever became of the Set.
SetLock(p) ==
    /\ pc[p] = "set"
    /\ Set(key[p], Held)
    /\ failed' = (failed \/ content'[key[p]] # Held)
    /\ pc' = [pc EXCEPT ![p] = "hold"]
    /\ UNCHANGED <<key, crashes, overlapped, overrun>>

\* Faulty: no release after an error or a panic of fn.
ReleaseLockOnSuccess(p) ==
    /\ Holding(p)
    /\ \/ Delete(key[p]) /\ failed' = (failed \/ content'[key[p]] # None)
       \/ UNCHANGED <<cacheVars, failed>>
    /\ Leave(p)
    /\ UNCHANGED <<crashes, overlapped, overrun>>

\* fn returned, with or without an error, or panicked: the deferred release.
ReleaseLock(p) ==
    /\ Holding(p)
    /\ Delete(key[p])
    /\ failed' = (failed \/ content'[key[p]] # None)
    /\ Leave(p)
    /\ UNCHANGED <<crashes, overlapped, overrun>>

\* The process dies without the deferred release and starts again.
Crash(p) ==
    /\ pc[p] # "idle" /\ crashes < MaxCrashes
    /\ crashes' = crashes + 1
    /\ Leave(p)
    /\ UNCHANGED <<cacheVars, overlapped, overrun, failed>>

\* The TTL of a locked key passes.
ExpireLock(k) ==
    /\ content[k] # None
    /\ Expire({k})
    /\ overrun' = overrun \cup {p \in Processes : Holding(p) /\ key[p] = k}
    /\ UNCHANGED <<pc, key, crashes, overlapped, failed>>

Step(p) == isLocked(p) \/ SetLock(p) \/ ReleaseLock(p)

Next ==
    \/ \E p \in Processes : TryFunc(p) \/ Step(p) \/ Crash(p)
    \/ \E k \in Keys : ExpireLock(k)

Spec == Init /\ [][Next]_vars

\* A TryFunc under way goes on, and fn returns.  Nothing is assumed of the
\* backend: a TTL may be so long that it never passes.
FairSpec == Spec /\ \A p \in Processes : WF_vars(Step(p))

-----------------------------------------------------------------------------

\* locker.go:17, "safe to call concurrently. AcquireLock returns false if the
\* lock is already held by another process or goroutine": never two processes
\* in fn under one key.
MutualExclusion == \A p, q \in Processes :
    Holding(p) /\ Holding(q) /\ key[p] = key[q] => p = q

\* lock.go:84, "executes the provided function fn while holding the lock".
HeldWhileRunning == \A p \in Processes : Holding(p) => content[key[p]] # None

\* The same, where acquisitions did not overlap and no command failed, of the
\* processes whose own TTL did not pass: a lock is not lost because somebody
\* else held it for too long.
HeldUntilExpiry == ~overlapped /\ ~failed => \A p \in Processes \ overrun :
    Holding(p) => content[key[p]] # None

\* What is left of both: as long as no two AcquireLocks were under way at once,
\* no TTL passed under a running fn and no command failed, the lock excludes
\* and stays held, also after crashes and the expiry of what they left.
Granted == ~overlapped /\ overrun = {} /\ ~failed

ExcludesIfGranted == Granted => MutualExclusion
HeldIfGranted == Granted => HeldWhileRunning

\* A locked key has a process in fn that will release it, even when acquisitions
\* overlapped, locks expired under their fn and processes released locks of
\* others, provided nobody died and no command failed.
NoLeak == crashes = 0 /\ ~failed => \A k \in Keys :
    content[k] # None => \E p \in Processes : Holding(p) /\ key[p] = k

\* Whatever fn returns, and also if it panics, its key becomes free without the
\* TTL having to pass, unless a process died or a command failed.
EventuallyReleased == \A k \in Keys :
    content[k] # None ~> content[k] = None \/ crashes > 0 \/ failed

=============================================================================
