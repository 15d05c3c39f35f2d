-------------------------------- MODULE Indexes --------------------------------
(***************************************************************************)
(* Collection.CreateIndexesIfNotExist of pkg/mongo/collection.go and the   *)
(* index helpers of pkg/mongo/index.go: services that start at the same    *)
(* time list the indexes of a collection and create those of their own     *)
(* whose names they did not read.  A CreateOne carries the keys only, so   *)
(* that the driver derives the name of the index from them.  MongoDB's     *)
(* rules on indexes, the driver's names, the indexes other tools create    *)
(* and the failures of calls are external.                                 *)
(***************************************************************************)
EXTENDS Naturals, Sequences, FiniteSets

CONSTANTS
    Services,
    Names,        \* names of indexes
    Keys,         \* key specifications
    Wanted,       \* Wanted[s]: the MongoIndexes s asks for
    Generated,    \* Generated[k]: the name the driver gives to keys k
    Foreign,      \* the indexes other tools may create
    MaxCalls,     \* bound on the calls of each service
    MaxFaults     \* bound on failures

MongoIndex == [name : Names, keys : Keys]

ASSUME IndexesAssumption ==
    /\ Wanted \in [Services -> Seq(MongoIndex)]
    /\ Generated \in [Keys -> Names]
    /\ \A j, k \in Keys : Generated[j] = Generated[k] => j = k
    /\ Foreign \subseteq MongoIndex
    /\ MaxCalls \in Nat /\ MaxFaults \in Nat

VARIABLES
    server,       \* the indexes of the collection
    existing,     \* existing[s]: what GetExistingIndexes returned to s
    at,           \* at[s]: the position in Wanted[s], 0 outside the loop
    result,       \* result[s]: how the last call of s ended
    calls,        \* calls[s]: the calls of s so far
    faults        \* the faults so far

vars == <<server, existing, at, result, calls, faults>>

NamesOf(S) == {x.name : x \in S}

TypeOK ==
    /\ server \subseteq MongoIndex
    /\ \A x, y \in server : x # y => x.name # y.name /\ x.keys # y.keys
    /\ existing \in [Services -> SUBSET Names]
    /\ \A s \in Services : at[s] \in 0 .. Len(Wanted[s])
    /\ at \in [Services -> Nat]
    /\ result \in [Services -> {"none", "ok", "fault", "conflict"}]
    /\ calls \in [Services -> 0 .. MaxCalls]
    /\ faults \in 0 .. MaxFaults

Init ==
    /\ server = {}
    /\ existing = [s \in Services |-> {}]
    /\ at = [s \in Services |-> 0]
    /\ result = [s \in Services |-> "none"]
    /\ calls = [s \in Services |-> 0]
    /\ faults = 0

\* Where the loop of CreateIndexesIfNotExist goes on after position i, and
\* what the call returns if it is over.
LoopFrom(s, i) ==
    IF i < Len(Wanted[s])
    THEN at' = [at EXCEPT ![s] = i + 1] /\ UNCHANGED result
    ELSE /\ at' = [at EXCEPT ![s] = 0]
         /\ result' = [result EXCEPT ![s] = "ok"]

Fail(s, why) ==
    /\ at' = [at EXCEPT ![s] = 0]
    /\ result' = [result EXCEPT ![s] = why]

Fault == faults < MaxFaults /\ faults' = faults + 1

Begin(s) ==
    /\ at[s] = 0
    /\ calls[s] < MaxCalls
    /\ calls' = [calls EXCEPT ![s] = @ + 1]

\* GetExistingIndexes reads the names of all indexes.  A cursor that breaks
\* ends the loop like one that is at its end, as its Err is not asked for.
GetExistingIndexes(s) ==
    /\ Begin(s)
    /\ \E read \in SUBSET NamesOf(server) :
          /\ existing' = [existing EXCEPT ![s] = read]
          /\ IF read = NamesOf(server) THEN UNCHANGED faults ELSE Fault
    /\ LoopFrom(s, 0)
    /\ UNCHANGED server

\* List or a Decode fails.
ListFails(s) ==
    /\ Begin(s)
    /\ Fault
    /\ existing' = [existing EXCEPT ![s] = {}]
    /\ Fail(s, "fault")
    /\ UNCHANGED server

Index(s) == Wanted[s][at[s]]

\* Faulty: an index that exists ends the call, not the iteration.
SkipTheRest(s) ==
    /\ at[s] > 0
    /\ Index(s).name \in existing[s]
    /\ Fail(s, "ok")
    /\ UNCHANGED <<server, existing, calls, faults>>

\* CreateIndexIfNotExist of an index whose name was read.
Skip(s) ==
    /\ at[s] > 0
    /\ Index(s).name \in existing[s]
    /\ LoopFrom(s, at[s])
    /\ UNCHANGED <<server, existing, calls, faults>>

\* Faulty: the index is created under the name it was asked for with.
ModelNamed(s) == Index(s)

\* The IndexModel that CreateOne is called with, with the driver's name.
Model(s) == [name |-> Generated[Index(s).keys], keys |-> Index(s).keys]

\* The server refuses a second index on the same keys, and a second one of the
\* same name; to create what is there already changes nothing.
Conflicts(x) == \E y \in server : x # y /\ (x.name = y.name \/ x.keys = y.keys)

\* CreateOne of an index whose name was not read, and the return of its error.
CreateOne(s) ==
    /\ at[s] > 0
    /\ Index(s).name \notin existing[s]
    /\ IF Conflicts(Model(s))
       THEN Fail(s, "conflict") /\ UNCHANGED server
       ELSE LoopFrom(s, at[s]) /\ server' = server \cup {Model(s)}
    /\ UNCHANGED <<existing, calls, faults>>

\* CreateOne fails, before or after the server executed it.
CreateFails(s) ==
    /\ at[s] > 0
    /\ Index(s).name \notin existing[s]
    /\ Fault
    /\ server' \in {server} \cup
          (IF Conflicts(Model(s)) THEN {} ELSE {server \cup {Model(s)}})
    /\ Fail(s, "fault")
    /\ UNCHANGED <<existing, calls>>

\* Somebody creates an index by other means, perhaps of a name of his own.
CreateForeign(x) ==
    /\ ~Conflicts(x)
    /\ server' = server \cup {x}
    /\ UNCHANGED <<existing, at, result, calls, faults>>

Next ==
    \/ \E s \in Services : \/ GetExistingIndexes(s) \/ ListFails(s)
                           \/ Skip(s) \/ CreateOne(s) \/ CreateFails(s)
    \/ \E x \in Foreign : CreateForeign(x)

Spec == Init /\ [][Next]_vars

-----------------------------------------------------------------------------

\* A call that returned nil left no wanted index out, however the calls of
\* other services fell among its own: each has an index on its keys, or
\* its name was taken by an index, which is all that is looked at
\* (index.go:39, collection.go:26).
WantedAreIndexed ==
    \A s \in Services : result[s] = "ok" =>
        \A i \in DOMAIN Wanted[s] :
            \E x \in server : x.keys = Wanted[s][i].keys
                              \/ x.name = Wanted[s][i].name

\* Services never make each other fail, even when they ask for the same keys
\* under different names from lists they read before (index.go:38-50): the
\* server refuses an index only for the sake of one that came by other means.
OnlyForeignConflict ==
    \A s \in Services : result[s] = "conflict" =>
        \E x \in server \cap Foreign, i \in DOMAIN Wanted[s] :
            \/ x.keys = Wanted[s][i].keys /\ x.name # Generated[x.keys]
            \/ x.keys # Wanted[s][i].keys /\ x.name = Generated[Wanted[s][i].keys]

=============================================================================
