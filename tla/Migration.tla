------------------------------ MODULE Migration ------------------------------
(***************************************************************************)
(* MigrationManager.RunMigrations (pkg/mongo/migration/manager.go and      *)
(* node.go): several services sharing one MongoDB bring its schema to a    *)
(* version they know.  The collection "Migrations" holds a document per    *)
(* applied migration and, while a run is in progress, the marker document  *)
(* "InProgressMigration", whose fixed _id makes a second insertion fail.   *)
(*                                                                         *)
(* Each step of a service is one call to MongoDB (or one Up or Down of a   *)
(* migration), so calls of different services interleave freely.  A node   *)
(* of the code (a model with its migration) is a record of its document:   *)
(* the migration is a function of the document's name and version.         *)
(***************************************************************************)
EXTENDS Integers, FiniteSets, Sequences

CONSTANTS
    Services,     \* the processes that call RunMigrations
    Seeder,       \* who stored the base document, if it is stored
    Migrations,   \* every migration of some service's repository
    Base,         \* BaseMigration
    Version,      \* Version[m], an integer with the order of go-version
    Registered,   \* Registered[s]: MigrationRepo.LoadMigrations() of s
    SeededBase,   \* whether somebody stored a base document: the code reads
                  \* it but only makes it up, and never stores one
    Steps,        \* the steps RunMigrations may be called with
    MaxRuns,      \* bound: the calls of each service
    MaxFaults     \* bound: the crashes and failed calls of all services

Names == Migrations \cup {Base}

ASSUME ServicesAssumption == Seeder \notin Services
ASSUME MigrationsAssumption == IsFiniteSet(Migrations) /\ Base \notin Migrations
ASSUME VersionAssumption == Version \in [Names -> Int] /\ Version[Base] = 0
ASSUME RegisteredAssumption == Registered \in [Services -> SUBSET Migrations]
ASSUME StepsAssumption == Steps \subseteq Int
ASSUME BoundsAssumption ==
    SeededBase \in BOOLEAN /\ MaxRuns \in Nat /\ MaxFaults \in Nat

VARIABLES
    docs,     \* the migration documents of the collection
    marker,   \* whether the InProgressMigration document is in it
    effect,   \* effect[m]: Ups minus Downs of m on the database so far
    pc,       \* pc[s]: the next call of s's RunMigrations
    runs,     \* runs[s]: how many times s called RunMigrations
    arg,      \* arg[s]: the steps it was called with
    models,   \* models[s]: allMigrationModels
    path,     \* path[s]: currentNode, then the nodes its loop has left
    faults    \* how many faults happened

vars == <<docs, marker, effect, pc, runs, arg, models, path, faults>>

-----------------------------------------------------------------------------
(* Documents.  The _id is a fresh uuid: here who made it, in which call,   *)
(* for which migration.                                                    *)

Ids == (Services \cup {Seeder}) \X (0 .. MaxRuns) \X Names

Docs == [id: Ids, mig: Names, status: {"Running", "Completed"},
         isCurrent: BOOLEAN]

\* The base document that node.go:42 recognises.
StoredBase ==
    [id |-> <<Seeder, 0, Base>>, mig |-> Base, status |-> "Completed",
     isCurrent |-> TRUE]

\* CreateMigrationModel.
NewModel(s, m) ==
    [id |-> <<s, runs[s], m>>, mig |-> m, status |-> "Running",
     isCurrent |-> FALSE]

\* The node the code makes up, and never stores, for an empty collection.
InitialNode(s) ==
    [id |-> <<s, runs[s], Base>>, mig |-> Base, status |-> "Completed",
     isCurrent |-> TRUE]

\* UpdateOne by _id: no document with that _id, no change and no error.
Updated(D, i, current) ==
    {IF d.id = i THEN [d EXCEPT !.isCurrent = current, !.status = "Completed"]
                 ELSE d : d \in D}

\* Faulty: the nodes in the order of the map, not sorted by version.
SortedAnyhow(S) ==
    {q \in [1 .. Cardinality(S) -> S] :
        \A i, j \in 1 .. Cardinality(S) : i < j => q[i] # q[j]}

\* SortNodes.  sort.Slice is not stable, and the nodes not applied come out
\* of a map: nodes of equal versions end up in any order.
Sorted(S) ==
    {q \in [1 .. Cardinality(S) -> S] :
        \A i, j \in 1 .. Cardinality(S) : i < j =>
            q[i] # q[j] /\ Version[q[i].mig] <= Version[q[j].mig]}

-----------------------------------------------------------------------------
(* ParseAndSortMigrations.                                                 *)

\* Every document names a migration the service has, and none a second time:
\* the first one deletes it from the map.
Recognised(s, D) ==
    \A d \in D : d.mig # Base =>
        /\ d.mig \in Registered[s]
        /\ \A e \in D : e.mig = d.mig => e = d

Applied(s, D) == IF D = {} THEN {InitialNode(s)} ELSE D

Remaining(s, D) ==
    {NewModel(s, m) : m \in Registered[s] \ {d.mig : d \in D}}

\* Faulty: no check that the newest document is the current one.
AcceptableNotCurrent(applied, remaining) ==
    remaining # <<>> =>
        Version[applied[Len(applied)].mig] <= Version[remaining[1].mig]

\* The two checks on the sorted lists.
Acceptable(applied, remaining) ==
    LET last == applied[Len(applied)] IN
    /\ last.isCurrent
    /\ remaining # <<>> => Version[last.mig] <= Version[remaining[1].mig]

-----------------------------------------------------------------------------

Init ==
    /\ docs = IF SeededBase THEN {StoredBase} ELSE {}
    /\ marker = FALSE
    /\ effect = [m \in Names |-> 0]
    /\ pc = [s \in Services |-> "idle"]
    /\ runs = [s \in Services |-> 0]
    /\ arg = [s \in Services |-> 0]
    /\ models = [s \in Services |-> {}]
    /\ path = [s \in Services |-> <<>>]
    /\ faults = 0

\* RunMigrations returns, with or without an error: its locals are gone.
Return(s) ==
    /\ pc' = [pc EXCEPT ![s] = "idle"]
    /\ arg' = [arg EXCEPT ![s] = 0]
    /\ models' = [models EXCEPT ![s] = {}]
    /\ path' = [path EXCEPT ![s] = <<>>]
    /\ UNCHANGED runs

\* s goes on to the call c.
GoOn(s, c) ==
    /\ pc' = [pc EXCEPT ![s] = c]
    /\ UNCHANGED <<runs, arg, models>>

\* Faulty: one iteration too many.
LoopHeadOffByOne(s, p) ==
    IF Len(p) < 1 THEN "remove" ELSE IF arg[s] > 0 THEN "insert" ELSE "down"

\* Where the loops of ApplyMigrationForward and -Backward stand with the path
\* p: another node to reach, or done.
LoopHead(s, p) ==
    IF Len(p) <= 1 THEN "remove" ELSE IF arg[s] > 0 THEN "insert" ELSE "down"

Call(s) ==
    /\ pc[s] = "idle" /\ runs[s] < MaxRuns
    /\ \E n \in Steps : arg' = [arg EXCEPT ![s] = n]
    /\ runs' = [runs EXCEPT ![s] = @ + 1]
    /\ pc' = [pc EXCEPT ![s] = "check"]
    /\ UNCHANGED <<docs, marker, effect, models, path, faults>>

IsMigrationRunning(s) ==
    /\ pc[s] = "check"
    /\ \/ marker /\ Return(s)
       \/ ~marker /\ GoOn(s, "load") /\ UNCHANGED path
    /\ UNCHANGED <<docs, marker, effect, faults>>

\* Faulty: forward over all the remaining nodes, whatever the steps.
PathOfAll(n, applied, remaining) ==
    LET last == Len(applied)
        Least(a, b) == IF a < b THEN a ELSE b
    IN  IF n >= 0
        THEN <<applied[last]>> \o remaining
        ELSE [i \in 1 .. Least(1 - n, last) |-> applied[last + 1 - i]]

\* currentNode and the nodes to visit: of the remaining ones going forward,
\* of the applied ones, newest first, going backward.
PathOf(n, applied, remaining) ==
    LET last == Len(applied)
        Least(a, b) == IF a < b THEN a ELSE b
    IN  IF n >= 0
        THEN <<applied[last]>> \o SubSeq(remaining, 1, Least(n, Len(remaining)))
        ELSE [i \in 1 .. Least(1 - n, last) |-> applied[last + 1 - i]]

\* LoadMigrationModels, then ParseAndSortMigrations on what it read.  The
\* marker, if another service just inserted it, is read too: a document no
\* service has a migration for.
LoadAndParse(s) ==
    /\ pc[s] = "load"
    /\ \/ (marker \/ ~Recognised(s, docs)) /\ Return(s)
       \/ /\ ~marker /\ Recognised(s, docs)
          /\ \E applied \in Sorted(Applied(s, docs)),
                remaining \in Sorted(Remaining(s, docs)) :
                \/ ~Acceptable(applied, remaining) /\ Return(s)
                \/ /\ Acceptable(applied, remaining)
                   /\ pc' = [pc EXCEPT ![s] = "set"]
                   /\ models' = [models EXCEPT ![s] = docs]
                   /\ path' = [path EXCEPT
                                 ![s] = PathOf(arg[s], applied, remaining)]
                   /\ UNCHANGED <<runs, arg>>
    /\ UNCHANGED <<docs, marker, effect, faults>>

\* Faulty: the marker is upserted, which never fails.
SetMigrationToRunningUpsert(s) ==
    /\ pc[s] = "set"
    /\ marker' = TRUE
    /\ GoOn(s, LoopHead(s, path[s]))
    /\ UNCHANGED <<docs, effect, path, faults>>

\* InsertOne fails with a duplicate key while the marker is there.
SetMigrationToRunning(s) ==
    /\ pc[s] = "set"
    /\ \/ marker /\ Return(s) /\ UNCHANGED marker
       \/ /\ ~marker /\ marker' = TRUE
          /\ GoOn(s, LoopHead(s, path[s])) /\ UNCHANGED path
    /\ UNCHANGED <<docs, effect, faults>>

-----------------------------------------------------------------------------
(* ApplyMigrationForward: from currentNode = path[1] to path[2].           *)

InsertModel(s) ==
    /\ pc[s] = "insert"
    /\ docs' = docs \cup {path[s][2]}
    /\ GoOn(s, "up")
    /\ UNCHANGED <<marker, effect, path, faults>>

Up(s) ==
    /\ pc[s] = "up"
    /\ effect' = [effect EXCEPT ![path[s][2].mig] = @ + 1]
    /\ GoOn(s, "demote")
    /\ UNCHANGED <<docs, marker, path, faults>>

DemotePrevious(s) ==
    /\ pc[s] = "demote"
    /\ docs' = Updated(docs, path[s][1].id, FALSE)
    /\ GoOn(s, "promote")
    /\ UNCHANGED <<marker, effect, path, faults>>

\* The update that makes the node reached the current one and ends an
\* iteration of either loop.
ReachNext(s) ==
    /\ docs' = Updated(docs, path[s][2].id, TRUE)
    /\ path' = [path EXCEPT ![s] = Tail(@)]
    /\ GoOn(s, LoopHead(s, Tail(path[s])))
    /\ UNCHANGED <<marker, effect, faults>>

PromoteCurrent(s) == pc[s] = "promote" /\ ReachNext(s)

-----------------------------------------------------------------------------
(* ApplyMigrationBackward: off currentNode = path[1], to path[2].          *)

\* The base migration's Down does nothing.
Down(s) ==
    /\ pc[s] = "down"
    /\ effect' = IF path[s][1].mig = Base THEN effect
                 ELSE [effect EXCEPT ![path[s][1].mig] = @ - 1]
    /\ GoOn(s, "delete")
    /\ UNCHANGED <<docs, marker, path, faults>>

DeleteModel(s) ==
    /\ pc[s] = "delete"
    /\ docs' = {d \in docs : d.id # path[s][1].id}
    /\ GoOn(s, "restore")
    /\ UNCHANGED <<marker, effect, path, faults>>

RestoreCurrent(s) == pc[s] = "restore" /\ ReachNext(s)

-----------------------------------------------------------------------------

\* Faulty: a filter with a mistyped field, which matches no document.
RemoveMigrationNoMatch(s) ==
    /\ pc[s] = "remove"
    /\ Return(s)
    /\ UNCHANGED <<docs, marker, effect, faults>>

RemoveMigrationFromRunning(s) ==
    /\ pc[s] = "remove"
    /\ marker' = FALSE
    /\ Return(s)
    /\ UNCHANGED <<docs, effect, faults>>

\* Faulty: the marker is removed on every return, as by a defer.
AbortRemovingMarker(s) ==
    /\ pc[s] # "idle" /\ faults < MaxFaults
    /\ faults' = faults + 1
    /\ Return(s)
    /\ marker' = IF pc[s] \in {"check", "load", "set"} THEN marker ELSE FALSE
    /\ UNCHANGED <<docs, effect>>

\* The next call fails before it does anything, the reply to the last one is
\* lost, or the process dies: RunMigrations ends there and undoes nothing.
Abort(s) ==
    /\ pc[s] # "idle" /\ faults < MaxFaults
    /\ faults' = faults + 1
    /\ Return(s)
    /\ UNCHANGED <<docs, marker, effect>>

\* A step of a RunMigrations under way.
RunStep(s) ==
    \/ IsMigrationRunning(s) \/ LoadAndParse(s) \/ SetMigrationToRunning(s)
    \/ InsertModel(s) \/ Up(s) \/ DemotePrevious(s) \/ PromoteCurrent(s)
    \/ Down(s) \/ DeleteModel(s) \/ RestoreCurrent(s)
    \/ RemoveMigrationFromRunning(s)

Next == \E s \in Services : Call(s) \/ RunStep(s) \/ Abort(s)

Spec == Init /\ [][Next]_vars

\* A goroutine in RunMigrations is scheduled and its calls to MongoDB and to
\* the migrations return.  Nobody has to call, or to fail.
FairSpec == Spec /\ \A s \in Services : WF_vars(RunStep(s))
-----------------------------------------------------------------------------
(* Correctness.                                                            *)

Loading == {"check", "load", "set"}
Ascending == {"insert", "up", "demote", "promote"}
Descending == {"down", "delete", "restore"}
Holding == Ascending \cup Descending \cup {"remove"}

Running(s) == pc[s] \in Holding

\* Types, and the nodes each call of a loop needs on its path.
TypeOK ==
    /\ docs \subseteq Docs /\ IsFiniteSet(docs)
    /\ marker \in BOOLEAN
    /\ effect \in [Names -> Int]
    /\ pc \in [Services -> {"idle"} \cup Loading \cup Holding]
    /\ runs \in [Services -> 0 .. MaxRuns]
    /\ arg \in [Services -> Int]
    /\ models \in [Services -> SUBSET Docs]
    /\ path \in [Services -> Seq(Docs)]
    /\ faults \in 0 .. MaxFaults
    /\ \A s \in Services : pc[s] = "set" \/ Running(s) =>
          Len(path[s]) >= IF pc[s] \in {"set", "remove"} THEN 1 ELSE 2

\* manager.go:46, "avoid running multiple migrations at the same time across
\* multiple services": between the insertion of the marker and its removal
\* there is one service, although all of them may have seen no marker when
\* they checked, and a service that dies leaves its marker to no one.
MutualExclusion ==
    \A s, t \in Services : Running(s) /\ Running(t) => s = t

\* With nobody running, a collection that ParseAndSortMigrations of some
\* service would take as its history tells the truth about the database, even
\* after a failure halfway through a forward migration and a cleared marker:
\* each migration it lists was applied once, and no other was.
Trusted(s) == Recognised(s, docs) /\
    \E applied \in Sorted(Applied(s, docs)),
       remaining \in Sorted(Remaining(s, docs)) : Acceptable(applied, remaining)

AcceptedIsConsistent ==
    (\A s \in Services : ~Running(s)) /\ (\E s \in Services : Trusted(s)) =>
        \A m \in Migrations : effect[m] = Cardinality({d \in docs : d.mig = m})

\* The documents and the database agree whenever no marker is there, that is
\* whenever a run may start: a migration has one document when its Up took
\* effect and none otherwise, none is left Running, and the current one is the
\* newest, whatever ran before, in both directions, and wherever it failed.
LedgerMatchesSchema == ~marker =>
    /\ \A m \in Migrations :
          /\ effect[m] \in {0, 1}
          /\ effect[m] = Cardinality({d \in docs : d.mig = m})
    /\ \A d \in docs :
          /\ d.status = "Completed"
          /\ d.isCurrent <=> \A e \in docs : Version[e.mig] <= Version[d.mig]

\* A run that ends without an error moved the history it loaded by the steps it
\* was called with, as far as there were nodes: forward all that its repository
\* has, backward all that it loaded but the oldest (manager.go:98 and :148).
Count(D) == Cardinality({d \in D : d.mig # Base})

Clamped(n, low, high) == IF n < low THEN low ELSE IF n > high THEN high ELSE n

RunMovesByNodes == [][\A s \in Services :
    pc[s] = "remove" /\ marker' # marker =>
        Count(docs) - Count(models[s]) =
            Clamped(arg[s], 1 - Cardinality(Applied(s, models[s])),
                    Cardinality(Registered[s]) - Count(models[s]))]_vars

\* What manager.go:143 and :148 say of going backward: "by n steps", as many
\* "that are available", down to "the initial state", in which no migration is
\* applied.
RunMovesBySteps == [][\A s \in Services :
    pc[s] = "remove" /\ marker' # marker =>
        Count(docs) - Count(models[s]) =
            Clamped(arg[s], 0 - Count(models[s]),
                    Cardinality(Registered[s]) - Count(models[s]))]_vars

\* migration.go:11 and manager.go:46: no migration is applied again while it
\* is in the database.
AppliedOnce == \A m \in Migrations : effect[m] <= 1

\* manager.go:13, the marker is "temporary", it tells "that a migration is
\* running": as long as no run fails it goes away again, also when other
\* services are refused meanwhile or find nothing to do.
MarkerRemoved == marker ~> (~marker \/ faults > 0)

\* The migrations take effect on the database in version order, one by one.
History == INSTANCE SchemaHistory
    WITH applied <- {m \in Migrations : effect[m] = 1},
         Version <- [m \in Migrations |-> Version[m]]

HistorySpec == History!Spec

=============================================================================
