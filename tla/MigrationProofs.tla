--------------------------- MODULE MigrationProofs ---------------------------
(***************************************************************************)
(* Theorems about Migration, for every set of services and migrations,     *)
(* every assignment of versions and registries, every steps argument, and  *)
(* every number of runs and faults.                                        *)
(***************************************************************************)
EXTENDS Migration, FiniteSetTheorems, FunctionTheorems, SequenceTheorems, TLAPS

-----------------------------------------------------------------------------
(* The operators.                                                          *)

\* A model made by CreateMigrationModel is a document.
LEMMA NewModelTyped ==
    ASSUME TypeOK, NEW s \in Services, NEW m \in Migrations
    PROVE  NewModel(s, m) \in Docs
<1>1. runs[s] \in 0 .. MaxRuns /\ m \in Names
  BY DEF TypeOK, Names
<1>2. <<s, runs[s], m>> \in Ids
  BY <1>1 DEF Ids
<1> QED BY <1>1, <1>2 DEF NewModel, Docs

\* So is the base node made up for an empty collection.
LEMMA InitialNodeTyped ==
    ASSUME TypeOK, NEW s \in Services
    PROVE  InitialNode(s) \in Docs
<1>1. runs[s] \in 0 .. MaxRuns /\ Base \in Names
  BY DEF TypeOK, Names
<1>2. <<s, runs[s], Base>> \in Ids
  BY <1>1 DEF Ids
<1> QED BY <1>1, <1>2 DEF InitialNode, Docs

\* UpdateOne keeps the collection a finite set of documents.
LEMMA UpdatedTyped ==
    ASSUME NEW D, D \subseteq Docs, IsFiniteSet(D), NEW i,
           NEW current \in BOOLEAN
    PROVE  Updated(D, i, current) \subseteq Docs
           /\ IsFiniteSet(Updated(D, i, current))
<1> DEFINE upd(d) == IF d.id = i
              THEN [d EXCEPT !.isCurrent = current, !.status = "Completed"]
              ELSE d
           f == [d \in D |-> upd(d)]
<1>1. \A d \in Docs : upd(d) \in Docs
  BY DEF Docs
<1>2. Updated(D, i, current) = {upd(d) : d \in D}
  BY DEF Updated
<1>3. Updated(D, i, current) \subseteq Docs
  BY <1>1, <1>2
<1>4. f \in Surjection(D, Updated(D, i, current))
  <2> HIDE DEF upd
  <2>1. f \in [D -> Updated(D, i, current)]
    BY <1>2
  <2>2. \A t \in Updated(D, i, current) : \E d \in D : f[d] = t
    BY <1>2
  <2> QED BY <2>1, <2>2 DEF Surjection
<1>5. IsFiniteSet(Updated(D, i, current))
  BY <1>4, FS_Surjection
<1> QED BY <1>3, <1>5

\* The nodes not applied are finitely many documents.
LEMMA RemainingTyped ==
    ASSUME TypeOK, NEW s \in Services, NEW D
    PROVE  Remaining(s, D) \subseteq Docs /\ IsFiniteSet(Remaining(s, D))
<1> DEFINE M == Registered[s] \ {d.mig : d \in D}
           f == [m \in M |-> NewModel(s, m)]
<1>1. M \in SUBSET Migrations
  BY RegisteredAssumption
<1>2. IsFiniteSet(M)
  BY <1>1, MigrationsAssumption, FS_Subset
<1>3. Remaining(s, D) = {NewModel(s, m) : m \in M}
  BY DEF Remaining
<1>4. Remaining(s, D) \subseteq Docs
  BY <1>1, <1>3, NewModelTyped
<1>5. f \in Surjection(M, Remaining(s, D))
  BY <1>3 DEF Surjection
<1>6. IsFiniteSet(Remaining(s, D))
  BY <1>2, <1>5, FS_Surjection
<1> QED BY <1>4, <1>6

\* SortNodes returns every node once: a list as long as the set it sorts.
LEMMA SortedTyped ==
    ASSUME NEW D, D \subseteq Docs, IsFiniteSet(D), NEW q \in Sorted(D)
    PROVE  q \in Seq(Docs) /\ Len(q) = Cardinality(D)
<1>1. Cardinality(D) \in Nat
  BY FS_CardinalityType
<1>2. q \in [1 .. Cardinality(D) -> D]
  BY DEF Sorted
<1>3. q \in [1 .. Cardinality(D) -> Docs]
  BY <1>2
<1>4. q \in Seq(Docs)
  BY <1>1, <1>3, SeqDef
<1>5. Len(q) = Cardinality(D)
  BY <1>1, <1>2, <1>4, LenProperties
<1> QED BY <1>4, <1>5

\* The applied nodes are never an empty list: the code reads the last one.
LEMMA AppliedTyped ==
    ASSUME TypeOK, NEW s \in Services, NEW q \in Sorted(Applied(s, docs))
    PROVE  q \in Seq(Docs) /\ Len(q) >= 1
<1> DEFINE A == Applied(s, docs)
<1>1. A \subseteq Docs /\ IsFiniteSet(A)
  BY InitialNodeTyped, FS_Singleton DEF TypeOK, Applied
<1>2. A # {}
  BY DEF Applied
<1>3. Cardinality(A) \in Nat /\ Cardinality(A) # 0
  BY <1>1, <1>2, FS_CardinalityType, FS_EmptySet
<1>4. q \in Seq(Docs) /\ Len(q) = Cardinality(A)
  BY <1>1, SortedTyped
<1> QED BY <1>3, <1>4

\* Whatever the steps, the walk starts at an applied node and stays in both
\* lists: no index of ApplyMigrationForward or -Backward is out of range.
LEMMA PathTyped ==
    ASSUME NEW n \in Int, NEW applied \in Seq(Docs), Len(applied) >= 1,
           NEW remaining \in Seq(Docs)
    PROVE  /\ PathOf(n, applied, remaining) \in Seq(Docs)
           /\ Len(PathOf(n, applied, remaining)) >= 1
<1> DEFINE last == Len(applied)
           Least(a, b) == IF a < b THEN a ELSE b
<1>1. last \in Nat /\ Len(remaining) \in Nat
  BY LenProperties
<1>2. CASE n >= 0
  <2> DEFINE k == Least(n, Len(remaining))
             ahead == SubSeq(remaining, 1, k)
  <2>1. k \in Nat /\ k <= Len(remaining)
    BY <1>1, <1>2
  <2>2. ahead \in Seq(Docs)
    BY <1>1, <2>1, ElementOfSeq, SubSeqProperties
  <2>3. applied[last] \in Docs
    BY <1>1, ElementOfSeq
  <2>4. <<applied[last]>> \in Seq(Docs) /\ Len(<<applied[last]>>) = 1
    BY <2>3
  <2>5. /\ <<applied[last]>> \o ahead \in Seq(Docs)
        /\ Len(<<applied[last]>> \o ahead) = 1 + Len(ahead)
    BY <2>2, <2>4, ConcatProperties
  <2>6. Len(ahead) \in Nat
    BY <2>2, LenProperties
  <2>7. PathOf(n, applied, remaining) = <<applied[last]>> \o ahead
    BY <1>2 DEF PathOf
  <2> QED BY <2>5, <2>6, <2>7
<1>3. CASE n < 0
  <2> DEFINE k == Least(1 - n, last)
             back == [i \in 1 .. k |-> applied[last + 1 - i]]
  <2>1. k \in Nat /\ 1 <= k /\ k <= last
    BY <1>1, <1>3
  <2>2. \A i \in 1 .. k : applied[last + 1 - i] \in Docs
    BY <1>1, <2>1, ElementOfSeq
  <2> HIDE DEF k
  <2>3. back \in [1 .. k -> Docs]
    BY <2>2
  <2>4. back \in Seq(Docs)
    BY <2>1, <2>3, SeqDef
  <2>5. Len(back) = k
    BY <2>1, <2>4, LenProperties
  <2>6. PathOf(n, applied, remaining) = back
    BY <1>3 DEF PathOf, k
  <2> QED BY <2>1, <2>4, <2>5, <2>6
<1> QED BY <1>2, <1>3
-----------------------------------------------------------------------------
(* Type correctness.                                                       *)

\* A return, from any call, keeps the locals of every service typed.
LEMMA ReturnTyped ==
    ASSUME TypeOK, NEW s \in Services, Return(s),
           docs' \subseteq Docs, IsFiniteSet(docs'), marker' \in BOOLEAN,
           effect' \in [Names -> Int], faults' \in 0 .. MaxFaults
    PROVE  TypeOK'
BY EmptySeq DEF TypeOK, Return, Running, Holding, Ascending, Descending, Loading

\* The head of a loop only goes on where the path has another node.
LEMMA LoopHeadTyped ==
    ASSUME NEW s \in Services, NEW p \in Seq(Docs), Len(p) >= 1
    PROVE  /\ LoopHead(s, p) \in {"remove", "insert", "down"}
           /\ LoopHead(s, p) # "remove" => Len(p) >= 2
<1>1. Len(p) \in Nat
  BY LenProperties
<1> QED BY <1>1 DEF LoopHead

\* Reaching the next node shortens the walk by one and types survive.
LEMMA ReachNextTyped ==
    ASSUME TypeOK, NEW s \in Services, pc[s] \in {"promote", "restore"},
           ReachNext(s)
    PROVE  TypeOK'
<1> DEFINE p == path[s]
<1>1. p \in Seq(Docs) /\ Len(p) >= 2 /\ Len(p) \in Nat
  BY LenProperties DEF TypeOK, Running, Holding, Ascending, Descending
<1>2. p # <<>>
  BY <1>1, EmptySeq
<1>3. Tail(p) \in Seq(Docs) /\ Len(Tail(p)) = Len(p) - 1
  BY <1>1, <1>2, HeadTailProperties
<1>4. Len(Tail(p)) >= 1
  BY <1>1, <1>3
<1>5. docs' \subseteq Docs /\ IsFiniteSet(docs')
  BY UpdatedTyped DEF TypeOK, ReachNext
<1>6. /\ LoopHead(s, Tail(p)) \in {"remove", "insert", "down"}
      /\ LoopHead(s, Tail(p)) # "remove" => Len(Tail(p)) >= 2
  BY <1>3, <1>4, LoopHeadTyped
<1>7. pc' = [pc EXCEPT ![s] = LoopHead(s, Tail(p))]
      /\ path' = [path EXCEPT ![s] = Tail(p)]
  BY DEF ReachNext, GoOn
<1> QED
  BY <1>3, <1>4, <1>5, <1>6, <1>7
  DEF TypeOK, ReachNext, GoOn, Running, Holding, Ascending, Descending, Loading

\* The walk a run sets out on.
LEMMA LoadTyped ==
    ASSUME TypeOK, NEW s \in Services, LoadAndParse(s)
    PROVE  TypeOK'
<1>1. CASE Return(s)
  BY <1>1, ReturnTyped DEF LoadAndParse, TypeOK
<1>2. ASSUME NEW applied \in Sorted(Applied(s, docs)),
             NEW remaining \in Sorted(Remaining(s, docs)),
             pc' = [pc EXCEPT ![s] = "set"],
             models' = [models EXCEPT ![s] = docs],
             path' = [path EXCEPT ![s] = PathOf(arg[s], applied, remaining)],
             UNCHANGED <<runs, arg>>
      PROVE  TypeOK'
  <2>1. applied \in Seq(Docs) /\ Len(applied) >= 1
    BY AppliedTyped
  <2>2. remaining \in Seq(Docs)
    BY RemainingTyped, SortedTyped
  <2>3. arg[s] \in Int
    BY DEF TypeOK
  <2>4. /\ PathOf(arg[s], applied, remaining) \in Seq(Docs)
        /\ Len(PathOf(arg[s], applied, remaining)) >= 1
    BY <2>1, <2>2, <2>3, PathTyped
  <2> QED
    BY <1>2, <2>4
    DEF TypeOK, LoadAndParse, Running, Holding, Ascending, Descending, Loading
<1> QED BY <1>1, <1>2 DEF LoadAndParse

\* In the loops, the current node and the next one are documents.
LEMMA LoopNodes ==
    ASSUME TypeOK, NEW s \in Services, pc[s] \in Ascending \cup Descending
    PROVE  /\ path[s][1] \in Docs /\ path[s][1].mig \in Names
           /\ path[s][2] \in Docs /\ path[s][2].mig \in Names
<1>1. path[s] \in Seq(Docs) /\ Len(path[s]) >= 2
  BY DEF TypeOK, Running, Holding, Ascending, Descending
<1>2. Len(path[s]) \in Nat
  BY <1>1, LenProperties
<1>3. 1 \in 1 .. Len(path[s]) /\ 2 \in 1 .. Len(path[s])
  BY <1>1, <1>2
<1>4. path[s][1] \in Docs /\ path[s][2] \in Docs
  BY <1>1, <1>3, ElementOfSeq
<1> QED BY <1>4 DEF Docs

\* Types hold initially.
LEMMA TypeInit == Init => TypeOK
<1> SUFFICES ASSUME Init PROVE TypeOK
  OBVIOUS
<1>1. StoredBase \in Docs
  <2>1. <<Seeder, 0, Base>> \in Ids
    BY BoundsAssumption DEF Ids, Names
  <2> QED BY <2>1 DEF StoredBase, Docs, Names
<1>2. docs \subseteq Docs /\ IsFiniteSet(docs)
  BY <1>1, FS_EmptySet, FS_Singleton DEF Init
<1>3. <<>> \in Seq(Docs) /\ 0 \in 0 .. MaxRuns /\ 0 \in 0 .. MaxFaults
  BY EmptySeq, BoundsAssumption
<1>4. /\ pc = [s \in Services |-> "idle"] /\ runs = [s \in Services |-> 0]
      /\ arg = [s \in Services |-> 0] /\ models = [s \in Services |-> {}]
      /\ path = [s \in Services |-> <<>>]
      /\ effect = [m \in Names |-> 0] /\ marker = FALSE /\ faults = 0
  BY DEF Init
<1>5. \A s \in Services : ~(pc[s] = "set" \/ Running(s))
  BY <1>4 DEF Running, Holding, Ascending, Descending
<1>6. /\ runs \in [Services -> 0 .. MaxRuns] /\ path \in [Services -> Seq(Docs)]
      /\ models \in [Services -> SUBSET Docs] /\ effect \in [Names -> Int]
      /\ arg \in [Services -> Int] /\ faults \in 0 .. MaxFaults
  BY <1>3, <1>4
<1>7. pc \in [Services -> {"idle"} \cup Loading \cup Holding]
  BY <1>4
<1>8. marker \in BOOLEAN
  BY <1>4
<1> QED BY <1>2, <1>5, <1>6, <1>7, <1>8 DEF TypeOK

\* Every step of a service keeps them.
LEMMA TypeStep == TypeOK /\ [Next]_vars => TypeOK'
<1> SUFFICES ASSUME TypeOK, [Next]_vars PROVE TypeOK'
  OBVIOUS
<1> USE DEF Running, Holding, Ascending, Descending, Loading
<1>1. CASE UNCHANGED vars
  BY <1>1 DEF vars, TypeOK
<1>2. ASSUME NEW s \in Services, Call(s) \/ RunStep(s) \/ Abort(s)
      PROVE  TypeOK'
  <2>1. CASE Call(s)
    BY <2>1, StepsAssumption, BoundsAssumption DEF Call, TypeOK
  <2>2. CASE IsMigrationRunning(s)
    <3>1. CASE Return(s)
      BY <2>2, <3>1, ReturnTyped DEF IsMigrationRunning, TypeOK
    <3>2. CASE GoOn(s, "load") /\ UNCHANGED path
      BY <2>2, <3>2 DEF IsMigrationRunning, GoOn, TypeOK
    <3> QED BY <2>2, <3>1, <3>2 DEF IsMigrationRunning
  <2>3. CASE LoadAndParse(s)
    BY <2>3, LoadTyped
  <2>4. CASE SetMigrationToRunning(s)
    <3>1. CASE marker /\ Return(s) /\ UNCHANGED marker
      BY <2>4, <3>1, ReturnTyped DEF SetMigrationToRunning, TypeOK
    <3>2. CASE /\ ~marker /\ marker' = TRUE
               /\ GoOn(s, LoopHead(s, path[s])) /\ UNCHANGED path
      <4>1. path[s] \in Seq(Docs) /\ Len(path[s]) >= 1
        BY <2>4 DEF SetMigrationToRunning, TypeOK
      <4>2. /\ LoopHead(s, path[s]) \in {"remove", "insert", "down"}
            /\ LoopHead(s, path[s]) # "remove" => Len(path[s]) >= 2
        BY <4>1, LoopHeadTyped
      <4> QED
        BY <2>4, <3>2, <4>1, <4>2 DEF SetMigrationToRunning, GoOn, TypeOK
    <3> QED BY <2>4, <3>1, <3>2 DEF SetMigrationToRunning
  <2>5. CASE InsertModel(s)
    <3>1. path[s][2] \in Docs
      BY <2>5, LoopNodes DEF InsertModel
    <3>2. docs' = docs \cup {path[s][2]} /\ docs \subseteq Docs
      BY <2>5 DEF InsertModel, TypeOK
    <3>3. IsFiniteSet(docs')
      BY <3>2, FS_AddElement DEF TypeOK
    <3> QED BY <2>5, <3>1, <3>2, <3>3 DEF InsertModel, GoOn, TypeOK
  <2>6. CASE Up(s)
    <3>1. path[s][2].mig \in Names
      BY <2>6, LoopNodes DEF Up
    <3> QED BY <2>6, <3>1 DEF Up, GoOn, TypeOK
  <2>7. CASE DemotePrevious(s)
    <3>1. docs' \subseteq Docs /\ IsFiniteSet(docs')
      BY <2>7, UpdatedTyped DEF DemotePrevious, TypeOK
    <3> QED BY <2>7, <3>1 DEF DemotePrevious, GoOn, TypeOK
  <2>8. CASE PromoteCurrent(s)
    BY <2>8, ReachNextTyped DEF PromoteCurrent
  <2>9. CASE Down(s)
    <3>1. path[s][1].mig \in Names
      BY <2>9, LoopNodes DEF Down
    <3> QED BY <2>9, <3>1 DEF Down, GoOn, TypeOK
  <2>10. CASE DeleteModel(s)
    <3>1. docs' \subseteq Docs /\ IsFiniteSet(docs')
      BY <2>10, FS_Subset DEF DeleteModel, TypeOK
    <3> QED BY <2>10, <3>1 DEF DeleteModel, GoOn, TypeOK
  <2>11. CASE RestoreCurrent(s)
    BY <2>11, ReachNextTyped DEF RestoreCurrent
  <2>12. CASE RemoveMigrationFromRunning(s)
    BY <2>12, ReturnTyped DEF RemoveMigrationFromRunning, TypeOK
  <2>13. CASE Abort(s)
    <3>1. faults' \in 0 .. MaxFaults
      BY <2>13, BoundsAssumption DEF Abort, TypeOK
    <3> QED BY <2>13, <3>1, ReturnTyped DEF Abort, TypeOK
  <2> QED
    BY <1>2, <2>1, <2>2, <2>3, <2>4, <2>5, <2>6, <2>7, <2>8, <2>9, <2>10,
       <2>11, <2>12, <2>13 DEF RunStep
<1> QED BY <1>1, <1>2 DEF Next

\* Type correctness: in particular no loop of ApplyMigrationForward or
\* ApplyMigrationBackward ever reads a node its list does not have.
THEOREM TypeCorrectness == Spec => []TypeOK
BY TypeInit, TypeStep, PTL DEF Spec

-----------------------------------------------------------------------------
(* Mutual exclusion.                                                       *)

\* Why it holds: a service in the loops has the marker to its name, and the
\* insertion of the marker is the one atomic test: IsMigrationRunning and
\* LoadMigrationModels may have been passed by several services.
Exclusive ==
    /\ \A s \in Services : Running(s) => marker
    /\ MutualExclusion

\* No step lets a second service in or takes the marker from under the first.
LEMMA ExclusiveStep == TypeOK /\ Exclusive /\ [Next]_vars => Exclusive'
<1> SUFFICES ASSUME TypeOK, Exclusive, [Next]_vars PROVE Exclusive'
  OBVIOUS
<1> USE DEF Exclusive, MutualExclusion, Running, Holding, Ascending, Descending
<1>1. CASE UNCHANGED vars
  BY <1>1 DEF vars
<1>2. ASSUME NEW s \in Services, Call(s) \/ RunStep(s) \/ Abort(s)
      PROVE  Exclusive'
  <2> pc = [t \in Services |-> pc[t]]
    BY DEF TypeOK
  <2>1. CASE Call(s)
    BY <2>1 DEF Call
  <2>2. CASE IsMigrationRunning(s)
    <3>1. pc' = [pc EXCEPT ![s] = "idle"] \/ pc' = [pc EXCEPT ![s] = "load"]
      BY <2>2 DEF IsMigrationRunning, Return, GoOn
    <3> QED BY <2>2, <3>1 DEF IsMigrationRunning
  <2>3. CASE LoadAndParse(s)
    BY <2>3 DEF LoadAndParse, Return
  <2>4. CASE SetMigrationToRunning(s)
    <3>1. CASE marker /\ Return(s) /\ UNCHANGED marker
      BY <2>4, <3>1 DEF Return
    <3>2. CASE ~marker /\ marker' = TRUE /\ GoOn(s, LoopHead(s, path[s]))
      <4>1. \A t \in Services : ~Running(t)
        BY <3>2
      <4> QED BY <3>2, <4>1 DEF GoOn
    <3> QED BY <2>4, <3>1, <3>2 DEF SetMigrationToRunning
  <2>5. ASSUME Running(s), UNCHANGED marker,
               NEW c, pc' = [pc EXCEPT ![s] = c]
        PROVE  Exclusive'
    BY <2>5
  <2>6. CASE \/ InsertModel(s) \/ Up(s) \/ DemotePrevious(s) \/ Down(s)
             \/ DeleteModel(s) \/ PromoteCurrent(s) \/ RestoreCurrent(s)
    <3>1. Running(s) /\ UNCHANGED marker
      BY <2>6
      DEF InsertModel, Up, DemotePrevious, Down, DeleteModel, PromoteCurrent,
          RestoreCurrent, ReachNext
    <3>2. \E c : pc' = [pc EXCEPT ![s] = c]
      BY <2>6
      DEF InsertModel, Up, DemotePrevious, Down, DeleteModel, PromoteCurrent,
          RestoreCurrent, ReachNext, GoOn
    <3> QED BY <2>5, <3>1, <3>2
  <2>7. CASE RemoveMigrationFromRunning(s)
    BY <2>7 DEF RemoveMigrationFromRunning, Return
  <2>8. CASE Abort(s)
    BY <2>8 DEF Abort, Return
  <2> QED
    BY <1>2, <2>1, <2>2, <2>3, <2>4, <2>5, <2>6, <2>7, <2>8 DEF RunStep
<1> QED BY <1>1, <1>2 DEF Next

\* manager.go:46 for any number of services, runs and faults: never two
\* services between the insertion of the marker and its removal.
THEOREM RunsExclude == Spec => []MutualExclusion
<1>1. Init => Exclusive
  BY DEF Init, Exclusive, MutualExclusion, Running, Holding, Ascending,
     Descending
<1>2. Exclusive => MutualExclusion
  BY DEF Exclusive
<1> QED BY <1>1, <1>2, ExclusiveStep, TypeCorrectness, PTL DEF Spec

-----------------------------------------------------------------------------
(* Accepted histories tell the truth, however many services, runs and      *)
(* faults, when migrations only go forward and each release knows the      *)
(* migrations of the ones before it.                                       *)

Forward == \A n \in Steps : n >= 0

DistinctVersions == \A m, n \in Names : Version[m] = Version[n] => m = n

\* A service that knows a migration knows the older ones of every service.
Nested == \A s, t \in Services : \A m \in Registered[s], n \in Registered[t] :
    Version[n] < Version[m] => n \in Registered[s]

Completed(m) == \E d \in docs : d.mig = m /\ d.status = "Completed"

Stored(i) == \E d \in docs : d.id = i

\* A service between the insertion of a node and the update that ends it.
InFlight(s) == pc[s] \in {"up", "demote", "promote"}

\* The collection: whoever is current is completed, and what is older than an
\* applied migration is completed too.  A document that a failed run left
\* behind is not, so nothing newer is ever stored.
Collection ==
    /\ \A d, e \in docs : d.id = e.id => d = e
    /\ \A d \in docs : /\ d.id[3] = d.mig
                       /\ d.mig = Base => d.id[1] = Seeder /\ d.status = "Completed"
                       /\ d.mig # Base => \E s \in Services : d.mig \in Registered[s]
                       /\ d.isCurrent => d.status = "Completed"
    /\ \A d \in docs : d.mig # Base => \A s \in Services : \A m \in Registered[s] :
          Version[m] < Version[d.mig] => Completed(m)
    /\ (\E d \in docs : d.mig = Base) <=> SeededBase
    /\ SeededBase => \A d \in docs : Version[d.mig] >= 0

\* The walk of a service from the last node its view had over those it is to
\* apply: each is new, and those older than it are completed or come before it.
Walk(s) ==
    /\ arg[s] >= 0 /\ pc[s] \notin Descending
    /\ pc[s] = "set" \/ Running(s) =>
          /\ arg[s] = 0 => Len(path[s]) = 1
          /\ \/ path[s][1].id = <<s, runs[s], Base>>
             \/ \E d \in docs : d.id = path[s][1].id /\ d.status = "Completed"
          /\ \A i \in 2 .. Len(path[s]) :
                /\ path[s][i].mig \in Registered[s]
                /\ path[s][i] = NewModel(s, path[s][i].mig)
                /\ (InFlight(s) /\ i = 2) \/ ~Stored(path[s][i].id)
                /\ \A j \in 2 .. Len(path[s]) : path[s][i].mig = path[s][j].mig => i = j
                /\ \A m \in Registered[s] : Version[m] < Version[path[s][i].mig] =>
                      Completed(m) \/ \E j \in 2 .. i - 1 : path[s][j].mig = m
                /\ SeededBase => Version[path[s][i].mig] >= 0
    /\ InFlight(s) => \E d \in docs : d.id = path[s][2].id /\ d.status = "Running"

\* The documents of m, those aside whose Up is still to come.
Counted(m) == {i \in {d.id : d \in {e \in docs : e.mig = m}} :
    \A s \in Services : pc[s] = "up" => i # path[s][2].id}

\* Unless a failed run left a document behind, a migration was applied as often
\* as it has documents.
Accounted == \A m \in Migrations :
    (\A d \in docs : d.mig = m => \/ d.status = "Completed"
                                  \/ \E s \in Services : InFlight(s) /\ d.id = path[s][2].id)
    => effect[m] = Cardinality(Counted(m))

LedgerInv ==
    /\ TypeOK /\ Exclusive /\ Collection /\ Accounted
    /\ \A s \in Services : Walk(s)

\* SortNodes leaves nothing out.
LEMMA SortedOnto ==
    ASSUME NEW D, D \subseteq Docs, IsFiniteSet(D), NEW q \in Sorted(D)
    PROVE  /\ Len(q) \in Nat
           /\ \A i \in 1 .. Len(q) : q[i] \in D
           /\ \A i, j \in 1 .. Len(q) : i < j =>
                 q[i] # q[j] /\ Version[q[i].mig] <= Version[q[j].mig]
           /\ \A d \in D : \E i \in 1 .. Len(q) : q[i] = d
<1> DEFINE n == Cardinality(D)
<1>1. n \in Nat /\ Len(q) = n /\ n = Cardinality(D)
  BY SortedTyped, FS_CardinalityType
<1>2. /\ q \in [1 .. n -> D]
      /\ \A i, j \in 1 .. n : i < j =>
            q[i] # q[j] /\ Version[q[i].mig] <= Version[q[j].mig]
  BY DEF Sorted
<1> HIDE DEF n
<1>3. \A i, j \in 1 .. n : q[i] = q[j] => i = j
  <2> SUFFICES ASSUME NEW i \in 1 .. n, NEW j \in 1 .. n, q[i] = q[j] PROVE i = j
    OBVIOUS
  <2>1. i < j \/ j < i \/ i = j
    OBVIOUS
  <2> QED BY <1>2, <2>1
<1>4. q \in Injection(1 .. n, D)
  BY <1>2, <1>3 DEF Injection, IsInjective
<1>5. IsFiniteSet(1 .. n) /\ Cardinality(1 .. n) = n
  BY <1>1, FS_Interval
<1>6. q \in Surjection(1 .. n, D)
  <2>1. Cardinality(1 .. n) = Cardinality(D)
    BY <1>1, <1>5
  <2> QED BY <1>4, <2>1, FS_Injection
<1> QED BY <1>1, <1>2, <1>6 DEF Surjection

\* The last of the applied nodes, the one a run starts from, is the newest.
LEMMA LastIsNewest ==
    ASSUME TypeOK, NEW s \in Services, NEW q \in Sorted(Applied(s, docs))
    PROVE  /\ Len(q) \in Nat /\ Len(q) >= 1
           /\ IF docs = {} THEN q[Len(q)] = InitialNode(s) ELSE q[Len(q)] \in docs
           /\ \A d \in docs : Version[d.mig] <= Version[q[Len(q)].mig]
<1> DEFINE last == q[Len(q)]
<1>1. Applied(s, docs) \subseteq Docs /\ IsFiniteSet(Applied(s, docs))
  BY InitialNodeTyped, FS_Singleton DEF TypeOK, Applied
<1>2. q \in Seq(Docs) /\ Len(q) >= 1
  BY AppliedTyped
<1>3. /\ Len(q) \in Nat
      /\ \A i \in 1 .. Len(q) : q[i] \in Applied(s, docs)
      /\ \A i, j \in 1 .. Len(q) : i < j =>
            q[i] # q[j] /\ Version[q[i].mig] <= Version[q[j].mig]
      /\ \A d \in Applied(s, docs) : \E i \in 1 .. Len(q) : q[i] = d
  BY <1>1, SortedOnto
<1>4. Len(q) \in 1 .. Len(q) /\ last \in Applied(s, docs)
  BY <1>2, <1>3
<1>5. IF docs = {} THEN last = InitialNode(s) ELSE last \in docs
  BY <1>4 DEF Applied
<1>6. \A d \in docs : d.mig \in Names /\ Version[d.mig] \in Int
  BY VersionAssumption DEF TypeOK, Docs
<1>7. ASSUME NEW d \in docs PROVE Version[d.mig] <= Version[last.mig]
  <2>1. PICK i \in 1 .. Len(q) : q[i] = d
    BY <1>3 DEF Applied
  <2>2. CASE i = Len(q)
    BY <1>6, <2>1, <2>2
  <2>3. CASE i # Len(q)
    <3>1. i < Len(q)
      BY <1>3, <2>3
    <3> QED BY <1>3, <1>4, <2>1, <3>1
  <2> QED BY <2>2, <2>3
<1> QED BY <1>2, <1>3, <1>5, <1>7

\* What ParseAndSortMigrations accepts has no document of a failed run, and
\* the last node is the newest.
LEMMA AcceptedIsCompleted ==
    ASSUME TypeOK, Collection, DistinctVersions, NEW s \in Services, Recognised(s, docs),
           NEW q \in Sorted(Applied(s, docs)), q[Len(q)].isCurrent
    PROVE  /\ \A d \in docs : d.status = "Completed"
           /\ Len(q) \in Nat /\ Len(q) >= 1
           /\ IF docs = {} THEN q[Len(q)] = InitialNode(s) ELSE q[Len(q)] \in docs
           /\ \A d \in docs : Version[d.mig] <= Version[q[Len(q)].mig]
<1> DEFINE last == q[Len(q)]
<1>1. /\ Len(q) \in Nat /\ Len(q) >= 1
      /\ IF docs = {} THEN last = InitialNode(s) ELSE last \in docs
      /\ \A d \in docs : Version[d.mig] <= Version[last.mig]
  BY LastIsNewest
<1>2. \A d \in docs : d.mig \in Names /\ Version[d.mig] \in Int
  BY VersionAssumption DEF TypeOK, Docs
<1>3. ASSUME NEW o \in docs, o.status # "Completed" PROVE FALSE
  <2>1. last \in docs /\ last.isCurrent /\ last.status = "Completed"
    BY <1>1, <1>3 DEF Collection
  <2>2. o.mig # Base /\ o.mig # last.mig
    BY <1>3, <2>1 DEF Collection, Recognised
  <2>3. Version[o.mig] < Version[last.mig]
    <3>1. Version[o.mig] # Version[last.mig]
      BY <1>2, <2>1, <2>2 DEF DistinctVersions
    <3> QED BY <1>2, <1>1, <2>1, <3>1
  <2>4. last.mig # Base
    <3>1. last.mig = Base => Version[o.mig] >= 0 /\ Version[last.mig] = 0
      BY <2>1, VersionAssumption DEF Collection
    <3> QED BY <1>2, <2>3, <3>1
  <2>5. PICK t \in Services : o.mig \in Registered[t]
    BY <2>2 DEF Collection
  <2>6. Completed(o.mig)
    BY <2>1, <2>3, <2>4, <2>5 DEF Collection
  <2> QED BY <1>3, <2>2, <2>6 DEF Completed, Recognised
<1> QED BY <1>1, <1>3

\* The steps of others do not disturb the walk of t: they add documents with
\* other ids, and complete some.
LEMMA WalkKept ==
    ASSUME TypeOK, NEW t \in Services, Walk(t),
           pc'[t] = pc[t] /\ arg'[t] = arg[t] /\ runs'[t] = runs[t] /\ path'[t] = path[t],
           \A d \in docs : \E e \in docs' : e.id = d.id /\ e.mig = d.mig
                              /\ (d.status = "Completed" => e.status = "Completed"),
           \A e \in docs' : Stored(e.id) \/ e.id[1] # t,
           InFlight(t) => docs' = docs
    PROVE  Walk(t)'
<1>1. \A m : Completed(m) => Completed(m)'
  BY DEF Completed
<1>2. InFlight(t)' <=> InFlight(t)
  BY DEF InFlight
<1>3. Running(t)' <=> Running(t)
  BY DEF Running
<1>4. \A m : NewModel(t, m)' = NewModel(t, m) /\ NewModel(t, m).id[1] = t
  BY DEF NewModel
<1>5. ASSUME pc[t] = "set" \/ Running(t), NEW i \in 2 .. Len(path[t]),
             ~Stored(path[t][i].id), path[t][i] = NewModel(t, path[t][i].mig)
      PROVE  ~Stored(path[t][i].id)'
  <2>1. path[t][i].id[1] = t
    BY <1>4, <1>5
  <2>2. ASSUME NEW e \in docs', e.id = path[t][i].id PROVE FALSE
    BY <1>5, <2>1, <2>2
  <2> QED BY <2>2 DEF Stored
<1> QED BY <1>1, <1>2, <1>3, <1>4, <1>5 DEF Walk

\* Who is in a loop is alone there.
LEMMA Alone ==
    ASSUME Exclusive, NEW s \in Services, NEW t \in Services, InFlight(s), Running(t)
    PROVE  s = t
BY DEF Exclusive, MutualExclusion, Running, InFlight, Holding, Ascending

\* A step that changes neither documents nor the database keeps the count,
\* also when it ends a run that leaves a document behind.
LEMMA AccountedKept ==
    ASSUME LedgerInv, UNCHANGED <<docs, effect>>,
           \A t \in Services : InFlight(t)' =>
              InFlight(t) /\ pc'[t] = pc[t] /\ path'[t] = path[t]
    PROVE  Accounted'
<1> SUFFICES ASSUME NEW m \in Migrations,
                    \A d \in docs : d.mig = m =>
                       \/ d.status = "Completed"
                       \/ \E t \in Services : InFlight(t)' /\ d.id = path'[t][2].id
             PROVE  effect[m] = Cardinality(Counted(m)')
  BY DEF Accounted
<1>1. Accounted /\ Exclusive /\ Collection
  BY DEF LedgerInv
<1>2. \A d \in docs : d.mig = m =>
         \/ d.status = "Completed"
         \/ \E t \in Services : InFlight(t) /\ d.id = path[t][2].id
  OBVIOUS
<1>3. effect[m] = Cardinality(Counted(m))
  BY <1>1, <1>2 DEF Accounted
<1>4. ASSUME NEW d \in docs, d.mig = m, NEW t \in Services, pc[t] = "up", d.id = path[t][2].id
      PROVE  pc'[t] = "up" /\ path'[t] = path[t]
  <2>1. InFlight(t)
    BY <1>4 DEF InFlight
  <2>2. PICK e \in docs : e.id = path[t][2].id /\ e.status = "Running"
    BY <2>1 DEF LedgerInv, Walk
  <2>3. d.status = "Running"
    BY <1>1, <1>4, <2>2 DEF Collection
  <2>4. PICK u \in Services : InFlight(u)' /\ d.id = path'[u][2].id
    BY <1>4, <2>3
  <2>5. InFlight(u)
    BY <2>4
  <2>6. Running(t)
    BY <2>1 DEF InFlight, Running, Holding, Ascending
  <2>7. u = t
    BY <1>1, <2>5, <2>6, Alone
  <2> QED BY <1>4, <2>4, <2>7
<1>5. ASSUME NEW t \in Services, pc'[t] = "up"
      PROVE  pc[t] = "up" /\ path'[t] = path[t]
  <2>1. InFlight(t)'
    BY <1>5 DEF InFlight
  <2> QED BY <1>5, <2>1
<1>6. Counted(m)' = Counted(m)
  <2>1. Counted(m)' = {i \in {d.id : d \in {e \in docs : e.mig = m}} :
                          \A t \in Services : pc'[t] = "up" => i # path'[t][2].id}
    BY DEF Counted
  <2>2. ASSUME NEW d \in docs, d.mig = m
        PROVE  (\A t \in Services : pc'[t] = "up" => d.id # path'[t][2].id)
               <=> (\A t \in Services : pc[t] = "up" => d.id # path[t][2].id)
    BY <1>4, <1>5, <2>2
  <2> QED BY <2>1, <2>2 DEF Counted
<1> QED BY <1>3, <1>6

\* A step of s alone that changes nothing but its locals and the marker.
LEMMA QuietStep ==
    ASSUME LedgerInv, NEW s \in Services, UNCHANGED <<docs, effect>>, ~InFlight(s)',
           \A t \in Services \ {s} : /\ pc'[t] = pc[t] /\ arg'[t] = arg[t]
                                     /\ runs'[t] = runs[t] /\ path'[t] = path[t],
           TypeOK', Exclusive', Walk(s)'
    PROVE  LedgerInv'
<1>1. Collection'
  BY DEF LedgerInv, Collection, Completed
<1>2. Accounted'
  <2>1. ASSUME NEW t \in Services, InFlight(t)'
        PROVE  InFlight(t) /\ pc'[t] = pc[t] /\ path'[t] = path[t]
    <3>1. t # s
      BY <2>1
    <3> QED BY <2>1, <3>1 DEF InFlight
  <2> QED BY <2>1, AccountedKept
<1>3. ASSUME NEW t \in Services PROVE Walk(t)'
  <2>1. CASE t = s
    BY <2>1
  <2>2. CASE t # s
    <3>1. TypeOK /\ Walk(t)
      BY DEF LedgerInv
    <3>2. \A e \in docs' : Stored(e.id)
      BY DEF Stored
    <3> QED BY <2>2, <3>1, <3>2, WalkKept
  <2> QED BY <2>1, <2>2
<1> QED BY <1>1, <1>2, <1>3 DEF LedgerInv

LEMMA ReturnQuiet ==
    ASSUME LedgerInv, NEW s \in Services, Return(s), UNCHANGED <<docs, effect>>,
           TypeOK', Exclusive'
    PROVE  LedgerInv'
<1>1. /\ pc \in [Services -> {"idle"} \cup Loading \cup Holding]
      /\ arg \in [Services -> Int] /\ path \in [Services -> Seq(Docs)]
  BY DEF LedgerInv, TypeOK
<1>2. /\ pc'[s] = "idle" /\ arg'[s] = 0
      /\ \A t \in Services \ {s} : /\ pc'[t] = pc[t] /\ arg'[t] = arg[t]
                                   /\ runs'[t] = runs[t] /\ path'[t] = path[t]
  BY <1>1 DEF Return
<1>3. Walk(s)' /\ ~InFlight(s)'
  BY <1>2 DEF Walk, InFlight, Running, Holding, Ascending, Descending
<1> QED BY <1>2, <1>3, QuietStep

\* s goes on in LoadAndParse's callers, before the loops.
LEMMA CheckQuiet ==
    ASSUME LedgerInv, Forward, NEW s \in Services, Call(s) \/ (IsMigrationRunning(s) /\ ~Return(s)),
           TypeOK', Exclusive'
    PROVE  LedgerInv'
<1>1. /\ pc \in [Services -> {"idle"} \cup Loading \cup Holding]
      /\ arg \in [Services -> Int] /\ path \in [Services -> Seq(Docs)]
      /\ runs \in [Services -> 0 .. MaxRuns] /\ arg[s] >= 0
  BY DEF LedgerInv, TypeOK, Walk
<1>2. /\ pc'[s] \in {"check", "load"} /\ arg'[s] >= 0
      /\ \A t \in Services \ {s} : /\ pc'[t] = pc[t] /\ arg'[t] = arg[t]
                                   /\ runs'[t] = runs[t] /\ path'[t] = path[t]
      /\ UNCHANGED <<docs, effect>>
  <2>1. CASE Call(s)
    BY <1>1, <2>1 DEF Call, Forward
  <2>2. CASE IsMigrationRunning(s) /\ ~Return(s)
    BY <1>1, <2>2 DEF IsMigrationRunning, GoOn
  <2> QED BY <2>1, <2>2
<1>3. Walk(s)' /\ ~InFlight(s)'
  BY <1>2 DEF Walk, InFlight, Running, Holding, Ascending, Descending
<1> QED BY <1>2, <1>3, QuietStep

\* The marker is s's: its loop begins.
LEMMA SetQuiet ==
    ASSUME LedgerInv, NEW s \in Services, SetMigrationToRunning(s), ~Return(s),
           TypeOK', Exclusive'
    PROVE  LedgerInv'
<1>1. /\ pc \in [Services -> {"idle"} \cup Loading \cup Holding]
      /\ arg \in [Services -> Int] /\ path \in [Services -> Seq(Docs)]
      /\ Walk(s) /\ pc[s] = "set"
  BY DEF LedgerInv, TypeOK, SetMigrationToRunning
<1>2. /\ pc' = [pc EXCEPT ![s] = LoopHead(s, path[s])]
      /\ UNCHANGED <<docs, effect, arg, runs, path>>
  BY DEF SetMigrationToRunning, GoOn
<1>3. LoopHead(s, path[s]) \in {"remove", "insert"}
  <2>1. Len(path[s]) \in Nat /\ arg[s] \in Int
    BY <1>1
  <2> QED BY <1>1, <2>1 DEF LoopHead, Walk
<1>4. ~InFlight(s) /\ ~InFlight(s)' /\ pc'[s] \notin Descending
  BY <1>1, <1>2, <1>3 DEF InFlight, Descending
<1>5. Walk(s)'
  <2>1. /\ \A m : Completed(m)' <=> Completed(m)
        /\ \A i : Stored(i)' <=> Stored(i)
        /\ \A m : NewModel(s, m)' = NewModel(s, m)
    BY <1>2 DEF Completed, Stored, NewModel
  <2>2. path'[s] = path[s] /\ arg'[s] = arg[s]
    BY <1>2
  <2>3. ~InFlight(s)' /\ pc'[s] \notin Descending
    BY <1>4
  <2>4. /\ arg[s] >= 0
        /\ arg[s] = 0 => Len(path[s]) = 1
        /\ \/ path[s][1].id = <<s, runs[s], Base>>
           \/ \E d \in docs : d.id = path[s][1].id /\ d.status = "Completed"
        /\ \A i \in 2 .. Len(path[s]) :
              /\ path[s][i].mig \in Registered[s]
              /\ path[s][i] = NewModel(s, path[s][i].mig)
              /\ ~Stored(path[s][i].id)
              /\ \A j \in 2 .. Len(path[s]) : path[s][i].mig = path[s][j].mig => i = j
              /\ \A m \in Registered[s] : Version[m] < Version[path[s][i].mig] =>
                    Completed(m) \/ \E j \in 2 .. i - 1 : path[s][j].mig = m
              /\ SeededBase => Version[path[s][i].mig] >= 0
    BY <1>1, <1>4 DEF Walk
  <2> QED BY <1>2, <2>1, <2>2, <2>3, <2>4 DEF Walk
<1>6. \A t \in Services \ {s} : /\ pc'[t] = pc[t] /\ arg'[t] = arg[t]
                                /\ runs'[t] = runs[t] /\ path'[t] = path[t]
  BY <1>1, <1>2
<1> QED BY <1>2, <1>4, <1>5, <1>6, QuietStep

\* Forward, the walk goes over the first of the remaining nodes.
GoesOver(p, n, applied, remaining) ==
    /\ Len(p) \in Nat /\ Len(p) >= 1 /\ p[1] = applied[Len(applied)]
    /\ Len(p) = 1 + (IF n < Len(remaining) THEN n ELSE Len(remaining))
    /\ n = 0 => Len(p) = 1
    /\ \A i \in 2 .. Len(p) : i - 1 \in 1 .. Len(remaining) /\ p[i] = remaining[i - 1]

\* Backward, over the last of the applied nodes.
GoesBack(p, n, applied) ==
    /\ Len(p) \in Nat /\ Len(p) >= 1 /\ Len(p) <= Len(applied)
    /\ Len(p) = IF 1 - n < Len(applied) THEN 1 - n ELSE Len(applied)
    /\ \A i \in 1 .. Len(p) : p[i] = applied[Len(applied) + 1 - i]

LEMMA PathAhead ==
    ASSUME NEW n \in Nat, NEW applied \in Seq(Docs), Len(applied) >= 1,
           NEW remaining \in Seq(Docs)
    PROVE  GoesOver(PathOf(n, applied, remaining), n, applied, remaining)
<1>p. PICK p : p = PathOf(n, applied, remaining)
  OBVIOUS
<1> DEFINE k == IF n < Len(remaining) THEN n ELSE Len(remaining)
           last == applied[Len(applied)]
           ahead == SubSeq(remaining, 1, k)
<1>1. Len(remaining) \in Nat /\ k \in Nat /\ k <= Len(remaining)
  OBVIOUS
<1>2. p = <<last>> \o ahead
  BY <1>p DEF PathOf
<1>3. last \in Docs
  OBVIOUS
<1> HIDE DEF last, k
<1>4. ahead \in Seq(Docs) /\ Len(ahead) = k /\ \A i \in 1 .. k : ahead[i] = remaining[i]
  BY <1>1
<1> HIDE DEF ahead
<1>5. Len(p) = k + 1 /\ p[1] = last /\ \A i \in 2 .. k + 1 : p[i] = ahead[i - 1]
  BY <1>1, <1>2, <1>3, <1>4
<1>6. \A i \in 2 .. k + 1 : i - 1 \in 1 .. k /\ i - 1 \in 1 .. Len(remaining)
  BY <1>1
<1> QED BY <1>p, <1>1, <1>4, <1>5, <1>6 DEF last, k, GoesOver

LEMMA PathBehind ==
    ASSUME NEW n \in Int, n < 0, NEW applied \in Seq(Docs), Len(applied) >= 1,
           NEW remaining
    PROVE  GoesBack(PathOf(n, applied, remaining), n, applied)
<1>p. PICK p : p = PathOf(n, applied, remaining)
  OBVIOUS
<1> DEFINE last == Len(applied)
           k == IF 1 - n < last THEN 1 - n ELSE last
<1>1. last \in Nat /\ k \in Nat /\ 1 <= k /\ k <= last
  OBVIOUS
<1>2. p = [i \in 1 .. k |-> applied[last + 1 - i]]
  BY <1>p DEF PathOf
<1>3. \A i \in 1 .. k : applied[last + 1 - i] \in Docs
  BY <1>1, ElementOfSeq
<1> HIDE DEF k
<1>4. p \in [1 .. k -> Docs]
  BY <1>2, <1>3
<1>5. p \in Seq(Docs)
  BY <1>1, <1>4, SeqDef
<1>6. Len(p) = k
  BY <1>1, <1>4, <1>5, LenProperties
<1> QED BY <1>p, <1>1, <1>2, <1>6 DEF k, GoesBack

\* The nodes the service is to apply: new ones, the older first, none left out.
LEMMA RemainingSorted ==
    ASSUME TypeOK, \A d \in docs : d.id[3] = d.mig, NEW s \in Services, NEW q \in Sorted(Remaining(s, docs))
    PROVE  /\ q \in Seq(Docs) /\ Len(q) \in Nat
           /\ \A i \in 1 .. Len(q) :
                 /\ q[i].mig \in Registered[s] /\ q[i] = NewModel(s, q[i].mig)
                 /\ ~Stored(q[i].id) /\ q[i].mig \in Names /\ Version[q[i].mig] \in Int
                 /\ ~\E d \in docs : d.mig = q[i].mig
                 /\ \A j \in 1 .. Len(q) : q[i].mig = q[j].mig => i = j
                 /\ \A j \in 1 .. Len(q) : i < j => Version[q[i].mig] <= Version[q[j].mig]
           /\ \A m \in Registered[s] :
                 (\E d \in docs : d.mig = m) \/ \E i \in 1 .. Len(q) : q[i].mig = m
<1> DEFINE R == Remaining(s, docs)
<1>1. R \subseteq Docs /\ IsFiniteSet(R)
  BY RemainingTyped
<1>2. /\ Len(q) \in Nat
      /\ \A i \in 1 .. Len(q) : q[i] \in R
      /\ \A i, j \in 1 .. Len(q) : i < j =>
            q[i] # q[j] /\ Version[q[i].mig] <= Version[q[j].mig]
      /\ \A d \in R : \E i \in 1 .. Len(q) : q[i] = d
  BY <1>1, SortedOnto
<1>3. q \in Seq(Docs)
  BY <1>1, SortedTyped
<1>4. \A m : NewModel(s, m).mig = m /\ NewModel(s, m).id[3] = m
  BY DEF NewModel
<1>5. R = {NewModel(s, m) : m \in Registered[s] \ {d.mig : d \in docs}}
  BY DEF Remaining
<1> HIDE DEF R
<1>6. ASSUME NEW i \in 1 .. Len(q)
      PROVE  /\ q[i].mig \in Registered[s] /\ q[i] = NewModel(s, q[i].mig)
             /\ ~Stored(q[i].id) /\ q[i].mig \in Names /\ Version[q[i].mig] \in Int
             /\ ~\E d \in docs : d.mig = q[i].mig
  <2>1. PICK m \in Registered[s] \ {d.mig : d \in docs} : q[i] = NewModel(s, m)
    BY <1>2, <1>5
  <2>2. q[i].mig = m /\ q[i].id[3] = m
    BY <1>4, <2>1
  <2>3. ~Stored(q[i].id)
    BY <2>1, <2>2 DEF Stored
  <2>4. m \in Names /\ Version[m] \in Int
    BY <2>1, RegisteredAssumption, VersionAssumption DEF Names
  <2> QED BY <2>1, <2>2, <2>3, <2>4
<1>7. ASSUME NEW i \in 1 .. Len(q), NEW j \in 1 .. Len(q), q[i].mig = q[j].mig
      PROVE  i = j
  <2>1. q[i] = q[j]
    BY <1>6, <1>7
  <2>2. i < j \/ j < i \/ i = j
    OBVIOUS
  <2> QED BY <1>2, <2>1, <2>2
<1>8. ASSUME NEW m \in Registered[s], ~\E d \in docs : d.mig = m
      PROVE  \E i \in 1 .. Len(q) : q[i].mig = m
  <2>1. NewModel(s, m) \in R
    BY <1>5, <1>8
  <2> QED BY <1>2, <1>4, <2>1
<1> QED BY <1>2, <1>3, <1>6, <1>7, <1>8

\* The walk a forward run sets out on.
LEMMA LoadedWalk ==
    ASSUME TypeOK, Collection, DistinctVersions, NEW s \in Services, Walk(s),
           Recognised(s, docs),
           NEW applied \in Sorted(Applied(s, docs)),
           NEW remaining \in Sorted(Remaining(s, docs)), Acceptable(applied, remaining),
           pc'[s] = "set", arg'[s] = arg[s], runs' = runs, docs' = docs,
           NEW p, p = PathOf(arg[s], applied, remaining), path'[s] = p
    PROVE  Walk(s)'
<1> DEFINE last == applied[Len(applied)]
<1>1. arg[s] \in Nat
  BY DEF TypeOK, Walk
<1>2. applied \in Seq(Docs) /\ Len(applied) >= 1
  BY AppliedTyped
<1>3. /\ last.isCurrent
      /\ remaining # <<>> => Version[last.mig] <= Version[remaining[1].mig]
  BY DEF Acceptable
<1>4. /\ \A d \in docs : d.status = "Completed"
      /\ IF docs = {} THEN last = InitialNode(s) ELSE last \in docs
      /\ \A d \in docs : Version[d.mig] <= Version[last.mig]
  BY <1>3, AcceptedIsCompleted
<1>5. /\ remaining \in Seq(Docs) /\ Len(remaining) \in Nat
      /\ \A i \in 1 .. Len(remaining) :
            /\ remaining[i].mig \in Registered[s]
            /\ remaining[i] = NewModel(s, remaining[i].mig)
            /\ ~Stored(remaining[i].id)
            /\ remaining[i].mig \in Names /\ Version[remaining[i].mig] \in Int
            /\ \A j \in 1 .. Len(remaining) : remaining[i].mig = remaining[j].mig => i = j
            /\ \A j \in 1 .. Len(remaining) : i < j =>
                  Version[remaining[i].mig] <= Version[remaining[j].mig]
      /\ \A m \in Registered[s] :
            \/ \E d \in docs : d.mig = m
            \/ \E i \in 1 .. Len(remaining) : remaining[i].mig = m
  <2>1. \A d \in docs : d.id[3] = d.mig
    BY DEF Collection
  <2> QED BY <2>1, RemainingSorted
<1>6. /\ Len(p) \in Nat /\ Len(p) >= 1 /\ p[1] = last
      /\ arg[s] = 0 => Len(p) = 1
      /\ \A i \in 2 .. Len(p) : i - 1 \in 1 .. Len(remaining) /\ p[i] = remaining[i - 1]
  <2>1. GoesOver(p, arg[s], applied, remaining)
    BY <1>1, <1>2, <1>5, PathAhead
  <2> QED BY <2>1 DEF GoesOver
<1>7. arg[s] = 0 => Len(p) = 1
  BY <1>6
<1>8. \/ p[1].id = <<s, runs[s], Base>>
      \/ \E d \in docs : d.id = p[1].id /\ d.status = "Completed"
  BY <1>4, <1>6 DEF InitialNode
<1>9. ASSUME NEW i \in 2 .. Len(p), NEW m \in Registered[s], Version[m] < Version[p[i].mig]
      PROVE  Completed(m) \/ \E j \in 2 .. i - 1 : p[j].mig = m
  <2>1. CASE \E d \in docs : d.mig = m
    BY <1>4, <2>1 DEF Completed
  <2>2. ASSUME NEW k \in 1 .. Len(remaining), remaining[k].mig = m
        PROVE  \E j \in 2 .. i - 1 : p[j].mig = m
    <3>1. i - 1 \in 1 .. Len(remaining) /\ p[i] = remaining[i - 1]
      BY <1>6
    <3>2. k # i - 1
      BY <1>5, <1>9, <2>2, <3>1
    <3>3. ~(i - 1 < k)
      BY <1>5, <1>9, <2>2, <3>1
    <3>4. k + 1 \in 2 .. i - 1 /\ k + 1 \in 2 .. Len(p) /\ (k + 1) - 1 = k
      BY <1>6, <3>2, <3>3
    <3> QED BY <1>6, <2>2, <3>4
  <2> QED BY <1>5, <2>1, <2>2
<1>10. ASSUME SeededBase, NEW i \in 2 .. Len(p) PROVE Version[p[i].mig] >= 0
  <2>1. Version[last.mig] \in Int /\ Version[last.mig] >= 0
    <3>1. PICK d \in docs : d.mig = Base
      BY <1>10 DEF Collection
    <3>2. last.mig \in Names
      BY <1>4, <3>1 DEF TypeOK, Docs
    <3> QED BY <1>4, <3>1, <3>2, VersionAssumption
  <2>2. i - 1 \in 1 .. Len(remaining) /\ p[i] = remaining[i - 1] /\ 1 \in 1 .. Len(remaining)
    BY <1>5, <1>6
  <2>3. remaining # <<>>
    BY <2>2
  <2>4. Version[remaining[1].mig] >= 0 /\ Version[remaining[1].mig] \in Int
    BY <1>3, <1>5, <2>1, <2>2, <2>3
  <2>5. CASE i - 1 = 1
    BY <2>2, <2>4, <2>5
  <2>6. CASE i - 1 # 1
    <3>1. 1 < i - 1
      BY <2>2, <2>6
    <3> QED BY <1>5, <2>2, <2>4, <3>1
  <2> QED BY <2>5, <2>6
<1>11. ASSUME NEW i \in 2 .. Len(p)
       PROVE  /\ p[i].mig \in Registered[s] /\ p[i] = NewModel(s, p[i].mig)
              /\ ~Stored(p[i].id)
              /\ \A j \in 2 .. Len(p) : p[i].mig = p[j].mig => i = j
  <2>1. i - 1 \in 1 .. Len(remaining) /\ p[i] = remaining[i - 1]
    BY <1>6
  <2>2. ASSUME NEW j \in 2 .. Len(p), p[i].mig = p[j].mig PROVE i = j
    <3>1. j - 1 \in 1 .. Len(remaining) /\ p[j] = remaining[j - 1]
      BY <1>6
    <3>2. i - 1 = j - 1
      BY <1>5, <2>1, <2>2, <3>1
    <3> QED BY <3>2
  <2> QED BY <1>5, <2>1, <2>2
<1>12. /\ path'[s] = p /\ arg'[s] = arg[s] /\ pc'[s] = "set" /\ arg[s] >= 0
       /\ \A m : Completed(m)' <=> Completed(m)
       /\ \A i : Stored(i)' <=> Stored(i)
       /\ \A m : NewModel(s, m)' = NewModel(s, m)
  BY <1>1 DEF Completed, Stored, NewModel
<1> QED
  BY <1>7, <1>8, <1>9, <1>10, <1>11, <1>12
  DEF Walk, InFlight, Descending

LEMMA LoadQuiet ==
    ASSUME LedgerInv, DistinctVersions, NEW s \in Services, LoadAndParse(s), ~Return(s),
           TypeOK', Exclusive'
    PROVE  LedgerInv'
<1>1. PICK applied \in Sorted(Applied(s, docs)), remaining \in Sorted(Remaining(s, docs)) :
         /\ Acceptable(applied, remaining)
         /\ pc' = [pc EXCEPT ![s] = "set"]
         /\ path' = [path EXCEPT ![s] = PathOf(arg[s], applied, remaining)]
         /\ UNCHANGED <<docs, effect, runs, arg>>
         /\ Recognised(s, docs)
  BY DEF LoadAndParse
<1>2. /\ TypeOK /\ Collection /\ Walk(s)
      /\ pc \in [Services -> {"idle"} \cup Loading \cup Holding]
      /\ path \in [Services -> Seq(Docs)]
  BY DEF LedgerInv, TypeOK
<1>p. PICK p : p = PathOf(arg[s], applied, remaining)
  OBVIOUS
<1>3. /\ pc'[s] = "set" /\ path'[s] = p
      /\ \A t \in Services \ {s} : /\ pc'[t] = pc[t] /\ arg'[t] = arg[t]
                                   /\ runs'[t] = runs[t] /\ path'[t] = path[t]
  BY <1>1, <1>2, <1>p
<1>4. Walk(s)'
  BY <1>1, <1>2, <1>3, <1>p, LoadedWalk
<1>5. ~InFlight(s)'
  BY <1>3 DEF InFlight
<1> QED BY <1>1, <1>3, <1>4, <1>5, QuietStep

\* UpdateOne by _id: the same documents, the one with that _id completed.
LEMMA UpdatedDocs ==
    ASSUME NEW D, D \subseteq Docs, NEW i, NEW current \in BOOLEAN
    PROVE  /\ \A d \in D : \E e \in Updated(D, i, current) :
                 /\ e.id = d.id /\ e.mig = d.mig
                 /\ d.id # i => e = d
                 /\ d.id = i => e.status = "Completed"
           /\ \A e \in Updated(D, i, current) : \E d \in D :
                 /\ e.id = d.id /\ e.mig = d.mig
                 /\ d.id # i => e = d
                 /\ d.id = i => e.status = "Completed"
           /\ (\A d, e \in D : d.id = e.id => d = e) =>
                 \A d, e \in Updated(D, i, current) : d.id = e.id => d = e
<1> DEFINE upd(d) == IF d.id = i
              THEN [d EXCEPT !.isCurrent = current, !.status = "Completed"]
              ELSE d
<1>1. \A d \in Docs : /\ upd(d).id = d.id /\ upd(d).mig = d.mig
                      /\ d.id # i => upd(d) = d
                      /\ d.id = i => upd(d).status = "Completed"
  BY DEF Docs
<1>2. Updated(D, i, current) = {upd(d) : d \in D}
  BY DEF Updated
<1> HIDE DEF upd
<1> QED BY <1>1, <1>2

LEMMA CollectionUpdated ==
    ASSUME TypeOK, Collection, NEW i, NEW current \in BOOLEAN,
           docs' = Updated(docs, i, current)
    PROVE  /\ Collection'
           /\ \A x : Stored(x)' <=> Stored(x)
           /\ \A m : Completed(m) => Completed(m)'
           /\ \A m : {d.id : d \in {e \in docs : e.mig = m}}' = {d.id : d \in {e \in docs : e.mig = m}}
<1>0. docs \subseteq Docs
  BY DEF TypeOK
<1>1. /\ \A d \in docs : \E e \in docs' :
            /\ e.id = d.id /\ e.mig = d.mig
            /\ d.id # i => e = d
            /\ d.id = i => e.status = "Completed"
      /\ \A e \in docs' : \E d \in docs :
            /\ e.id = d.id /\ e.mig = d.mig
            /\ d.id # i => e = d
            /\ d.id = i => e.status = "Completed"
  BY <1>0, UpdatedDocs
<1>2. \A d, e \in docs' : d.id = e.id => d = e
  <2>1. \A d, e \in docs : d.id = e.id => d = e
    BY DEF Collection
  <2> QED BY <1>0, <2>1, UpdatedDocs
<1>3. \A m : Completed(m) => Completed(m)'
  BY <1>1 DEF Completed
<1>4. ASSUME NEW d \in docs'
      PROVE  /\ d.id[3] = d.mig
             /\ d.mig = Base => d.id[1] = Seeder /\ d.status = "Completed"
             /\ d.mig # Base => \E s \in Services : d.mig \in Registered[s]
             /\ d.isCurrent => d.status = "Completed"
             /\ d.mig # Base => \A s \in Services : \A m \in Registered[s] :
                   Version[m] < Version[d.mig] => Completed(m)'
             /\ SeededBase => Version[d.mig] >= 0
  <2>1. PICK o \in docs : /\ d.id = o.id /\ d.mig = o.mig
                          /\ o.id # i => d = o
                          /\ o.id = i => d.status = "Completed"
    BY <1>1
  <2>2. /\ o.id[3] = o.mig
        /\ o.mig = Base => o.id[1] = Seeder /\ o.status = "Completed"
        /\ o.mig # Base => \E s \in Services : o.mig \in Registered[s]
        /\ o.isCurrent => o.status = "Completed"
        /\ SeededBase => Version[o.mig] >= 0
    BY DEF Collection
  <2>3. o.mig # Base => \A s \in Services : \A m \in Registered[s] :
                           Version[m] < Version[o.mig] => Completed(m)
    BY DEF Collection
  <2> QED BY <1>3, <2>1, <2>2, <2>3
<1>5. (\E d \in docs' : d.mig = Base) <=> SeededBase
  BY <1>1 DEF Collection
<1>6. Collection'
  BY <1>2, <1>4, <1>5 DEF Collection
<1>7. \A x : Stored(x)' <=> Stored(x)
  BY <1>1 DEF Stored
<1>8. \A m : {d.id : d \in {e \in docs' : e.mig = m}} = {d.id : d \in {e \in docs : e.mig = m}}
  BY <1>1
<1> QED BY <1>3, <1>6, <1>7, <1>8

\* A step of the running service keeps the walks of the others.
LEMMA OthersKept ==
    ASSUME LedgerInv, NEW s \in Services, InFlight(s) \/ pc[s] = "insert",
           \A t \in Services \ {s} : /\ pc'[t] = pc[t] /\ arg'[t] = arg[t]
                                     /\ runs'[t] = runs[t] /\ path'[t] = path[t],
           \A d \in docs : \E e \in docs' : e.id = d.id /\ e.mig = d.mig
                              /\ (d.status = "Completed" => e.status = "Completed"),
           \A e \in docs' : Stored(e.id) \/ e.id[1] = s
    PROVE  \A t \in Services \ {s} : Walk(t)' /\ ~InFlight(t)' /\ ~InFlight(t)
<1> SUFFICES ASSUME NEW t \in Services \ {s}
             PROVE  Walk(t)' /\ ~InFlight(t)' /\ ~InFlight(t)
  OBVIOUS
<1>1. TypeOK /\ Walk(t) /\ Exclusive
  BY DEF LedgerInv
<1>2. Running(s)
  BY DEF InFlight, Running, Holding, Ascending
<1>3. ~InFlight(t)
  BY <1>1, <1>2, Alone
<1>4. ~InFlight(t)'
  BY <1>3 DEF InFlight
<1>5. Walk(t)'
  BY <1>1, <1>3, WalkKept
<1> QED BY <1>3, <1>4, <1>5

\* The node a loop is about.
LEMMA NextNode ==
    ASSUME LedgerInv, NEW s \in Services, pc[s] \in Ascending, NEW n, n = path[s][2]
    PROVE  /\ path[s] \in Seq(Docs) /\ Len(path[s]) \in Nat /\ Len(path[s]) >= 2
           /\ 2 \in 2 .. Len(path[s])
           /\ arg[s] \in Int /\ arg[s] > 0 /\ Running(s)
           /\ n \in Docs /\ n.mig \in Registered[s] /\ n.mig \in Migrations /\ n.mig # Base
           /\ n = NewModel(s, n.mig)
           /\ n.id[1] = s /\ n.id[3] = n.mig /\ n.status = "Running" /\ ~n.isCurrent
           /\ \A m \in Registered[s] : Version[m] < Version[n.mig] => Completed(m)
           /\ SeededBase => Version[n.mig] >= 0
           /\ InFlight(s) \/ ~Stored(n.id)
<1>1. /\ Walk(s) /\ Running(s) /\ path[s] \in Seq(Docs) /\ Len(path[s]) >= 2 /\ arg[s] \in Int
  BY DEF LedgerInv, TypeOK, Running, Holding, Ascending
<1>2. Len(path[s]) \in Nat /\ 2 \in 2 .. Len(path[s])
  BY <1>1
<1>3. arg[s] > 0
  <2>1. arg[s] >= 0 /\ arg[s] # 0
    BY <1>1, <1>2 DEF Walk
  <2> QED BY <1>1, <2>1
<1>4. n \in Docs
  BY <1>1, <1>2
<1>5. /\ n.mig \in Registered[s] /\ n = NewModel(s, n.mig)
      /\ SeededBase => Version[n.mig] >= 0
      /\ InFlight(s) \/ ~Stored(n.id)
      /\ \A m \in Registered[s] : Version[m] < Version[n.mig] =>
            Completed(m) \/ \E j \in 2 .. 2 - 1 : path[s][j].mig = m
  BY <1>1, <1>2 DEF Walk
<1>6. 2 .. 2 - 1 = {}
  OBVIOUS
<1>7. n.id[1] = s /\ n.id[3] = n.mig /\ n.status = "Running"
  BY <1>5 DEF NewModel
<1>8. ~n.isCurrent
  <2>1. n.isCurrent = FALSE
    BY <1>5 DEF NewModel
  <2> QED BY <2>1
<1>9. n.mig \in Migrations /\ n.mig # Base
  BY <1>5, RegisteredAssumption, MigrationsAssumption
<1> QED BY <1>1, <1>2, <1>3, <1>4, <1>5, <1>6, <1>7, <1>8, <1>9

LEMMA InsertStep ==
    ASSUME LedgerInv, Nested, NEW s \in Services, InsertModel(s), TypeOK', Exclusive'
    PROVE  LedgerInv'
<1>n. PICK n : n = path[s][2]
  OBVIOUS
<1>1. /\ TypeOK /\ Exclusive /\ Collection /\ Accounted /\ Walk(s)
      /\ pc \in [Services -> {"idle"} \cup Loading \cup Holding]
      /\ pc[s] = "insert" /\ pc' = [pc EXCEPT ![s] = "up"]
      /\ docs' = docs \cup {n}
      /\ UNCHANGED <<effect, runs, arg, path>>
  BY <1>n DEF LedgerInv, TypeOK, InsertModel, GoOn
<1>2. /\ pc'[s] = "up" /\ InFlight(s)' /\ ~InFlight(s) /\ pc[s] \in Ascending
      /\ \A t \in Services \ {s} : /\ pc'[t] = pc[t] /\ arg'[t] = arg[t]
                                   /\ runs'[t] = runs[t] /\ path'[t] = path[t]
  BY <1>1 DEF InFlight, Ascending
<1>3. /\ Len(path[s]) \in Nat /\ Len(path[s]) >= 2 /\ 2 \in 2 .. Len(path[s])
      /\ n.mig \in Registered[s] /\ n.mig \in Migrations /\ n.mig # Base
      /\ n = NewModel(s, n.mig)
      /\ n.id[1] = s /\ n.id[3] = n.mig /\ n.status = "Running" /\ ~n.isCurrent
      /\ \A m \in Registered[s] : Version[m] < Version[n.mig] => Completed(m)
      /\ SeededBase => Version[n.mig] >= 0
      /\ ~Stored(n.id)
  BY <1>2, <1>n, NextNode
<1>4. \A t \in Services \ {s} : Walk(t)' /\ ~InFlight(t)' /\ ~InFlight(t)
  <2>1. \A e \in docs' : Stored(e.id) \/ e.id[1] = s
    BY <1>1, <1>3 DEF Stored
  <2>2. \A d \in docs : \E e \in docs' : e.id = d.id /\ e.mig = d.mig
                           /\ (d.status = "Completed" => e.status = "Completed")
    BY <1>1
  <2> QED BY <1>1, <1>2, <2>1, <2>2, OthersKept
<1>5. \A m : Completed(m) => Completed(m)'
  BY <1>1 DEF Completed
<1>6. Collection'
  <2>1. \A d, e \in docs' : d.id = e.id => d = e
    BY <1>1, <1>3 DEF Collection, Stored
  <2>2. \A d \in docs' : /\ d.id[3] = d.mig
                         /\ d.mig = Base => d.id[1] = Seeder /\ d.status = "Completed"
                         /\ d.mig # Base => \E t \in Services : d.mig \in Registered[t]
                         /\ d.isCurrent => d.status = "Completed"
    BY <1>1, <1>3 DEF Collection
  <2>3. ASSUME NEW d \in docs', d.mig # Base, NEW t \in Services, NEW m \in Registered[t],
               Version[m] < Version[d.mig]
        PROVE  Completed(m)'
    <3>1. CASE d \in docs
      BY <1>1, <1>5, <2>3, <3>1 DEF Collection
    <3>2. CASE d = n
      <4>1. m \in Registered[s]
        BY <1>3, <2>3, <3>2 DEF Nested
      <4> QED BY <1>3, <1>5, <2>3, <3>2, <4>1
    <3> QED BY <1>1, <3>1, <3>2
  <2>4. (\E d \in docs' : d.mig = Base) <=> SeededBase
    BY <1>1, <1>3 DEF Collection
  <2>5. SeededBase => \A d \in docs' : Version[d.mig] >= 0
    BY <1>1, <1>3 DEF Collection
  <2> QED BY <2>1, <2>2, <2>3, <2>4, <2>5 DEF Collection
<1>7. Walk(s)'
  <2>1. /\ arg[s] >= 0 /\ Running(s)
        /\ arg[s] = 0 => Len(path[s]) = 1
        /\ \/ path[s][1].id = <<s, runs[s], Base>>
           \/ \E d \in docs : d.id = path[s][1].id /\ d.status = "Completed"
        /\ \A i \in 2 .. Len(path[s]) :
              /\ path[s][i].mig \in Registered[s]
              /\ path[s][i] = NewModel(s, path[s][i].mig)
              /\ ~Stored(path[s][i].id)
              /\ \A j \in 2 .. Len(path[s]) : path[s][i].mig = path[s][j].mig => i = j
              /\ \A m \in Registered[s] : Version[m] < Version[path[s][i].mig] =>
                    Completed(m) \/ \E j \in 2 .. i - 1 : path[s][j].mig = m
              /\ SeededBase => Version[path[s][i].mig] >= 0
    BY <1>1, <1>2 DEF Walk, Running, Holding
  <2>2. ASSUME NEW i \in 2 .. Len(path[s]), i # 2 PROVE ~Stored(path[s][i].id)'
    <3>1. path[s][i].mig # n.mig
      BY <1>3, <1>n, <2>1, <2>2
    <3>2. path[s][i].id[3] = path[s][i].mig
      <4>1. PICK m : m = path[s][i].mig
        OBVIOUS
      <4>2. path[s][i] = NewModel(s, m)
        BY <2>1, <4>1
      <4> QED BY <4>1, <4>2 DEF NewModel
    <3>3. path[s][i].id # n.id
      BY <1>3, <3>1, <3>2
    <3> QED BY <1>1, <2>1, <3>3 DEF Stored
  <2>3. /\ path'[s] = path[s] /\ arg'[s] = arg[s] /\ runs'[s] = runs[s]
        /\ pc'[s] \notin Descending
        /\ \A m : NewModel(s, m)' = NewModel(s, m)
        /\ n \in docs' /\ docs \subseteq docs'
    BY <1>1, <1>2 DEF NewModel, Descending
  <2> QED BY <1>2, <1>3, <1>5, <1>n, <2>1, <2>2, <2>3 DEF Walk
<1>8. Accounted'
  <2>1. ASSUME NEW m \in Migrations,
               \A d \in docs' : d.mig = m =>
                  \/ d.status = "Completed"
                  \/ \E t \in Services : InFlight(t)' /\ d.id = path'[t][2].id
        PROVE  effect[m] = Cardinality(Counted(m)')
    <3>1. \A d \in docs : d.id # n.id
      BY <1>3 DEF Stored
    <3>2. \A t \in Services : InFlight(t)' => t = s
      BY <1>4
    <3>3. path'[s][2].id = n.id
      BY <1>1, <1>n
    <3>4. \A d \in docs : d.mig = m => d.status = "Completed"
      BY <1>1, <2>1, <3>1, <3>2, <3>3
    <3>5. effect[m] = Cardinality(Counted(m))
      BY <1>1, <3>4 DEF Accounted
    <3>6. \A t \in Services : pc[t] # "up" /\ (pc'[t] = "up" <=> t = s)
      BY <1>1, <1>2, <1>4 DEF InFlight
    <3>7. Counted(m)' = {i \in {d.id : d \in {e \in docs' : e.mig = m}} : i # n.id}
      BY <3>3, <3>6 DEF Counted
    <3>8. Counted(m) = {d.id : d \in {e \in docs : e.mig = m}}
      BY <3>6 DEF Counted
    <3>9. Counted(m)' = Counted(m)
      BY <1>1, <3>1, <3>7, <3>8
    <3> QED BY <3>5, <3>9
  <2>2. effect' = effect
    BY <1>1
  <2> QED BY <2>1, <2>2 DEF Accounted
<1> QED BY <1>4, <1>6, <1>7, <1>8 DEF LedgerInv

LEMMA UpStep ==
    ASSUME LedgerInv, NEW s \in Services, Up(s), TypeOK', Exclusive'
    PROVE  LedgerInv'
<1>n. PICK n : n = path[s][2]
  OBVIOUS
<1>1. /\ TypeOK /\ Exclusive /\ Collection /\ Accounted /\ Walk(s)
      /\ pc \in [Services -> {"idle"} \cup Loading \cup Holding]
      /\ effect \in [Names -> Int] /\ IsFiniteSet(docs)
      /\ pc[s] = "up" /\ pc' = [pc EXCEPT ![s] = "demote"]
      /\ effect' = [effect EXCEPT ![n.mig] = @ + 1]
      /\ UNCHANGED <<docs, runs, arg, path>>
  BY <1>n DEF LedgerInv, TypeOK, Up, GoOn
<1>2. /\ pc'[s] = "demote" /\ InFlight(s) /\ InFlight(s)' /\ pc[s] \in Ascending
      /\ \A t \in Services \ {s} : /\ pc'[t] = pc[t] /\ arg'[t] = arg[t]
                                   /\ runs'[t] = runs[t] /\ path'[t] = path[t]
  BY <1>1 DEF InFlight, Ascending
<1>3. n.mig \in Migrations /\ n.mig \in Names /\ n.id[3] = n.mig
  BY <1>2, <1>n, NextNode DEF Names
<1>4. \A t \in Services \ {s} : Walk(t)' /\ ~InFlight(t)' /\ ~InFlight(t)
  <2>1. \A e \in docs' : Stored(e.id) \/ e.id[1] = s
    BY <1>1 DEF Stored
  <2>2. \A d \in docs : \E e \in docs' : e.id = d.id /\ e.mig = d.mig
                           /\ (d.status = "Completed" => e.status = "Completed")
    BY <1>1
  <2> QED BY <1>1, <1>2, <2>1, <2>2, OthersKept
<1>5. Collection'
  BY <1>1 DEF Collection, Completed
<1>6. Walk(s)'
  <2>1. /\ \A m : Completed(m)' <=> Completed(m)
        /\ \A i : Stored(i)' <=> Stored(i)
        /\ \A m : NewModel(s, m)' = NewModel(s, m)
        /\ path'[s] = path[s] /\ arg'[s] = arg[s] /\ runs'[s] = runs[s]
        /\ pc'[s] \notin Descending
    BY <1>1, <1>2 DEF Completed, Stored, NewModel, Descending
  <2>2. Running(s) /\ Running(s)'
    BY <1>1, <1>2 DEF Running, Holding, Ascending
  <2> QED BY <1>1, <1>2, <2>1, <2>2 DEF Walk
<1>7. Accounted'
  <2>1. ASSUME NEW m \in Migrations,
               \A d \in docs' : d.mig = m =>
                  \/ d.status = "Completed"
                  \/ \E t \in Services : InFlight(t)' /\ d.id = path'[t][2].id
        PROVE  effect'[m] = Cardinality(Counted(m)')
    <3> DEFINE all == {d.id : d \in {e \in docs : e.mig = m}}
    <3>1. \A t \in Services : InFlight(t)' => InFlight(t)
      BY <1>2, <1>4
    <3>2. effect[m] = Cardinality(Counted(m))
      BY <1>1, <2>1, <3>1 DEF Accounted
    <3>3. \A t \in Services : pc'[t] # "up" /\ (pc[t] = "up" <=> t = s)
      BY <1>1, <1>2, <1>4 DEF InFlight
    <3>4. Counted(m)' = all
      BY <1>1, <3>3 DEF Counted
    <3>5. Counted(m) = all \ {n.id}
      BY <1>n, <3>3 DEF Counted
    <3>6. IsFiniteSet(all)
      <4> DEFINE f == [d \in {e \in docs : e.mig = m} |-> d.id]
      <4>1. IsFiniteSet({e \in docs : e.mig = m})
        BY <1>1, FS_Subset
      <4>2. f \in Surjection({e \in docs : e.mig = m}, all)
        BY DEF Surjection
      <4> QED BY <4>1, <4>2, FS_Surjection
    <3>7. n.id \in all <=> m = n.mig
      <4>1. PICK d \in docs : d.id = n.id
        BY <1>1, <1>2, <1>n DEF Walk
      <4>2. \A e \in docs : e.id = n.id => e.mig = n.mig
        BY <1>1, <1>3 DEF Collection
      <4> QED BY <4>1, <4>2
    <3> HIDE DEF all
    <3>8. Cardinality(all) \in Int
      BY <3>6, FS_CardinalityType
    <3>9. Cardinality(all \ {n.id}) = IF n.id \in all THEN Cardinality(all) - 1 ELSE Cardinality(all)
      BY <3>6, FS_RemoveElement
    <3>10. effect'[m] = IF m = n.mig THEN effect[m] + 1 ELSE effect[m]
      BY <1>1, <1>3 DEF Names
    <3> QED BY <3>2, <3>4, <3>5, <3>7, <3>8, <3>9, <3>10
  <2> QED BY <2>1 DEF Accounted
<1> QED BY <1>4, <1>5, <1>6, <1>7 DEF LedgerInv

LEMMA DemoteStep ==
    ASSUME LedgerInv, NEW s \in Services, DemotePrevious(s), TypeOK', Exclusive'
    PROVE  LedgerInv'
<1>n. PICK n : n = path[s][2]
  OBVIOUS
<1>i. PICK i : i = path[s][1].id
  OBVIOUS
<1>b. PICK no : no = FALSE
  OBVIOUS
<1>1. /\ TypeOK /\ Exclusive /\ Collection /\ Accounted /\ Walk(s) /\ docs \subseteq Docs
      /\ pc \in [Services -> {"idle"} \cup Loading \cup Holding]
      /\ pc[s] = "demote" /\ pc' = [pc EXCEPT ![s] = "promote"]
      /\ UNCHANGED <<effect, runs, arg, path>>
  BY DEF LedgerInv, TypeOK, DemotePrevious, GoOn
<1>2. docs' = Updated(docs, i, no) /\ no \in BOOLEAN
  <2>1. docs' = Updated(docs, i, no)
    BY <1>i, <1>b, Zenon DEF DemotePrevious
  <2>2. no \in BOOLEAN
    BY <1>b
  <2> QED BY <2>1, <2>2
<1>3. /\ pc'[s] = "promote" /\ InFlight(s) /\ InFlight(s)' /\ pc[s] \in Ascending
      /\ \A t \in Services \ {s} : /\ pc'[t] = pc[t] /\ arg'[t] = arg[t]
                                   /\ runs'[t] = runs[t] /\ path'[t] = path[t]
  BY <1>1 DEF InFlight, Ascending
<1>4. n.mig # Base /\ n.id[3] = n.mig
  BY <1>3, <1>n, NextNode
<1>5. /\ \A d \in docs : \E e \in docs' :
            /\ e.id = d.id /\ e.mig = d.mig
            /\ d.id # i => e = d
            /\ d.id = i => e.status = "Completed"
      /\ \A e \in docs' : \E d \in docs :
            /\ e.id = d.id /\ e.mig = d.mig
            /\ d.id # i => e = d
            /\ d.id = i => e.status = "Completed"
  BY <1>1, <1>2, UpdatedDocs
<1>6. /\ Collection'
      /\ \A x : Stored(x)' <=> Stored(x)
      /\ \A m : Completed(m) => Completed(m)'
      /\ \A m : {d.id : d \in {e \in docs : e.mig = m}}' = {d.id : d \in {e \in docs : e.mig = m}}
  BY <1>1, <1>2, CollectionUpdated
<1>7. \A t \in Services \ {s} : Walk(t)' /\ ~InFlight(t)' /\ ~InFlight(t)
  <2>1. \A e \in docs' : Stored(e.id) \/ e.id[1] = s
    BY <1>5 DEF Stored
  <2>2. \A d \in docs : \E e \in docs' : e.id = d.id /\ e.mig = d.mig
                           /\ (d.status = "Completed" => e.status = "Completed")
    BY <1>5
  <2> QED BY <1>1, <1>3, <2>1, <2>2, OthersKept
\* The previous node was completed before.
<1>8. \A d \in docs : d.id = i => d.status = "Completed"
  <2>1. \/ i = <<s, runs[s], Base>>
        \/ \E d \in docs : d.id = i /\ d.status = "Completed"
    BY <1>1, <1>3, <1>i DEF Walk, Running, Holding, Ascending
  <2>2. i[3] = Base => \A d \in docs : d.id = i => d.status = "Completed"
    BY <1>1 DEF Collection
  <2> QED BY <1>1, <2>1, <2>2 DEF Collection
<1>9. Walk(s)'
  <2>1. \E d \in docs' : d.id = n.id /\ d.status = "Running"
    <3>1. PICK d \in docs : d.id = n.id /\ d.status = "Running"
      BY <1>1, <1>3, <1>n DEF Walk
    <3>2. d.id # i
      BY <1>8, <3>1
    <3> QED BY <1>5, <3>1, <3>2
  <2>2. /\ \A m : NewModel(s, m)' = NewModel(s, m)
        /\ path'[s] = path[s] /\ arg'[s] = arg[s] /\ runs'[s] = runs[s]
        /\ pc'[s] \notin Descending
    BY <1>1, <1>3 DEF NewModel, Descending
  <2>3. Running(s) /\ Running(s)'
    BY <1>1, <1>3 DEF Running, Holding, Ascending
  <2>4. \A x : (\E d \in docs : d.id = x /\ d.status = "Completed") =>
               \E d \in docs' : d.id = x /\ d.status = "Completed"
    BY <1>5
  <2>5. /\ arg[s] >= 0
        /\ arg[s] = 0 => Len(path[s]) = 1
        /\ \/ path[s][1].id = <<s, runs[s], Base>>
           \/ \E d \in docs : d.id = path[s][1].id /\ d.status = "Completed"
        /\ \A k \in 2 .. Len(path[s]) :
              /\ path[s][k].mig \in Registered[s]
              /\ path[s][k] = NewModel(s, path[s][k].mig)
              /\ k = 2 \/ ~Stored(path[s][k].id)
              /\ \A j \in 2 .. Len(path[s]) : path[s][k].mig = path[s][j].mig => k = j
              /\ \A m \in Registered[s] : Version[m] < Version[path[s][k].mig] =>
                    Completed(m) \/ \E j \in 2 .. k - 1 : path[s][j].mig = m
              /\ SeededBase => Version[path[s][k].mig] >= 0
    BY <1>1, <2>3 DEF Walk
  <2>6. \/ path[s][1].id = <<s, runs[s], Base>>
        \/ \E d \in docs' : d.id = path[s][1].id /\ d.status = "Completed"
    BY <2>4, <2>5
  <2>7. InFlight(s)' /\ \E d \in docs' : d.id = path'[s][2].id /\ d.status = "Running"
    BY <1>3, <1>n, <2>1, <2>2
  <2> QED BY <1>6, <2>2, <2>3, <2>5, <2>6, <2>7 DEF Walk
<1>10. Accounted'
  <2>1. ASSUME NEW m \in Migrations,
               \A d \in docs' : d.mig = m =>
                  \/ d.status = "Completed"
                  \/ \E t \in Services : InFlight(t)' /\ d.id = path'[t][2].id
        PROVE  effect'[m] = Cardinality(Counted(m)')
    <3>1. \A t \in Services : InFlight(t)' => InFlight(t)
      BY <1>3, <1>7
    <3>2. ASSUME NEW d \in docs, d.mig = m
          PROVE  \/ d.status = "Completed"
                 \/ \E t \in Services : InFlight(t) /\ d.id = path[t][2].id
      <4>1. CASE d.id = i
        BY <1>8, <4>1
      <4>2. CASE d.id # i
        <5>1. d \in docs'
          BY <1>5, <4>2
        <5> QED BY <1>1, <2>1, <3>1, <3>2, <5>1
      <4> QED BY <4>1, <4>2
    <3>3. effect[m] = Cardinality(Counted(m))
      BY <1>1, <3>2 DEF Accounted
    <3>4. \A t \in Services : pc'[t] # "up" /\ pc[t] # "up"
      BY <1>1, <1>3, <1>7 DEF InFlight
    <3>5. Counted(m)' = Counted(m)
      BY <1>6, <3>4 DEF Counted
    <3> QED BY <1>1, <3>3, <3>5
  <2> QED BY <2>1 DEF Accounted
<1> QED BY <1>6, <1>7, <1>9, <1>10 DEF LedgerInv

LEMMA PromoteStep ==
    ASSUME LedgerInv, NEW s \in Services, PromoteCurrent(s), TypeOK', Exclusive'
    PROVE  LedgerInv'
<1>n. PICK n : n = path[s][2]
  OBVIOUS
<1>p. PICK p : p = path[s]
  OBVIOUS
<1>q. PICK q : q = Tail(p)
  OBVIOUS
<1>i. PICK i : i = n.id
  OBVIOUS
<1>b. PICK yes : yes = TRUE
  OBVIOUS
<1>1. /\ TypeOK /\ Exclusive /\ Collection /\ Accounted /\ Walk(s) /\ docs \subseteq Docs
      /\ pc \in [Services -> {"idle"} \cup Loading \cup Holding]
      /\ path \in [Services -> Seq(Docs)]
      /\ pc[s] = "promote" /\ pc' = [pc EXCEPT ![s] = LoopHead(s, q)]
      /\ path' = [path EXCEPT ![s] = q]
      /\ UNCHANGED <<effect, runs, arg>>
  BY <1>p, <1>q DEF LedgerInv, TypeOK, PromoteCurrent, ReachNext, GoOn
<1>2. docs' = Updated(docs, i, yes) /\ yes \in BOOLEAN
  <2>1. docs' = Updated(docs, i, yes)
    BY <1>n, <1>i, <1>b, Zenon DEF PromoteCurrent, ReachNext
  <2>2. yes \in BOOLEAN
    BY <1>b
  <2> QED BY <2>1, <2>2
<1>3. /\ InFlight(s) /\ Running(s) /\ pc[s] \in Ascending
  BY <1>1 DEF InFlight, Ascending, Running, Holding
<1>4. /\ p \in Seq(Docs) /\ Len(p) \in Nat /\ Len(p) >= 2 /\ 2 \in 2 .. Len(p)
      /\ arg[s] \in Int /\ arg[s] > 0
      /\ n.mig # Base /\ n.id[3] = n.mig
  BY <1>3, <1>n, <1>p, NextNode
<1>5. /\ q \in Seq(Docs) /\ Len(q) = Len(p) - 1
      /\ q[1] = n
      /\ \A k \in 2 .. Len(p) - 1 : q[k] = p[k + 1]
  BY <1>4, <1>n, <1>p, <1>q
<1>6. LoopHead(s, q) \in {"remove", "insert"}
  BY <1>4, <1>5 DEF LoopHead
<1>7. /\ pc'[s] \in {"remove", "insert"} /\ path'[s] = q
      /\ ~InFlight(s)' /\ pc'[s] \notin Descending
      /\ \A t \in Services \ {s} : /\ pc'[t] = pc[t] /\ arg'[t] = arg[t]
                                   /\ runs'[t] = runs[t] /\ path'[t] = path[t]
  BY <1>1, <1>6 DEF InFlight, Descending
<1>8. /\ \A d \in docs : \E e \in docs' :
            /\ e.id = d.id /\ e.mig = d.mig
            /\ d.id # i => e = d
            /\ d.id = i => e.status = "Completed"
      /\ \A e \in docs' : \E d \in docs :
            /\ e.id = d.id /\ e.mig = d.mig
            /\ d.id # i => e = d
            /\ d.id = i => e.status = "Completed"
  <2>1. docs \subseteq Docs
    BY <1>1
  <2> QED BY <1>2, <2>1, UpdatedDocs
<1>9. /\ Collection'
      /\ \A x : Stored(x)' <=> Stored(x)
      /\ \A m : Completed(m) => Completed(m)'
      /\ \A m : {d.id : d \in {e \in docs : e.mig = m}}' = {d.id : d \in {e \in docs : e.mig = m}}
  BY <1>1, <1>2, CollectionUpdated
<1>10. \A t \in Services \ {s} : Walk(t)' /\ ~InFlight(t)' /\ ~InFlight(t)
  <2>1. \A e \in docs' : Stored(e.id) \/ e.id[1] = s
    BY <1>8 DEF Stored
  <2>2. \A d \in docs : \E e \in docs' : e.id = d.id /\ e.mig = d.mig
                           /\ (d.status = "Completed" => e.status = "Completed")
    BY <1>8
  <2> QED BY <1>1, <1>3, <1>7, <2>1, <2>2, OthersKept
\* The node reached is the last the walk has completed.
<1>11. (\E d \in docs' : d.id = i /\ d.status = "Completed") /\ Completed(n.mig)'
  <2>1. PICK d \in docs : d.id = i
    BY <1>1, <1>3, <1>n, <1>i DEF Walk
  <2>2. PICK e \in docs' : e.id = i /\ e.mig = d.mig /\ e.status = "Completed"
    BY <1>8, <2>1
  <2>3. d.mig = n.mig
    BY <1>1, <1>4, <1>i, <2>1 DEF Collection
  <2> QED BY <2>2, <2>3 DEF Completed
<1>12. \A k \in 2 .. Len(p) :
          /\ p[k].mig \in Registered[s]
          /\ p[k] = NewModel(s, p[k].mig)
          /\ k = 2 \/ ~Stored(p[k].id)
          /\ \A j \in 2 .. Len(p) : p[k].mig = p[j].mig => k = j
          /\ \A m \in Registered[s] : Version[m] < Version[p[k].mig] =>
                Completed(m) \/ \E j \in 2 .. k - 1 : p[j].mig = m
          /\ SeededBase => Version[p[k].mig] >= 0
  BY <1>1, <1>3, <1>p DEF Walk
<1>13. ASSUME NEW k \in 2 .. Len(p) - 1
       PROVE  /\ q[k].mig \in Registered[s]
              /\ q[k] = NewModel(s, q[k].mig)
              /\ ~Stored(q[k].id)
              /\ \A j \in 2 .. Len(p) - 1 : q[k].mig = q[j].mig => k = j
              /\ \A m \in Registered[s] : Version[m] < Version[q[k].mig] =>
                    Completed(m)' \/ \E j \in 2 .. k - 1 : q[j].mig = m
              /\ SeededBase => Version[q[k].mig] >= 0
  <2>1. k + 1 \in 2 .. Len(p) /\ k + 1 # 2 /\ q[k] = p[k + 1]
    BY <1>4, <1>5
  <2>2. ASSUME NEW j \in 2 .. Len(p) - 1, q[k].mig = q[j].mig PROVE k = j
    <3>1. j + 1 \in 2 .. Len(p) /\ q[j] = p[j + 1]
      BY <1>4, <1>5
    <3>2. k + 1 = j + 1
      BY <1>12, <2>1, <2>2, <3>1
    <3> QED BY <3>2
  <2>3. ASSUME NEW m \in Registered[s], Version[m] < Version[q[k].mig]
        PROVE  Completed(m)' \/ \E j \in 2 .. k - 1 : q[j].mig = m
    <3>1. CASE Completed(m)
      BY <1>9, <3>1
    <3>2. ASSUME NEW j \in 2 .. (k + 1) - 1, p[j].mig = m
          PROVE  Completed(m)' \/ \E l \in 2 .. k - 1 : q[l].mig = m
      <4>1. CASE j = 2
        BY <1>11, <1>n, <1>p, <3>2, <4>1
      <4>2. CASE j # 2
        <5>1. j - 1 \in 2 .. k - 1 /\ j - 1 \in 2 .. Len(p) - 1 /\ (j - 1) + 1 = j
          BY <1>4, <4>2
        <5>2. q[j - 1] = p[j]
          BY <1>5, <5>1
        <5> QED BY <3>2, <5>1, <5>2
      <4> QED BY <4>1, <4>2
    <3> QED BY <1>12, <2>1, <2>3, <3>1, <3>2
  <2> QED BY <1>12, <2>1, <2>2, <2>3
<1>14. Walk(s)'
  <2>1. /\ arg'[s] >= 0 /\ arg'[s] # 0 /\ Len(q) = Len(p) - 1 /\ q[1].id = i
        /\ \A m : NewModel(s, m)' = NewModel(s, m)
    BY <1>1, <1>4, <1>5, <1>i DEF NewModel
  <2>2. \A k \in 2 .. Len(q) :
           /\ q[k].mig \in Registered[s]
           /\ q[k] = NewModel(s, q[k].mig)'
           /\ ~Stored(q[k].id)'
           /\ \A j \in 2 .. Len(q) : q[k].mig = q[j].mig => k = j
           /\ \A m \in Registered[s] : Version[m] < Version[q[k].mig] =>
                 Completed(m)' \/ \E j \in 2 .. k - 1 : q[j].mig = m
           /\ SeededBase => Version[q[k].mig] >= 0
    BY <1>9, <1>13, <2>1
  <2>3. \E d \in docs' : d.id = q[1].id /\ d.status = "Completed"
    BY <1>11, <2>1
  <2> QED BY <1>7, <2>1, <2>2, <2>3 DEF Walk
<1>15. Accounted'
  <2>1. ASSUME NEW m \in Migrations,
               \A d \in docs' : d.mig = m =>
                  \/ d.status = "Completed"
                  \/ \E t \in Services : InFlight(t)' /\ d.id = path'[t][2].id
        PROVE  effect'[m] = Cardinality(Counted(m)')
    <3>1. \A t \in Services : ~InFlight(t)'
      BY <1>7, <1>10
    <3>2. ASSUME NEW d \in docs, d.mig = m
          PROVE  \/ d.status = "Completed"
                 \/ \E t \in Services : InFlight(t) /\ d.id = path[t][2].id
      <4>1. CASE d.id = i
        BY <1>3, <1>n, <1>i, <4>1
      <4>2. CASE d.id # i
        <5>1. d \in docs'
          BY <1>8, <4>2
        <5> QED BY <2>1, <3>1, <3>2, <5>1
      <4> QED BY <4>1, <4>2
    <3>3. effect[m] = Cardinality(Counted(m))
      BY <1>1, <3>2 DEF Accounted
    <3>4. \A t \in Services : pc'[t] # "up" /\ pc[t] # "up"
      BY <1>1, <1>7, <1>10 DEF InFlight
    <3>5. Counted(m)' = Counted(m)
      BY <1>9, <3>4 DEF Counted
    <3> QED BY <1>1, <3>3, <3>5
  <2> QED BY <2>1 DEF Accounted
<1> QED BY <1>9, <1>10, <1>14, <1>15 DEF LedgerInv

LEMMA LedgerInit == Init => LedgerInv
<1> SUFFICES ASSUME Init PROVE LedgerInv
  OBVIOUS
<1>1. /\ \A s \in Services : pc[s] = "idle" /\ arg[s] = 0
      /\ effect = [m \in Names |-> 0]
      /\ docs = IF SeededBase THEN {StoredBase} ELSE {}
      /\ SeededBase \in BOOLEAN
  BY BoundsAssumption DEF Init
<1>2. TypeOK /\ Exclusive
  BY <1>1, TypeInit DEF Exclusive, MutualExclusion, Running, Holding, Ascending,
     Descending
<1>3. \A d \in docs : /\ d = StoredBase /\ d.id[1] = Seeder /\ d.id[3] = Base
                      /\ d.mig = Base /\ d.status = "Completed"
  BY <1>1 DEF StoredBase
<1>4. Version[Base] = 0
  BY VersionAssumption
<1>5. Collection
  <2>1. (\E d \in docs : d.mig = Base) <=> SeededBase
    <3>1. CASE SeededBase
      BY <1>1, <3>1 DEF StoredBase
    <3>2. CASE ~SeededBase
      BY <1>1, <3>2
    <3> QED BY <3>1, <3>2
  <2> QED BY <1>3, <1>4, <2>1 DEF Collection
<1>6. \A s \in Services : Walk(s)
  BY <1>1 DEF Walk, InFlight, Running, Holding, Ascending, Descending
<1>7. ASSUME NEW m \in Migrations PROVE effect[m] = Cardinality(Counted(m))
  <2>1. m # Base /\ m \in Names
    BY MigrationsAssumption DEF Names
  <2>2. Counted(m) = {}
    BY <1>3, <2>1 DEF Counted
  <2> QED BY <1>1, <2>1, <2>2, FS_EmptySet
<1> QED BY <1>2, <1>5, <1>6, <1>7 DEF LedgerInv, Accounted

\* Every step of a service that only goes forward keeps the ledger.
LEMMA LedgerStep ==
    ASSUME Forward, DistinctVersions, Nested
    PROVE  LedgerInv /\ [Next]_vars => LedgerInv'
<1> SUFFICES ASSUME LedgerInv, [Next]_vars PROVE LedgerInv'
  OBVIOUS
<1>1. TypeOK' /\ Exclusive'
  BY TypeStep, ExclusiveStep DEF LedgerInv
<1>2. CASE UNCHANGED vars
  <2>1. Collection' /\ Accounted' /\ \A s \in Services : Walk(s)'
    BY <1>2
    DEF vars, LedgerInv, Collection, Accounted, Counted, Completed, Walk, Stored,
        InFlight, Running, NewModel
  <2> QED BY <1>1, <2>1 DEF LedgerInv
<1>3. ASSUME NEW s \in Services, Call(s) \/ RunStep(s) \/ Abort(s)
      PROVE  LedgerInv'
  <2>1. CASE Call(s)
    BY <1>1, <2>1, CheckQuiet
  <2>2. CASE IsMigrationRunning(s)
    <3>1. CASE Return(s)
      BY <1>1, <2>2, <3>1, ReturnQuiet DEF IsMigrationRunning
    <3>2. CASE ~Return(s)
      BY <1>1, <2>2, <3>2, CheckQuiet
    <3> QED BY <3>1, <3>2
  <2>3. CASE LoadAndParse(s)
    <3>1. CASE Return(s)
      BY <1>1, <2>3, <3>1, ReturnQuiet DEF LoadAndParse
    <3>2. CASE ~Return(s)
      BY <1>1, <2>3, <3>2, LoadQuiet
    <3> QED BY <3>1, <3>2
  <2>4. CASE SetMigrationToRunning(s)
    <3>1. CASE Return(s)
      BY <1>1, <2>4, <3>1, ReturnQuiet DEF SetMigrationToRunning
    <3>2. CASE ~Return(s)
      BY <1>1, <2>4, <3>2, SetQuiet
    <3> QED BY <3>1, <3>2
  <2>5. CASE InsertModel(s)
    BY <1>1, <2>5, InsertStep
  <2>6. CASE Up(s)
    BY <1>1, <2>6, UpStep
  <2>7. CASE DemotePrevious(s)
    BY <1>1, <2>7, DemoteStep
  <2>8. CASE PromoteCurrent(s)
    BY <1>1, <2>8, PromoteStep
  <2>9. CASE Down(s) \/ DeleteModel(s) \/ RestoreCurrent(s)
    <3>1. pc[s] \notin Descending
      BY DEF LedgerInv, Walk
    <3> QED BY <2>9, <3>1 DEF Down, DeleteModel, RestoreCurrent, Descending
  <2>10. CASE RemoveMigrationFromRunning(s)
    BY <1>1, <2>10, ReturnQuiet DEF RemoveMigrationFromRunning
  <2>11. CASE Abort(s)
    BY <1>1, <2>11, ReturnQuiet DEF Abort
  <2> QED
    BY <1>3, <2>1, <2>2, <2>3, <2>4, <2>5, <2>6, <2>7, <2>8, <2>9, <2>10, <2>11
    DEF RunStep
<1> QED BY <1>2, <1>3 DEF Next

\* A history that some service accepts has no document of a failed run, so
\* every migration is accounted for, and none is listed twice.
LEMMA LedgerTells ==
    ASSUME DistinctVersions, LedgerInv
    PROVE  AcceptedIsConsistent
<1> SUFFICES ASSUME \A s \in Services : ~Running(s), NEW s \in Services, Trusted(s),
                    NEW m \in Migrations
             PROVE  effect[m] = Cardinality({d \in docs : d.mig = m})
  BY DEF AcceptedIsConsistent
<1>1. /\ TypeOK /\ Collection /\ Accounted /\ Recognised(s, docs)
      /\ m # Base
  BY MigrationsAssumption DEF LedgerInv, Trusted
<1>2. \A d \in docs : d.status = "Completed"
  <2>1. PICK q \in Sorted(Applied(s, docs)) : q[Len(q)].isCurrent
    BY DEF Trusted, Acceptable
  <2> QED BY <1>1, <2>1, AcceptedIsCompleted
<1>3. effect[m] = Cardinality(Counted(m))
  BY <1>1, <1>2 DEF Accounted
<1>4. \A t \in Services : pc[t] # "up"
  BY DEF Running, Holding, Ascending
<1>5. Counted(m) = {d.id : d \in {e \in docs : e.mig = m}}
  BY <1>4 DEF Counted
<1>6. CASE \E d \in docs : d.mig = m
  <2>1. PICK d \in docs : d.mig = m
    BY <1>6
  <2>2. \A e \in docs : e.mig = m => e = d
    BY <1>1, <2>1 DEF Recognised
  <2>3. {e \in docs : e.mig = m} = {d}
    BY <2>1, <2>2
  <2>4. Counted(m) = {d.id}
    BY <1>5, <2>3
  <2> QED BY <1>3, <2>3, <2>4, FS_Singleton
<1>7. CASE ~ \E d \in docs : d.mig = m
  <2>1. {e \in docs : e.mig = m} = {} /\ Counted(m) = {}
    BY <1>5, <1>7
  <2> QED BY <1>3, <2>1
<1> QED BY <1>6, <1>7

\* The checks of ParseAndSortMigrations (node.go:30-97) against
\* ApplyMigrationForward's order of insertion, Up and updates, for any number
\* of services, runs and faults: a collection that some service would take as
\* its history lists exactly what was applied, also when a run died in the
\* middle and only its marker still stands in the way, as long as the runs go
\* forward, versions tell migrations apart and a service that knows a
\* migration knows the older ones.
THEOREM AcceptedHistoryIsTrue ==
    ASSUME Forward, DistinctVersions, Nested
    PROVE  Spec => []AcceptedIsConsistent
<1>1. LedgerInv /\ [Next]_vars => LedgerInv'
  BY LedgerStep
<1>2. LedgerInv => AcceptedIsConsistent
  BY LedgerTells
<1> QED BY <1>1, <1>2, LedgerInit, PTL DEF Spec

-----------------------------------------------------------------------------
(* One service alone: forward and backward, wherever a run fails.          *)

Sole == \A s, t \in Services : s = t

Listed(m) == \E d \in docs : d.mig = m

\* The documents, whatever happened: one for each migration, the base document
\* if it was there from the start, and nothing older.
Shelf ==
    /\ \A d, e \in docs : d.mig = e.mig => d = e
    /\ \A d \in docs : d.id[3] = d.mig /\ (d.mig # Base => Version[d.mig] > 0)
    /\ Listed(Base) <=> SeededBase

\* Between two runs.
Balanced ==
    /\ \A m \in Migrations : effect[m] = IF Listed(m) THEN 1 ELSE 0
    /\ \A d \in docs :
          /\ d.status = "Completed"
          /\ d.isCurrent <=> \A e \in docs : Version[e.mig] <= Version[d.mig]

\* In the course of a run: the migration that has a document and whose Up or
\* Down makes the difference, the one whose document is not completed, and the
\* current one, of which there is none between the two updates of an iteration.
Tally(s) ==
    /\ \A m \in Migrations : effect[m] =
          IF /\ Listed(m)
             /\ pc[s] = "up" => m # path[s][2].mig
             /\ pc[s] = "delete" => m # path[s][1].mig
          THEN 1 ELSE 0
    /\ \A d \in docs :
          /\ d.status = "Completed" \/ (InFlight(s) /\ d.mig = path[s][2].mig)
          /\ d.isCurrent <=> d.mig = path[s][1].mig /\ pc[s] \notin {"promote", "restore"}

\* The path of a forward run leads from the newest document over migrations
\* that have none, in the order of versions and leaving none out.
Climb(s) ==
    /\ pc[s] \notin Descending /\ (arg[s] = 0 => Len(path[s]) = 1)
    /\ \A d \in docs : \/ Version[d.mig] <= Version[path[s][1].mig]
                       \/ InFlight(s) /\ d.mig = path[s][2].mig
    /\ Listed(path[s][1].mig) \/ path[s][1].mig = Base
    /\ \A i \in 2 .. Len(path[s]) :
          /\ path[s][i].mig \in Registered[s]
          /\ path[s][i] = NewModel(s, path[s][i].mig)
          /\ Listed(path[s][i].mig) <=> InFlight(s) /\ i = 2
    /\ \A i, j \in 1 .. Len(path[s]) :
          i < j => Version[path[s][i].mig] < Version[path[s][j].mig]
    /\ \A m \in Registered[s] :
          \/ Listed(m)
          \/ \E i \in 2 .. Len(path[s]) : path[s][i].mig = m
          \/ Version[path[s][Len(path[s])].mig] < Version[m]

\* The path of a backward run leads from the newest document to older ones and
\* leaves none out.
Descent(s) ==
    /\ pc[s] \notin Ascending
    /\ \A i \in 1 .. Len(path[s]) :
          IF pc[s] = "restore" /\ i = 1
          THEN ~Listed(path[s][i].mig) ELSE Listed(path[s][i].mig) \/ path[s][i].mig = Base
    /\ \A i, j \in 1 .. Len(path[s]) :
          i < j => Version[path[s][j].mig] < Version[path[s][i].mig]
    /\ \A d \in docs : \/ \E i \in 1 .. Len(path[s]) : path[s][i].mig = d.mig
                       \/ Version[d.mig] < Version[path[s][Len(path[s])].mig]

\* What holds of the documents and of the place in its loop of a run that has
\* loaded them.
OnCourse(s) == pc[s] = "set" \/ Running(s) =>
    /\ Tally(s)
    /\ \A i \in 1 .. Len(path[s]) :
          /\ path[s][i].id[3] = path[s][i].mig
          /\ \A d \in docs : path[s][i].mig = d.mig => path[s][i].id = d.id
    /\ IF arg[s] >= 0 THEN Climb(s) ELSE Descent(s)

BookInv ==
    /\ TypeOK /\ Exclusive /\ Shelf
    /\ ~marker => Balanced
    /\ \A s \in Services : /\ pc[s] \in {"load", "set"} => ~marker
                           /\ OnCourse(s)

\* The newest document is the one at which a run starts and ends.
LEMMA NewestIs ==
    ASSUME TypeOK, Shelf, DistinctVersions, NEW b \in Names,
           \A d \in docs : Version[d.mig] <= Version[b], Listed(b) \/ b = Base
    PROVE  \A d \in docs : d.mig = b <=>
                           \A e \in docs : Version[e.mig] <= Version[d.mig]
<1>1. /\ \A d \in docs : d.mig \in Names /\ Version[d.mig] \in Int
      /\ Version[b] \in Int /\ Version[Base] = 0
  BY VersionAssumption DEF TypeOK, Docs
<1>2. ASSUME NEW d \in docs, \A e \in docs : Version[e.mig] <= Version[d.mig]
      PROVE  d.mig = b
  <2>1. Listed(b)
    <3>1. CASE ~Listed(b)
      <4>1. b = Base /\ d.mig # Base
        BY <3>1 DEF Listed
      <4>2. Version[d.mig] > 0 /\ Version[d.mig] <= 0
        BY <1>1, <4>1 DEF Shelf
      <4> QED BY <1>1, <4>2
    <3> QED BY <3>1
  <2>2. PICK e \in docs : e.mig = b
    BY <2>1 DEF Listed
  <2>3. Version[d.mig] = Version[b]
    BY <1>1, <1>2, <2>2
  <2> QED BY <1>1, <2>3 DEF DistinctVersions
<1> QED BY <1>2

\* What UpdateOne does to the shelf.
LEMMA UpdatedShelf ==
    ASSUME TypeOK, Shelf, NEW i, NEW current \in BOOLEAN,
           docs' = Updated(docs, i, current)
    PROVE  /\ Shelf'
           /\ \A m : Listed(m)' <=> Listed(m)
           /\ \A e \in docs' : \E d \in docs :
                 /\ e.id = d.id /\ e.mig = d.mig
                 /\ d.id # i => e = d
                 /\ d.id = i => e.status = "Completed" /\ (e.isCurrent <=> current)
<1> DEFINE upd(d) == IF d.id = i
              THEN [d EXCEPT !.isCurrent = current, !.status = "Completed"]
              ELSE d
<1>1. \A d \in Docs : /\ upd(d).id = d.id /\ upd(d).mig = d.mig
                      /\ d.id # i => upd(d) = d
                      /\ d.id = i => upd(d).status = "Completed"
  BY DEF Docs
<1>2. \A d \in Docs : d.id = i => (upd(d).isCurrent <=> current)
  BY DEF Docs
<1>3. docs' = {upd(d) : d \in docs} /\ docs \subseteq Docs
  BY DEF Updated, TypeOK
<1> HIDE DEF upd
<1>4. \A e \in docs' : \E d \in docs :
         /\ e = upd(d) /\ e.id = d.id /\ e.mig = d.mig
         /\ d.id # i => e = d
         /\ d.id = i => e.status = "Completed" /\ (e.isCurrent <=> current)
  BY <1>1, <1>2, <1>3
<1>5. \A d \in docs : upd(d) \in docs' /\ upd(d).mig = d.mig
  BY <1>1, <1>3
<1>6. \A m : Listed(m)' <=> Listed(m)
  BY <1>4, <1>5 DEF Listed
<1>7. Shelf'
  <2>1. ASSUME NEW d \in docs', NEW e \in docs', d.mig = e.mig PROVE d = e
    <3>1. PICK a \in docs : d = upd(a) /\ d.mig = a.mig
      BY <1>4
    <3>2. PICK b \in docs : e = upd(b) /\ e.mig = b.mig
      BY <1>4
    <3>3. a = b
      BY <2>1, <3>1, <3>2 DEF Shelf
    <3> QED BY <3>1, <3>2, <3>3
  <2>2. ASSUME NEW e \in docs'
        PROVE  e.id[3] = e.mig /\ (e.mig # Base => Version[e.mig] > 0)
    BY <1>4 DEF Shelf
  <2> QED BY <1>6, <2>1, <2>2 DEF Shelf
<1> QED BY <1>4, <1>6, <1>7

\* A step of the one service, in its loops or not.
LEMMA BookKept ==
    ASSUME Sole, NEW s \in Services, TypeOK', Exclusive', Shelf',
           Running(s)' \/ (~marker' => Balanced'),
           pc'[s] \in {"load", "set"} => ~marker', OnCourse(s)'
    PROVE  BookInv'
<1>1. \A t \in Services : t = s
  BY DEF Sole
<1>2. Running(s)' => marker'
  BY DEF Exclusive
<1> QED BY <1>1, <1>2 DEF BookInv

LEMMA BookReturn ==
    ASSUME BookInv, Sole, NEW s \in Services, Return(s), UNCHANGED <<docs, effect>>,
           TypeOK', Exclusive', ~marker' => Balanced
    PROVE  BookInv'
<1>1. pc'[s] = "idle"
  BY DEF BookInv, TypeOK, Return
<1>2. OnCourse(s)'
  BY <1>1 DEF OnCourse, Running, Holding, Ascending, Descending
<1>3. Shelf' /\ (~marker' => Balanced')
  BY DEF BookInv, Shelf, Balanced, Listed
<1> QED BY <1>1, <1>2, <1>3, BookKept

\* Done: the documents are as a run may find them.
LEMMA DoneBalanced ==
    ASSUME BookInv, DistinctVersions, NEW s \in Services, pc[s] = "remove"
    PROVE  Balanced
<1>p. PICK p : p = path[s]
  OBVIOUS
<1>1. /\ TypeOK /\ Shelf /\ Tally(s) /\ Running(s) /\ ~InFlight(s)
      /\ IF arg[s] >= 0 THEN Climb(s) ELSE Descent(s)
      /\ p \in Seq(Docs) /\ Len(p) >= 1
  BY <1>p DEF BookInv, OnCourse, TypeOK, Running, Holding, InFlight
<1>2. /\ Len(p) \in Nat /\ 1 \in 1 .. Len(p) /\ Len(p) \in 1 .. Len(p)
      /\ \A i \in 1 .. Len(p) : p[i] \in Docs /\ p[i].mig \in Names /\ Version[p[i].mig] \in Int
      /\ \A d \in docs : d.mig \in Names /\ Version[d.mig] \in Int
  <2>1. Len(p) \in Nat /\ \A i \in 1 .. Len(p) : p[i] \in Docs
    BY <1>1
  <2>2. docs \subseteq Docs
    BY <1>1 DEF TypeOK
  <2> QED BY <1>1, <2>1, <2>2, VersionAssumption DEF Docs
<1>3. /\ \A d \in docs : Version[d.mig] <= Version[p[1].mig]
      /\ Listed(p[1].mig) \/ p[1].mig = Base
  <2>1. CASE arg[s] >= 0
    BY <1>1, <1>p, <2>1 DEF Climb
  <2>2. CASE ~(arg[s] >= 0)
    <3>1. /\ \A i \in 1 .. Len(p) : Listed(p[i].mig) \/ p[i].mig = Base
          /\ \A i, j \in 1 .. Len(p) : i < j => Version[p[j].mig] < Version[p[i].mig]
          /\ \A d \in docs : \/ \E i \in 1 .. Len(p) : p[i].mig = d.mig
                             \/ Version[d.mig] < Version[p[Len(p)].mig]
      BY <1>1, <1>p, <2>2 DEF Descent
    <3>2. \A i \in 1 .. Len(p) : Version[p[i].mig] <= Version[p[1].mig]
      BY <1>2, <3>1
    <3> QED BY <1>2, <3>1, <3>2
  <2> QED BY <2>1, <2>2
<1>4. \A d \in docs : d.mig = p[1].mig <=>
                      \A e \in docs : Version[e.mig] <= Version[d.mig]
  BY <1>1, <1>2, <1>3, NewestIs
<1> QED BY <1>1, <1>4, <1>p DEF Tally, Balanced

\* The path a forward run sets out on.
SetsOutUp(s, p, last) ==
    /\ Len(p) \in Nat /\ Len(p) >= 1 /\ p[1] = last
    /\ arg[s] = 0 => Len(p) = 1
    /\ \A d \in docs : Version[d.mig] <= Version[p[1].mig]
    /\ Listed(p[1].mig) \/ p[1].mig = Base
    /\ \A i \in 2 .. Len(p) : /\ p[i].mig \in Registered[s]
                              /\ p[i] = NewModel(s, p[i].mig)
                              /\ ~Listed(p[i].mig)
    /\ \A i, j \in 1 .. Len(p) : i < j => Version[p[i].mig] < Version[p[j].mig]
    /\ \A m \in Registered[s] :
          \/ Listed(m)
          \/ \E i \in 2 .. Len(p) : p[i].mig = m
          \/ Version[p[Len(p)].mig] < Version[m]
    /\ \A i \in 1 .. Len(p) :
          /\ p[i].id[3] = p[i].mig
          /\ \A d \in docs : p[i].mig = d.mig => p[i].id = d.id

LEMMA LoadedClimb ==
    ASSUME TypeOK, Shelf, DistinctVersions, NEW s \in Services, arg[s] >= 0,
           NEW applied \in Sorted(Applied(s, docs)),
           NEW remaining \in Sorted(Remaining(s, docs)), Acceptable(applied, remaining),
           NEW p, p = PathOf(arg[s], applied, remaining)
    PROVE  SetsOutUp(s, p, applied[Len(applied)])
<1> DEFINE last == applied[Len(applied)]
<1>1. arg[s] \in Nat /\ \A d \in docs : d.id[3] = d.mig
  BY DEF TypeOK, Shelf
<1>2. applied \in Seq(Docs) /\ Len(applied) >= 1
  BY AppliedTyped
<1>3. /\ IF docs = {} THEN last = InitialNode(s) ELSE last \in docs
      /\ \A d \in docs : Version[d.mig] <= Version[last.mig]
  BY LastIsNewest
<1>4. remaining # <<>> => Version[last.mig] <= Version[remaining[1].mig]
  BY DEF Acceptable
<1>5. /\ remaining \in Seq(Docs) /\ Len(remaining) \in Nat
      /\ \A i \in 1 .. Len(remaining) :
            /\ remaining[i].mig \in Registered[s]
            /\ remaining[i] = NewModel(s, remaining[i].mig)
            /\ remaining[i].mig \in Names /\ Version[remaining[i].mig] \in Int
            /\ ~\E d \in docs : d.mig = remaining[i].mig
            /\ \A j \in 1 .. Len(remaining) : remaining[i].mig = remaining[j].mig => i = j
            /\ \A j \in 1 .. Len(remaining) : i < j =>
                  Version[remaining[i].mig] <= Version[remaining[j].mig]
      /\ \A m \in Registered[s] :
            \/ \E d \in docs : d.mig = m
            \/ \E i \in 1 .. Len(remaining) : remaining[i].mig = m
  BY <1>1, RemainingSorted
<1>6. /\ Len(p) \in Nat /\ Len(p) >= 1 /\ p[1] = last
      /\ arg[s] = 0 => Len(p) = 1
      /\ \A i \in 2 .. Len(p) : i - 1 \in 1 .. Len(remaining) /\ p[i] = remaining[i - 1]
  <2>1. GoesOver(p, arg[s], applied, remaining)
    BY <1>1, <1>2, <1>5, PathAhead
  <2> QED BY <2>1 DEF GoesOver
<1>7. /\ last.mig \in Names /\ Version[last.mig] \in Int
      /\ Listed(last.mig) \/ (last.mig = Base /\ docs = {})
      /\ last.id[3] = last.mig
      /\ \A d \in docs : last.mig = d.mig => last.id = d.id
  <2>1. CASE docs = {}
    <3>1. last.mig = Base /\ last.id[3] = Base
      BY <1>3, <2>1 DEF InitialNode
    <3> QED BY <2>1, <3>1, VersionAssumption DEF Names
  <2>2. CASE docs # {}
    <3>1. last \in docs
      BY <1>3, <2>2
    <3>2. last.mig \in Names
      BY <3>1 DEF TypeOK, Docs
    <3> QED BY <3>1, <3>2, VersionAssumption DEF Listed, Shelf
  <2> QED BY <2>1, <2>2
<1> HIDE DEF last
<1>8. ASSUME NEW k \in 1 .. Len(remaining)
      PROVE  Version[last.mig] < Version[remaining[k].mig]
  <2>1. 1 \in 1 .. Len(remaining) /\ remaining # <<>>
    BY <1>5
  <2>2. Version[last.mig] <= Version[remaining[k].mig]
    <3>1. CASE k = 1
      BY <1>4, <2>1, <3>1
    <3>2. CASE k # 1
      <4>1. 1 < k
        BY <3>2
      <4> QED BY <1>4, <1>5, <1>7, <2>1, <4>1
    <3> QED BY <3>1, <3>2
  <2>3. remaining[k].mig # last.mig
    <3>1. CASE Listed(last.mig)
      BY <1>5, <3>1 DEF Listed
    <3>2. CASE last.mig = Base
      BY <1>5, <3>2, RegisteredAssumption, MigrationsAssumption
    <3> QED BY <1>7, <3>1, <3>2
  <2> QED BY <1>5, <1>7, <2>2, <2>3 DEF DistinctVersions
<1>9. ASSUME NEW k \in 1 .. Len(remaining), NEW l \in 1 .. Len(remaining), k < l
      PROVE  Version[remaining[k].mig] < Version[remaining[l].mig]
  <2>1. remaining[k].mig # remaining[l].mig
    BY <1>5, <1>9
  <2> QED BY <1>5, <1>9, <2>1 DEF DistinctVersions
<1>10. ASSUME NEW i \in 1 .. Len(p), NEW j \in 1 .. Len(p), i < j
       PROVE  Version[p[i].mig] < Version[p[j].mig]
  <2>1. j \in 2 .. Len(p)
    BY <1>6, <1>10
  <2>2. CASE i = 1
    BY <1>6, <1>8, <2>1, <2>2
  <2>3. CASE i # 1
    <3>1. i \in 2 .. Len(p) /\ i - 1 < j - 1
      BY <1>6, <1>10, <2>3
    <3> QED BY <1>6, <1>9, <2>1, <3>1
  <2> QED BY <2>2, <2>3
<1>11. ASSUME NEW m \in Registered[s], ~Listed(m), ~\E i \in 2 .. Len(p) : p[i].mig = m
       PROVE  Version[p[Len(p)].mig] < Version[m]
  <2>1. PICK k \in 1 .. Len(remaining) : remaining[k].mig = m
    BY <1>5, <1>11 DEF Listed
  <2>2. ~(k + 1 <= Len(p))
    <3>1. k + 1 <= Len(p) => k + 1 \in 2 .. Len(p) /\ (k + 1) - 1 = k
      BY <1>5
    <3> QED BY <1>6, <1>11, <2>1, <3>1
  <2>3. CASE Len(p) = 1
    BY <1>6, <1>8, <2>1, <2>3
  <2>4. CASE Len(p) >= 2
    <3>1. Len(p) \in 2 .. Len(p) /\ Len(p) - 1 < k
      BY <1>6, <2>2, <2>4
    <3>2. /\ Len(p) - 1 \in 1 .. Len(remaining)
          /\ p[Len(p)] = remaining[Len(p) - 1]
      BY <1>6, <3>1
    <3>3. Version[remaining[Len(p) - 1].mig] < Version[remaining[k].mig]
      BY <1>9, <3>1, <3>2
    <3> QED BY <2>1, <3>2, <3>3
  <2>5. Len(p) = 1 \/ Len(p) >= 2
    <3>1. PICK l \in Nat : l = Len(p)
      BY <1>6
    <3>2. l >= 1
      BY <1>6, <3>1, Zenon
    <3>3. l = 1 \/ l >= 2
      BY <3>2
    <3> QED BY <3>1, <3>3, Zenon
  <2> QED BY <2>3, <2>4, <2>5
<1>12. ASSUME NEW i \in 2 .. Len(p)
       PROVE  /\ p[i].mig \in Registered[s] /\ p[i] = NewModel(s, p[i].mig)
              /\ ~Listed(p[i].mig) /\ p[i].id[3] = p[i].mig
  <2>1. /\ p[i].mig \in Registered[s] /\ p[i] = NewModel(s, p[i].mig)
        /\ ~Listed(p[i].mig)
    BY <1>5, <1>6 DEF Listed
  <2>2. \A m : NewModel(s, m).id[3] = m
    BY DEF NewModel
  <2> QED BY <2>1, <2>2
<1>13. ASSUME NEW i \in 1 .. Len(p)
       PROVE  /\ p[i].id[3] = p[i].mig
              /\ \A d \in docs : p[i].mig = d.mig => p[i].id = d.id
  <2>1. CASE i = 1
    BY <1>6, <1>7, <2>1
  <2>2. CASE i # 1
    <3>1. i \in 2 .. Len(p)
      BY <1>6, <2>2
    <3> QED BY <1>12, <3>1 DEF Listed
  <2> QED BY <2>1, <2>2
<1> QED BY <1>3, <1>6, <1>7, <1>10, <1>11, <1>12, <1>13 DEF last, SetsOutUp

\* The path a backward run sets out on.
SetsOutDown(p, last) ==
    /\ Len(p) \in Nat /\ Len(p) >= 1 /\ p[1] = last
    /\ \A i \in 1 .. Len(p) : Listed(p[i].mig) \/ p[i].mig = Base
    /\ \A i, j \in 1 .. Len(p) : i < j => Version[p[j].mig] < Version[p[i].mig]
    /\ \A d \in docs : \/ \E i \in 1 .. Len(p) : p[i].mig = d.mig
                       \/ Version[d.mig] < Version[p[Len(p)].mig]
    /\ \A i \in 1 .. Len(p) :
          /\ p[i].id[3] = p[i].mig
          /\ \A d \in docs : p[i].mig = d.mig => p[i].id = d.id

LEMMA LoadedDescent ==
    ASSUME TypeOK, Shelf, DistinctVersions, NEW s \in Services, arg[s] < 0,
           NEW applied \in Sorted(Applied(s, docs)),
           NEW remaining, NEW p, p = PathOf(arg[s], applied, remaining)
    PROVE  SetsOutDown(p, applied[Len(applied)])
<1> DEFINE A == Applied(s, docs)
<1>1. arg[s] \in Int /\ A \subseteq Docs /\ IsFiniteSet(A)
  BY InitialNodeTyped, FS_Singleton DEF TypeOK, Applied
<1>2. applied \in Seq(Docs) /\ Len(applied) >= 1
  BY AppliedTyped
<1>3. /\ Len(applied) \in Nat
      /\ \A i \in 1 .. Len(applied) : applied[i] \in A
      /\ \A i, j \in 1 .. Len(applied) : i < j =>
            /\ applied[i] # applied[j]
            /\ Version[applied[i].mig] <= Version[applied[j].mig]
      /\ \A d \in A : \E i \in 1 .. Len(applied) : applied[i] = d
  BY <1>1, SortedOnto
<1>4. /\ \A a, b \in A : a.mig = b.mig => a = b
      /\ \A a \in A : /\ a.mig \in Names /\ Version[a.mig] \in Int
                      /\ Listed(a.mig) \/ a.mig = Base
                      /\ a.id[3] = a.mig
                      /\ \A d \in docs : a.mig = d.mig => a.id = d.id
  <2>1. \A a \in A : a.mig \in Names /\ Version[a.mig] \in Int
    BY <1>1, VersionAssumption DEF Docs
  <2>2. CASE docs = {}
    <3>1. A = {InitialNode(s)}
      BY <2>2 DEF Applied
    <3>2. InitialNode(s).mig = Base /\ InitialNode(s).id[3] = Base
      BY DEF InitialNode
    <3> QED BY <2>1, <2>2, <3>1, <3>2
  <2>3. CASE docs # {}
    <3>1. A = docs
      BY <2>3 DEF Applied
    <3>2. /\ \A a, b \in docs : a.mig = b.mig => a = b
          /\ \A a \in docs : a.id[3] = a.mig
      BY DEF Shelf
    <3>3. \A a \in docs : Listed(a.mig)
      BY DEF Listed
    <3>4. \A a, d \in docs : a.mig = d.mig => a.id = d.id
      BY <3>2
    <3> HIDE DEF A
    <3> QED BY <2>1, <3>1, <3>2, <3>3, <3>4
  <2> QED BY <2>2, <2>3
<1>5. docs \subseteq A
  BY DEF Applied
<1>6. /\ Len(p) \in Nat /\ Len(p) >= 1 /\ Len(p) <= Len(applied)
      /\ \A i \in 1 .. Len(p) : p[i] = applied[Len(applied) + 1 - i]
  <2>1. GoesBack(p, arg[s], applied)
    BY <1>1, <1>2, PathBehind
  <2> QED BY <2>1 DEF GoesBack
<1> HIDE DEF A
<1>7. ASSUME NEW k \in 1 .. Len(applied), NEW l \in 1 .. Len(applied), k < l
      PROVE  Version[applied[k].mig] < Version[applied[l].mig]
  <2>1. applied[k].mig # applied[l].mig
    BY <1>3, <1>4, <1>7
  <2> QED BY <1>3, <1>4, <1>7, <2>1 DEF DistinctVersions
<1>8. \A i \in 1 .. Len(p) : Len(applied) + 1 - i \in 1 .. Len(applied) /\ p[i] \in A
  BY <1>3, <1>6
<1>9. ASSUME NEW i \in 1 .. Len(p), NEW j \in 1 .. Len(p), i < j
      PROVE  Version[p[j].mig] < Version[p[i].mig]
  <2>1. Len(applied) + 1 - j < Len(applied) + 1 - i
    BY <1>3, <1>9
  <2> QED BY <1>6, <1>7, <1>8, <2>1
<1>10. ASSUME NEW d \in docs, ~\E i \in 1 .. Len(p) : p[i].mig = d.mig
       PROVE  Version[d.mig] < Version[p[Len(p)].mig]
  <2>1. PICK k \in 1 .. Len(applied) : applied[k] = d
    BY <1>3, <1>5
  <2>2. ~(Len(applied) + 1 - k <= Len(p))
    <3>1. Len(applied) + 1 - k <= Len(p) =>
             /\ Len(applied) + 1 - k \in 1 .. Len(p)
             /\ Len(applied) + 1 - (Len(applied) + 1 - k) = k
      BY <1>3, <1>6
    <3> QED BY <1>6, <1>10, <2>1, <3>1
  <2>3. k < Len(applied) + 1 - Len(p) /\ Len(p) \in 1 .. Len(p)
    BY <1>3, <1>6, <2>2
  <2> QED BY <1>6, <1>7, <1>8, <2>1, <2>3
<1>11. 1 \in 1 .. Len(p) /\ Len(applied) + 1 - 1 = Len(applied)
  BY <1>3, <1>6
<1> QED BY <1>4, <1>6, <1>8, <1>9, <1>10, <1>11 DEF SetsOutDown

\* ParseAndSortMigrations puts the run on its course.
LEMMA LoadBook ==
    ASSUME BookInv, Sole, DistinctVersions, NEW s \in Services, LoadAndParse(s), ~Return(s),
           TypeOK', Exclusive'
    PROVE  BookInv'
<1>1. PICK applied \in Sorted(Applied(s, docs)), remaining \in Sorted(Remaining(s, docs)) :
         /\ Acceptable(applied, remaining)
         /\ pc' = [pc EXCEPT ![s] = "set"]
         /\ path' = [path EXCEPT ![s] = PathOf(arg[s], applied, remaining)]
         /\ UNCHANGED <<docs, effect, marker, runs, arg>> /\ ~marker /\ pc[s] = "load"
  BY DEF LoadAndParse
<1>2. /\ TypeOK /\ Shelf /\ Balanced
      /\ pc \in [Services -> {"idle"} \cup Loading \cup Holding]
      /\ path \in [Services -> Seq(Docs)] /\ arg[s] \in Int
  BY <1>1 DEF BookInv, TypeOK
<1>p. PICK p : p = PathOf(arg[s], applied, remaining)
  OBVIOUS
<1>3. /\ pc'[s] = "set" /\ path'[s] = p /\ arg'[s] = arg[s] /\ docs' = docs
      /\ effect' = effect
      /\ \A m : NewModel(s, m)' = NewModel(s, m)
      /\ \A m : Listed(m)' <=> Listed(m)
  BY <1>1, <1>2, <1>p DEF NewModel, Listed
<1>4. ~InFlight(s)' /\ pc'[s] \notin Ascending \cup Descending
  BY <1>3 DEF InFlight, Ascending, Descending
<1>5. /\ IF docs = {} THEN applied[Len(applied)] = InitialNode(s)
                      ELSE applied[Len(applied)] \in docs
      /\ \A d \in docs : Version[d.mig] <= Version[applied[Len(applied)].mig]
  BY <1>2, LastIsNewest
<1>6. /\ p[1] = applied[Len(applied)]
      /\ \A i \in 1 .. Len(p) :
            /\ p[i].id[3] = p[i].mig
            /\ \A d \in docs : p[i].mig = d.mig => p[i].id = d.id
      /\ IF arg'[s] >= 0 THEN Climb(s)' ELSE Descent(s)'
  <2>1. CASE arg[s] >= 0
    <3>1. SetsOutUp(s, p, applied[Len(applied)])
      BY <1>1, <1>2, <2>1, <1>p, LoadedClimb
    <3>2. Climb(s)'
      BY <1>3, <1>4, <3>1 DEF Climb, SetsOutUp
    <3> QED BY <1>3, <2>1, <3>1, <3>2 DEF SetsOutUp
  <2>2. CASE ~(arg[s] >= 0)
    <3>1. arg[s] < 0
      BY <1>2, <2>2
    <3>2. SetsOutDown(p, applied[Len(applied)])
      BY <1>1, <1>2, <1>p, <3>1, LoadedDescent
    <3>3. Descent(s)'
      BY <1>3, <1>4, <3>2 DEF Descent, SetsOutDown
    <3> QED BY <1>3, <2>2, <3>2, <3>3 DEF SetsOutDown
  <2> QED BY <2>1, <2>2
<1>7. Tally(s)'
  <2>1. p[1].mig \in Names /\ (Listed(p[1].mig) \/ p[1].mig = Base)
    <3>1. CASE docs = {}
      BY <1>5, <1>6, <3>1 DEF InitialNode, Names
    <3>2. CASE docs # {}
      <4>1. p[1] \in docs
        BY <1>5, <1>6, <3>2
      <4>2. docs \subseteq Docs
        BY <1>2 DEF TypeOK
      <4> QED BY <4>1, <4>2 DEF Listed, Docs
    <3> QED BY <3>1, <3>2
  <2>2. \A d \in docs : Version[d.mig] <= Version[p[1].mig]
    BY <1>5, <1>6
  <2>3. \A d \in docs : d.mig = p[1].mig <=>
                         \A e \in docs : Version[e.mig] <= Version[d.mig]
    BY <1>2, <2>1, <2>2, NewestIs
  <2> QED BY <1>2, <1>3, <2>3 DEF Balanced, Tally
<1>8. OnCourse(s)'
  BY <1>3, <1>6, <1>7 DEF OnCourse
<1>9. Shelf' /\ (~marker' => Balanced')
  BY <1>1, <1>2 DEF Shelf, Balanced, Listed
<1> QED BY <1>1, <1>8, <1>9, BookKept

\* What a run on its course can count on.
LEMMA CourseTypes ==
    ASSUME BookInv, NEW s \in Services, pc[s] = "set" \/ Running(s), NEW p, p = path[s]
    PROVE  /\ TypeOK /\ Shelf /\ Tally(s) /\ docs \subseteq Docs
           /\ IF arg[s] >= 0 THEN Climb(s) ELSE Descent(s)
           /\ \A d \in docs : d.mig \in Names /\ Version[d.mig] \in Int
           /\ \A i \in 1 .. Len(p) :
                 /\ p[i] \in Docs /\ p[i].mig \in Names /\ Version[p[i].mig] \in Int
                 /\ p[i].id[3] = p[i].mig
                 /\ \A d \in docs : p[i].mig = d.mig => p[i].id = d.id
           /\ p \in Seq(Docs) /\ Len(p) \in Nat /\ Len(p) >= 1
           /\ pc[s] \notin {"set", "remove"} => Len(p) >= 2
           /\ arg[s] \in Int
           /\ pc \in [Services -> {"idle"} \cup Loading \cup Holding]
           /\ path \in [Services -> Seq(Docs)]
           /\ effect \in [Names -> Int] /\ Version[Base] = 0
<1>1. /\ TypeOK /\ Shelf /\ OnCourse(s)
      /\ docs \subseteq Docs /\ p \in Seq(Docs) /\ Len(p) >= 1
      /\ pc[s] \notin {"set", "remove"} => Len(p) >= 2
      /\ arg[s] \in Int
      /\ pc \in [Services -> {"idle"} \cup Loading \cup Holding]
      /\ path \in [Services -> Seq(Docs)] /\ effect \in [Names -> Int]
  BY DEF BookInv, TypeOK
<1>2. Len(p) \in Nat /\ \A i \in 1 .. Len(p) : p[i] \in Docs
  BY <1>1
<1>3. \A d \in Docs : d.mig \in Names /\ Version[d.mig] \in Int
  BY VersionAssumption DEF Docs
<1> QED BY <1>1, <1>2, <1>3, VersionAssumption DEF OnCourse

\* The loop of s begins.
LEMMA SetBook ==
    ASSUME BookInv, Sole, NEW s \in Services, SetMigrationToRunning(s), ~Return(s),
           TypeOK', Exclusive'
    PROVE  BookInv'
<1>p. PICK p : p = path[s]
  OBVIOUS
<1>0. pc[s] = "set" /\ pc' = [pc EXCEPT ![s] = LoopHead(s, p)]
      /\ UNCHANGED <<docs, effect, arg, runs, path>>
  BY <1>p DEF SetMigrationToRunning, GoOn
<1>1. /\ Shelf /\ Tally(s) /\ OnCourse(s) /\ (IF arg[s] >= 0 THEN Climb(s) ELSE Descent(s))
      /\ Len(p) \in Nat /\ Len(p) >= 1 /\ arg[s] \in Int
      /\ pc \in [Services -> {"idle"} \cup Loading \cup Holding]
  BY <1>0, <1>p, CourseTypes DEF BookInv
<1>2. /\ arg[s] >= 0 => LoopHead(s, p) \in {"remove", "insert"}
      /\ ~(arg[s] >= 0) => LoopHead(s, p) \in {"remove", "down"}
  <2>1. arg[s] >= 0 /\ Len(p) > 1 => arg[s] > 0
    BY <1>1, <1>p DEF Climb
  <2> QED BY <1>1, <2>1 DEF LoopHead
<1>3. /\ pc'[s] = LoopHead(s, p) /\ path'[s] = path[s] /\ arg'[s] = arg[s]
      /\ docs' = docs /\ effect' = effect
      /\ \A m : NewModel(s, m)' = NewModel(s, m)
      /\ \A m : Listed(m)' <=> Listed(m)
  BY <1>0, <1>1 DEF NewModel, Listed
<1>4. /\ pc'[s] \in {"remove", "insert", "down"}
      /\ ~InFlight(s) /\ ~InFlight(s)' /\ Running(s)'
  <2>1. pc'[s] \in {"remove", "insert", "down"}
    BY <1>2, <1>3
  <2> QED BY <1>0, <2>1 DEF InFlight, Running, Holding, Ascending, Descending
<1>5. Tally(s)'
  BY <1>0, <1>1, <1>3, <1>4 DEF Tally
<1>6. IF arg'[s] >= 0 THEN Climb(s)' ELSE Descent(s)'
  <2>1. CASE arg[s] >= 0
    <3>1. pc'[s] \notin Descending /\ Climb(s)
      BY <1>1, <1>2, <1>3, <2>1 DEF Descending
    <3>2. Climb(s)'
      BY <1>3, <1>4, <3>1 DEF Climb
    <3> QED BY <1>3, <2>1, <3>2
  <2>2. CASE ~(arg[s] >= 0)
    <3>1. pc'[s] \notin Ascending /\ pc'[s] # "restore" /\ Descent(s)
      BY <1>1, <1>2, <1>3, <2>2 DEF Ascending
    <3>2. Descent(s)'
      BY <1>0, <1>3, <3>1 DEF Descent
    <3> QED BY <1>3, <2>2, <3>2
  <2> QED BY <2>1, <2>2
<1>7. OnCourse(s)'
  BY <1>0, <1>1, <1>3, <1>5, <1>6 DEF OnCourse
<1>8. Shelf'
  BY <1>1, <1>3 DEF Shelf
<1>9. pc'[s] \notin {"load", "set"}
  BY <1>4
<1> QED BY <1>4, <1>7, <1>8, <1>9, BookKept

\* A run going forward, in an iteration of its loop.
LEMMA ClimbNodes ==
    ASSUME BookInv, NEW s \in Services, pc[s] \in Ascending, NEW p, p = path[s]
    PROVE  /\ arg[s] >= 0 /\ arg[s] # 0 /\ Climb(s) /\ Running(s)
           /\ Len(p) >= 2 /\ 1 \in 1 .. Len(p) /\ 2 \in 1 .. Len(p) /\ 2 \in 2 .. Len(p)
           /\ \A d \in docs : \/ Version[d.mig] <= Version[p[1].mig]
                              \/ InFlight(s) /\ d.mig = p[2].mig
           /\ Listed(p[1].mig) \/ p[1].mig = Base
           /\ \A i \in 2 .. Len(p) : /\ p[i].mig \in Registered[s]
                                     /\ p[i].mig \in Migrations /\ p[i].mig # Base
                                     /\ p[i] = NewModel(s, p[i].mig)
                                     /\ Listed(p[i].mig) <=> InFlight(s) /\ i = 2
           /\ \A i, j \in 1 .. Len(p) :
                 i < j => Version[p[i].mig] < Version[p[j].mig]
           /\ \A i, j \in 1 .. Len(p) : p[i].mig = p[j].mig => i = j
           /\ \A m \in Registered[s] :
                 \/ Listed(m)
                 \/ \E i \in 2 .. Len(p) : p[i].mig = m
                 \/ Version[p[Len(p)].mig] < Version[m]
           /\ Version[p[2].mig] > 0 /\ p[2].status = "Running" /\ ~p[2].isCurrent
<1>1. Running(s) /\ pc[s] \notin {"set", "remove"}
  BY DEF Running, Holding, Ascending
<1>2. /\ Shelf /\ (IF arg[s] >= 0 THEN Climb(s) ELSE Descent(s))
      /\ \A i \in 1 .. Len(p) : p[i].mig \in Names /\ Version[p[i].mig] \in Int
      /\ \A d \in docs : d.mig \in Names /\ Version[d.mig] \in Int
      /\ Len(p) \in Nat /\ Len(p) >= 2 /\ Version[Base] = 0
  BY <1>1, CourseTypes
<1>3. arg[s] >= 0 /\ Climb(s)
  <2>1. ~Descent(s)
    BY DEF Descent
  <2> QED BY <1>2, <2>1
<1>4. /\ arg[s] # 0
      /\ \A d \in docs : \/ Version[d.mig] <= Version[p[1].mig]
                         \/ InFlight(s) /\ d.mig = p[2].mig
      /\ Listed(p[1].mig) \/ p[1].mig = Base
      /\ \A i \in 2 .. Len(p) : /\ p[i].mig \in Registered[s]
                                /\ p[i] = NewModel(s, p[i].mig)
                                /\ Listed(p[i].mig) <=> InFlight(s) /\ i = 2
      /\ \A i, j \in 1 .. Len(p) :
            i < j => Version[p[i].mig] < Version[p[j].mig]
      /\ \A m \in Registered[s] :
            \/ Listed(m)
            \/ \E i \in 2 .. Len(p) : p[i].mig = m
            \/ Version[p[Len(p)].mig] < Version[m]
  BY <1>2, <1>3 DEF Climb
<1>5. 1 \in 1 .. Len(p) /\ 2 \in 1 .. Len(p) /\ 2 \in 2 .. Len(p)
  BY <1>2
<1>6. \A i \in 2 .. Len(p) : p[i].mig \in Migrations /\ p[i].mig # Base
  BY <1>4, RegisteredAssumption, MigrationsAssumption
<1>7. ASSUME NEW i \in 1 .. Len(p), NEW j \in 1 .. Len(p), p[i].mig = p[j].mig
      PROVE  i = j
  <2>1. i < j \/ j < i \/ i = j
    OBVIOUS
  <2> QED BY <1>2, <1>4, <1>7, <2>1
<1>8. Version[p[2].mig] > 0
  <2>1. Version[p[1].mig] >= 0
    BY <1>2, <1>4, <1>5 DEF Shelf, Listed
  <2> QED BY <1>2, <1>4, <1>5, <2>1
<1>9. p[2].status = "Running" /\ ~p[2].isCurrent
  <2>1. p[2] = NewModel(s, p[2].mig)
    BY <1>4, <1>5
  <2>2. PICK m : m = p[2].mig
    OBVIOUS
  <2>3. NewModel(s, m).status = "Running" /\ NewModel(s, m).isCurrent = FALSE
    BY DEF NewModel
  <2> QED BY <2>1, <2>2, <2>3
<1> QED BY <1>1, <1>2, <1>3, <1>4, <1>5, <1>6, <1>7, <1>8, <1>9

LEMMA InsertBook ==
    ASSUME BookInv, Sole, NEW s \in Services, InsertModel(s), TypeOK', Exclusive'
    PROVE  BookInv'
<1>p. PICK p : p = path[s]
  OBVIOUS
<1>n. PICK n : n = p[2]
  OBVIOUS
<1>0. /\ pc[s] = "insert" /\ pc' = [pc EXCEPT ![s] = "up"] /\ docs' = docs \cup {n}
      /\ UNCHANGED <<effect, arg, runs, path>>
      /\ pc[s] \in Ascending /\ ~InFlight(s)
  BY <1>p, <1>n DEF InsertModel, GoOn, Ascending, InFlight
<1>1. /\ arg[s] >= 0 /\ arg[s] # 0
      /\ Len(p) >= 2 /\ 1 \in 1 .. Len(p) /\ 2 \in 1 .. Len(p) /\ 2 \in 2 .. Len(p)
      /\ \A d \in docs : Version[d.mig] <= Version[p[1].mig]
      /\ Listed(p[1].mig) \/ p[1].mig = Base
      /\ \A i \in 2 .. Len(p) : /\ p[i].mig \in Registered[s]
                                /\ p[i] = NewModel(s, p[i].mig)
                                /\ ~Listed(p[i].mig)
      /\ \A i, j \in 1 .. Len(p) : i < j => Version[p[i].mig] < Version[p[j].mig]
      /\ \A i, j \in 1 .. Len(p) : p[i].mig = p[j].mig => i = j
      /\ \A m \in Registered[s] :
            \/ Listed(m)
            \/ \E i \in 2 .. Len(p) : p[i].mig = m
            \/ Version[p[Len(p)].mig] < Version[m]
      /\ n.mig # Base /\ Version[n.mig] > 0 /\ n.status = "Running" /\ ~n.isCurrent
  BY <1>0, <1>p, <1>n, ClimbNodes
<1>2. /\ Shelf /\ Tally(s) /\ Running(s)
      /\ pc \in [Services -> {"idle"} \cup Loading \cup Holding]
      /\ \A i \in 1 .. Len(p) :
            /\ p[i].id[3] = p[i].mig
            /\ \A d \in docs : p[i].mig = d.mig => p[i].id = d.id
  <2>1. Running(s)
    BY <1>0 DEF Running, Holding
  <2>2. TypeOK /\ Shelf /\ OnCourse(s)
    BY DEF BookInv
  <2>3. pc \in [Services -> {"idle"} \cup Loading \cup Holding]
    BY <2>2 DEF TypeOK
  <2> QED BY <1>p, <2>1, <2>2, <2>3 DEF OnCourse
<1>3. /\ pc'[s] = "up" /\ InFlight(s)' /\ Running(s)' /\ path'[s] = p /\ arg'[s] = arg[s]
      /\ \A m : NewModel(s, m)' = NewModel(s, m)
      /\ \A m : Listed(m)' <=> Listed(m) \/ m = n.mig
  BY <1>0, <1>2, <1>p DEF NewModel, Listed, InFlight, Running, Holding, Ascending
<1>4. Shelf'
  <2>1. ~Listed(n.mig) /\ n.id[3] = n.mig
    BY <1>1, <1>2, <1>n
  <2> QED BY <1>0, <1>1, <1>2, <1>3, <2>1 DEF Shelf, Listed
<1>5. p[1].mig # n.mig
  BY <1>1, <1>n
<1>6. Tally(s)'
  <2>1. /\ \A m \in Migrations : effect[m] = IF Listed(m) THEN 1 ELSE 0
        /\ \A d \in docs : d.status = "Completed" /\ (d.isCurrent <=> d.mig = p[1].mig)
    BY <1>0, <1>2, <1>p DEF Tally
  <2>2. ~Listed(n.mig)
    BY <1>1, <1>n
  <2>3. ASSUME NEW m \in Migrations
        PROVE  effect'[m] = IF Listed(m)' /\ m # p[2].mig THEN 1 ELSE 0
    BY <1>0, <1>3, <1>n, <2>1, <2>2
  <2>4. ASSUME NEW d \in docs'
        PROVE  /\ d.status = "Completed" \/ d.mig = p[2].mig
               /\ d.isCurrent <=> d.mig = p[1].mig
    BY <1>0, <1>1, <1>5, <1>n, <2>1
  <2> QED BY <1>3, <2>3, <2>4 DEF Tally
<1>7. Climb(s)'
  <2>1. \A d \in docs' : Version[d.mig] <= Version[p[1].mig] \/ d.mig = p[2].mig
    BY <1>0, <1>1, <1>n
  <2>2. ASSUME NEW i \in 2 .. Len(p) PROVE Listed(p[i].mig)' <=> i = 2
    <3>1. i \in 1 .. Len(p)
      BY <1>1
    <3>2. p[i].mig = n.mig => i = 2
      BY <1>1, <1>n, <3>1
    <3> QED BY <1>1, <1>3, <1>n, <3>2
  <2>3. pc'[s] \notin Descending
    BY <1>3 DEF Descending
  <2> QED BY <1>1, <1>3, <2>1, <2>2, <2>3 DEF Climb
<1>8. ASSUME NEW i \in 1 .. Len(p), NEW d \in docs', p[i].mig = d.mig
      PROVE  p[i].id = d.id
  <2>1. CASE d \in docs
    BY <1>2, <1>8, <2>1
  <2>2. CASE d = n
    <3>1. i = 2
      BY <1>1, <1>8, <1>n, <2>2
    <3> QED BY <1>n, <2>2, <3>1
  <2> QED BY <1>0, <2>1, <2>2
<1>9. OnCourse(s)'
  BY <1>1, <1>2, <1>3, <1>6, <1>7, <1>8 DEF OnCourse
<1> QED BY <1>3, <1>4, <1>9, BookKept

LEMMA UpBook ==
    ASSUME BookInv, Sole, NEW s \in Services, Up(s), TypeOK', Exclusive'
    PROVE  BookInv'
<1>p. PICK p : p = path[s]
  OBVIOUS
<1>n. PICK n : n = p[2]
  OBVIOUS
<1>0. /\ pc[s] = "up" /\ pc' = [pc EXCEPT ![s] = "demote"]
      /\ effect' = [effect EXCEPT ![n.mig] = @ + 1]
      /\ UNCHANGED <<docs, arg, runs, path>>
      /\ pc[s] \in Ascending /\ InFlight(s)
  BY <1>p, <1>n DEF Up, GoOn, Ascending, InFlight
<1>1. /\ arg[s] >= 0 /\ Climb(s) /\ Running(s)
      /\ Listed(n.mig) /\ n.mig \in Migrations /\ n.mig # Base
  BY <1>0, <1>p, <1>n, ClimbNodes
<1>2. /\ Shelf /\ Tally(s) /\ OnCourse(s) /\ effect \in [Names -> Int]
      /\ pc \in [Services -> {"idle"} \cup Loading \cup Holding]
  BY <1>1, CourseTypes DEF BookInv
<1>3. /\ pc'[s] = "demote" /\ InFlight(s)' /\ Running(s)'
      /\ path'[s] = path[s] /\ arg'[s] = arg[s] /\ docs' = docs
      /\ \A m : NewModel(s, m)' = NewModel(s, m)
      /\ \A m : Listed(m)' <=> Listed(m)
  BY <1>0, <1>2 DEF NewModel, Listed, InFlight, Running, Holding, Ascending
<1>4. Tally(s)'
  <2>1. /\ \A m \in Migrations : effect[m] = IF Listed(m) /\ m # n.mig THEN 1 ELSE 0
        /\ \A d \in docs : /\ d.status = "Completed" \/ d.mig = n.mig
                           /\ d.isCurrent <=> d.mig = path[s][1].mig
    BY <1>0, <1>2, <1>p, <1>n DEF Tally
  <2>2. ASSUME NEW m \in Migrations PROVE effect'[m] = IF Listed(m) THEN 1 ELSE 0
    <3>1. m \in Names /\ n.mig \in Names
      BY <1>1 DEF Names
    <3>2. CASE m = n.mig
      <4>1. effect[n.mig] = 0
        BY <1>1, <2>1
      <4> QED BY <1>0, <1>1, <1>2, <3>1, <3>2, <4>1
    <3>3. CASE m # n.mig
      BY <1>0, <1>2, <2>1, <3>1, <3>3
    <3> QED BY <3>2, <3>3
  <2>3. path'[s][2] = n
    BY <1>3, <1>n, <1>p
  <2> QED BY <1>3, <2>1, <2>2, <2>3 DEF Tally
<1>5. Climb(s)'
  <2>1. pc'[s] \notin Descending
    BY <1>3 DEF Descending
  <2> QED BY <1>0, <1>1, <1>3, <2>1 DEF Climb
<1>6. OnCourse(s)'
  BY <1>1, <1>2, <1>3, <1>4, <1>5 DEF OnCourse
<1>7. Shelf'
  BY <1>2, <1>3 DEF Shelf
<1> QED BY <1>3, <1>6, <1>7, BookKept

LEMMA DemoteBook ==
    ASSUME BookInv, Sole, NEW s \in Services, DemotePrevious(s), TypeOK', Exclusive'
    PROVE  BookInv'
<1>p. PICK p : p = path[s]
  OBVIOUS
<1>i. PICK i : i = p[1].id
  OBVIOUS
<1>b. PICK no : no = FALSE
  OBVIOUS
<1>0. /\ pc[s] = "demote" /\ pc' = [pc EXCEPT ![s] = "promote"]
      /\ UNCHANGED <<effect, arg, runs, path>>
      /\ pc[s] \in Ascending /\ InFlight(s)
  BY DEF DemotePrevious, GoOn, Ascending, InFlight
<1>1. docs' = Updated(docs, i, no) /\ no \in BOOLEAN
  <2>1. docs' = Updated(docs, i, no)
    BY <1>p, <1>i, <1>b, Zenon DEF DemotePrevious
  <2>2. no \in BOOLEAN
    BY <1>b
  <2> QED BY <2>1, <2>2
<1>2. /\ TypeOK /\ Shelf /\ Tally(s) /\ OnCourse(s) /\ Running(s)
      /\ pc \in [Services -> {"idle"} \cup Loading \cup Holding]
  <2>1. Running(s)
    BY <1>0 DEF Running, Holding
  <2>2. TypeOK /\ Shelf /\ OnCourse(s)
    BY DEF BookInv
  <2>3. pc \in [Services -> {"idle"} \cup Loading \cup Holding]
    BY <2>2 DEF TypeOK
  <2> QED BY <2>1, <2>2, <2>3 DEF OnCourse
<1>3. /\ arg[s] >= 0 /\ Climb(s) /\ 1 \in 1 .. Len(p)
      /\ Listed(p[1].mig) \/ p[1].mig = Base
  BY <1>0, <1>p, ClimbNodes
<1>4. \A k \in 1 .. Len(p) :
         /\ p[k].id[3] = p[k].mig
         /\ \A d \in docs : p[k].mig = d.mig => p[k].id = d.id
  BY <1>2, <1>p DEF OnCourse
<1>5. /\ Shelf'
      /\ \A m : Listed(m)' <=> Listed(m)
      /\ \A e \in docs' : \E d \in docs :
            /\ e.id = d.id /\ e.mig = d.mig
            /\ d.id # i => e = d
            /\ d.id = i => e.status = "Completed" /\ (e.isCurrent <=> no)
  BY <1>1, <1>2, UpdatedShelf
<1>6. /\ pc'[s] = "promote" /\ InFlight(s)' /\ Running(s)'
      /\ path'[s] = p /\ arg'[s] = arg[s] /\ effect' = effect
      /\ \A m : NewModel(s, m)' = NewModel(s, m)
  BY <1>0, <1>2, <1>p DEF NewModel, InFlight, Running, Holding, Ascending
<1>7. Tally(s)'
  <2>1. /\ \A m \in Migrations : effect[m] = IF Listed(m) THEN 1 ELSE 0
        /\ \A d \in docs : /\ d.status = "Completed" \/ d.mig = p[2].mig
                           /\ d.isCurrent <=> d.mig = p[1].mig
    BY <1>0, <1>2, <1>p DEF Tally
  <2>2. ASSUME NEW e \in docs'
        PROVE  ~e.isCurrent /\ (e.status = "Completed" \/ e.mig = p[2].mig)
    <3>1. PICK d \in docs : /\ e.mig = d.mig
                            /\ d.id # i => e = d
                            /\ d.id = i => e.status = "Completed" /\ (e.isCurrent <=> no)
      BY <1>5
    <3>2. CASE d.id = i
      BY <1>b, <3>1, <3>2
    <3>3. CASE d.id # i
      <4>1. d.mig # p[1].mig
        BY <1>3, <1>4, <1>i, <3>3
      <4> QED BY <2>1, <3>1, <3>3, <4>1
    <3> QED BY <3>2, <3>3
  <2> QED BY <1>5, <1>6, <2>1, <2>2 DEF Tally
<1>8. Climb(s)'
  <2>1. /\ pc[s] \notin Descending /\ pc'[s] \notin Descending
        /\ arg[s] = 0 => Len(p) = 1
        /\ \A d \in docs : Version[d.mig] <= Version[p[1].mig] \/ d.mig = p[2].mig
        /\ Listed(p[1].mig) \/ p[1].mig = Base
        /\ \A k \in 2 .. Len(p) :
              /\ p[k].mig \in Registered[s]
              /\ p[k] = NewModel(s, p[k].mig)
              /\ Listed(p[k].mig) <=> k = 2
        /\ \A k, l \in 1 .. Len(p) : k < l => Version[p[k].mig] < Version[p[l].mig]
        /\ \A m \in Registered[s] :
              \/ Listed(m)
              \/ \E k \in 2 .. Len(p) : p[k].mig = m
              \/ Version[p[Len(p)].mig] < Version[m]
    BY <1>0, <1>3, <1>6, <1>p DEF Climb, Descending
  <2>2. \A e \in docs' : Version[e.mig] <= Version[p[1].mig] \/ e.mig = p[2].mig
    BY <1>5, <2>1
  <2> QED BY <1>5, <1>6, <2>1, <2>2 DEF Climb
<1>9. OnCourse(s)'
  <2>1. ASSUME NEW k \in 1 .. Len(p), NEW e \in docs', p[k].mig = e.mig
        PROVE  p[k].id = e.id
    BY <1>4, <1>5, <2>1
  <2> QED BY <1>3, <1>4, <1>6, <1>7, <1>8, <2>1 DEF OnCourse
<1> QED BY <1>5, <1>6, <1>9, BookKept

LEMMA PromoteBook ==
    ASSUME BookInv, Sole, NEW s \in Services, PromoteCurrent(s), TypeOK', Exclusive'
    PROVE  BookInv'
<1>p. PICK p : p = path[s]
  OBVIOUS
<1>q. PICK q : q = Tail(p)
  OBVIOUS
<1>n. PICK n : n = p[2]
  OBVIOUS
<1>i. PICK i : i = n.id
  OBVIOUS
<1>b. PICK yes : yes = TRUE
  OBVIOUS
<1>0. /\ pc[s] = "promote" /\ pc' = [pc EXCEPT ![s] = LoopHead(s, q)]
      /\ path' = [path EXCEPT ![s] = q]
      /\ UNCHANGED <<effect, arg, runs>>
      /\ pc[s] \in Ascending /\ InFlight(s)
  BY <1>p, <1>q DEF PromoteCurrent, ReachNext, GoOn, Ascending, InFlight
<1>1. docs' = Updated(docs, i, yes) /\ yes \in BOOLEAN
  <2>1. docs' = Updated(docs, i, yes)
    BY <1>p, <1>n, <1>i, <1>b, Zenon DEF PromoteCurrent, ReachNext
  <2>2. yes \in BOOLEAN
    BY <1>b
  <2> QED BY <2>1, <2>2
<1>2. /\ TypeOK /\ Shelf /\ Tally(s) /\ OnCourse(s) /\ Running(s)
      /\ pc \in [Services -> {"idle"} \cup Loading \cup Holding]
      /\ path \in [Services -> Seq(Docs)] /\ p \in Seq(Docs) /\ arg[s] \in Int
  <2>1. Running(s)
    BY <1>0 DEF Running, Holding
  <2>2. TypeOK /\ Shelf /\ OnCourse(s)
    BY DEF BookInv
  <2>3. /\ pc \in [Services -> {"idle"} \cup Loading \cup Holding]
        /\ path \in [Services -> Seq(Docs)] /\ arg[s] \in Int
    BY <2>2 DEF TypeOK
  <2> QED BY <1>p, <2>1, <2>2, <2>3 DEF OnCourse
<1>3. /\ arg[s] >= 0 /\ arg[s] # 0 /\ Len(p) >= 2
      /\ 1 \in 1 .. Len(p) /\ 2 \in 1 .. Len(p) /\ 2 \in 2 .. Len(p)
      /\ \A d \in docs : Version[d.mig] <= Version[p[1].mig] \/ d.mig = n.mig
      /\ \A k \in 2 .. Len(p) : /\ p[k].mig \in Registered[s]
                                /\ p[k] = NewModel(s, p[k].mig)
                                /\ Listed(p[k].mig) <=> k = 2
      /\ \A k, l \in 1 .. Len(p) : k < l => Version[p[k].mig] < Version[p[l].mig]
      /\ \A m \in Registered[s] :
            \/ Listed(m)
            \/ \E k \in 2 .. Len(p) : p[k].mig = m
            \/ Version[p[Len(p)].mig] < Version[m]
  BY <1>0, <1>p, <1>n, ClimbNodes
<1>4. \A k \in 1 .. Len(p) :
         /\ p[k].id[3] = p[k].mig
         /\ \A d \in docs : p[k].mig = d.mig => p[k].id = d.id
  BY <1>2, <1>p DEF OnCourse
<1>5. /\ Shelf'
      /\ \A m : Listed(m)' <=> Listed(m)
      /\ \A e \in docs' : \E d \in docs :
            /\ e.id = d.id /\ e.mig = d.mig
            /\ d.id # i => e = d
            /\ d.id = i => e.status = "Completed" /\ (e.isCurrent <=> yes)
  BY <1>1, <1>2, UpdatedShelf
<1>6. /\ Len(p) \in Nat /\ q \in Seq(Docs) /\ Len(q) = Len(p) - 1 /\ q[1] = n
      /\ \A k \in 1 .. Len(q) : k + 1 \in 2 .. Len(p) /\ q[k] = p[k + 1]
  BY <1>2, <1>3, <1>q, <1>n
<1>7. LoopHead(s, q) \in {"remove", "insert"}
  BY <1>2, <1>3, <1>6 DEF LoopHead
<1>8. /\ pc'[s] \in {"remove", "insert"} /\ ~InFlight(s)' /\ Running(s)'
      /\ path'[s] = q /\ arg'[s] = arg[s] /\ effect' = effect
      /\ \A m : NewModel(s, m)' = NewModel(s, m)
  BY <1>0, <1>2, <1>7 DEF NewModel, InFlight, Running, Holding, Ascending
<1>9. Tally(s)'
  <2>1. /\ \A m \in Migrations : effect[m] = IF Listed(m) THEN 1 ELSE 0
        /\ \A d \in docs : /\ d.status = "Completed" \/ d.mig = n.mig
                           /\ ~d.isCurrent
    BY <1>0, <1>2, <1>p, <1>n DEF Tally
  <2>2. ASSUME NEW e \in docs'
        PROVE  e.status = "Completed" /\ (e.isCurrent <=> e.mig = n.mig)
    <3>1. PICK d \in docs : /\ e.mig = d.mig /\ e.id = d.id
                            /\ d.id # i => e = d
                            /\ d.id = i => e.status = "Completed" /\ (e.isCurrent <=> yes)
      BY <1>5
    <3>2. d.mig = n.mig <=> d.id = i
      <4>1. n.mig = d.mig => n.id = d.id
        BY <1>3, <1>4, <1>n
      <4>2. d.id[3] = d.mig /\ n.id[3] = n.mig
        BY <1>2, <1>3, <1>4, <1>n DEF Shelf
      <4> QED BY <1>i, <4>1, <4>2
    <3>3. CASE d.id = i
      BY <1>b, <3>1, <3>2, <3>3
    <3>4. CASE d.id # i
      BY <2>1, <3>1, <3>2, <3>4
    <3> QED BY <3>3, <3>4
  <2>3. path'[s][1] = n
    BY <1>6, <1>8
  <2> QED BY <1>5, <1>8, <2>1, <2>2, <2>3 DEF Tally
<1>10. Climb(s)'
  <2>1. ASSUME NEW e \in docs' PROVE Version[e.mig] <= Version[n.mig]
    <3>1. PICK d \in docs : e.mig = d.mig
      BY <1>5
    <3>2. Version[p[1].mig] < Version[n.mig]
      BY <1>3, <1>n
    <3>3. Version[d.mig] \in Int /\ Version[p[1].mig] \in Int /\ Version[n.mig] \in Int
      <4>1. d.mig \in Names /\ p[1].mig \in Names /\ n.mig \in Names
        <5>1. d \in Docs /\ p[1] \in Docs /\ n \in Docs
          BY <1>2, <1>3, <1>n DEF TypeOK
        <5> QED BY <5>1 DEF Docs
      <4> QED BY <4>1, VersionAssumption
    <3> QED BY <1>3, <3>1, <3>2, <3>3
  <2>2. Listed(n.mig)' /\ arg[s] # 0
    BY <1>3, <1>5, <1>n
  <2>3. ASSUME NEW k \in 2 .. Len(q)
        PROVE  /\ q[k].mig \in Registered[s]
               /\ q[k] = NewModel(s, q[k].mig)
               /\ ~Listed(q[k].mig)
    <3>1. k \in 1 .. Len(q) /\ k + 1 \in 2 .. Len(p) /\ k + 1 # 2
      BY <1>6
    <3> QED BY <1>3, <1>6, <3>1
  <2>4. ASSUME NEW k \in 1 .. Len(q), NEW l \in 1 .. Len(q), k < l
        PROVE  Version[q[k].mig] < Version[q[l].mig]
    <3>1. k + 1 \in 1 .. Len(p) /\ l + 1 \in 1 .. Len(p) /\ k + 1 < l + 1
      BY <1>6, <2>4
    <3> QED BY <1>3, <1>6, <3>1
  <2>5. ASSUME NEW m \in Registered[s], ~Listed(m), ~\E k \in 2 .. Len(q) : q[k].mig = m
        PROVE  Version[q[Len(q)].mig] < Version[m]
    <3>1. ~\E k \in 2 .. Len(p) : p[k].mig = m
      <4>1. ASSUME NEW k \in 2 .. Len(p), p[k].mig = m PROVE FALSE
        <5>1. k # 2
          BY <1>3, <2>5, <4>1
        <5>2. k - 1 \in 2 .. Len(q) /\ k - 1 \in 1 .. Len(q) /\ (k - 1) + 1 = k
          BY <1>6, <5>1
        <5> QED BY <1>6, <2>5, <4>1, <5>2
      <4> QED BY <4>1
    <3>2. Len(q) \in 1 .. Len(q) /\ Len(q) + 1 = Len(p)
      BY <1>3, <1>6
    <3>3. q[Len(q)] = p[Len(p)]
      BY <1>6, <3>2
    <3> QED BY <1>3, <2>5, <3>1, <3>3
  <2>6. pc'[s] \notin Descending
    BY <1>8 DEF Descending
  <2> QED BY <1>5, <1>6, <1>8, <2>1, <2>2, <2>3, <2>4, <2>5, <2>6 DEF Climb
<1>11. OnCourse(s)'
  <2>1. ASSUME NEW k \in 1 .. Len(q)
        PROVE  /\ q[k].id[3] = q[k].mig
               /\ \A e \in docs' : q[k].mig = e.mig => q[k].id = e.id
    <3>1. k + 1 \in 1 .. Len(p) /\ q[k] = p[k + 1]
      BY <1>3, <1>6
    <3> QED BY <1>4, <1>5, <3>1
  <2> QED BY <1>3, <1>8, <1>9, <1>10, <2>1 DEF OnCourse
<1>12. pc'[s] \notin {"load", "set"}
  BY <1>8
<1> QED BY <1>5, <1>8, <1>11, <1>12, BookKept

\* A run going backward, in an iteration of its loop.
LEMMA DescentNodes ==
    ASSUME BookInv, NEW s \in Services, pc[s] \in Descending, NEW p, p = path[s]
    PROVE  /\ ~(arg[s] >= 0) /\ Descent(s) /\ Running(s)
           /\ Len(p) >= 2 /\ 1 \in 1 .. Len(p) /\ 2 \in 1 .. Len(p)
           /\ pc[s] = "restore" => ~Listed(p[1].mig)
           /\ pc[s] # "restore" => Listed(p[1].mig)
           /\ \A i \in 2 .. Len(p) : Listed(p[i].mig) \/ p[i].mig = Base
           /\ \A i, j \in 1 .. Len(p) :
                 i < j => Version[p[j].mig] < Version[p[i].mig]
           /\ \A i, j \in 1 .. Len(p) : p[i].mig = p[j].mig => i = j
           /\ \A d \in docs : \/ \E i \in 1 .. Len(p) : p[i].mig = d.mig
                              \/ Version[d.mig] < Version[p[Len(p)].mig]
           /\ Version[p[1].mig] > 0 /\ p[1].mig # Base /\ p[1].mig \in Migrations
<1>1. Running(s) /\ pc[s] \notin {"set", "remove"}
  BY DEF Running, Holding, Descending
<1>2. /\ Shelf /\ (IF arg[s] >= 0 THEN Climb(s) ELSE Descent(s))
      /\ \A i \in 1 .. Len(p) : p[i].mig \in Names /\ Version[p[i].mig] \in Int
      /\ \A d \in docs : d.mig \in Names /\ Version[d.mig] \in Int
      /\ Len(p) \in Nat /\ Len(p) >= 2 /\ Version[Base] = 0
  BY <1>1, CourseTypes
<1>3. ~(arg[s] >= 0) /\ Descent(s)
  <2>1. ~Climb(s)
    BY DEF Climb
  <2> QED BY <1>2, <2>1
<1>4. /\ \A i \in 1 .. Len(p) :
            IF pc[s] = "restore" /\ i = 1
            THEN ~Listed(p[i].mig) ELSE Listed(p[i].mig) \/ p[i].mig = Base
      /\ \A i, j \in 1 .. Len(p) :
            i < j => Version[p[j].mig] < Version[p[i].mig]
      /\ \A d \in docs : \/ \E i \in 1 .. Len(p) : p[i].mig = d.mig
                         \/ Version[d.mig] < Version[p[Len(p)].mig]
  BY <1>3 DEF Descent
<1>5. 1 \in 1 .. Len(p) /\ 2 \in 1 .. Len(p)
  BY <1>2
<1>6. \A i \in 2 .. Len(p) : Listed(p[i].mig) \/ p[i].mig = Base
  <2>1. \A i \in 2 .. Len(p) : i \in 1 .. Len(p) /\ i # 1
    BY <1>2
  <2> QED BY <1>4, <2>1
<1>7. ASSUME NEW i \in 1 .. Len(p), NEW j \in 1 .. Len(p), p[i].mig = p[j].mig
      PROVE  i = j
  <2>1. i < j \/ j < i \/ i = j
    OBVIOUS
  <2> QED BY <1>2, <1>4, <1>7, <2>1
<1>8. Version[p[1].mig] > 0
  <2>1. Listed(p[2].mig) \/ p[2].mig = Base
    BY <1>4, <1>5
  <2>2. Version[p[2].mig] >= 0
    BY <1>2, <2>1 DEF Shelf, Listed
  <2> QED BY <1>2, <1>4, <1>5, <2>2
<1>9. p[1].mig # Base /\ p[1].mig \in Migrations
  BY <1>2, <1>5, <1>8 DEF Names
<1>10. /\ pc[s] = "restore" => ~Listed(p[1].mig)
       /\ pc[s] # "restore" => Listed(p[1].mig)
  BY <1>4, <1>5, <1>9
<1> QED BY <1>1, <1>2, <1>3, <1>4, <1>5, <1>6, <1>7, <1>8, <1>9, <1>10

LEMMA DownBook ==
    ASSUME BookInv, Sole, NEW s \in Services, Down(s), TypeOK', Exclusive'
    PROVE  BookInv'
<1>p. PICK p : p = path[s]
  OBVIOUS
<1>n. PICK n : n = p[1]
  OBVIOUS
<1>0. pc[s] = "down" /\ pc[s] \in Descending /\ ~InFlight(s)
  BY DEF Down, Descending, InFlight
<1>1. /\ ~(arg[s] >= 0) /\ Descent(s) /\ Running(s)
      /\ Listed(n.mig) /\ n.mig # Base /\ n.mig \in Migrations
  BY <1>0, <1>p, <1>n, DescentNodes
<1>2. /\ pc' = [pc EXCEPT ![s] = "delete"]
      /\ effect' = [effect EXCEPT ![n.mig] = @ - 1]
      /\ UNCHANGED <<docs, arg, runs, path>>
  BY <1>1, <1>p, <1>n DEF Down, GoOn
<1>3. /\ Shelf /\ Tally(s) /\ OnCourse(s) /\ effect \in [Names -> Int]
      /\ pc \in [Services -> {"idle"} \cup Loading \cup Holding]
  BY <1>1, CourseTypes DEF BookInv
<1>4. /\ pc'[s] = "delete" /\ ~InFlight(s)' /\ Running(s)'
      /\ path'[s] = path[s] /\ arg'[s] = arg[s] /\ docs' = docs
      /\ \A m : Listed(m)' <=> Listed(m)
  BY <1>2, <1>3 DEF Listed, InFlight, Running, Holding, Descending
<1>5. Tally(s)'
  <2>1. /\ \A m \in Migrations : effect[m] = IF Listed(m) THEN 1 ELSE 0
        /\ \A d \in docs : /\ d.status = "Completed"
                           /\ d.isCurrent <=> d.mig = path[s][1].mig
    BY <1>0, <1>3 DEF Tally
  <2>2. ASSUME NEW m \in Migrations
        PROVE  effect'[m] = IF Listed(m) /\ m # n.mig THEN 1 ELSE 0
    <3>1. m \in Names /\ n.mig \in Names
      BY <1>1 DEF Names
    <3>2. CASE m = n.mig
      <4>1. effect[n.mig] = 1
        BY <1>1, <2>1
      <4> QED BY <1>2, <1>1, <1>3, <3>1, <3>2, <4>1
    <3>3. CASE m # n.mig
      BY <1>2, <1>3, <2>1, <3>1, <3>3
    <3> QED BY <3>2, <3>3
  <2>3. path'[s][1] = n
    BY <1>4, <1>n, <1>p
  <2> QED BY <1>4, <2>1, <2>2, <2>3 DEF Tally
<1>6. Descent(s)'
  <2>1. pc'[s] \notin Ascending /\ pc'[s] # "restore" /\ pc[s] # "restore"
    BY <1>0, <1>4 DEF Ascending
  <2> QED BY <1>1, <1>4, <2>1 DEF Descent
<1>7. OnCourse(s)'
  BY <1>1, <1>3, <1>4, <1>5, <1>6 DEF OnCourse
<1>8. Shelf'
  BY <1>3, <1>4 DEF Shelf
<1> QED BY <1>4, <1>7, <1>8, BookKept

LEMMA DeleteBook ==
    ASSUME BookInv, Sole, NEW s \in Services, DeleteModel(s), TypeOK', Exclusive'
    PROVE  BookInv'
<1>p. PICK p : p = path[s]
  OBVIOUS
<1>n. PICK n : n = p[1]
  OBVIOUS
<1>0. /\ pc[s] = "delete" /\ pc[s] \in Descending /\ ~InFlight(s)
      /\ pc' = [pc EXCEPT ![s] = "restore"]
      /\ docs' = {d \in docs : d.id # n.id}
      /\ UNCHANGED <<effect, arg, runs, path>>
  BY <1>p, <1>n DEF DeleteModel, GoOn, Descending, InFlight
<1>1. /\ ~(arg[s] >= 0) /\ Running(s)
      /\ 1 \in 1 .. Len(p) /\ 2 \in 1 .. Len(p) /\ Len(p) >= 2
      /\ n.mig # Base /\ n.mig \in Migrations
      /\ \A i \in 2 .. Len(p) : Listed(p[i].mig) \/ p[i].mig = Base
      /\ \A i, j \in 1 .. Len(p) :
            i < j => Version[p[j].mig] < Version[p[i].mig]
      /\ \A i, j \in 1 .. Len(p) : p[i].mig = p[j].mig => i = j
      /\ \A d \in docs : \/ \E i \in 1 .. Len(p) : p[i].mig = d.mig
                         \/ Version[d.mig] < Version[p[Len(p)].mig]
  BY <1>0, <1>p, <1>n, DescentNodes
<1>2. /\ Shelf /\ Tally(s)
      /\ pc \in [Services -> {"idle"} \cup Loading \cup Holding]
      /\ \A i \in 1 .. Len(p) :
            /\ p[i].id[3] = p[i].mig
            /\ \A d \in docs : p[i].mig = d.mig => p[i].id = d.id
  BY <1>1, <1>p, CourseTypes
<1>3. docs' = {d \in docs : d.mig # n.mig}
  <2>1. \A d \in docs : d.id = n.id <=> d.mig = n.mig
    <3>1. \A d \in docs : d.id[3] = d.mig
      BY <1>2 DEF Shelf
    <3> QED BY <1>1, <1>2, <1>n, <3>1
  <2> QED BY <1>0, <2>1
<1>4. /\ pc'[s] = "restore" /\ ~InFlight(s)' /\ Running(s)'
      /\ path'[s] = p /\ arg'[s] = arg[s] /\ effect' = effect
      /\ \A m : Listed(m)' <=> Listed(m) /\ m # n.mig
  BY <1>0, <1>2, <1>3, <1>p DEF Listed, InFlight, Running, Holding, Descending
<1>5. Shelf'
  BY <1>1, <1>2, <1>3, <1>4 DEF Shelf
<1>6. Tally(s)'
  <2>1. /\ \A m \in Migrations : effect[m] = IF Listed(m) /\ m # n.mig THEN 1 ELSE 0
        /\ \A d \in docs : /\ d.status = "Completed"
                           /\ d.isCurrent <=> d.mig = n.mig
    BY <1>0, <1>2, <1>p, <1>n DEF Tally
  <2>2. \A d \in docs' : d.status = "Completed" /\ ~d.isCurrent
    BY <1>3, <2>1
  <2> QED BY <1>4, <2>1, <2>2 DEF Tally
<1>7. Descent(s)'
  <2>1. pc'[s] \notin Ascending
    BY <1>4 DEF Ascending
  <2>2. ASSUME NEW i \in 1 .. Len(p), i # 1
        PROVE  Listed(p[i].mig)' \/ p[i].mig = Base
    <3>1. i \in 2 .. Len(p) /\ p[i].mig # n.mig
      BY <1>1, <1>n, <2>2
    <3> QED BY <1>1, <1>4, <3>1
  <2>3. ~Listed(p[1].mig)'
    BY <1>4, <1>n
  <2>4. \A d \in docs' : \/ \E i \in 1 .. Len(p) : p[i].mig = d.mig
                         \/ Version[d.mig] < Version[p[Len(p)].mig]
    BY <1>1, <1>3
  <2> QED BY <1>1, <1>4, <2>1, <2>2, <2>3, <2>4 DEF Descent
<1>8. \A i \in 1 .. Len(p) :
         /\ p[i].id[3] = p[i].mig
         /\ \A d \in docs' : p[i].mig = d.mig => p[i].id = d.id
  BY <1>2, <1>3
<1>9. OnCourse(s)'
  BY <1>1, <1>4, <1>6, <1>7, <1>8 DEF OnCourse
<1> QED BY <1>4, <1>5, <1>9, BookKept

LEMMA RestoreBook ==
    ASSUME BookInv, Sole, NEW s \in Services, RestoreCurrent(s), TypeOK', Exclusive'
    PROVE  BookInv'
<1>p. PICK p : p = path[s]
  OBVIOUS
<1>q. PICK q : q = Tail(p)
  OBVIOUS
<1>n. PICK n : n = p[2]
  OBVIOUS
<1>i. PICK i : i = n.id
  OBVIOUS
<1>b. PICK yes : yes = TRUE
  OBVIOUS
<1>0. /\ pc[s] = "restore" /\ pc' = [pc EXCEPT ![s] = LoopHead(s, q)]
      /\ path' = [path EXCEPT ![s] = q]
      /\ UNCHANGED <<effect, arg, runs>>
      /\ pc[s] \in Descending /\ ~InFlight(s)
  BY <1>p, <1>q DEF RestoreCurrent, ReachNext, GoOn, Descending, InFlight
<1>1. docs' = Updated(docs, i, yes) /\ yes \in BOOLEAN
  <2>1. docs' = Updated(docs, i, yes)
    BY <1>p, <1>n, <1>i, <1>b, Zenon DEF RestoreCurrent, ReachNext
  <2>2. yes \in BOOLEAN
    BY <1>b
  <2> QED BY <2>1, <2>2
<1>3. /\ ~(arg[s] >= 0) /\ Running(s) /\ Len(p) >= 2
      /\ 1 \in 1 .. Len(p) /\ 2 \in 1 .. Len(p)
      /\ ~Listed(p[1].mig)
      /\ \A k \in 2 .. Len(p) : Listed(p[k].mig) \/ p[k].mig = Base
      /\ \A k, l \in 1 .. Len(p) :
            k < l => Version[p[l].mig] < Version[p[k].mig]
      /\ \A d \in docs : \/ \E k \in 1 .. Len(p) : p[k].mig = d.mig
                         \/ Version[d.mig] < Version[p[Len(p)].mig]
  BY <1>0, <1>p, DescentNodes
<1>2. /\ TypeOK /\ Shelf /\ Tally(s) /\ arg[s] \in Int
      /\ pc \in [Services -> {"idle"} \cup Loading \cup Holding]
      /\ path \in [Services -> Seq(Docs)] /\ p \in Seq(Docs) /\ Len(p) \in Nat
      /\ \A k \in 1 .. Len(p) :
            /\ p[k].id[3] = p[k].mig
            /\ \A d \in docs : p[k].mig = d.mig => p[k].id = d.id
  BY <1>3, <1>p, CourseTypes
<1>5. /\ Shelf'
      /\ \A m : Listed(m)' <=> Listed(m)
      /\ \A e \in docs' : \E d \in docs :
            /\ e.id = d.id /\ e.mig = d.mig
            /\ d.id # i => e = d
            /\ d.id = i => e.status = "Completed" /\ (e.isCurrent <=> yes)
  BY <1>1, <1>2, UpdatedShelf
<1>6. /\ Len(p) \in Nat /\ q \in Seq(Docs) /\ Len(q) = Len(p) - 1 /\ q[1] = n
      /\ \A k \in 1 .. Len(q) : k + 1 \in 2 .. Len(p) /\ q[k] = p[k + 1]
  BY <1>2, <1>3, <1>q, <1>n
<1>7. LoopHead(s, q) \in {"remove", "down"}
  BY <1>2, <1>3, <1>6 DEF LoopHead
<1>8. /\ pc'[s] \in {"remove", "down"} /\ ~InFlight(s)' /\ Running(s)'
      /\ path'[s] = q /\ arg'[s] = arg[s] /\ effect' = effect
  BY <1>0, <1>2, <1>7 DEF InFlight, Running, Holding, Descending
<1>9. Tally(s)'
  <2>1. /\ \A m \in Migrations : effect[m] = IF Listed(m) THEN 1 ELSE 0
        /\ \A d \in docs : d.status = "Completed" /\ ~d.isCurrent
    BY <1>0, <1>2 DEF Tally
  <2>2. ASSUME NEW e \in docs'
        PROVE  e.status = "Completed" /\ (e.isCurrent <=> e.mig = n.mig)
    <3>1. PICK d \in docs : /\ e.mig = d.mig /\ e.id = d.id
                            /\ d.id # i => e = d
                            /\ d.id = i => e.status = "Completed" /\ (e.isCurrent <=> yes)
      BY <1>5
    <3>2. d.mig = n.mig <=> d.id = i
      <4>1. n.mig = d.mig => n.id = d.id
        BY <1>2, <1>3, <1>n
      <4>2. d.id[3] = d.mig /\ n.id[3] = n.mig
        BY <1>2, <1>3, <1>n DEF Shelf
      <4> QED BY <1>i, <4>1, <4>2
    <3>3. CASE d.id = i
      BY <1>b, <3>1, <3>2, <3>3
    <3>4. CASE d.id # i
      BY <2>1, <3>1, <3>2, <3>4
    <3> QED BY <3>3, <3>4
  <2>3. path'[s][1] = n
    BY <1>6, <1>8
  <2> QED BY <1>5, <1>8, <2>1, <2>2, <2>3 DEF Tally
<1>10. Descent(s)'
  <2>1. \A k \in 1 .. Len(q) : Listed(q[k].mig) \/ q[k].mig = Base
    BY <1>3, <1>6
  <2>2. ASSUME NEW k \in 1 .. Len(q), NEW l \in 1 .. Len(q), k < l
        PROVE  Version[q[l].mig] < Version[q[k].mig]
    <3>1. k + 1 \in 1 .. Len(p) /\ l + 1 \in 1 .. Len(p) /\ k + 1 < l + 1
      BY <1>6, <2>2
    <3> QED BY <1>3, <1>6, <3>1
  <2>3. q[Len(q)] = p[Len(p)]
    <3>1. Len(q) \in 1 .. Len(q) /\ Len(q) + 1 = Len(p)
      BY <1>3, <1>6
    <3> QED BY <1>6, <3>1
  <2>4. ASSUME NEW e \in docs', ~\E k \in 1 .. Len(q) : q[k].mig = e.mig
        PROVE  Version[e.mig] < Version[q[Len(q)].mig]
    <3>1. PICK d \in docs : e.mig = d.mig
      BY <1>5
    <3>2. ~\E k \in 1 .. Len(p) : p[k].mig = d.mig
      <4>1. ASSUME NEW k \in 1 .. Len(p), p[k].mig = d.mig PROVE FALSE
        <5>1. k # 1
          BY <1>3, <4>1 DEF Listed
        <5>2. k - 1 \in 1 .. Len(q) /\ (k - 1) + 1 = k
          BY <1>6, <5>1
        <5> QED BY <1>6, <2>4, <3>1, <4>1, <5>2
      <4> QED BY <4>1
    <3> QED BY <1>3, <2>3, <3>1, <3>2
  <2>5. pc'[s] \notin Ascending /\ pc'[s] # "restore"
    BY <1>8 DEF Ascending
  <2> QED BY <1>5, <1>8, <2>1, <2>2, <2>4, <2>5 DEF Descent
<1>11. OnCourse(s)'
  <2>1. ASSUME NEW k \in 1 .. Len(q)
        PROVE  /\ q[k].id[3] = q[k].mig
               /\ \A e \in docs' : q[k].mig = e.mig => q[k].id = e.id
    <3>1. k + 1 \in 1 .. Len(p) /\ q[k] = p[k + 1]
      BY <1>6
    <3> QED BY <1>2, <1>5, <3>1
  <2> QED BY <1>3, <1>8, <1>9, <1>10, <2>1 DEF OnCourse
<1>12. pc'[s] \notin {"load", "set"}
  BY <1>8
<1> QED BY <1>5, <1>8, <1>11, <1>12, BookKept

LEMMA BookInit == Init => BookInv
<1> SUFFICES ASSUME Init PROVE BookInv
  OBVIOUS
<1>1. /\ \A s \in Services : pc[s] = "idle"
      /\ effect = [m \in Names |-> 0]
      /\ docs = IF SeededBase THEN {StoredBase} ELSE {}
      /\ SeededBase \in BOOLEAN
  BY BoundsAssumption DEF Init
<1>2. TypeOK /\ Exclusive
  BY <1>1, TypeInit DEF Exclusive, MutualExclusion, Running, Holding, Ascending,
     Descending
<1>3. /\ \A d \in docs : /\ d = StoredBase /\ d.id[3] = Base /\ d.mig = Base
                         /\ d.status = "Completed" /\ d.isCurrent
      /\ Listed(Base) <=> SeededBase
  <2>1. \A d \in docs : d = StoredBase
    BY <1>1
  <2>2. /\ StoredBase.id[3] = Base /\ StoredBase.mig = Base
        /\ StoredBase.status = "Completed" /\ StoredBase.isCurrent
    BY DEF StoredBase
  <2>3. SeededBase => StoredBase \in docs
    BY <1>1
  <2>4. ~SeededBase => docs = {}
    BY <1>1
  <2> QED BY <2>1, <2>2, <2>3, <2>4 DEF Listed
<1>4. Shelf
  BY <1>3 DEF Shelf
<1>5. Balanced
  <2>1. ASSUME NEW m \in Migrations PROVE effect[m] = 0 /\ ~Listed(m)
    <3>1. m # Base /\ m \in Names
      BY MigrationsAssumption DEF Names
    <3> QED BY <1>1, <1>3, <3>1 DEF Listed
  <2>2. Version[Base] = 0
    BY VersionAssumption
  <2> QED BY <1>3, <2>1, <2>2 DEF Balanced
<1>6. \A s \in Services : OnCourse(s)
  BY <1>1 DEF OnCourse, Running, Holding, Ascending, Descending
<1> QED BY <1>1, <1>2, <1>4, <1>5, <1>6 DEF BookInv

\* Every step of a service that has the database to itself keeps the books.
LEMMA BookStep ==
    ASSUME Sole, DistinctVersions
    PROVE  BookInv /\ [Next]_vars => BookInv'
<1> SUFFICES ASSUME BookInv, [Next]_vars PROVE BookInv'
  OBVIOUS
<1>1. TypeOK' /\ Exclusive'
  BY TypeStep, ExclusiveStep DEF BookInv
<1>2. CASE UNCHANGED vars
  <2>1. /\ UNCHANGED <<docs, marker, effect, pc, runs, arg, path>>
        /\ Shelf' /\ (~marker' => Balanced')
    BY <1>2 DEF vars, BookInv, Shelf, Balanced, Listed
  <2>2. ASSUME NEW s \in Services
        PROVE  (pc'[s] \in {"load", "set"} => ~marker') /\ OnCourse(s)'
    <3>1. Running(s)' <=> Running(s)
      BY <2>1 DEF Running
    <3>2. Tally(s)' <=> Tally(s)
      BY <2>1 DEF Tally, Listed, InFlight
    <3>3. /\ Climb(s)' <=> Climb(s)
          /\ Descent(s)' <=> Descent(s)
      BY <2>1 DEF Climb, Descent, Listed, InFlight, NewModel
    <3> QED BY <2>1, <3>1, <3>2, <3>3 DEF BookInv, OnCourse
  <2> QED BY <1>1, <2>1, <2>2 DEF BookInv
<1>3. ASSUME NEW s \in Services, Call(s) \/ RunStep(s) \/ Abort(s)
      PROVE  BookInv'
  <2>1. CASE Call(s) \/ (IsMigrationRunning(s) /\ ~Return(s))
    <3>1. /\ pc \in [Services -> {"idle"} \cup Loading \cup Holding]
          /\ Shelf /\ (~marker => Balanced)
      BY DEF BookInv, TypeOK
    <3>2. /\ UNCHANGED <<docs, marker, effect>>
          /\ pc'[s] = "check" \/ (pc'[s] = "load" /\ ~marker')
      BY <2>1, <3>1 DEF Call, IsMigrationRunning, GoOn
    <3>3. Shelf' /\ (~marker' => Balanced')
      BY <3>1, <3>2 DEF Shelf, Balanced, Listed
    <3>4. OnCourse(s)'
      BY <3>2 DEF OnCourse, Running, Holding, Ascending, Descending
    <3> QED BY <1>1, <3>2, <3>3, <3>4, BookKept
  <2>2. CASE IsMigrationRunning(s) /\ Return(s)
    <3>1. UNCHANGED <<docs, effect, marker>> /\ (~marker => Balanced)
      BY <2>2 DEF IsMigrationRunning, BookInv
    <3> QED BY <1>1, <2>2, <3>1, BookReturn
  <2>3. CASE LoadAndParse(s)
    <3>1. CASE Return(s)
      <4>1. UNCHANGED <<docs, effect, marker>> /\ (~marker => Balanced)
        BY <2>3 DEF LoadAndParse, BookInv
      <4> QED BY <1>1, <3>1, <4>1, BookReturn
    <3>2. CASE ~Return(s)
      BY <1>1, <2>3, <3>2, LoadBook
    <3> QED BY <3>1, <3>2
  <2>4. CASE SetMigrationToRunning(s)
    <3>1. CASE Return(s)
      <4>1. UNCHANGED <<docs, effect>> /\ (~marker' => Balanced)
        BY <2>4 DEF SetMigrationToRunning, BookInv
      <4> QED BY <1>1, <3>1, <4>1, BookReturn
    <3>2. CASE ~Return(s)
      BY <1>1, <2>4, <3>2, SetBook
    <3> QED BY <3>1, <3>2
  <2>5. CASE InsertModel(s)
    BY <1>1, <2>5, InsertBook
  <2>6. CASE Up(s)
    BY <1>1, <2>6, UpBook
  <2>7. CASE DemotePrevious(s)
    BY <1>1, <2>7, DemoteBook
  <2>8. CASE PromoteCurrent(s)
    BY <1>1, <2>8, PromoteBook
  <2>9. CASE Down(s)
    BY <1>1, <2>9, DownBook
  <2>10. CASE DeleteModel(s)
    BY <1>1, <2>10, DeleteBook
  <2>11. CASE RestoreCurrent(s)
    BY <1>1, <2>11, RestoreBook
  <2>12. CASE RemoveMigrationFromRunning(s)
    <3>1. pc[s] = "remove" /\ Return(s) /\ UNCHANGED <<docs, effect>>
      BY <2>12 DEF RemoveMigrationFromRunning
    <3> QED BY <1>1, <3>1, DoneBalanced, BookReturn
  <2>13. CASE Abort(s)
    <3>1. Return(s) /\ UNCHANGED <<docs, effect, marker>> /\ (~marker => Balanced)
      BY <2>13 DEF Abort, BookInv
    <3> QED BY <1>1, <3>1, BookReturn
  <2> QED
    BY <1>3, <2>1, <2>2, <2>3, <2>4, <2>5, <2>6, <2>7, <2>8, <2>9, <2>10, <2>11,
       <2>12, <2>13
    DEF RunStep
<1> QED BY <1>2, <1>3 DEF Next

\* One document for each listed migration: what LedgerMatchesSchema counts.
LEMMA BookTells ==
    ASSUME BookInv
    PROVE  LedgerMatchesSchema
<1> SUFFICES ASSUME ~marker PROVE LedgerMatchesSchema
  BY DEF LedgerMatchesSchema
<1>1. Shelf /\ Balanced
  BY DEF BookInv
<1>2. ASSUME NEW m \in Migrations
      PROVE  /\ effect[m] \in {0, 1}
             /\ effect[m] = Cardinality({d \in docs : d.mig = m})
  <2>1. CASE Listed(m)
    <3>1. PICK d \in docs : d.mig = m
      BY <2>1 DEF Listed
    <3>2. {e \in docs : e.mig = m} = {d}
      BY <1>1, <3>1 DEF Shelf
    <3> QED BY <1>1, <2>1, <3>2, FS_Singleton DEF Balanced
  <2>2. CASE ~Listed(m)
    <3>1. {d \in docs : d.mig = m} = {}
      BY <2>2 DEF Listed
    <3> QED BY <1>1, <2>2, <3>1, FS_EmptySet DEF Balanced
  <2> QED BY <2>1, <2>2
<1> QED BY <1>1, <1>2 DEF LedgerMatchesSchema, Balanced

\* Forward and backward, whatever the steps, and wherever its runs fail
\* (manager.go:94-180): one service that alone manages a database finds, when
\* no marker is there, one document for each migration in effect and for no
\* other, all completed and the newest the current one, if versions tell
\* migrations apart.
THEOREM SoleLedgerMatches ==
    ASSUME Sole, DistinctVersions
    PROVE  Spec => []LedgerMatchesSchema
<1>1. BookInv /\ [Next]_vars => BookInv'
  BY BookStep
<1>2. BookInv => LedgerMatchesSchema
  BY BookTells
<1> QED BY <1>1, <1>2, BookInit, PTL DEF Spec

-----------------------------------------------------------------------------
(* One service alone implements SchemaHistory.                             *)

Complete == \A s \in Services : Registered[s] = Migrations

InEffect == {m \in Migrations : effect[m] = 1}

\* An Up upgrades: to the oldest migration that was not in effect, and newer
\* than all those that were.
LEMMA UpRefines ==
    ASSUME BookInv, Complete, NEW s \in Services, Up(s)
    PROVE  \E m \in Migrations \ InEffect :
              /\ \A k \in Migrations \ (InEffect \cup {m}) : Version[m] < Version[k]
              /\ \A k \in InEffect : Version[k] < Version[m]
              /\ InEffect' = InEffect \cup {m}
<1>p. PICK p : p = path[s]
  OBVIOUS
<1>n. PICK n : n = p[2]
  OBVIOUS
<1>0. /\ pc[s] = "up" /\ pc[s] \in Ascending /\ InFlight(s)
      /\ effect' = [effect EXCEPT ![n.mig] = @ + 1]
  BY <1>p, <1>n DEF Up, Ascending, InFlight
<1>1. /\ Running(s) /\ Len(p) >= 2 /\ 1 \in 1 .. Len(p) /\ 2 \in 1 .. Len(p)
      /\ n.mig \in Migrations
      /\ \A d \in docs : Version[d.mig] <= Version[p[1].mig] \/ d.mig = n.mig
      /\ \A i, j \in 1 .. Len(p) : i < j => Version[p[i].mig] < Version[p[j].mig]
      /\ \A m \in Registered[s] :
            \/ Listed(m)
            \/ \E i \in 2 .. Len(p) : p[i].mig = m
            \/ Version[p[Len(p)].mig] < Version[m]
  BY <1>0, <1>p, <1>n, ClimbNodes
<1>2. /\ Tally(s) /\ Len(p) \in Nat /\ effect \in [Names -> Int]
      /\ \A d \in docs : Version[d.mig] \in Int
      /\ \A i \in 1 .. Len(p) : Version[p[i].mig] \in Int
  BY <1>1, <1>p, CourseTypes
<1>3. \A m \in Migrations : effect[m] = IF Listed(m) /\ m # n.mig THEN 1 ELSE 0
  BY <1>0, <1>2, <1>p, <1>n DEF Tally
<1>4. n.mig \notin InEffect /\ \A m \in Migrations : m \in InEffect <=> Listed(m) /\ m # n.mig
  BY <1>3 DEF InEffect
<1>5. InEffect' = InEffect \cup {n.mig}
  <2>1. effect'[n.mig] = 1 /\ \A m \in Migrations : m # n.mig => effect'[m] = effect[m]
    BY <1>0, <1>1, <1>2, <1>3 DEF Names
  <2> QED BY <1>1, <2>1 DEF InEffect
<1>6. ASSUME NEW k \in Migrations \ (InEffect \cup {n.mig})
      PROVE  Version[n.mig] < Version[k]
  <2>1. /\ ~Listed(k) /\ k # n.mig /\ k \in Registered[s] /\ Version[k] \in Int
    BY <1>4, VersionAssumption DEF Complete, Names
  <2>2. CASE \E i \in 2 .. Len(p) : p[i].mig = k
    <3>1. PICK i \in 2 .. Len(p) : p[i].mig = k
      BY <2>2
    <3>2. i \in 1 .. Len(p) /\ 2 < i
      BY <1>n, <2>1, <3>1
    <3> QED BY <1>1, <1>n, <3>1, <3>2
  <2>3. CASE Version[p[Len(p)].mig] < Version[k]
    <3>1. Len(p) \in 1 .. Len(p) /\ (2 < Len(p) \/ Len(p) = 2)
      <4>1. PICK l \in Nat : l = Len(p)
        BY <1>2
      <4>2. l >= 2
        BY <1>1, <4>1, Zenon
      <4>3. l \in 1 .. l /\ (2 < l \/ l = 2)
        BY <4>2
      <4> QED BY <4>1, <4>3, Zenon
    <3>2. Version[n.mig] <= Version[p[Len(p)].mig]
      BY <1>1, <1>2, <1>n, <3>1
    <3> QED BY <1>1, <1>2, <1>n, <2>1, <2>3, <3>1, <3>2
  <2> QED BY <1>1, <2>1, <2>2, <2>3
<1>7. ASSUME NEW k \in InEffect PROVE Version[k] < Version[n.mig]
  <2>1. Listed(k) /\ k # n.mig
    BY <1>4 DEF InEffect
  <2>2. PICK d \in docs : d.mig = k
    BY <2>1 DEF Listed
  <2>3. Version[p[1].mig] < Version[n.mig]
    BY <1>1, <1>n
  <2> QED BY <1>1, <1>2, <1>n, <2>1, <2>2, <2>3
<1> QED BY <1>1, <1>4, <1>5, <1>6, <1>7

\* A Down rolls the newest migration in effect back.
LEMMA DownRefines ==
    ASSUME BookInv, NEW s \in Services, Down(s)
    PROVE  \E m \in InEffect :
              /\ \A k \in InEffect \ {m} : Version[k] < Version[m]
              /\ InEffect' = InEffect \ {m}
<1>p. PICK p : p = path[s]
  OBVIOUS
<1>n. PICK n : n = p[1]
  OBVIOUS
<1>0. pc[s] = "down" /\ pc[s] \in Descending
  BY DEF Down, Descending
<1>1. /\ Running(s) /\ Len(p) >= 2 /\ 1 \in 1 .. Len(p)
      /\ n.mig \in Migrations /\ n.mig # Base /\ Listed(n.mig)
      /\ \A i, j \in 1 .. Len(p) : i < j => Version[p[j].mig] < Version[p[i].mig]
      /\ \A d \in docs : \/ \E i \in 1 .. Len(p) : p[i].mig = d.mig
                         \/ Version[d.mig] < Version[p[Len(p)].mig]
  BY <1>0, <1>p, <1>n, DescentNodes
<1>2. /\ Tally(s) /\ Len(p) \in Nat /\ effect \in [Names -> Int]
      /\ \A d \in docs : Version[d.mig] \in Int
      /\ \A i \in 1 .. Len(p) : Version[p[i].mig] \in Int
  BY <1>1, <1>p, CourseTypes
<1>3. \A m \in Migrations : effect[m] = IF Listed(m) THEN 1 ELSE 0
  BY <1>0, <1>2 DEF Tally
<1>4. n.mig \in InEffect /\ \A m \in Migrations : m \in InEffect <=> Listed(m)
  BY <1>1, <1>3 DEF InEffect
<1>5. InEffect' = InEffect \ {n.mig}
  <2>1. effect' = [effect EXCEPT ![n.mig] = @ - 1]
    BY <1>1, <1>p, <1>n DEF Down
  <2>2. effect'[n.mig] = 0 /\ \A m \in Migrations : m # n.mig => effect'[m] = effect[m]
    BY <1>1, <1>2, <1>3, <2>1 DEF Names
  <2> QED BY <2>2 DEF InEffect
<1>6. ASSUME NEW k \in InEffect \ {n.mig} PROVE Version[k] < Version[n.mig]
  <2>1. Listed(k) /\ k # n.mig
    BY <1>4 DEF InEffect
  <2>2. PICK d \in docs : d.mig = k
    BY <2>1 DEF Listed
  <2>3. CASE \E i \in 1 .. Len(p) : p[i].mig = k
    <3>1. PICK i \in 1 .. Len(p) : p[i].mig = k
      BY <2>3
    <3>2. 1 < i
      BY <1>n, <2>1, <3>1
    <3> QED BY <1>1, <1>n, <3>1, <3>2
  <2>4. CASE Version[k] < Version[p[Len(p)].mig]
    <3>1. Len(p) \in 1 .. Len(p) /\ 1 < Len(p)
      BY <1>1, <1>2
    <3>2. Version[p[Len(p)].mig] < Version[n.mig]
      BY <1>1, <1>n, <3>1
    <3> QED BY <1>1, <1>2, <1>n, <2>2, <2>4, <3>1, <3>2
  <2> QED BY <1>1, <2>2, <2>3, <2>4
<1> QED BY <1>4, <1>5, <1>6

\* No other step touches the database.
LEMMA OthersStutter ==
    ASSUME [Next]_vars, \A s \in Services : ~Up(s) /\ ~Down(s)
    PROVE  effect' = effect
<1>1. CASE UNCHANGED vars
  BY <1>1 DEF vars
<1>2. ASSUME NEW s \in Services, Call(s) \/ RunStep(s) \/ Abort(s)
      PROVE  effect' = effect
  BY <1>2
  DEF Call, RunStep, Abort, IsMigrationRunning, LoadAndParse, SetMigrationToRunning,
      InsertModel, DemotePrevious, PromoteCurrent, DeleteModel, RestoreCurrent,
      ReachNext, RemoveMigrationFromRunning
<1> QED BY <1>1, <1>2 DEF Next

LEMMA HistoryStep ==
    ASSUME Complete, BookInv, [Next]_vars
    PROVE  [History!Next]_InEffect
<1> USE DEF History!Next, History!Upgrade, History!Rollback, History!Newer
<1>v. \A m \in Migrations : [k \in Migrations |-> Version[k]][m] = Version[m]
  OBVIOUS
<1>e. InEffect \subseteq Migrations
  BY DEF InEffect
<1>1. CASE \E s \in Services : Up(s)
  <2>1. PICK m \in Migrations \ InEffect :
              /\ \A k \in Migrations \ (InEffect \cup {m}) : Version[m] < Version[k]
              /\ \A k \in InEffect : Version[k] < Version[m]
              /\ InEffect' = InEffect \cup {m}
    BY <1>1, UpRefines
  <2>2. History!Upgrade
    BY <1>v, <1>e, <2>1 DEF InEffect
  <2> QED BY <2>2
<1>2. CASE \E s \in Services : Down(s)
  <2>1. PICK m \in InEffect :
              /\ \A k \in InEffect \ {m} : Version[k] < Version[m]
              /\ InEffect' = InEffect \ {m}
    BY <1>2, DownRefines
  <2>2. History!Rollback
    BY <1>v, <1>e, <2>1 DEF InEffect
  <2> QED BY <2>2
<1>3. CASE \A s \in Services : ~Up(s) /\ ~Down(s)
  <2>1. InEffect' = InEffect
    BY <1>3, OthersStutter DEF InEffect
  <2> QED BY <2>1
<1> QED BY <1>1, <1>2, <1>3

LEMMA HistoryInit == Init => History!Init
<1> SUFFICES ASSUME Init PROVE {m \in Migrations : effect[m] = 1} = {}
  BY DEF History!Init
<1>1. \A m \in Migrations : effect[m] = 0
  BY DEF Init, Names
<1> QED BY <1>1

\* manager.go:94-180 under the lists of ParseAndSortMigrations: one service
\* alone, that knows every migration, takes the database through the
\* migrations in the order of their versions, leaves none out, and back in the
\* reverse order, for any steps, any number of runs and wherever they fail.
THEOREM HistoryRefined ==
    ASSUME Sole, DistinctVersions, Complete
    PROVE  Spec => HistorySpec
<1>1. BookInv /\ [Next]_vars => BookInv'
  BY BookStep
<1>2. BookInv /\ [Next]_vars => [History!Next]_{m \in Migrations : effect[m] = 1}
  BY HistoryStep DEF InEffect
<1> QED BY <1>1, <1>2, BookInit, HistoryInit, PTL DEF Spec, HistorySpec, History!Spec

\* No migration in effect has an older one without effect.
Unbroken == \A m \in InEffect, k \in Migrations : Version[k] < Version[m] => k \in InEffect

\* What the history amounts to: whenever a run stops, and wherever it failed, the
\* database is as it was left by the migrations up to some version, all of them
\* and no others.
THEOREM SchemaHasVersion ==
    ASSUME Sole, DistinctVersions, Complete
    PROVE  Spec => []Unbroken
<1>1. Init => Unbroken
  BY HistoryInit DEF Unbroken, InEffect, History!Init
<1>2. BookInv /\ Unbroken /\ [Next]_vars => Unbroken'
  <2> SUFFICES ASSUME BookInv, Unbroken, [Next]_vars PROVE Unbroken'
    OBVIOUS
  <2>1. InEffect \subseteq Migrations /\ \A m \in Migrations : Version[m] \in Int
    BY VersionAssumption DEF InEffect, Names
  <2>2. CASE \E s \in Services : Up(s)
    <3>1. PICK m \in Migrations \ InEffect :
                /\ \A k \in Migrations \ (InEffect \cup {m}) : Version[m] < Version[k]
                /\ InEffect' = InEffect \cup {m}
      BY <2>2, UpRefines
    <3> QED BY <2>1, <3>1 DEF Unbroken
  <2>3. CASE \E s \in Services : Down(s)
    <3>1. PICK m \in InEffect :
                /\ \A k \in InEffect \ {m} : Version[k] < Version[m]
                /\ InEffect' = InEffect \ {m}
      BY <2>3, DownRefines
    <3> QED BY <2>1, <3>1 DEF Unbroken
  <2>4. CASE \A s \in Services : ~Up(s) /\ ~Down(s)
    <3>1. InEffect' = InEffect
      BY <2>4, OthersStutter DEF InEffect
    <3> QED BY <3>1 DEF Unbroken
  <2> QED BY <2>2, <2>3, <2>4
<1>3. BookInv /\ [Next]_vars => BookInv'
  BY BookStep
<1> QED BY <1>1, <1>2, <1>3, BookInit, PTL DEF Spec

-----------------------------------------------------------------------------
(* One service alone moves by the number of steps it was told.             *)

\* The migrations that have a document.
Shelved == {m \in Migrations : Listed(m)}

\* The moves from where a run is on its path to its end, negative going back.
Left(s) ==
    IF arg[s] >= 0
    THEN Len(path[s]) - (IF InFlight(s) THEN 2 ELSE 1)
    ELSE (IF pc[s] = "restore" THEN 2 ELSE 1) - Len(path[s])

Target(s) ==
    Count(models[s]) + Clamped(arg[s], 1 - Cardinality(Applied(s, models[s])),
                               Cardinality(Registered[s]) - Count(models[s]))

Pace(s) == pc[s] = "set" \/ Running(s) =>
    /\ Cardinality(Shelved) + Left(s) = Target(s)
    /\ Count(models[s]) \in Nat /\ Cardinality(Applied(s, models[s])) \in Nat
    /\ pc[s] = "remove" => Len(path[s]) = 1

PaceInv == BookInv /\ \A s \in Services : Pace(s)

LEMMA SameSize ==
    ASSUME NEW S, NEW T, IsFiniteSet(S), NEW f \in [S -> T],
           \A a, b \in S : f[a] = f[b] => a = b, \A t \in T : \E a \in S : f[a] = t
    PROVE  IsFiniteSet(T) /\ Cardinality(T) = Cardinality(S)
<1>1. f \in Bijection(S, T)
  BY Fun_IsBij
<1>2. ExistsBijection(S, T)
  BY <1>1 DEF ExistsBijection
<1> QED BY <1>2, FS_Bijection

\* The documents but the base one, counted by their migrations.
LEMMA CountShelf ==
    ASSUME TypeOK, Shelf
    PROVE  /\ IsFiniteSet(Shelved) /\ Cardinality(Shelved) \in Nat
           /\ Count(docs) = Cardinality(Shelved)
<1> DEFINE N == {d \in docs : d.mig # Base}
           f == [d \in N |-> d.mig]
<1>1. /\ IsFiniteSet(docs) /\ docs \subseteq Docs
      /\ \A d, e \in docs : d.mig = e.mig => d = e
  BY DEF TypeOK, Shelf
<1>2. IsFiniteSet(N)
  BY <1>1, FS_Subset
<1>3. \A d \in N : d.mig \in Shelved
  BY <1>1 DEF Shelved, Listed, Docs, Names
<1>4. \A m \in Shelved : \E d \in N : d.mig = m
  BY MigrationsAssumption DEF Shelved, Listed
<1>5. \A a, b \in N : a.mig = b.mig => a = b
  BY <1>1
<1> HIDE DEF N
<1>6. f \in [N -> Shelved] /\ \A a \in N : f[a] = a.mig
  BY <1>3
<1> HIDE DEF f
<1>7. IsFiniteSet(Shelved) /\ Cardinality(Shelved) = Cardinality(N)
  BY <1>2, <1>4, <1>5, <1>6, SameSize
<1> QED BY <1>7, FS_CardinalityType DEF Count, N

LEMMA RemainingSize ==
    ASSUME TypeOK, Shelf, NEW s \in Services, Recognised(s, docs)
    PROVE  /\ Cardinality(Registered[s]) \in Nat
           /\ Cardinality(Shelved) <= Cardinality(Registered[s])
           /\ Cardinality(Remaining(s, docs)) =
                 Cardinality(Registered[s]) - Cardinality(Shelved)
<1> DEFINE R == Registered[s]
           M == R \ {d.mig : d \in docs}
           N == Remaining(s, docs)
           f == [m \in M |-> NewModel(s, m)]
<1>1. IsFiniteSet(R) /\ R \subseteq Migrations
  BY RegisteredAssumption, MigrationsAssumption, FS_Subset
<1>2. Shelved \subseteq R
  BY MigrationsAssumption DEF Recognised, Shelved, Listed
<1>3. M = R \ Shelved /\ R \cap Shelved = Shelved
  BY <1>1, <1>2 DEF Shelved, Listed
<1>4. N = {NewModel(s, m) : m \in M}
  BY DEF Remaining
<1>5. \A m : NewModel(s, m).mig = m
  BY DEF NewModel
<1> HIDE DEF R, M, N
<1>6. IsFiniteSet(M) /\ Cardinality(M) = Cardinality(R) - Cardinality(Shelved)
  BY <1>1, <1>3, FS_Difference
<1>7. f \in [M -> N] /\ \A m \in M : f[m] = NewModel(s, m)
  BY <1>4
<1>8. \A m \in N : \E a \in M : f[a] = m
  BY <1>4, <1>7
<1>9. \A a, b \in M : f[a] = f[b] => a = b
  BY <1>5, <1>7
<1> HIDE DEF f
<1>10. Cardinality(N) = Cardinality(M)
  BY <1>6, <1>7, <1>8, <1>9, SameSize
<1>11. Cardinality(R) \in Nat /\ Cardinality(Shelved) <= Cardinality(R)
  BY <1>1, <1>2, FS_Subset, FS_CardinalityType
<1> QED BY <1>6, <1>10, <1>11 DEF R, N

\* The length of the path is what was asked for, as far as there are nodes.
LEMMA LoadPace ==
    ASSUME BookInv, NEW s \in Services, LoadAndParse(s), ~Return(s)
    PROVE  Pace(s)'
<1>1. PICK applied \in Sorted(Applied(s, docs)), remaining \in Sorted(Remaining(s, docs)) :
         /\ pc' = [pc EXCEPT ![s] = "set"]
         /\ models' = [models EXCEPT ![s] = docs]
         /\ path' = [path EXCEPT ![s] = PathOf(arg[s], applied, remaining)]
         /\ UNCHANGED <<docs, runs, arg>> /\ Recognised(s, docs)
  BY DEF LoadAndParse
<1>p. PICK p : p = PathOf(arg[s], applied, remaining)
  OBVIOUS
<1>c. PICK c : c = Cardinality(Applied(s, docs))
  OBVIOUS
<1>k. PICK k : k = Cardinality(Shelved)
  OBVIOUS
<1>r. PICK r : r = Cardinality(Registered[s])
  OBVIOUS
<1>2. /\ TypeOK /\ Shelf /\ arg[s] \in Int
      /\ pc \in [Services -> {"idle"} \cup Loading \cup Holding]
      /\ path \in [Services -> Seq(Docs)] /\ models \in [Services -> SUBSET Docs]
  BY DEF BookInv, TypeOK
<1>3. k \in Nat /\ Count(docs) = k /\ r \in Nat /\ k <= r
  BY <1>1, <1>2, <1>k, <1>r, CountShelf, RemainingSize
<1>4. applied \in Seq(Docs) /\ Len(applied) = c /\ c \in Nat /\ c >= 1
  <2>1. Applied(s, docs) \subseteq Docs /\ IsFiniteSet(Applied(s, docs))
    BY <1>2, InitialNodeTyped, FS_Singleton DEF TypeOK, Applied
  <2>2. applied \in Seq(Docs) /\ Len(applied) = c
    BY <1>c, <2>1, SortedTyped
  <2>3. c \in Nat
    BY <1>c, <2>1, FS_CardinalityType
  <2>4. Len(applied) >= 1
    BY <1>2, AppliedTyped
  <2> QED BY <2>2, <2>3, <2>4
<1>5. remaining \in Seq(Docs) /\ Len(remaining) = r - k
  <2>1. Cardinality(Remaining(s, docs)) = r - k
    BY <1>1, <1>2, <1>k, <1>r, RemainingSize
  <2>2. Remaining(s, docs) \subseteq Docs /\ IsFiniteSet(Remaining(s, docs))
    BY <1>2, RemainingTyped
  <2> QED BY <2>1, <2>2, SortedTyped
<1>6. /\ arg[s] >= 0 => Len(p) = 1 + (IF arg[s] < r - k THEN arg[s] ELSE r - k)
      /\ ~(arg[s] >= 0) => Len(p) = IF 1 - arg[s] < c THEN 1 - arg[s] ELSE c
  <2>1. CASE arg[s] >= 0
    <3>1. arg[s] \in Nat /\ Len(applied) >= 1
      BY <1>2, <1>3, <1>4, <2>1
    <3>2. GoesOver(p, arg[s], applied, remaining)
      BY <1>4, <1>5, <1>p, <3>1, PathAhead
    <3> QED BY <1>5, <2>1, <3>2 DEF GoesOver
  <2>2. CASE ~(arg[s] >= 0)
    <3>1. arg[s] < 0 /\ Len(applied) >= 1
      BY <1>2, <1>3, <1>4, <2>2
    <3>2. GoesBack(p, arg[s], applied)
      BY <1>2, <1>4, <1>p, <3>1, PathBehind
    <3> QED BY <1>4, <2>2, <3>2 DEF GoesBack
  <2> QED BY <2>1, <2>2
<1>7. /\ pc'[s] = "set" /\ path'[s] = p /\ arg'[s] = arg[s] /\ models'[s] = docs
      /\ Shelved' = Shelved
  BY <1>1, <1>2, <1>p DEF Shelved, Listed
<1>8. ~InFlight(s)' /\ pc'[s] \notin {"restore", "remove"}
  BY <1>7 DEF InFlight
<1>9. Left(s)' = IF arg[s] >= 0 THEN Len(p) - 1 ELSE 1 - Len(p)
  BY <1>7, <1>8 DEF Left
<1>10. /\ Count(models[s])' = k /\ Cardinality(Applied(s, models[s]))' = c
       /\ Target(s)' = k + Clamped(arg[s], 1 - c, r - k)
  <2>1. Count(models[s])' = k
    BY <1>3, <1>7 DEF Count
  <2>2. Applied(s, models[s])' = Applied(s, docs)
    BY <1>1, <1>7 DEF Applied, InitialNode
  <2> QED BY <1>7, <1>c, <1>r, <2>1, <2>2 DEF Target
<1>11. k + (IF arg[s] >= 0 THEN Len(p) - 1 ELSE 1 - Len(p)) = k + Clamped(arg[s], 1 - c, r - k)
  <2>1. PICK a \in Int : a = arg[s]
    BY <1>2
  <2>2. PICK l : l = Len(p)
    OBVIOUS
  <2>3. CASE a >= 0
    <3>1. l = 1 + (IF a < r - k THEN a ELSE r - k)
      BY <1>6, <2>1, <2>2, <2>3, Zenon
    <3>2. k + (l - 1) = k + Clamped(a, 1 - c, r - k)
      BY <1>3, <1>4, <2>3, <3>1 DEF Clamped
    <3> QED BY <2>1, <2>2, <2>3, <3>2, Zenon
  <2>4. CASE ~(a >= 0)
    <3>1. l = IF 1 - a < c THEN 1 - a ELSE c
      BY <1>6, <2>1, <2>2, <2>4, Zenon
    <3>2. k + (1 - l) = k + Clamped(a, 1 - c, r - k)
      BY <1>3, <1>4, <2>4, <3>1 DEF Clamped
    <3> QED BY <2>1, <2>2, <2>4, <3>2, Zenon
  <2> QED BY <2>3, <2>4
<1>12. Cardinality(Shelved)' + Left(s)' = Target(s)'
  BY <1>7, <1>9, <1>10, <1>11, <1>k
<1> QED BY <1>3, <1>4, <1>8, <1>10, <1>12 DEF Pace

\* A step of the loops, and the insertion of the marker before them, trade a
\* move for a document.
LEMMA PaceKept ==
    ASSUME TypeOK, NEW s \in Services, Pace(s), pc[s] = "set" \/ Running(s),
           GoOn(s, pc'[s]), pc'[s] = "remove" => Len(path'[s]) = 1,
           Cardinality(Shelved)' + Left(s)' = Cardinality(Shelved) + Left(s)
    PROVE  Pace(s)'
<1>1. /\ Target(s)' = Target(s) /\ Count(models[s])' = Count(models[s])
      /\ Applied(s, models[s])' = Applied(s, models[s])
  BY DEF Target, GoOn, Applied, InitialNode
<1> QED BY <1>1 DEF Pace

LEMMA SetPace ==
    ASSUME PaceInv, NEW s \in Services, SetMigrationToRunning(s), ~Return(s)
    PROVE  Pace(s)'
<1>1. /\ pc[s] = "set" /\ GoOn(s, LoopHead(s, path[s])) /\ UNCHANGED <<docs, path, arg>>
      /\ TypeOK /\ Pace(s)
  BY DEF SetMigrationToRunning, GoOn, PaceInv, BookInv
<1>2. /\ Len(path[s]) \in Nat /\ Len(path[s]) >= 1
      /\ pc \in [Services -> {"idle"} \cup Loading \cup Holding]
  BY <1>1, CourseTypes DEF PaceInv
<1>3. /\ pc'[s] = LoopHead(s, path[s]) /\ pc'[s] \in {"remove", "insert", "down"}
      /\ pc'[s] = "remove" => Len(path[s]) = 1
  <2>1. pc'[s] = LoopHead(s, path[s])
    BY <1>1, <1>2 DEF GoOn
  <2>2. Len(path[s]) <= 1 <=> Len(path[s]) = 1
    <3>1. PICK l \in Nat : l = Len(path[s])
      BY <1>2
    <3>2. l >= 1
      BY <1>2, <3>1, Zenon
    <3>3. l <= 1 <=> l = 1
      BY <3>2
    <3> QED BY <3>1, <3>3, Zenon
  <2>3. LoopHead(s, path[s]) = IF Len(path[s]) = 1 THEN "remove"
                               ELSE IF arg[s] > 0 THEN "insert" ELSE "down"
    BY <2>2 DEF LoopHead
  <2> QED BY <2>1, <2>3
<1>4. ~InFlight(s) /\ ~InFlight(s)' /\ pc'[s] # "restore"
  BY <1>1, <1>3 DEF InFlight
<1>5. Shelved' = Shelved /\ Left(s)' = Left(s)
  BY <1>1, <1>4 DEF Shelved, Listed, Left
<1> QED BY <1>1, <1>3, <1>5, PaceKept

LEMMA InsertPace ==
    ASSUME PaceInv, NEW s \in Services, InsertModel(s)
    PROVE  Pace(s)'
<1>p. PICK p : p = path[s]
  OBVIOUS
<1>n. PICK n : n = p[2]
  OBVIOUS
<1>1. /\ pc[s] = "insert" /\ GoOn(s, "up") /\ docs' = docs \cup {n}
      /\ UNCHANGED <<path, arg>>
      /\ TypeOK /\ Pace(s) /\ BookInv /\ Shelf
      /\ pc[s] \in Ascending /\ ~InFlight(s)
  BY <1>p, <1>n DEF InsertModel, GoOn, PaceInv, BookInv, Ascending, InFlight
<1>2. /\ Running(s) /\ arg[s] >= 0 /\ Len(p) >= 2
      /\ n.mig \in Migrations /\ ~Listed(n.mig)
  BY <1>1, <1>p, <1>n, ClimbNodes
<1>3. /\ Len(p) \in Nat /\ pc \in [Services -> {"idle"} \cup Loading \cup Holding]
  BY <1>1, <1>2, <1>p, CourseTypes
<1>4. pc'[s] = "up" /\ InFlight(s)'
  BY <1>1, <1>3 DEF GoOn, InFlight
<1>5. Shelved' = Shelved \cup {n.mig} /\ n.mig \notin Shelved
  BY <1>1, <1>2 DEF Shelved, Listed
<1>6. /\ Cardinality(Shelved') = Cardinality(Shelved) + 1
      /\ Cardinality(Shelved) \in Nat
  BY <1>1, <1>5, CountShelf, FS_AddElement
<1>7. Left(s) = Len(p) - 1 /\ Left(s)' = Len(p) - 2
  BY <1>1, <1>2, <1>4, <1>p DEF Left
<1>8. Cardinality(Shelved)' + Left(s)' = Cardinality(Shelved) + Left(s)
  BY <1>3, <1>6, <1>7
<1> QED BY <1>1, <1>2, <1>4, <1>8, PaceKept

\* The updates that do not end an iteration, the Up and the Down.
LEMMA OnPace ==
    ASSUME PaceInv, NEW s \in Services, Up(s) \/ DemotePrevious(s) \/ Down(s)
    PROVE  Pace(s)'
<1>1. /\ pc[s] \in {"up", "demote", "down"}
      /\ \E c \in {"demote", "promote", "delete"} : GoOn(s, c) /\ (c = "delete" <=> pc[s] = "down")
      /\ docs' = docs \/ docs' = Updated(docs, path[s][1].id, FALSE)
      /\ UNCHANGED <<path, arg>>
      /\ TypeOK /\ Pace(s) /\ BookInv /\ Shelf
  BY DEF Up, DemotePrevious, Down, GoOn, PaceInv, BookInv
<1>2. Running(s)
  BY <1>1 DEF Running, Holding, Ascending, Descending
<1>3. pc \in [Services -> {"idle"} \cup Loading \cup Holding]
  BY <1>1 DEF TypeOK
<1>4. /\ pc'[s] \in {"demote", "promote", "delete"} /\ (pc'[s] = "delete" <=> pc[s] = "down")
      /\ GoOn(s, pc'[s])
  BY <1>1, <1>3 DEF GoOn
<1>5. InFlight(s)' <=> InFlight(s)
  BY <1>1, <1>4 DEF InFlight
<1>6. Left(s)' = Left(s)
  BY <1>1, <1>4, <1>5 DEF Left
<1>7. \A m : Listed(m)' <=> Listed(m)
  <2>1. CASE docs' = docs
    BY <2>1 DEF Listed
  <2>2. CASE docs' = Updated(docs, path[s][1].id, FALSE)
    <3>1. PICK i, no : i = path[s][1].id /\ no = FALSE
      OBVIOUS
    <3>2. docs' = Updated(docs, i, no) /\ no \in BOOLEAN
      <4>1. docs' = Updated(docs, i, no)
        BY <2>2, <3>1, Zenon
      <4> QED BY <3>1, <4>1
    <3> QED BY <1>1, <3>2, UpdatedShelf
  <2> QED BY <1>1, <2>1, <2>2
<1>8. Shelved' = Shelved
  BY <1>7 DEF Shelved
<1> QED BY <1>1, <1>2, <1>4, <1>6, <1>8, PaceKept

LEMMA DeletePace ==
    ASSUME PaceInv, NEW s \in Services, DeleteModel(s)
    PROVE  Pace(s)'
<1>p. PICK p : p = path[s]
  OBVIOUS
<1>n. PICK n : n = p[1]
  OBVIOUS
<1>1. /\ pc[s] = "delete" /\ GoOn(s, "restore") /\ docs' = {d \in docs : d.id # n.id}
      /\ UNCHANGED <<path, arg>>
      /\ TypeOK /\ Pace(s) /\ BookInv /\ Shelf
      /\ pc[s] \in Descending
  BY <1>p, <1>n DEF DeleteModel, GoOn, PaceInv, BookInv, Descending
<1>2. /\ Running(s) /\ ~(arg[s] >= 0) /\ 1 \in 1 .. Len(p)
      /\ n.mig \in Migrations /\ Listed(n.mig)
  BY <1>1, <1>p, <1>n, DescentNodes
<1>3. /\ Len(p) \in Nat /\ pc \in [Services -> {"idle"} \cup Loading \cup Holding]
      /\ n.id[3] = n.mig /\ \A d \in docs : n.mig = d.mig => n.id = d.id
  BY <1>1, <1>2, <1>p, <1>n, CourseTypes
<1>4. pc'[s] = "restore"
  BY <1>1, <1>3 DEF GoOn
<1>5. Shelved' = Shelved \ {n.mig} /\ n.mig \in Shelved
  <2>1. \A d \in docs : d.id # n.id <=> d.mig # n.mig
    BY <1>1, <1>3 DEF Shelf
  <2>2. docs' = {d \in docs : d.mig # n.mig}
    BY <1>1, <2>1
  <2> QED BY <1>2, <2>2 DEF Shelved, Listed
<1>6. /\ Cardinality(Shelved') = Cardinality(Shelved) - 1
      /\ Cardinality(Shelved) \in Nat
  BY <1>1, <1>5, CountShelf, FS_RemoveElement
<1>7. Left(s) = 1 - Len(p) /\ Left(s)' = 2 - Len(p)
  BY <1>1, <1>2, <1>4, <1>p DEF Left
<1>8. Cardinality(Shelved)' + Left(s)' = Cardinality(Shelved) + Left(s)
  BY <1>3, <1>6, <1>7
<1> QED BY <1>1, <1>2, <1>4, <1>8, PaceKept

\* The end of an iteration of either loop.
LEMMA ReachPace ==
    ASSUME PaceInv, NEW s \in Services, PromoteCurrent(s) \/ RestoreCurrent(s)
    PROVE  Pace(s)'
<1>p. PICK p : p = path[s]
  OBVIOUS
<1>q. PICK q : q = Tail(p)
  OBVIOUS
<1>1. /\ pc[s] \in {"promote", "restore"} /\ ReachNext(s)
      /\ GoOn(s, LoopHead(s, q)) /\ path' = [path EXCEPT ![s] = q]
      /\ UNCHANGED arg
      /\ TypeOK /\ Pace(s) /\ BookInv /\ Shelf
  BY <1>p, <1>q DEF PromoteCurrent, RestoreCurrent, ReachNext, GoOn, PaceInv, BookInv
<1>2. Running(s) /\ pc[s] \notin {"set", "remove"}
  BY <1>1 DEF Running, Holding, Ascending, Descending
<1>3. /\ p \in Seq(Docs) /\ Len(p) \in Nat /\ Len(p) >= 2
      /\ pc \in [Services -> {"idle"} \cup Loading \cup Holding]
      /\ path \in [Services -> Seq(Docs)] /\ arg[s] \in Int
  BY <1>1, <1>2, <1>p, CourseTypes
<1>4. Len(q) = Len(p) - 1
  BY <1>3, <1>q
<1>5. /\ pc'[s] = LoopHead(s, q) /\ pc'[s] \in {"remove", "insert", "down"}
      /\ pc'[s] = "remove" => Len(q) = 1
      /\ path'[s] = q /\ GoOn(s, pc'[s])
  BY <1>1, <1>3, <1>4 DEF GoOn, LoopHead
<1>6. ~InFlight(s)' /\ pc'[s] # "restore"
  BY <1>5 DEF InFlight
<1>7. IF arg[s] >= 0 THEN pc[s] = "promote" ELSE pc[s] = "restore"
  <2>1. pc[s] = "promote" => pc[s] \in Ascending
    BY DEF Ascending
  <2>2. pc[s] = "restore" => pc[s] \in Descending
    BY DEF Descending
  <2> QED BY <1>1, <2>1, <2>2, ClimbNodes, DescentNodes
<1>8. Left(s)' = Left(s)
  <2>1. CASE arg[s] >= 0
    <3>1. pc[s] = "promote" /\ InFlight(s)
      BY <1>7, <2>1 DEF InFlight
    <3>2. Left(s) = Len(p) - 2 /\ Left(s)' = Len(q) - 1
      BY <1>1, <1>5, <1>6, <1>p, <2>1, <3>1 DEF Left
    <3> QED BY <1>3, <1>4, <3>2
  <2>2. CASE ~(arg[s] >= 0)
    <3>1. pc[s] = "restore"
      BY <1>7, <2>2
    <3>2. Left(s) = 2 - Len(p) /\ Left(s)' = 1 - Len(q)
      BY <1>1, <1>5, <1>6, <1>p, <2>2, <3>1 DEF Left
    <3> QED BY <1>3, <1>4, <3>2
  <2> QED BY <2>1, <2>2
<1>9. Shelved' = Shelved
  <2>1. PICK i, yes : i = path[s][2].id /\ yes = TRUE
    OBVIOUS
  <2>2. docs' = Updated(docs, i, yes) /\ yes \in BOOLEAN
    <3>1. docs' = Updated(docs, i, yes)
      BY <1>1, <2>1, Zenon DEF ReachNext
    <3> QED BY <2>1, <3>1
  <2>3. \A m : Listed(m)' <=> Listed(m)
    BY <1>1, <2>2, UpdatedShelf
  <2> QED BY <2>3 DEF Shelved
<1> QED BY <1>1, <1>2, <1>5, <1>8, <1>9, PaceKept

LEMMA PaceInit == Init => PaceInv
<1> SUFFICES ASSUME Init PROVE \A s \in Services : Pace(s)
  BY BookInit DEF PaceInv
<1>1. \A s \in Services : pc[s] = "idle"
  BY DEF Init
<1> QED BY <1>1 DEF Pace, Running, Holding, Ascending, Descending

LEMMA PaceStep ==
    ASSUME Sole, DistinctVersions
    PROVE  PaceInv /\ [Next]_vars => PaceInv'
<1> SUFFICES ASSUME PaceInv, [Next]_vars PROVE PaceInv'
  OBVIOUS
<1>1. BookInv' /\ BookInv /\ TypeOK
  BY BookStep DEF PaceInv, BookInv
<1>2. CASE UNCHANGED vars
  <2>1. UNCHANGED <<docs, pc, runs, arg, models, path>>
    BY <1>2 DEF vars
  <2>2. ASSUME NEW s \in Services PROVE Pace(s)'
    <3>1. /\ Shelved' = Shelved /\ (InFlight(s)' <=> InFlight(s))
          /\ Running(s)' <=> Running(s)
      BY <2>1 DEF Shelved, Listed, InFlight, Running
    <3>2. /\ Left(s)' = Left(s) /\ Target(s)' = Target(s)
          /\ Applied(s, models[s])' = Applied(s, models[s])
      BY <2>1, <3>1 DEF Left, Target, Applied, InitialNode
    <3> QED BY <2>1, <3>1, <3>2 DEF PaceInv, Pace
  <2> QED BY <1>1, <2>2 DEF PaceInv
<1>3. ASSUME NEW s \in Services, Call(s) \/ RunStep(s) \/ Abort(s)
      PROVE  PaceInv'
  <2>1. pc \in [Services -> {"idle"} \cup Loading \cup Holding]
    BY <1>1 DEF TypeOK
  <2>2. ASSUME pc'[s] \in {"idle", "check", "load"} PROVE Pace(s)'
    BY <2>2 DEF Pace, Running, Holding, Ascending, Descending
  <2>3. ASSUME Return(s) PROVE Pace(s)'
    <3>1. pc'[s] = "idle"
      BY <2>1, <2>3 DEF Return
    <3> QED BY <2>2, <3>1
  <2>4. Pace(s)'
    <3>1. CASE Call(s) \/ (IsMigrationRunning(s) /\ ~Return(s))
      <4>1. pc'[s] \in {"check", "load"}
        BY <2>1, <3>1 DEF Call, IsMigrationRunning, GoOn
      <4> QED BY <2>2, <4>1
    <3>2. CASE LoadAndParse(s) /\ ~Return(s)
      BY <1>1, <3>2, LoadPace
    <3>3. CASE SetMigrationToRunning(s) /\ ~Return(s)
      BY <3>3, SetPace
    <3>4. CASE InsertModel(s)
      BY <3>4, InsertPace
    <3>5. CASE Up(s) \/ DemotePrevious(s) \/ Down(s)
      BY <3>5, OnPace
    <3>6. CASE DeleteModel(s)
      BY <3>6, DeletePace
    <3>7. CASE PromoteCurrent(s) \/ RestoreCurrent(s)
      BY <3>7, ReachPace
    <3>8. CASE RemoveMigrationFromRunning(s) \/ Abort(s)
      BY <2>3, <3>8 DEF RemoveMigrationFromRunning, Abort
    <3> QED
      BY <1>3, <2>3, <3>1, <3>2, <3>3, <3>4, <3>5, <3>6, <3>7, <3>8 DEF RunStep
  <2> QED BY <1>1, <2>4 DEF Sole, PaceInv
<1> QED BY <1>2, <1>3 DEF Next

\* manager.go:93 to :180, for one service alone, whether or not there is a base
\* document: a run that ends without an error has moved the history it loaded
\* by the steps asked for, forward no further than it knows migrations and
\* backward no further than the oldest node it loaded.
THEOREM MovesAsAsked ==
    ASSUME Sole, DistinctVersions
    PROVE  Spec => RunMovesByNodes
<1>1. PaceInv /\ [Next]_vars => PaceInv'
  BY PaceStep
<1>2. ASSUME PaceInv, NEW s \in Services, pc[s] = "remove"
      PROVE  Count(docs) - Count(models[s]) =
                Clamped(arg[s], 1 - Cardinality(Applied(s, models[s])),
                        Cardinality(Registered[s]) - Count(models[s]))
  <2>1. Running(s) /\ ~InFlight(s) /\ TypeOK /\ Shelf /\ Pace(s)
    BY <1>2 DEF PaceInv, BookInv, Running, Holding, InFlight
  <2>2. Count(docs) + Left(s) = Target(s) /\ Len(path[s]) = 1
    BY <1>2, <2>1, CountShelf DEF Pace
  <2>3. Left(s) = 0
    BY <1>2, <2>1, <2>2 DEF Left
  <2>4. Count(docs) \in Nat
    BY <2>1, CountShelf
  <2>5. Count(models[s]) \in Nat /\ Cardinality(Applied(s, models[s])) \in Nat
    BY <2>1 DEF Pace
  <2>6. /\ Cardinality(Registered[s]) \in Nat /\ arg[s] \in Int
    <3>1. IsFiniteSet(Registered[s])
      BY RegisteredAssumption, MigrationsAssumption, FS_Subset
    <3> QED BY <2>1, <3>1, FS_CardinalityType DEF TypeOK
  <2>7. Clamped(arg[s], 1 - Cardinality(Applied(s, models[s])),
                Cardinality(Registered[s]) - Count(models[s])) \in Int
    BY <2>5, <2>6 DEF Clamped
  <2> QED BY <2>2, <2>3, <2>4, <2>5, <2>7 DEF Target
<1>3. PaceInv /\ [Next]_vars => [\A s \in Services :
         pc[s] = "remove" /\ marker' # marker =>
            Count(docs) - Count(models[s]) =
               Clamped(arg[s], 1 - Cardinality(Applied(s, models[s])),
                       Cardinality(Registered[s]) - Count(models[s]))]_vars
  BY <1>2
<1> QED BY <1>1, <1>3, PaceInit, PTL DEF Spec, RunMovesByNodes

=============================================================================
