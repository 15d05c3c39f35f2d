---------------------------- MODULE IndexesProofs ----------------------------
(***************************************************************************)
(* What CreateIndexesIfNotExist leaves behind, for any services, indexes,  *)
(* failures and foreign indexes.  A loop under way has an index for each   *)
(* position it has left, as no index ever goes away; and an index of the   *)
(* server that is not foreign has the name the driver gave it.             *)
(***************************************************************************)
EXTENDS Indexes, TLAPS

Covered(s, i) ==
    \E x \in server : x.keys = Wanted[s][i].keys \/ x.name = Wanted[s][i].name

\* What s read, the positions its loop has left, and the last call that
\* returned nil.
Progress(s) ==
    /\ existing[s] \subseteq NamesOf(server)
    /\ \A i \in 1 .. at[s] - 1 : Covered(s, i)
    /\ result[s] = "ok" => \A i \in DOMAIN Wanted[s] : Covered(s, i)

NamedByDriver == \A x \in server : x \in Foreign \/ x.name = Generated[x.keys]

IInv ==
    /\ TypeOK
    /\ \A s \in Services : Progress(s)
    /\ NamedByDriver
    /\ OnlyForeignConflict

LEMMA WantedTypes ==
    ASSUME NEW s \in Services
    PROVE  /\ Len(Wanted[s]) \in Nat
           /\ DOMAIN Wanted[s] = 1 .. Len(Wanted[s])
           /\ \A i \in 1 .. Len(Wanted[s]) : Wanted[s][i] \in MongoIndex
BY IndexesAssumption

\* The model of a wanted index is an index, named by the driver.
LEMMA ModelTypes ==
    ASSUME TypeOK, NEW s \in Services, at[s] > 0
    PROVE  /\ Index(s) \in MongoIndex
           /\ Model(s) \in MongoIndex
           /\ Model(s).keys = Index(s).keys
           /\ Model(s).name = Generated[Index(s).keys]
<1>1. at[s] \in 1 .. Len(Wanted[s])
  BY WantedTypes DEF TypeOK
<1>2. Index(s) \in MongoIndex
  BY <1>1, WantedTypes DEF Index
<1> QED BY <1>2, IndexesAssumption DEF Model, MongoIndex

PositionsOK ==
    /\ \A s \in Services : at[s] \in 0 .. Len(Wanted[s])
    /\ at \in [Services -> Nat]
    /\ result \in [Services -> {"none", "ok", "fault", "conflict"}]

\* The loop stays within the list, and a call that fails leaves it.
LEMMA LoopTypes ==
    ASSUME PositionsOK, NEW s \in Services, NEW i \in 0 .. Len(Wanted[s]), LoopFrom(s, i)
    PROVE  PositionsOK'
<1>1. Len(Wanted[s]) \in Nat
  BY WantedTypes
<1>2. CASE i < Len(Wanted[s])
  <2>1. at' = [at EXCEPT ![s] = i + 1] /\ result' = result
    BY <1>2 DEF LoopFrom
  <2> QED BY <1>1, <1>2, <2>1 DEF PositionsOK
<1>3. CASE ~(i < Len(Wanted[s]))
  <2>1. at' = [at EXCEPT ![s] = 0] /\ result' = [result EXCEPT ![s] = "ok"]
    BY <1>3 DEF LoopFrom
  <2>2. \A t \in Services : 0 \in 0 .. Len(Wanted[t])
    BY WantedTypes
  <2> QED BY <2>1, <2>2 DEF PositionsOK
<1> QED BY <1>2, <1>3

LEMMA FailTypes ==
    ASSUME PositionsOK, NEW s \in Services, NEW why \in {"fault", "conflict"}, Fail(s, why)
    PROVE  PositionsOK'
BY WantedTypes DEF PositionsOK, Fail

LEMMA TypeStep == ASSUME TypeOK, [Next]_vars PROVE TypeOK'
<1> PositionsOK
  BY DEF TypeOK, PositionsOK
<1>0. CASE UNCHANGED vars
  BY <1>0 DEF vars, TypeOK
<1>1. ASSUME NEW s \in Services, GetExistingIndexes(s) PROVE TypeOK'
  <2>1. PositionsOK'
    BY <1>1, LoopTypes, WantedTypes DEF GetExistingIndexes
  <2>2. existing' \in [Services -> SUBSET Names]
    BY <1>1 DEF GetExistingIndexes, TypeOK, NamesOf, MongoIndex
  <2> QED BY <1>1, <2>1, <2>2, IndexesAssumption
          DEF GetExistingIndexes, Begin, Fault, TypeOK, PositionsOK
<1>2. ASSUME NEW s \in Services, ListFails(s) PROVE TypeOK'
  <2>1. PositionsOK'
    BY <1>2, FailTypes DEF ListFails
  <2>2. server' = server /\ existing' \in [Services -> SUBSET Names]
    BY <1>2 DEF ListFails, TypeOK
  <2>3. calls' \in [Services -> 0 .. MaxCalls] /\ faults' \in 0 .. MaxFaults
    BY <1>2, IndexesAssumption DEF ListFails, Begin, Fault, TypeOK
  <2> QED BY <2>1, <2>2, <2>3 DEF TypeOK, PositionsOK
<1>3. ASSUME NEW s \in Services, Skip(s) PROVE TypeOK'
  <2>1. PositionsOK'
    BY <1>3, LoopTypes DEF Skip, PositionsOK
  <2> QED BY <1>3, <2>1 DEF Skip, TypeOK, PositionsOK
<1>4. ASSUME NEW s \in Services, CreateOne(s) PROVE TypeOK'
  <2>1. CASE Conflicts(Model(s))
    <3>1. Fail(s, "conflict") /\ server' = server
      BY <1>4, <2>1 DEF CreateOne
    <3>2. PositionsOK'
      BY <3>1, FailTypes
    <3> QED BY <1>4, <3>1, <3>2 DEF CreateOne, TypeOK, PositionsOK
  <2>2. CASE ~Conflicts(Model(s))
    <3>1. server' = server \cup {Model(s)} /\ LoopFrom(s, at[s])
      BY <1>4, <2>2 DEF CreateOne
    <3>2. server' \subseteq MongoIndex
      BY <1>4, <3>1, ModelTypes DEF CreateOne, TypeOK
    <3>3. \A x, y \in server' : x # y => x.name # y.name /\ x.keys # y.keys
      BY <2>2, <3>1 DEF Conflicts, TypeOK
    <3>4. PositionsOK'
      BY <3>1, LoopTypes DEF PositionsOK
    <3> QED BY <1>4, <3>2, <3>3, <3>4 DEF CreateOne, TypeOK, PositionsOK
  <2> QED BY <2>1, <2>2
<1>5. ASSUME NEW s \in Services, CreateFails(s) PROVE TypeOK'
  <2>1. \/ server' = server
        \/ server' = server \cup {Model(s)} /\ ~Conflicts(Model(s))
    BY <1>5 DEF CreateFails
  <2>2. server' \subseteq MongoIndex
    BY <1>5, <2>1, ModelTypes DEF CreateFails, TypeOK
  <2>3. \A x, y \in server' : x # y => x.name # y.name /\ x.keys # y.keys
    BY <2>1 DEF Conflicts, TypeOK
  <2>4. PositionsOK'
    BY <1>5, FailTypes DEF CreateFails
  <2> QED BY <1>5, <2>2, <2>3, <2>4, IndexesAssumption
          DEF CreateFails, Fault, TypeOK, PositionsOK
<1>6. ASSUME NEW x \in Foreign, CreateForeign(x) PROVE TypeOK'
  BY <1>6, IndexesAssumption DEF CreateForeign, Conflicts, TypeOK
<1> QED BY <1>0, <1>1, <1>2, <1>3, <1>4, <1>5, <1>6 DEF Next

\* Nothing drops an index.
LEMMA ServerGrows == ASSUME [Next]_vars PROVE server \subseteq server'
BY DEF Next, vars, GetExistingIndexes, ListFails, Skip, CreateOne, CreateFails,
       CreateForeign

\* So what is covered stays so, and names that were read stay there.
LEMMA CoveredStays ==
    ASSUME [Next]_vars
    PROVE  /\ \A s \in Services, i \in Nat : Covered(s, i) => Covered(s, i)'
           /\ NamesOf(server) \subseteq NamesOf(server')
BY ServerGrows DEF Covered, NamesOf

\* The loop goes on from a position that is covered by now.
LEMMA LoopProgress ==
    ASSUME TypeOK, NEW s \in Services, NEW i \in 0 .. Len(Wanted[s]),
           LoopFrom(s, i), \A j \in 1 .. i : Covered(s, j)',
           existing[s]' \subseteq NamesOf(server'),
           result[s] = "ok" => \A j \in DOMAIN Wanted[s] : Covered(s, j)'
    PROVE  Progress(s)'
<1> USE WantedTypes DEF TypeOK, LoopFrom
<1>1. CASE i < Len(Wanted[s])
  <2>1. at[s]' = i + 1 /\ result' = result
    BY <1>1
  <2> QED BY <2>1 DEF Progress
<1>2. CASE i = Len(Wanted[s])
  <2>1. at[s]' = 0 /\ \A j \in DOMAIN Wanted[s] : Covered(s, j)'
    BY <1>2
  <2> QED BY <2>1 DEF Progress
<1> QED BY <1>1, <1>2

\* A call that returned an error has covered nothing it would answer for.
LEMMA FailProgress ==
    ASSUME TypeOK, NEW s \in Services, NEW why \in {"fault", "conflict"}, Fail(s, why),
           existing[s]' \subseteq NamesOf(server')
    PROVE  Progress(s)'
<1>1. at[s]' = 0 /\ result[s]' = why
  BY DEF Fail, TypeOK
<1> QED BY <1>1 DEF Progress

\* A service that does nothing keeps its progress.
LEMMA OthersProgress ==
    ASSUME TypeOK, [Next]_vars, NEW t \in Services, Progress(t),
           at'[t] = at[t], result'[t] = result[t], existing'[t] = existing[t]
    PROVE  Progress(t)'
<1>1. \A i \in 1 .. at[t] - 1 : Covered(t, i)'
  BY CoveredStays DEF Progress, TypeOK
<1>2. result[t] = "ok" => \A i \in DOMAIN Wanted[t] : Covered(t, i)'
  BY CoveredStays, WantedTypes DEF Progress
<1> QED BY <1>1, <1>2, CoveredStays DEF Progress

LEMMA ProgressStep ==
    ASSUME TypeOK, [Next]_vars, \A t \in Services : Progress(t)
    PROVE  \A t \in Services : Progress(t)'
<1>0. CASE UNCHANGED vars
  BY <1>0, OthersProgress DEF vars
<1>a. ASSUME NEW s \in Services, NEW i \in 0 .. Len(Wanted[s]), LoopFrom(s, i),
             \A j \in 1 .. i : Covered(s, j)', existing[s]' \subseteq NamesOf(server')
      PROVE  Progress(s)'
  BY <1>a, LoopProgress, CoveredStays, WantedTypes DEF Progress
<1>b. ASSUME NEW s \in Services, NEW i \in Nat, LoopFrom(s, i)
      PROVE  \A t \in Services \ {s} : at'[t] = at[t] /\ result'[t] = result[t]
  BY <1>b DEF LoopFrom, TypeOK
<1>c. ASSUME NEW s \in Services, NEW why \in {"fault", "conflict"}, Fail(s, why)
      PROVE  \A t \in Services \ {s} : at'[t] = at[t] /\ result'[t] = result[t]
  BY <1>c DEF Fail, TypeOK
<1>1. ASSUME NEW s \in Services, GetExistingIndexes(s)
      PROVE  \A t \in Services : Progress(t)'
  <2>1. LoopFrom(s, 0) /\ existing'[s] \subseteq NamesOf(server')
    BY <1>1, CoveredStays DEF GetExistingIndexes, TypeOK
  <2>2. Progress(s)'
    BY <2>1, <1>a, WantedTypes
  <2>3. \A t \in Services \ {s} : existing'[t] = existing[t]
    BY <1>1 DEF GetExistingIndexes, TypeOK
  <2> QED BY <2>1, <2>2, <2>3, <1>b, OthersProgress
<1>2. ASSUME NEW s \in Services, ListFails(s)
      PROVE  \A t \in Services : Progress(t)'
  <2>1. Fail(s, "fault") /\ existing'[s] = {}
    BY <1>2 DEF ListFails, TypeOK
  <2>2. \A t \in Services \ {s} : existing'[t] = existing[t]
    BY <1>2 DEF ListFails, TypeOK
  <2>3. Progress(s)'
    BY <2>1, FailProgress
  <2> QED BY <2>1, <2>2, <2>3, <1>c, OthersProgress
<1>3. ASSUME NEW s \in Services, Skip(s)
      PROVE  \A t \in Services : Progress(t)'
  <2>1. /\ LoopFrom(s, at[s]) /\ existing' = existing
        /\ at[s] \in 1 .. Len(Wanted[s])
    BY <1>3, WantedTypes DEF Skip, TypeOK
  <2>2. Covered(s, at[s])
    BY <1>3 DEF Skip, Index, Progress, NamesOf, Covered
  <2>3. \A j \in 1 .. at[s] : Covered(s, j)'
    BY <2>1, <2>2, CoveredStays DEF Progress, TypeOK
  <2>4. Progress(s)'
    BY <2>1, <2>3, <1>a, CoveredStays DEF Progress
  <2> QED BY <2>1, <2>4, <1>b, OthersProgress
<1>4. ASSUME NEW s \in Services, CreateOne(s)
      PROVE  \A t \in Services : Progress(t)'
  <2>0. existing' = existing /\ at[s] \in 1 .. Len(Wanted[s])
    BY <1>4, WantedTypes DEF CreateOne, TypeOK
  <2>1. CASE Conflicts(Model(s))
    <3>1. Fail(s, "conflict")
      BY <1>4, <2>1 DEF CreateOne
    <3>2. Progress(s)'
      BY <2>0, <3>1, FailProgress, CoveredStays DEF Progress
    <3> QED BY <2>0, <3>1, <3>2, <1>c, OthersProgress
  <2>2. CASE ~Conflicts(Model(s))
    <3>1. LoopFrom(s, at[s]) /\ Model(s) \in server'
      BY <1>4, <2>2 DEF CreateOne
    <3>2. ASSUME NEW j \in 1 .. at[s], j = at[s] PROVE Covered(s, j)'
      <4>1. Model(s).keys = Wanted[s][j].keys
        BY <2>0, <3>2, ModelTypes DEF Index
      <4> QED BY <3>1, <4>1 DEF Covered
    <3>3. \A j \in 1 .. at[s] : Covered(s, j)'
      BY <2>0, <3>2, CoveredStays DEF Progress
    <3>4. Progress(s)'
      BY <2>0, <3>1, <3>3, <1>a, CoveredStays DEF Progress
    <3> QED BY <2>0, <3>1, <3>4, <1>b, OthersProgress
  <2> QED BY <2>1, <2>2
<1>5. ASSUME NEW s \in Services, CreateFails(s)
      PROVE  \A t \in Services : Progress(t)'
  <2>1. Fail(s, "fault") /\ existing' = existing
    BY <1>5 DEF CreateFails
  <2>2. Progress(s)'
    BY <2>1, FailProgress, CoveredStays DEF Progress
  <2> QED BY <2>1, <2>2, <1>c, OthersProgress
<1>6. ASSUME NEW x \in Foreign, CreateForeign(x)
      PROVE  \A t \in Services : Progress(t)'
  BY <1>6, OthersProgress DEF CreateForeign
<1> QED BY <1>0, <1>1, <1>2, <1>3, <1>4, <1>5, <1>6 DEF Next

LEMMA NamedByDriverStep ==
    ASSUME TypeOK, [Next]_vars, NamedByDriver
    PROVE  NamedByDriver'
<1>1. ASSUME NEW s \in Services, CreateOne(s) \/ CreateFails(s) PROVE NamedByDriver'
  <2>1. server' \subseteq server \cup {Model(s)} /\ at[s] > 0
    BY <1>1 DEF CreateOne, CreateFails
  <2>2. Model(s).name = Generated[Model(s).keys]
    BY <2>1, ModelTypes
  <2> QED BY <2>1, <2>2 DEF NamedByDriver
<1>2. ASSUME NEW x \in Foreign, CreateForeign(x) PROVE NamedByDriver'
  BY <1>2 DEF CreateForeign, NamedByDriver
<1> QED BY <1>1, <1>2
        DEF Next, vars, NamedByDriver, GetExistingIndexes, ListFails, Skip

\* If the server refuses an index, one that is not named by the driver is to
\* blame: among those that are, equal names come with equal keys.
LEMMA ConflictStep ==
    ASSUME TypeOK, [Next]_vars, NamedByDriver, OnlyForeignConflict
    PROVE  OnlyForeignConflict'
<1> DEFINE Blamed(s, S) ==
      \E x \in S \cap Foreign, i \in DOMAIN Wanted[s] :
          \/ x.keys = Wanted[s][i].keys /\ x.name # Generated[x.keys]
          \/ x.keys # Wanted[s][i].keys /\ x.name = Generated[Wanted[s][i].keys]
<1>1. SUFFICES ASSUME NEW s \in Services, result'[s] = "conflict"
               PROVE  Blamed(s, server')
  BY DEF OnlyForeignConflict
<1>2. CASE result[s] = "conflict"
  <2>1. Blamed(s, server)
    BY <1>2 DEF OnlyForeignConflict
  <2> QED BY <2>1, ServerGrows
<1>3. CASE result[s] # "conflict"
  <2>1. CreateOne(s) /\ Conflicts(Model(s))
    BY <1>1, <1>3 DEF Next, vars, GetExistingIndexes, ListFails, Skip, CreateOne,
       CreateFails, CreateForeign, LoopFrom, Fail, TypeOK
  <2>2. server' = server /\ at[s] \in DOMAIN Wanted[s]
    BY <2>1, WantedTypes DEF CreateOne, TypeOK
  <2>3. PICK y \in server : /\ Model(s) # y
                            /\ Model(s).name = y.name \/ Model(s).keys = y.keys
    BY <2>1 DEF Conflicts
  <2>4. /\ Model(s).keys = Wanted[s][at[s]].keys
        /\ Model(s).name = Generated[Wanted[s][at[s]].keys]
        /\ Model(s) \in MongoIndex /\ y \in MongoIndex
    BY <2>1, ModelTypes DEF CreateOne, Index, TypeOK
  <2>5. Model(s).name # y.name \/ Model(s).keys # y.keys
    BY <2>3, <2>4 DEF MongoIndex
  <2>6. y \in Foreign
    BY <2>3, <2>4, <2>5, IndexesAssumption DEF NamedByDriver, MongoIndex
  <2> QED BY <2>2, <2>3, <2>4, <2>5, <2>6
<1> QED BY <1>2, <1>3

LEMMA Invariance == Spec => []IInv
<1>1. Init => IInv
  BY IndexesAssumption, WantedTypes
     DEF Init, IInv, TypeOK, Progress, NamedByDriver, OnlyForeignConflict, NamesOf
<1>2. IInv /\ [Next]_vars => IInv'
  BY TypeStep, ProgressStep, NamedByDriverStep, ConflictStep DEF IInv
<1> QED BY <1>1, <1>2, PTL DEF Spec

\* Types: the loop stays within the list, the server never holds two indexes
\* of one name or on the same keys.
THEOREM TypeCorrectness == Spec => []TypeOK
<1>1. IInv => TypeOK
  BY DEF IInv
<1> QED BY <1>1, Invariance, PTL

\* collection.go:26-32: a call that returned nil left none of its indexes out
\* unless its name was taken, whatever other services did at the same time.
THEOREM NothingLeftOut == Spec => []WantedAreIndexed
<1>1. IInv => WantedAreIndexed
  BY DEF IInv, Progress, WantedAreIndexed, Covered
<1> QED BY <1>1, Invariance, PTL

\* index.go:38-50: only an index made by other means makes the server refuse a
\* service's, however many services ask for the same keys at once.
THEOREM ServicesAgree == Spec => []OnlyForeignConflict
<1>1. IInv => OnlyForeignConflict
  BY DEF IInv
<1> QED BY <1>1, Invariance, PTL

=============================================================================
