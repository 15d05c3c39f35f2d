----------------------------- MODULE MocksProofs -----------------------------
(***************************************************************************)
(* What holds of a generated mock in every test, for any options,          *)
(* goroutines, and numbers of expectations and calls.  The one argument    *)
(* that stands for the options of a call is found again behind the fixed   *)
(* ones; an expectation for one call is used up by the call it answered;   *)
(* and what a call was answered stays what its expectation has to return.  *)
(***************************************************************************)
EXTENDS Mocks, SequenceTheorems, WellFoundedInduction, TLAPS

-----------------------------------------------------------------------------
(* The operators on arguments.                                             *)

LEMMA FixedCount == \A m \in Methods : m.fixed \in Nat
BY DEF Methods, Method,
    Cache_Delete, Cache_DeleteKeysMatching, Cache_Get, Cache_Set,
    Locker_AcquireLock, Locker_ReleaseLock, Locker_TryFunc,
    IndexUseCase_CreateIndexIfNotExist, IndexUseCase_GetExistingIndexes,
    MigrationInterface_Down, MigrationInterface_Name,
    MigrationInterface_Up, MigrationInterface_Version,
    MigrationManager_RunMigrations, MigrationRepository_LoadMigrations,
    NodeFactory_ParseAndSortMigrations, MongoClient_Database,
    MongoClient_Disconnect, MongoClient_Ping, MongoCollection_Aggregate,
    MongoCollection_BulkWrite, MongoCollection_Clone,
    MongoCollection_CountDocuments,
    MongoCollection_CreateIndexesIfNotExist, MongoCollection_Database,
    MongoCollection_DeleteMany, MongoCollection_DeleteOne,
    MongoCollection_Distinct, MongoCollection_Drop,
    MongoCollection_EstimatedDocumentCount, MongoCollection_Find,
    MongoCollection_FindOne, MongoCollection_FindOneAndDelete,
    MongoCollection_FindOneAndReplace, MongoCollection_FindOneAndUpdate,
    MongoCollection_Indexes, MongoCollection_InsertMany,
    MongoCollection_InsertOne, MongoCollection_Name,
    MongoCollection_ReplaceOne, MongoCollection_SearchIndexes,
    MongoCollection_UpdateByID, MongoCollection_UpdateMany,
    MongoCollection_UpdateOne, MongoCollection_Watch, MongoCursor_All,
    MongoCursor_Close, MongoCursor_Decode, MongoCursor_Err, MongoCursor_ID,
    MongoCursor_Next, MongoCursor_TryNext, MongoDatabase_Collection,
    MongoIndexView_CreateOne, MongoIndexView_List,
    MongoSingleResult_Decode, Queue_Pop, Queue_Push,
    RandomnessGenerator_NewString, RandomnessGenerator_NewUUID,
    RedisClient_Close, RedisClient_Del, RedisClient_Get, RedisClient_Keys,
    RedisClient_LPush, RedisClient_Ping, RedisClient_RPop, RedisClient_Set

\* Arguments are the fixed ones and at most one behind them.
LEMMA Laid ==
    ASSUME method \in Methods, NEW x, NEW y, NEW args,
           args \in {Fixed(x) \o <<>>, Fixed(x) \o <<y>>}
    PROVE  /\ method.fixed \in Nat
           /\ DOMAIN args = 1 .. Len(args)
           /\ \A i \in 1 .. method.fixed : args[i] = x
           /\ args = Fixed(x) \o <<>> => Len(args) = method.fixed
           /\ args = Fixed(x) \o <<y>> =>
                 Len(args) = method.fixed + 1 /\ args[method.fixed + 1] = y
<1>1. PICK n \in Nat : n = method.fixed
  BY FixedCount
<1>2. Fixed(x) = [i \in 1 .. n |-> x]
  BY <1>1 DEF Fixed
<1>3. Fixed(x) \in Seq({x, y}) /\ Len(Fixed(x)) = n /\ \A i \in 1 .. n : Fixed(x)[i] = x
  <2>1. [i \in 1 .. n |-> x] \in [1 .. n -> {x, y}]
    OBVIOUS
  <2>2. Fixed(x) \in Seq({x, y}) /\ DOMAIN Fixed(x) = 1 .. n
    BY <1>2, <2>1
  <2> QED BY <1>2, <2>2
<1> HIDE DEF Fixed
<1>4. /\ <<>> \in Seq({x, y}) /\ <<y>> \in Seq({x, y})
      /\ Len(<<>>) = 0 /\ Len(<<y>>) = 1 /\ <<y>>[1] = y
  OBVIOUS
<1>5. /\ Fixed(x) \o <<>> \in Seq({x, y}) /\ Len(Fixed(x) \o <<>>) = n
      /\ \A i \in 1 .. n : (Fixed(x) \o <<>>)[i] = x
  BY <1>3, <1>4
<1>6. /\ Fixed(x) \o <<y>> \in Seq({x, y}) /\ Len(Fixed(x) \o <<y>>) = n + 1
      /\ \A i \in 1 .. n : (Fixed(x) \o <<y>>)[i] = x
      /\ (Fixed(x) \o <<y>>)[n + 1] = y
  BY <1>3, <1>4
<1>7. args \in Seq({x, y}) /\ \A i \in 1 .. n : args[i] = x
  BY <1>5, <1>6
<1>8. DOMAIN args = 1 .. Len(args)
  BY <1>7
<1>9. args = Fixed(x) \o <<>> => Len(args) = n
  BY <1>5
<1>10. args = Fixed(x) \o <<y>> => Len(args) = n + 1 /\ args[n + 1] = y
  BY <1>6
<1> QED BY <1>1, <1>7, <1>8, <1>9, <1>10

\* A list of options is empty, or the variadic argument.
LEMMA Sent ==
    ASSUME method \in Methods, NEW x, NEW opts
    PROVE  LET args == Arguments(x, opts)
           IN  /\ Len(args) = method.fixed + (IF opts = <<>> THEN 0 ELSE 1)
               /\ \A i \in 1 .. method.fixed : args[i] = x
               /\ opts # <<>> => args[method.fixed + 1] = opts
               /\ VariadicArgs(args) = opts
<1> DEFINE n == method.fixed
           args == Arguments(x, opts)
<1>1. CASE opts = <<>>
  <2>1. args = Fixed(x) \o <<>>
    BY <1>1 DEF Arguments
  <2> HIDE DEF args
  <2>2. n \in Nat /\ Len(args) = n /\ \A i \in 1 .. n : args[i] = x
    BY <2>1, Laid
  <2> HIDE DEF n
  <2>3. VariadicArgs(args) = <<>>
    BY <2>2 DEF VariadicArgs, n
  <2> QED BY <1>1, <2>2, <2>3 DEF args, n
<1>2. CASE opts # <<>>
  <2>1. args = Fixed(x) \o <<opts>>
    BY <1>2 DEF Arguments
  <2> HIDE DEF args
  <2>2. /\ n \in Nat /\ Len(args) = n + 1 /\ \A i \in 1 .. n : args[i] = x
        /\ args[n + 1] = opts
    BY <2>1, Laid
  <2> HIDE DEF n
  <2>3. VariadicArgs(args) = opts
    BY <2>2 DEF VariadicArgs, n
  <2> QED BY <1>2, <2>2, <2>3 DEF args, n
<1> QED BY <1>1, <1>2

LEMMA GivenShape ==
    ASSUME NEW given \in GivenLists
    PROVE  given = <<>> \/ \E y : given = <<y>>
BY DEF GivenLists, OptionLists

\* testify's comparison finds exactly the expectations that are meant for a
\* call: those with its values and with its options as one slice, or a matcher.
LEMMA MatchIsMeant ==
    ASSUME method \in Methods, NEW e, e.given \in GivenLists,
           NEW x \in Values, NEW opts \in OptionLists
    PROVE  Diff(ExpecterArguments(e.given), Arguments(x, opts)) <=> Meant(e, x, opts)
<1> DEFINE n == method.fixed
           args == ExpecterArguments(e.given)
           actual == Arguments(x, opts)
<1>1. n \in Nat /\ (n = 0 => x = Value) /\ Value # Anything
  BY FixedCount, MocksAssumption DEF Values
<1>2. /\ Len(actual) = n + (IF opts = <<>> THEN 0 ELSE 1)
      /\ \A i \in 1 .. n : actual[i] = x
      /\ opts # <<>> => actual[n + 1] = opts
  BY Sent
<1>3. CASE e.given = <<>>
  <2>1. Len(args) = n /\ DOMAIN args = 1 .. n /\ \A i \in 1 .. n : args[i] = Value
    <3>1. args = Fixed(Value) \o <<>>
      BY <1>3 DEF ExpecterArguments
    <3> HIDE DEF args
    <3> QED BY <3>1, Laid
  <2>2. CASE opts = <<>>
    <3> HIDE DEF n, args, actual
    <3>1. Diff(args, actual) <=> \A i \in 1 .. n : Value \in {x, Anything}
      BY <1>1, <1>2, <2>1, <2>2 DEF Diff
    <3>2. Diff(args, actual) <=> x = Value
      BY <1>1, <3>1
    <3> QED BY <1>3, <2>2, <3>2 DEF Meant, args, actual
  <2>3. CASE opts # <<>>
    <3> HIDE DEF n, args, actual
    <3>1. ~Diff(args, actual)
      BY <1>1, <1>2, <2>1, <2>3 DEF Diff
    <3>2. e.given \notin {<<opts>>, <<Anything>>}
      BY <1>3
    <3> QED BY <2>3, <3>1, <3>2 DEF Meant, args, actual
  <2> QED BY <2>2, <2>3
<1>4. ASSUME NEW y, e.given = <<y>>
      PROVE  Diff(args, actual) <=> Meant(e, x, opts)
  <2>1. /\ Len(args) = n + 1 /\ DOMAIN args = 1 .. n + 1
        /\ \A i \in 1 .. n : args[i] = Value
        /\ args[n + 1] = y
    <3>1. args = Fixed(Value) \o <<y>>
      BY <1>4 DEF ExpecterArguments
    <3> HIDE DEF args
    <3> QED BY <3>1, Laid
  <2>2. CASE opts = <<>>
    <3>1. ~Meant(e, x, opts)
      BY <1>4, <2>2 DEF Meant
    <3> HIDE DEF n, args, actual
    <3>2. ~Diff(args, actual)
      BY <1>1, <1>2, <2>1, <2>2 DEF Diff
    <3> QED BY <3>1, <3>2
  <2>3. CASE opts # <<>>
    <3>1. e.given \in {<<opts>>, <<Anything>>} <=> y \in {opts, Anything}
      BY <1>4
    <3>2. Meant(e, x, opts) <=> x = Value /\ y \in {opts, Anything}
      BY <2>3, <3>1 DEF Meant
    <3> HIDE DEF n, args, actual
    <3>3. Diff(args, actual) <=> /\ \A i \in 1 .. n : Value \in {x, Anything}
                                 /\ y \in {opts, Anything}
      BY <1>1, <1>2, <2>1, <2>3 DEF Diff
    <3>4. Diff(args, actual) <=> x = Value /\ y \in {opts, Anything}
      BY <1>1, <3>3
    <3> QED BY <3>2, <3>4
  <2> QED BY <2>2, <2>3
<1> QED BY <1>3, <1>4, GivenShape

-----------------------------------------------------------------------------
(* The invariant.                                                          *)

ArgumentLists == {Arguments(x, opts) : x \in Values, opts \in OptionLists}

Recorded ==
    /\ expected \in Seq(Expectations)
    /\ calls \in Seq([args : ArgumentLists, by : Nat])
    /\ job = [g \in Goroutines |-> job[g]]

\* An expectation for one call is either not used yet or used up by a call.
OnceUsed == \A i \in DOMAIN expected :
    /\ expected[i].once => expected[i].left # 0
    /\ expected[i].left = -1 => \E k \in DOMAIN calls : calls[k].by = i

\* The test goes on, or has passed, only without unexpected calls.
NoneUnexpected ==
    verdict \in {"running", "passed"} => \A g \in Goroutines : job[g].at # "unexpected"

\* What Return or RunAndReturn gave is of the types of the method.
TypedRets == \A i \in DOMAIN expected :
    expected[i].typed => expected[i].rets \in TypedReturns \cup {<<"all">>}

\* A goroutine that came back from a call has what its expectation returns; one
\* that found nothing to return has ended the test.
Answered == \A g \in Goroutines :
    /\ job[g].at \in {"returned", "panicked"} =>
          job[g].results = Results(expected[job[g].by].rets)
    /\ job[g].at = "panicked" => verdict = "panicked"

\* Whoever passed has met its expectations.
PassedMet == verdict = "passed" =>
    \A i \in DOMAIN expected :
        /\ \E k \in DOMAIN calls :
              Diff(ExpecterArguments(expected[i].given), calls[k].args)
        /\ expected[i].left # 1

IInv ==
    /\ TypeOK /\ Recorded
    /\ OnceUsed /\ NoneUnexpected /\ PassedMet
    /\ TypedRets /\ Answered /\ RunSeesTheCall

-----------------------------------------------------------------------------
(* The operators on expectations and results.                              *)

LEMMA MinIsLeast ==
    ASSUME NEW S \in SUBSET Nat, S # {}
    PROVE  Min(S) \in S /\ \A i \in S : Min(S) <= i
<1> DEFINE less == OpToRel(<, Nat)
<1>1. IsWellFoundedOn(less, Nat)
  BY NatLessThanWellFounded
<1> HIDE DEF less
<1>2. PICK m \in S : \A i \in S : <<i, m>> \notin less
  BY <1>1, WFMin
<1>3. ASSUME NEW i \in S PROVE m <= i
  <2>1. i \in Nat /\ m \in Nat /\ <<i, m>> \in Nat \X Nat
    OBVIOUS
  <2>2. ~(<<i, m>>[1] < <<i, m>>[2])
    BY <1>2, <2>1 DEF less, OpToRel
  <2> QED BY <2>1, <2>2
<1> QED BY <1>3 DEF Min

\* Values of the method's types, and a function for all results, are handed
\* out as they are, and there is no panic.
LEMMA TypedResults ==
    ASSUME NEW rets \in TypedReturns \cup {<<"all">>}
    PROVE  /\ Results(rets) = [i \in DOMAIN method.results |-> Told(rets, i)]
           /\ \A i \in DOMAIN method.results : Results(rets)[i] # "panic"
<1> DEFINE D == DOMAIN method.results
<1>1. CASE rets = <<"all">>
  BY <1>1 DEF Results, Told
<1>2. CASE rets \in TypedReturns
  <2>1. rets # <<"all">>
    <3>1. \A i \in DOMAIN rets : rets[i] \in {"value", "nil"}
      BY <1>2 DEF TypedReturns
    <3>2. 1 \in DOMAIN <<"all">> /\ <<"all">>[1] = "all"
      OBVIOUS
    <3> QED BY <3>1, <3>2
  <2>2. /\ DOMAIN rets = D
        /\ \A i \in D : \/ rets[i] = "value"
                        \/ rets[i] = "nil" /\ method.results[i] # Plain
    BY <1>2 DEF TypedReturns
  <2>3. \A i \in D : ResultAt(rets, i) = rets[i]
    BY <2>2 DEF ResultAt, Result
  <2>4. Results(rets) = [i \in D |-> rets[i]]
    BY <2>1, <2>3 DEF Results
  <2> QED BY <2>1, <2>2, <2>4 DEF Told
<1> QED BY <1>1, <1>2

\* Where nothing is there to return, a method with results panics.
LEMMA NothingToReturn ==
    ASSUME ~\E i \in DOMAIN method.results : Results(<<>>)[i] = "panic"
    PROVE  DOMAIN method.results = {} /\ \A rets : Results(rets) = Results(<<>>)
<1>1. Results(<<>>) = [i \in DOMAIN method.results |-> "panic"]
  <2>1. <<>> # <<"all">> /\ DOMAIN <<>> = {}
    OBVIOUS
  <2> QED BY <2>1 DEF Results, ResultAt
<1>2. DOMAIN method.results = {}
  BY <1>1
<1> QED BY <1>2 DEF Results

-----------------------------------------------------------------------------
(* Each action keeps the invariant.                                        *)

LEMMA JobStays ==
    ASSUME TypeOK, NEW g \in Goroutines, UNCHANGED method, job'[g] = job[g],
           DOMAIN expected \subseteq DOMAIN expected'
    PROVE  JobType(job[g])'
BY DEF TypeOK, JobType, OptionLists

LEMMA InitIInv == Init => IInv
<1> SUFFICES ASSUME Init PROVE IInv
  OBVIOUS
<1>1. TypeOK /\ Recorded
  BY DEF Init, TypeOK, Recorded, JobType, Idle
<1>2. OnceUsed /\ NoneUnexpected /\ PassedMet
  BY DEF Init, OnceUsed, NoneUnexpected, PassedMet, Idle
<1>3. TypedRets /\ Answered /\ RunSeesTheCall
  BY DEF Init, TypedRets, Answered, RunSeesTheCall, Idle
<1> QED BY <1>1, <1>2, <1>3 DEF IInv

LEMMA ExpectStep ==
    ASSUME IInv, NEW given \in GivenLists, Expect(given)
    PROVE  IInv'
<1> DEFINE e == [given |-> given, once |-> FALSE, left |-> 0,
                 run |-> FALSE, rets |-> <<>>, typed |-> FALSE]
<1>1. expected' = Append(expected, e) /\ Running /\ UNCHANGED <<method, calls, job, verdict>>
  BY DEF Expect, TestGoesOn
<1>2. e \in Expectations
  BY DEF Expectations
<1>3. /\ e.once = FALSE /\ e.left = 0 /\ e.typed = FALSE
  OBVIOUS
<1> HIDE DEF e
<1>4. PICK n \in Nat : n = Len(expected) /\ DOMAIN expected = 1 .. n
  BY DEF IInv, Recorded
<1>5. /\ expected' \in Seq(Expectations)
      /\ DOMAIN expected' = 1 .. n + 1
      /\ \A i \in 1 .. n : expected'[i] = expected[i]
      /\ expected'[n + 1] = e
  BY <1>1, <1>2, <1>4 DEF IInv, Recorded
<1>6. /\ DOMAIN expected \subseteq DOMAIN expected'
      /\ \A i \in DOMAIN expected : expected'[i] = expected[i]
      /\ \A i \in DOMAIN expected' : i \in DOMAIN expected \/ expected'[i] = e
  BY <1>4, <1>5
<1>7. Expectations' = Expectations
  BY <1>1 DEF Expectations, GivenLists, OptionLists, RawReturns, TypedReturns
<1>8. TypeOK'
  <2>1. \A g \in Goroutines : JobType(job[g])'
    BY <1>1, <1>6, JobStays DEF IInv
  <2> QED BY <1>1, <1>5, <1>6, <1>7, <2>1 DEF IInv, TypeOK
<1>9. Recorded'
  <2>1. ArgumentLists' = ArgumentLists
    BY <1>1 DEF ArgumentLists, Arguments, Fixed, Values, OptionLists
  <2> QED BY <1>1, <1>5, <1>7, <2>1 DEF IInv, Recorded
<1>10. OnceUsed' /\ NoneUnexpected' /\ PassedMet'
  BY <1>1, <1>3, <1>6 DEF IInv, OnceUsed, NoneUnexpected, PassedMet, Running
<1>11. TypedRets'
  BY <1>1, <1>3, <1>6 DEF IInv, TypedRets, TypedReturns
<1>12. Answered' /\ RunSeesTheCall'
  <2>1. \A g \in Goroutines : job[g].at \in {"returned", "panicked"} =>
            job[g].by \in DOMAIN expected
    BY DEF IInv, TypeOK, JobType
  <2> QED BY <1>1, <1>6, <2>1 DEF IInv, Answered, RunSeesTheCall, Results, ResultAt
<1> QED BY <1>8, <1>9, <1>10, <1>11, <1>12 DEF IInv

\* Configuring the latest expectation leaves the others and, where it had
\* something to return, what it returns.
LEMMA ConfigureStep ==
    ASSUME IInv, expected # <<>>, NEW e \in Expectations, Configure(e),
           e.once => e.left # 0, e.left = -1 => Latest.left = -1,
           e.typed => e.rets \in TypedReturns \cup {<<"all">>},
           Latest.rets # <<>> => e.rets = Latest.rets
    PROVE  IInv'
<1>1. /\ expected' = [expected EXCEPT ![Len(expected)] = e]
      /\ Running /\ UNCHANGED <<method, calls, job, verdict>>
  BY DEF Configure, TestGoesOn
<1>2. PICK n \in Nat \ {0} : n = Len(expected) /\ DOMAIN expected = 1 .. n
  BY DEF IInv, Recorded
<1>3. /\ expected' \in Seq(Expectations)
      /\ DOMAIN expected' = DOMAIN expected
      /\ n \in DOMAIN expected /\ Latest = expected[n]
      /\ expected'[n] = e
      /\ \A i \in DOMAIN expected : i # n => expected'[i] = expected[i]
  BY <1>1, <1>2 DEF IInv, Recorded, Latest
<1>4. Expectations' = Expectations
  BY <1>1 DEF Expectations, GivenLists, OptionLists, RawReturns, TypedReturns
<1>5. TypeOK'
  <2>1. \A g \in Goroutines : JobType(job[g])'
    BY <1>1, <1>3, JobStays DEF IInv
  <2> QED BY <1>1, <1>3, <1>4, <2>1 DEF IInv, TypeOK
<1>6. Recorded'
  <2>1. ArgumentLists' = ArgumentLists
    BY <1>1 DEF ArgumentLists, Arguments, Fixed, Values, OptionLists
  <2> QED BY <1>1, <1>3, <1>4, <2>1 DEF IInv, Recorded
<1>7. OnceUsed'
  BY <1>1, <1>3 DEF IInv, OnceUsed
<1>8. NoneUnexpected' /\ PassedMet'
  BY <1>1 DEF IInv, NoneUnexpected, PassedMet, Running
<1>9. TypedRets'
  BY <1>1, <1>3 DEF IInv, TypedRets, TypedReturns
<1>10. Answered'
  <2> SUFFICES ASSUME NEW g \in Goroutines, job[g].at \in {"returned", "panicked"}
               PROVE  /\ job[g].results = Results(expected[job[g].by].rets)'
                      /\ job[g].at # "panicked"
    BY <1>1 DEF Answered
  <2> DEFINE by == job[g].by
  <2>1. /\ job[g].at = "returned" /\ by \in DOMAIN expected
        /\ job[g].results = Results(expected[by].rets)
        /\ ~\E i \in DOMAIN job[g].results : job[g].results[i] = "panic"
    BY <1>1 DEF IInv, TypeOK, JobType, Answered, Running
  <2> HIDE DEF by
  <2>2. CASE expected'[by].rets = expected[by].rets
    BY <1>1, <2>1, <2>2 DEF Results, ResultAt, by
  <2>3. CASE expected'[by].rets # expected[by].rets
    <3>1. expected[by].rets = <<>>
      BY <1>3, <2>1, <2>3
    <3>2. DOMAIN job[g].results = DOMAIN method.results
      BY <2>1 DEF Results
    <3>3. \A rets : Results(rets) = Results(<<>>)
      BY <2>1, <3>1, <3>2, NothingToReturn
    <3>4. DOMAIN method.results = {}
      BY <2>1, <3>1, <3>2, NothingToReturn
    <3> QED BY <1>1, <2>1, <3>1, <3>4 DEF Results, by
  <2> QED BY <2>2, <2>3
<1>11. RunSeesTheCall'
  BY <1>1 DEF IInv, RunSeesTheCall
<1> QED BY <1>5, <1>6, <1>7, <1>8, <1>9, <1>10, <1>11 DEF IInv

\* What the methods of EXPECT() make of the latest expectation.
LEMMA LatestTyped ==
    ASSUME IInv, expected # <<>>
    PROVE  /\ Latest \in Expectations
           /\ Latest.once => Latest.left # 0
           /\ Latest.typed => Latest.rets \in TypedReturns \cup {<<"all">>}
<1>1. Len(expected) \in DOMAIN expected
  BY DEF IInv, Recorded
<1> QED BY <1>1 DEF IInv, TypeOK, OnceUsed, TypedRets, Latest

LEMMA OnceStep == ASSUME IInv, Once PROVE IInv'
<1> DEFINE e == [Latest EXCEPT !.once = TRUE, !.left = 1]
<1>1. expected # <<>> /\ Configure(e)
  BY DEF Once
<1>2. /\ e \in Expectations /\ e.once = TRUE /\ e.left = 1
      /\ e.typed = Latest.typed /\ e.rets = Latest.rets
  BY <1>1, LatestTyped DEF Expectations
<1> HIDE DEF e
<1> QED BY <1>1, <1>2, LatestTyped, ConfigureStep

LEMMA RunStep == ASSUME IInv, Run PROVE IInv'
<1> DEFINE e == [Latest EXCEPT !.run = TRUE]
<1>1. expected # <<>> /\ Configure(e)
  BY DEF Run
<1>2. /\ e \in Expectations /\ e.once = Latest.once /\ e.left = Latest.left
      /\ e.typed = Latest.typed /\ e.rets = Latest.rets
  BY <1>1, LatestTyped DEF Expectations
<1> HIDE DEF e
<1> QED BY <1>1, <1>2, LatestTyped, ConfigureStep

LEMMA ReturnStep ==
    ASSUME IInv, NEW rets \in TypedReturns \cup {<<"all">>}, Return(rets)
    PROVE  IInv'
<1> DEFINE e == [Latest EXCEPT !.rets = rets, !.typed = TRUE]
<1>1. expected # <<>> /\ Latest.rets = <<>> /\ Configure(e)
  BY DEF Return
<1>2. /\ e \in Expectations /\ e.once = Latest.once /\ e.left = Latest.left
      /\ e.typed = TRUE /\ e.rets = rets
  BY <1>1, LatestTyped DEF Expectations
<1> HIDE DEF e
<1> QED BY <1>1, <1>2, LatestTyped, ConfigureStep

\* Of a method without results the typed values are none, and so are those of
\* any type.
LEMMA ReturnRawStep ==
    ASSUME IInv, NEW rets \in RawReturns, ReturnRaw(rets)
    PROVE  IInv'
<1> DEFINE e == [Latest EXCEPT !.rets = rets]
<1>1. expected # <<>> /\ Latest.rets = <<>> /\ Configure(e)
  BY DEF ReturnRaw
<1>2. /\ e \in Expectations /\ e.once = Latest.once /\ e.left = Latest.left
      /\ e.typed = Latest.typed /\ e.rets = rets
  BY <1>1, LatestTyped DEF Expectations
<1> HIDE DEF e
<1>3. e.typed => e.rets \in TypedReturns
  <2> SUFFICES ASSUME e.typed PROVE rets \in TypedReturns
    BY <1>2
  <2>1. <<>> \in TypedReturns
    <3>1. <<>> # <<"all">>
      OBVIOUS
    <3> QED BY <1>1, <1>2, <3>1, LatestTyped
  <2>2. DOMAIN method.results = {}
    BY <2>1 DEF TypedReturns
  <2> QED BY <2>2 DEF TypedReturns, RawReturns
<1> QED BY <1>1, <1>2, <1>3, LatestTyped, ConfigureStep

\* An answered call uses its expectation.
LEMMA CalledStep ==
    ASSUME IInv, NEW g \in Goroutines, NEW x \in Values, NEW opts \in OptionLists,
           Called(g, x, opts)
    PROVE  IInv'
<1> DEFINE args == Arguments(x, opts)
           i == Min(Using(args))
           j == [at |-> "found", opts |-> opts, by |-> i]
           c == [args |-> args, by |-> i]
<1>1. /\ MayCall(g) /\ Running /\ Using(args) # {}
      /\ expected' = [expected EXCEPT ![i].left = IF @ = 1 THEN -1 ELSE @]
      /\ calls' = Append(calls, c)
      /\ job' = [job EXCEPT ![g] = j]
      /\ UNCHANGED <<method, verdict>>
  BY DEF Called, MayCall
<1>2. /\ i \in DOMAIN expected /\ i \in Nat
      /\ Diff(ExpecterArguments(expected[i].given), args)
      /\ expected[i].left # -1
  <2>1. Using(args) \subseteq DOMAIN expected /\ DOMAIN expected \subseteq Nat
    BY DEF Using, IInv, Recorded
  <2>2. i \in Using(args)
    BY <1>1, <2>1, MinIsLeast
  <2> QED BY <2>1, <2>2 DEF Using
<1>3. args \in ArgumentLists /\ c \in [args : ArgumentLists, by : Nat]
  BY <1>2 DEF ArgumentLists
<1>4. j.at = "found" /\ j.opts = opts /\ j.by = i /\ c.by = i
  OBVIOUS
<1> HIDE DEF args, i, j, c
<1>5. PICK e : e = [expected[i] EXCEPT !.left = IF @ = 1 THEN -1 ELSE @]
  OBVIOUS
<1>6. /\ expected[i] \in Expectations /\ e \in Expectations
      /\ e.given = expected[i].given /\ e.once = expected[i].once
      /\ e.typed = expected[i].typed /\ e.rets = expected[i].rets
      /\ e.left = IF expected[i].left = 1 THEN -1 ELSE expected[i].left
  <2>1. expected[i] \in Expectations
    BY <1>2 DEF IInv, TypeOK
  <2> QED BY <1>5, <2>1 DEF Expectations
<1>7. /\ expected' \in Seq(Expectations)
      /\ DOMAIN expected' = DOMAIN expected
      /\ expected'[i] = e
      /\ \A l \in DOMAIN expected : l # i => expected'[l] = expected[l]
  <2>1. expected' = [expected EXCEPT ![i] = e]
    BY <1>1, <1>5
  <2> QED BY <1>2, <1>6, <2>1 DEF IInv, Recorded
<1>8. /\ calls' \in Seq([args : ArgumentLists, by : Nat])
      /\ DOMAIN calls \subseteq DOMAIN calls'
      /\ \A k \in DOMAIN calls : calls'[k] = calls[k]
      /\ \A k \in DOMAIN calls' : k \in DOMAIN calls \/ calls'[k] = c
      /\ \E k \in DOMAIN calls' : calls'[k] = c
  <2>1. calls \in Seq([args : ArgumentLists, by : Nat])
    BY DEF IInv, Recorded
  <2>2. PICK n \in Nat : n = Len(calls) /\ DOMAIN calls = 1 .. n
    BY <2>1
  <2>3. /\ calls' \in Seq([args : ArgumentLists, by : Nat])
        /\ DOMAIN calls' = 1 .. n + 1
        /\ \A k \in 1 .. n : calls'[k] = calls[k]
        /\ calls'[n + 1] = c
    BY <1>1, <1>3, <2>1, <2>2
  <2> QED BY <2>2, <2>3
<1>9. job' = [h \in Goroutines |-> IF h = g THEN j ELSE job[h]]
  BY <1>1 DEF IInv, Recorded
<1>10. /\ Expectations' = Expectations /\ ArgumentLists' = ArgumentLists
       /\ OptionLists' = OptionLists /\ TypedReturns' = TypedReturns
  BY <1>1 DEF Expectations, GivenLists, OptionLists, RawReturns, TypedReturns,
              ArgumentLists, Arguments, Fixed, Values
<1>11. TypeOK'
  <2>1. ASSUME NEW h \in Goroutines PROVE JobType(job[h])'
    <3>1. CASE h = g
      BY <1>2, <1>4, <1>7, <1>9, <1>10, <3>1 DEF JobType
    <3>2. CASE h # g
      BY <1>1, <1>7, <1>9, <3>2, JobStays DEF IInv
    <3> QED BY <3>1, <3>2
  <2>2. \A l \in DOMAIN expected' : expected'[l] \in Expectations'
    BY <1>7, <1>10
  <2>3. \A k \in DOMAIN calls' : calls'[k].by \in DOMAIN expected'
    BY <1>2, <1>4, <1>7, <1>8 DEF IInv, TypeOK
  <2>4. (method \in Methods)'
        /\ (verdict \in {"running", "failing", "passed", "failed", "panicked"})'
    BY <1>1 DEF IInv, TypeOK
  <2> QED BY <2>1, <2>2, <2>3, <2>4 DEF TypeOK
<1>12. Recorded'
  BY <1>7, <1>8, <1>9, <1>10 DEF Recorded
<1>13. OnceUsed'
  BY <1>2, <1>4, <1>6, <1>7, <1>8 DEF IInv, OnceUsed
<1>14. NoneUnexpected' /\ PassedMet'
  BY <1>1, <1>4, <1>9 DEF IInv, NoneUnexpected, PassedMet, Running
<1>15. TypedRets'
  BY <1>6, <1>7, <1>10 DEF IInv, TypedRets
<1>16. Answered'
  <2>1. \A l \in DOMAIN expected : expected'[l].rets = expected[l].rets
    BY <1>6, <1>7
  <2>2. ASSUME NEW h \in Goroutines, job'[h].at \in {"returned", "panicked"}
        PROVE  /\ job'[h] = job[h] /\ job[h].by \in DOMAIN expected
               /\ job[h].results = Results(expected[job[h].by].rets)
               /\ job[h].at = "panicked" => verdict = "panicked"
    <3>1. job'[h] = job[h]
      BY <1>4, <1>9, <2>2
    <3> QED BY <2>2, <3>1 DEF IInv, TypeOK, JobType, Answered
  <2>3. \A h \in Goroutines : job'[h].at \in {"returned", "panicked"} =>
            job'[h].results = Results(expected'[job'[h].by].rets)
    BY <2>1, <2>2
  <2>4. \A h \in Goroutines : job'[h].at = "panicked" => verdict' = "panicked"
    BY <1>1, <2>2
  <2>5. \A h \in Goroutines :
            Results(expected[job[h].by].rets)' = Results(expected'[job'[h].by].rets)
    BY <1>1 DEF Results, ResultAt
  <2> QED BY <2>3, <2>4, <2>5 DEF Answered
<1>17. RunSeesTheCall'
  BY <1>4, <1>9 DEF IInv, RunSeesTheCall
<1> QED BY <1>11, <1>12, <1>13, <1>14, <1>15, <1>16, <1>17 DEF IInv

\* A goroutine goes on in its call: the expectations and calls stay.
LEMMA JobStep ==
    ASSUME IInv, NEW g \in Goroutines, NEW j, JobType(j), Running,
           UNCHANGED <<method, expected, calls>>, job' = [job EXCEPT ![g] = j],
           verdict' \in {verdict, "failing", "panicked"},
           j.at = "unexpected" => verdict' = "failing",
           j.at = "panicked" => verdict' = "panicked",
           j.at \in {"returned", "panicked"} => j.results = Results(expected[j.by].rets),
           j.at = "ran" /\ j.seen # <<>> => j.seen = <<j.opts>>
    PROVE  IInv'
<1>1. job' = [h \in Goroutines |-> IF h = g THEN j ELSE job[h]]
  BY DEF IInv, Recorded
<1>2. /\ Expectations' = Expectations /\ ArgumentLists' = ArgumentLists
      /\ OptionLists' = OptionLists /\ TypedReturns' = TypedReturns
  BY DEF Expectations, GivenLists, OptionLists, RawReturns, TypedReturns,
         ArgumentLists, Arguments, Fixed, Values
<1>3. TypeOK'
  <2>1. ASSUME NEW h \in Goroutines PROVE JobType(job[h])'
    <3>1. CASE h = g
      BY <1>1, <1>2, <3>1 DEF JobType
    <3>2. CASE h # g
      BY <1>1, <3>2, JobStays DEF IInv
    <3> QED BY <3>1, <3>2
  <2>2. verdict' \in {"running", "failing", "passed", "failed", "panicked"}
    BY DEF Running
  <2> QED BY <1>2, <2>1, <2>2 DEF IInv, TypeOK
<1>4. Recorded'
  BY <1>1, <1>2 DEF IInv, Recorded
<1>5. OnceUsed' /\ TypedRets'
  BY <1>2 DEF IInv, OnceUsed, TypedRets
<1>6. NoneUnexpected' /\ PassedMet'
  BY <1>1 DEF IInv, NoneUnexpected, PassedMet, Running
<1>7. Answered'
  <2>1. \A h \in Goroutines : job[h].at # "panicked"
    BY DEF IInv, Answered, Running
  <2>2. ASSUME NEW h \in Goroutines, job'[h].at \in {"returned", "panicked"}
        PROVE  /\ job'[h].results = Results(expected[job'[h].by].rets)
               /\ job'[h].at = "panicked" => verdict' = "panicked"
    BY <1>1, <2>1, <2>2 DEF IInv, Answered
  <2>3. \A h \in Goroutines :
            Results(expected[job[h].by].rets)' = Results(expected[job'[h].by].rets)
    BY DEF Results, ResultAt
  <2> QED BY <2>2, <2>3 DEF Answered
<1>8. RunSeesTheCall'
  BY <1>1 DEF IInv, RunSeesTheCall
<1> QED BY <1>3, <1>4, <1>5, <1>6, <1>7, <1>8 DEF IInv

LEMMA UnexpectedStep ==
    ASSUME IInv, NEW g \in Goroutines, NEW x \in Values, NEW opts \in OptionLists,
           Unexpected(g, x, opts)
    PROVE  IInv'
<1> DEFINE j == [at |-> "unexpected"]
<1>1. /\ Running /\ job' = [job EXCEPT ![g] = j] /\ verdict' = "failing"
      /\ UNCHANGED <<method, expected, calls>>
  BY DEF Unexpected, MayCall
<1>2. JobType(j) /\ j.at = "unexpected"
  BY DEF JobType
<1> HIDE DEF j
<1> QED BY <1>1, <1>2, JobStep

LEMMA RunFnStep == ASSUME IInv, NEW g \in Goroutines, RunFn(g) PROVE IInv'
<1> DEFINE opts == job[g].opts
           by == job[g].by
           seen == IF expected[by].run THEN <<VariadicArgs(Arguments(Value, opts))>> ELSE <<>>
           j == [at |-> "ran", opts |-> opts, by |-> by, seen |-> seen]
<1>1. /\ Running /\ job' = [job EXCEPT ![g] = j]
      /\ UNCHANGED <<method, expected, calls, verdict>>
  BY DEF RunFn
<1>2. opts \in OptionLists /\ by \in DOMAIN expected
  BY DEF RunFn, IInv, TypeOK, JobType
<1>3. VariadicArgs(Arguments(Value, opts)) = opts
  BY Sent DEF IInv, TypeOK
<1>4. seen \in {<<>>, <<opts>>}
  BY <1>3
<1>5. j.at = "ran" /\ j.opts = opts /\ j.by = by /\ j.seen = seen
  OBVIOUS
<1> HIDE DEF j, seen, by, opts
<1>6. JobType(j)
  BY <1>2, <1>4, <1>5 DEF JobType
<1> QED BY <1>1, <1>4, <1>5, <1>6, JobStep

LEMMA AnswerStep == ASSUME IInv, NEW g \in Goroutines, Answer(g) PROVE IInv'
<1> DEFINE by == job[g].by
           results == Results(expected[by].rets)
           panics == \E i \in DOMAIN results : results[i] = "panic"
           j == [at |-> IF panics THEN "panicked" ELSE "returned", by |-> by, results |-> results]
<1>1. /\ Running /\ job' = [job EXCEPT ![g] = j]
      /\ verdict' = (IF panics THEN "panicked" ELSE verdict)
      /\ UNCHANGED <<method, expected, calls>>
  BY DEF Answer
<1>2. by \in DOMAIN expected
  BY DEF Answer, IInv, TypeOK, JobType
<1>3. /\ j.at = (IF panics THEN "panicked" ELSE "returned")
      /\ j.by = by /\ j.results = results
  OBVIOUS
<1> HIDE DEF j
<1>4. JobType(j)
  BY <1>2, <1>3 DEF JobType
<1> QED BY <1>1, <1>3, <1>4, JobStep

LEMMA CleanupStep == ASSUME IInv, Cleanup PROVE IInv'
<1>1. /\ Running /\ UNCHANGED <<method, expected, calls, job>>
      /\ verdict' = (IF verdict = "running" /\ \A i \in DOMAIN expected : Met(i)
                     THEN "passed" ELSE "failed")
  BY DEF Cleanup
<1>2. /\ Expectations' = Expectations /\ ArgumentLists' = ArgumentLists
      /\ TypedReturns' = TypedReturns
  BY <1>1 DEF Expectations, GivenLists, OptionLists, RawReturns, TypedReturns,
              ArgumentLists, Arguments, Fixed, Values
<1>3. TypeOK'
  <2>1. \A g \in Goroutines : JobType(job[g])'
    BY <1>1, JobStays DEF IInv
  <2> QED BY <1>1, <1>2, <2>1 DEF IInv, TypeOK
<1>4. Recorded' /\ OnceUsed' /\ TypedRets' /\ RunSeesTheCall'
  BY <1>1, <1>2 DEF IInv, Recorded, OnceUsed, TypedRets, RunSeesTheCall
<1>5. NoneUnexpected'
  BY <1>1 DEF IInv, NoneUnexpected
<1>6. PassedMet'
  BY <1>1 DEF PassedMet, Met, Diff, ExpecterArguments, Fixed
<1>7. Answered'
  <2>1. \A g \in Goroutines : job[g].at # "panicked"
    BY <1>1 DEF IInv, Answered, Running
  <2>2. \A g \in Goroutines :
            Results(expected[job[g].by].rets)' = Results(expected[job[g].by].rets)
    BY <1>1 DEF Results, ResultAt
  <2> QED BY <1>1, <2>1, <2>2 DEF IInv, Answered
<1> QED BY <1>3, <1>4, <1>5, <1>6, <1>7 DEF IInv

LEMMA StutterStep == ASSUME IInv, UNCHANGED vars PROVE IInv'
<1>1. UNCHANGED method /\ UNCHANGED expected /\ UNCHANGED calls
      /\ UNCHANGED job /\ UNCHANGED verdict
  BY DEF vars
<1>2. /\ Expectations' = Expectations /\ ArgumentLists' = ArgumentLists
      /\ TypedReturns' = TypedReturns
  BY <1>1 DEF Expectations, GivenLists, OptionLists, RawReturns, TypedReturns,
              ArgumentLists, Arguments, Fixed, Values
<1>3. TypeOK'
  <2>1. \A g \in Goroutines : JobType(job[g])'
    BY <1>1, JobStays DEF IInv
  <2> QED BY <1>1, <1>2, <2>1 DEF IInv, TypeOK
<1>4. Recorded' /\ OnceUsed' /\ TypedRets' /\ RunSeesTheCall' /\ NoneUnexpected'
  BY <1>1, <1>2 DEF IInv, Recorded, OnceUsed, TypedRets, RunSeesTheCall, NoneUnexpected
<1>5. PassedMet'
  BY <1>1 DEF IInv, PassedMet, Diff, ExpecterArguments, Fixed
<1>6. Answered'
  <2>1. \A g \in Goroutines :
            Results(expected[job[g].by].rets)' = Results(expected[job[g].by].rets)
    BY <1>1 DEF Results, ResultAt
  <2> QED BY <1>1, <2>1 DEF IInv, Answered
<1> QED BY <1>3, <1>4, <1>5, <1>6 DEF IInv

LEMMA NextIInv == IInv /\ [Next]_vars => IInv'
<1> SUFFICES ASSUME IInv, [Next]_vars PROVE IInv'
  OBVIOUS
<1>1. ASSUME NEW given \in GivenLists, Expect(given) PROVE IInv'
  BY <1>1, ExpectStep
<1>2. CASE Once
  BY <1>2, OnceStep
<1>3. CASE Run
  BY <1>3, RunStep
<1>4. ASSUME NEW rets \in TypedReturns, Return(rets) PROVE IInv'
  BY <1>4, ReturnStep
<1>5. CASE RunAndReturn
  BY <1>5, RunStep, ReturnStep DEF RunAndReturn
<1>6. ASSUME NEW rets \in RawReturns, ReturnRaw(rets) PROVE IInv'
  BY <1>6, ReturnRawStep
<1>7. ASSUME NEW g \in Goroutines, NEW x \in Values, NEW opts \in OptionLists,
             Called(g, x, opts) \/ Unexpected(g, x, opts)
      PROVE  IInv'
  BY <1>7, CalledStep, UnexpectedStep
<1>8. ASSUME NEW g \in Goroutines, RunFn(g) \/ Answer(g) PROVE IInv'
  BY <1>8, RunFnStep, AnswerStep
<1>9. CASE Cleanup
  BY <1>9, CleanupStep
<1>10. CASE UNCHANGED vars
  BY <1>10, StutterStep
<1> QED
  BY <1>1, <1>2, <1>3, <1>4, <1>5, <1>6, <1>7, <1>8, <1>9, <1>10 DEF Next

LEMMA Invariance == Spec => []IInv
BY InitIInv, NextIInv, PTL DEF Spec

-----------------------------------------------------------------------------
(* The theorems.                                                           *)

\* The function given to Run receives a list of options whatever the method,
\* and a result is missing only where the mocked method has panicked.
THEOREM TypeCorrectness == Spec => []TypeOK
<1>1. IInv => TypeOK
  BY DEF IInv
<1> QED BY <1>1, Invariance, PTL

\* A test that passes has met each expectation, one of a single call with a
\* call of its own, and no goroutine's call was unexpected: the last call of an
\* expectation is used up only by a call that it answers.
THEOREM PassedIsMet == Spec => []PassMeansMet
<1>1. IInv => PassMeansMet
  <2> SUFFICES ASSUME IInv, verdict = "passed"
               PROVE  /\ \A g \in Goroutines : job[g].at # "unexpected"
                      /\ \A i \in DOMAIN expected :
                            /\ \E k \in DOMAIN calls :
                                  Diff(ExpecterArguments(expected[i].given), calls[k].args)
                            /\ expected[i].once => \E k \in DOMAIN calls : calls[k].by = i
    BY DEF PassMeansMet
  <2>1. \A g \in Goroutines : job[g].at # "unexpected"
    BY DEF IInv, NoneUnexpected
  <2>2. ASSUME NEW i \in DOMAIN expected, expected[i].once
        PROVE  \E k \in DOMAIN calls : calls[k].by = i
    <3>1. expected[i].left \in {-1, 0, 1}
      BY DEF IInv, TypeOK, Expectations
    <3>2. expected[i].left = -1
      BY <2>2, <3>1 DEF IInv, OnceUsed, PassedMet
    <3> QED BY <3>2 DEF IInv, OnceUsed
  <2> QED BY <2>1, <2>2 DEF IInv, PassedMet
<1> QED BY <1>1, Invariance, PTL

\* An expectation answers with what Return or RunAndReturn gave it, and the
\* function of Run sees the options of the call, on any goroutines and however
\* they interleave with the test that configures other expectations.
THEOREM AnswersAsTold == Spec => []DoesAsTold
<1>1. IInv => DoesAsTold
  <2> SUFFICES ASSUME IInv, NEW g \in Goroutines,
                      job[g].at \in {"returned", "panicked"}, expected[job[g].by].typed
               PROVE  job[g].results =
                        [i \in DOMAIN method.results |-> Told(expected[job[g].by].rets, i)]
    BY DEF IInv, DoesAsTold, TypedAnswersAsTold
  <2> DEFINE rets == expected[job[g].by].rets
  <2>1. job[g].by \in DOMAIN expected
    BY DEF IInv, TypeOK, JobType
  <2>2. rets \in TypedReturns \cup {<<"all">>}
    BY <2>1 DEF IInv, TypedRets
  <2>3. job[g].results = Results(rets)
    BY DEF IInv, Answered
  <2> HIDE DEF rets
  <2>4. Results(rets) = [i \in DOMAIN method.results |-> Told(rets, i)]
    BY <2>2, TypedResults
  <2> QED BY <2>3, <2>4 DEF rets
<1> QED BY <1>1, Invariance, PTL

Serves == \A g \in Goroutines :
    LET meant(x, opts) ==
          {i \in DOMAIN expected : Meant(expected[i], x, opts) /\ expected[i].left # -1}
        j == job'[g]
    IN  j # job[g] =>
          /\ j.at = "unexpected" =>
                \A x \in Values, opts \in OptionLists :
                    Unexpected(g, x, opts) => meant(x, opts) = {}
          /\ j.at = "found" =>
                j.by \in meant(Value, j.opts) /\ \A i \in meant(Value, j.opts) : j.by <= i

\* A call is answered by the first expectation with a use left that was meant
\* for it, and finds none only if none was: that the options travel as one
\* argument never joins a call to an expectation of other options.
THEOREM CallsServed == Spec => ServedAsMeant
<1>1. IInv /\ [Next]_vars => [Serves]_vars
  <2> SUFFICES ASSUME IInv, Next PROVE Serves
    OBVIOUS
  <2> DEFINE meant(x, opts) ==
                {i \in DOMAIN expected : Meant(expected[i], x, opts) /\ expected[i].left # -1}
  <2>1. \A x \in Values, opts \in OptionLists : Using(Arguments(x, opts)) = meant(x, opts)
    <3> SUFFICES ASSUME NEW x \in Values, NEW opts \in OptionLists, NEW i \in DOMAIN expected
                 PROVE  Diff(ExpecterArguments(expected[i].given), Arguments(x, opts))
                          <=> Meant(expected[i], x, opts)
      BY DEF Using
    <3>1. method \in Methods /\ expected[i] \in Expectations
      BY DEF IInv, TypeOK
    <3>2. expected[i].given \in GivenLists
      BY <3>1 DEF Expectations
    <3> QED BY <3>1, <3>2, MatchIsMeant
  <2> SUFFICES ASSUME NEW g \in Goroutines, job'[g] # job[g]
               PROVE  /\ job'[g].at = "unexpected" =>
                            \A x \in Values, opts \in OptionLists :
                                Unexpected(g, x, opts) => meant(x, opts) = {}
                      /\ job'[g].at = "found" =>
                            /\ job'[g].by \in meant(Value, job'[g].opts)
                            /\ \A i \in meant(Value, job'[g].opts) : job'[g].by <= i
    BY DEF Serves
  <2>2. \A x \in Values, opts \in OptionLists : Unexpected(g, x, opts) => meant(x, opts) = {}
    BY <2>1 DEF Unexpected
  <2>3. ASSUME job'[g].at = "found"
        PROVE  \E x \in Values, opts \in OptionLists : Called(g, x, opts)
    <3>1. ASSUME NEW h \in Goroutines, NEW j, job' = [job EXCEPT ![h] = j]
          PROVE  h = g /\ j.at = "found"
      <4>1. job' = [f \in Goroutines |-> IF f = h THEN j ELSE job[f]]
        BY <3>1 DEF IInv, Recorded
      <4> QED BY <2>3, <4>1
    <3>2. ASSUME NEW x \in Values, NEW opts \in OptionLists, NEW h \in Goroutines,
                 Called(h, x, opts)
          PROVE  h = g
      BY <3>1, <3>2 DEF Called
    <3>3. ASSUME NEW x \in Values, NEW opts \in OptionLists, NEW h \in Goroutines,
                 Unexpected(h, x, opts)
          PROVE  FALSE
      <4>1. PICK j : job' = [job EXCEPT ![h] = j] /\ j.at # "found"
        <5> DEFINE j == [at |-> "unexpected"]
        <5>1. job' = [job EXCEPT ![h] = j] /\ j.at # "found"
          BY <3>3 DEF Unexpected
        <5> QED BY <5>1
      <4> QED BY <3>1, <4>1
    <3>4. ASSUME NEW h \in Goroutines, RunFn(h) \/ Answer(h) PROVE FALSE
      <4>1. PICK j : job' = [job EXCEPT ![h] = j] /\ j.at # "found"
        <5>1. CASE RunFn(h)
          <6> DEFINE j == [at |-> "ran", opts |-> job[h].opts, by |-> job[h].by,
                           seen |-> IF expected[job[h].by].run
                                    THEN <<VariadicArgs(Arguments(Value, job[h].opts))>>
                                    ELSE <<>>]
          <6>1. job' = [job EXCEPT ![h] = j] /\ j.at # "found"
            BY <5>1 DEF RunFn
          <6> HIDE DEF j
          <6> QED BY <6>1
        <5>2. CASE Answer(h)
          <6> DEFINE results == Results(expected[job[h].by].rets)
                     panics == \E i \in DOMAIN results : results[i] = "panic"
                     j == [at |-> IF panics THEN "panicked" ELSE "returned",
                           by |-> job[h].by, results |-> results]
          <6>1. job' = [job EXCEPT ![h] = j] /\ j.at # "found"
            BY <5>2 DEF Answer
          <6> HIDE DEF j
          <6> QED BY <6>1
        <5> QED BY <3>4, <5>1, <5>2
      <4> QED BY <3>1, <4>1
    <3>5. ASSUME UNCHANGED job PROVE FALSE
      BY <3>5
    <3> QED
      BY <3>2, <3>3, <3>4, <3>5
      DEF Next, Expect, Once, Run, Return, RunAndReturn, ReturnRaw, Configure, Cleanup
  <2>4. ASSUME NEW x \in Values, NEW opts \in OptionLists, Called(g, x, opts)
        PROVE  /\ job'[g].by \in meant(Value, job'[g].opts)
               /\ \A i \in meant(Value, job'[g].opts) : job'[g].by <= i
    <3> DEFINE S == meant(x, opts)
               first == Min(Using(Arguments(x, opts)))
    <3>1. job'[g].opts = opts /\ job'[g].by = first
      BY <2>4 DEF Called, IInv, Recorded
    <3>2. Using(Arguments(x, opts)) = S /\ S # {}
      BY <2>1, <2>4 DEF Called
    <3>3. x = Value
      BY <3>2 DEF Meant
    <3>4. S \in SUBSET Nat
      BY DEF IInv, Recorded
    <3>5. S = meant(Value, opts)
      BY <3>3
    <3> HIDE DEF S
    <3>6. first \in S /\ \A i \in S : first <= i
      BY <3>2, <3>4, MinIsLeast
    <3> HIDE DEF first, meant
    <3> QED BY <3>1, <3>5, <3>6
  <2> QED BY <2>2, <2>3, <2>4
<1> QED BY <1>1, Invariance, PTL DEF Spec, ServedAsMeant, Serves

=============================================================================
