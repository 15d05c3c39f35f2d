------------------------------- MODULE Mocks -------------------------------
(***************************************************************************)
(* A mock of pkg/ in a test: expectations are made with EXPECT() and       *)
(* configured one call after the other while the code under test, on the   *)
(* goroutine of the test or on others, calls the mocked method; when the   *)
(* test function is over the cleanup that NewMock registered decides.      *)
(*                                                                         *)
(* The generated code is one template filled in with a method, here the    *)
(* variable method, which Init chooses from MockedMethods.  testify's      *)
(* mock.Mock, which keeps the expectations and compares arguments, is      *)
(* external.                                                               *)
(***************************************************************************)
EXTENDS MockedMethods, Integers, Sequences, FiniteSets, FiniteSetsExt

CONSTANTS
    Value, Other,  \* values of the fixed parameters; one stands for all of a call
    Options,       \* values of the variadic parameter
    Anything,      \* mock.Anything, or a matcher such as those of testutils
    Goroutines,
    Test,          \* the goroutine of the test function
    MaxExpected,   \* bound on the expectations of a test
    MaxConfigured, \* bound on what is configured of them
    MaxCalls       \* bound on the calls that find one

ASSUME MocksAssumption ==
    /\ Test \in Goroutines
    /\ Value # Other
    /\ Anything \notin Options \cup {Value, Other}
    /\ MaxExpected \in Nat /\ MaxConfigured \in Nat /\ MaxCalls \in Nat

VARIABLES
    method,        \* the method that is mocked
    expected,      \* mock.ExpectedCalls, in order
    calls,         \* mock.Calls: arguments, and which expectation answered
    job,           \* what each goroutine is at
    verdict        \* of the test

vars == <<method, expected, calls, job, verdict>>

Values == IF method.fixed = 0 THEN {Value} ELSE {Value, Other}

OptionLists == {<<>>} \cup IF method.variadic THEN {<<o>> : o \in Options} ELSE {}

(* What a test may write for the variadic parameter of an expectation:     *)
(* nothing, the options one by one, all of them as one slice, or a matcher.*)
GivenLists ==
    OptionLists \cup IF method.variadic
                     THEN {<<opts>> : opts \in OptionLists \ {<<>>}} \cup {<<Anything>>}
                     ELSE {}

Fixed(x) == [i \in 1 .. method.fixed |-> x]

(* Faulty: hands the options over one by one. *)
ArgumentsUnrolled(x, opts) == Fixed(x) \o opts

(* The arguments a mocked method hands to Called: its variadic parameter   *)
(* is one argument, and none if it is empty.                               *)
Arguments(x, opts) == Fixed(x) \o IF opts = <<>> THEN <<>> ELSE <<opts>>

(* The arguments EXPECT() hands to On: every option given is an argument.  *)
ExpecterArguments(given) == Fixed(Value) \o given

(* Faulty: takes one argument more for there to be one. *)
VariadicArgsOffByOne(args) ==
    IF Len(args) > method.fixed + 1 THEN args[method.fixed + 1] ELSE <<>>

(* Faulty: takes the last argument for it, whatever that is. *)
VariadicArgsLast(args) == IF args = <<>> THEN <<>> ELSE args[Len(args)]

(* What the closure of Run makes of the arguments: the variadic parameter  *)
(* is the argument behind the fixed ones, if there is one.                 *)
VariadicArgs(args) ==
    IF Len(args) > method.fixed THEN args[method.fixed + 1] ELSE <<>>

(* testify: expected arguments match those of a call. *)
Diff(args, actual) ==
    /\ Len(args) = Len(actual)
    /\ \A i \in DOMAIN args : args[i] \in {actual[i], Anything}

(* What Return, made for the types of the method, can be given. *)
TypedReturns ==
    {[i \in DOMAIN method.results |-> "value"],
     [i \in DOMAIN method.results |-> IF method.results[i] = Plain THEN "value" ELSE "nil"]}

(* What Return of the embedded mock.Call takes as well: a function for     *)
(* each result, or values of other types.                                  *)
RawReturns ==
    {[i \in DOMAIN method.results |-> what] : what \in {"func", "other"}}

(* One result of a call, from what the expectation has to return for it.   *)
Result(kind, ret) ==
    CASE ret = "func" -> "computed"
      [] ret = "value" -> "value"
      [] ret = "nil" /\ kind # Plain -> "nil"
      [] OTHER -> "panic"

ResultAt(rets, i) ==
    IF i \in DOMAIN rets THEN Result(method.results[i], rets[i]) ELSE "panic"

(* Faulty: a function of the whole type is taken for one of the first      *)
(* result, as it is where there is only one.                               *)
ResultsOneByOne(rets) ==
    [i \in DOMAIN method.results |->
        IF rets = <<"all">> /\ i = 1 /\ Len(method.results) = 1
        THEN "computed" ELSE ResultAt(rets, i)]

(* The results of a call, from ret, the ReturnArguments of its             *)
(* expectation; a function of the whole type answers for all of them.      *)
Results(rets) ==
    IF rets = <<"all">>
    THEN [i \in DOMAIN method.results |-> "computed"]
    ELSE [i \in DOMAIN method.results |-> ResultAt(rets, i)]

Idle == [at |-> "idle"]
Running == verdict \in {"running", "failing"}
----------------------------------------------------------------------------
Init ==
    /\ method \in Methods
    /\ expected = <<>>
    /\ calls = <<>>
    /\ job = [g \in Goroutines |-> Idle]
    /\ verdict = "running"

(* The test function is between two calls. *)
TestGoesOn == Running /\ job[Test].at \in {"idle", "returned"}

(* EXPECT().M(Value, given...) *)
Expect(given) ==
    /\ TestGoesOn
    /\ Len(expected) < MaxExpected
    /\ expected' = Append(expected,
         [given |-> given, once |-> FALSE, left |-> 0,
          run |-> FALSE, rets |-> <<>>, typed |-> FALSE])
    /\ UNCHANGED <<method, calls, job, verdict>>

Configured ==
    Cardinality({i \in DOMAIN expected : expected[i].once})
        + Cardinality({i \in DOMAIN expected : expected[i].run})
        + Cardinality({i \in DOMAIN expected : expected[i].rets # <<>>})

(* The latest expectation is configured further. *)
Configure(change) ==
    /\ TestGoesOn
    /\ expected # <<>>
    /\ Configured < MaxConfigured
    /\ expected' = [expected EXCEPT ![Len(expected)] = change]
    /\ expected' # expected
    /\ UNCHANGED <<method, calls, job, verdict>>

Latest == expected[Len(expected)]

Once == /\ expected # <<>> /\ ~Latest.once /\ Latest.left = 0
        /\ Configure([Latest EXCEPT !.once = TRUE, !.left = 1])

Run == expected # <<>> /\ Configure([Latest EXCEPT !.run = TRUE])

Return(rets) ==
    /\ expected # <<>> /\ Latest.rets = <<>>
    /\ Configure([Latest EXCEPT !.rets = rets, !.typed = TRUE])

(* A method without results has only a function to run. *)
RunAndReturn == IF method.results = <<>> THEN Run ELSE Return(<<"all">>)

(* Return of the embedded Call. *)
ReturnRaw(rets) ==
    /\ expected # <<>> /\ Latest.rets = <<>>
    /\ Configure([Latest EXCEPT !.rets = rets])

Using(args) ==
    {i \in DOMAIN expected : /\ Diff(ExpecterArguments(expected[i].given), args)
                             /\ expected[i].left # -1}

MayCall(g) == Running /\ job[g].at \in {"idle", "returned"}

(* M(x, opts...) finds the first expectation that matches and has a use    *)
(* left, and uses it.                                                      *)
Called(g, x, opts) ==
    LET args == Arguments(x, opts)
        i == Min(Using(args))
    IN  /\ MayCall(g)
        /\ Len(calls) < MaxCalls
        /\ Using(args) # {}
        /\ expected' = [expected EXCEPT ![i].left = IF @ = 1 THEN -1 ELSE @]
        /\ calls' = Append(calls, [args |-> args, by |-> i])
        /\ job' = [job EXCEPT ![g] = [at |-> "found", opts |-> opts, by |-> i]]
        /\ UNCHANGED <<method, verdict>>

(* ... or none: the test fails and the goroutine ends. *)
Unexpected(g, x, opts) ==
    /\ MayCall(g)
    /\ Using(Arguments(x, opts)) = {}
    /\ job' = [job EXCEPT ![g] = [at |-> "unexpected"]]
    /\ verdict' = "failing"
    /\ UNCHANGED <<method, expected, calls>>

(* The function of Run is called with what the closure made of the         *)
(* arguments, before the values to return are looked at.                   *)
RunFn(g) ==
    LET j == job[g] IN
    /\ Running /\ j.at = "found"
    /\ job' = [job EXCEPT ![g] =
         [at |-> "ran", opts |-> j.opts, by |-> j.by,
          seen |-> IF expected[j.by].run THEN <<VariadicArgs(Arguments(Value, j.opts))>> ELSE <<>>]]
    /\ UNCHANGED <<method, expected, calls, verdict>>

(* The rest of the mocked method. *)
Answer(g) ==
    LET j == job[g]
        results == Results(expected[j.by].rets)
        panics == \E i \in DOMAIN results : results[i] = "panic"
    IN  /\ Running /\ j.at = "ran"
        /\ job' = [job EXCEPT ![g] =
             [at |-> IF panics THEN "panicked" ELSE "returned", by |-> j.by, results |-> results]]
        /\ verdict' = IF panics THEN "panicked" ELSE verdict
        /\ UNCHANGED <<method, expected, calls>>

(* testify: the expectation was met.  One whose arguments another one      *)
(* answered counts as met, unless it is for a number of times.             *)
Met(i) ==
    /\ \E k \in DOMAIN calls :
          Diff(ExpecterArguments(expected[i].given), calls[k].args)
    /\ expected[i].left # 1

(* Faulty: NewMock registers no cleanup. *)
CleanupNothing ==
    /\ Running
    /\ job[Test].at \notin {"found", "ran"}
    /\ verdict' = IF verdict = "running" THEN "passed" ELSE "failed"
    /\ UNCHANGED <<method, expected, calls, job>>

(* The test function is over, and the cleanup asserts the expectations.    *)
Cleanup ==
    /\ Running
    /\ job[Test].at \notin {"found", "ran"}
    /\ verdict' = IF verdict = "running" /\ \A i \in DOMAIN expected : Met(i)
                  THEN "passed" ELSE "failed"
    /\ UNCHANGED <<method, expected, calls, job>>

Next ==
    \/ \E given \in GivenLists : Expect(given)
    \/ Once
    \/ Run
    \/ \E rets \in TypedReturns : Return(rets)
    \/ RunAndReturn
    \/ \E rets \in RawReturns : ReturnRaw(rets)
    \/ \E g \in Goroutines, x \in Values, opts \in OptionLists :
          Called(g, x, opts) \/ Unexpected(g, x, opts)
    \/ \E g \in Goroutines : RunFn(g) \/ Answer(g)
    \/ Cleanup

Spec == Init /\ [][Next]_vars
----------------------------------------------------------------------------
Expectations ==
    [given : GivenLists, once : BOOLEAN, left : {-1, 0, 1},
     run : BOOLEAN, typed : BOOLEAN, rets : RawReturns \cup TypedReturns \cup {<<>>, <<"all">>}]

JobType(j) ==
    CASE j.at \in {"idle", "unexpected"} -> DOMAIN j = {"at"}
      [] j.at \in {"found", "ran"} ->
            /\ j.opts \in OptionLists
            /\ j.by \in DOMAIN expected
            /\ j.at = "ran" => j.seen \in {<<>>} \cup {<<opts>> : opts \in OptionLists}
      [] OTHER ->
            /\ j.at = "panicked" <=> \E i \in DOMAIN j.results : j.results[i] = "panic"
            /\ j.at \in {"returned", "panicked"}
            /\ j.by \in DOMAIN expected

(* Types: what a closure of Run receives is a list of options, and a       *)
(* result is missing only when the mocked method has panicked.             *)
TypeOK ==
    /\ method \in Methods
    /\ \A i \in DOMAIN expected : expected[i] \in Expectations
    /\ \A k \in DOMAIN calls : calls[k].by \in DOMAIN expected
    /\ \A g \in Goroutines : JobType(job[g])
    /\ verdict \in {"running", "failing", "passed", "failed", "panicked"}

(* A test that passes made every call that it expects, one of its own for  *)
(* each expectation of one call, and no other call, on any of its          *)
(* goroutines before its cleanup (NewMock of every mock).                  *)
PassMeansMet ==
    verdict = "passed" =>
        /\ \A g \in Goroutines : job[g].at # "unexpected"
        /\ \A i \in DOMAIN expected :
              /\ \E k \in DOMAIN calls :
                    Diff(ExpecterArguments(expected[i].given), calls[k].args)
              /\ expected[i].once => \E k \in DOMAIN calls : calls[k].by = i

(* An expectation given its values by the Return or RunAndReturn that are  *)
(* made for the method's types answers with them; the mocked method does   *)
(* not panic on them, whatever else is configured and called meanwhile.    *)
Told(rets, i) ==
    IF rets = <<"all">> THEN "computed" ELSE rets[i]

TypedAnswersAsTold ==
    \A g \in Goroutines :
        (job[g].at \in {"returned", "panicked"} /\ expected[job[g].by].typed) =>
            job[g].results = [i \in DOMAIN method.results |-> Told(expected[job[g].by].rets, i)]

(* The function given to Run sees the options that the call was made with, *)
(* though they travel as one argument (Called and Run of a variadic        *)
(* method).                                                                *)
RunSeesTheCall ==
    \A g \in Goroutines :
        (job[g].at = "ran" /\ job[g].seen # <<>>) => job[g].seen = <<job[g].opts>>

(* A mocked method does as its expectation was told, in both respects.     *)
DoesAsTold == TypedAnswersAsTold /\ RunSeesTheCall

(* An expectation is meant for the calls with its values whose options it  *)
(* names as one slice, or by a matcher; if it names none, for those that   *)
(* have none.  One that names options one by one is meant for no call.     *)
Meant(e, x, opts) ==
    /\ x = Value
    /\ IF opts = <<>> THEN e.given = <<>> ELSE e.given \in {<<opts>>, <<Anything>>}

(* A call is answered by the first expectation meant for it that has a use *)
(* left, and is unexpected only if there is none (Called and EXPECT of a   *)
(* mocked method).                                                         *)
ServedAsMeant ==
    [][\A g \in Goroutines :
        LET meant(x, opts) ==
              {i \in DOMAIN expected : Meant(expected[i], x, opts) /\ expected[i].left # -1}
            j == job'[g]
        IN  j # job[g] =>
              /\ j.at = "unexpected" =>
                    \A x \in Values, opts \in OptionLists :
                        Unexpected(g, x, opts) => meant(x, opts) = {}
              /\ j.at = "found" =>
                    j.by \in meant(Value, j.opts) /\ \A i \in meant(Value, j.opts) : j.by <= i]_vars
=============================================================================
