------------------------------ MODULE RedisQueue ------------------------------
(***************************************************************************)
(* RedisQueue[T] of pkg/queue/queue_redis.go: callers in several services  *)
(* push to and pop from the lists of one Redis server. Push encodes its    *)
(* value and sends LPUSH, Pop sends RPOP and decodes what it answers; the  *)
(* type T of a caller decides which values decode without an error. What T *)
(* keeps of such a value (json.Unmarshal drops the fields T does not have) *)
(* is left out: the properties follow the element, not its content, and a  *)
(* value is given when a Pop returned a decoding of it. A command is sent, *)
(* executed and answered in three steps: it may fail on the way, its       *)
(* answer may get lost, in which case go-redis may send it again, and a    *)
(* caller may die at any time.                                             *)
(***************************************************************************)
EXTENDS Naturals, Sequences, SequencesExt

CONSTANTS
    Queues,       \* the names of the lists
    Values,       \* the values callers push, each of them once
    Callers,      \* the goroutines that use a RedisQueue
    None,
    Encodable,    \* the values json.Marshal accepts
    Decodes,      \* Decodes[c]: the values that c's type T takes without an error
    MaxFaults     \* bound on failures, lost answers and deaths

ASSUME RedisQueueAssumption ==
    /\ None \notin Values
    /\ Encodable \subseteq Values
    /\ Decodes \in [Callers -> SUBSET Encodable]
    /\ MaxFaults \in Nat

VARIABLES
    list,         \* list[q]: the list of the server, its left end first
    call,         \* call[c]: the operation c is in and how far it got
    pushed,       \* the values some Push was called with
    faults        \* the faults so far

\* History, read by the properties only.
VARIABLES
    accepted,     \* accepted[q]: the values whose Push to q returned nil
    given,        \* given[v]: how often a Pop returned v with a nil error
    lost,         \* the values an answer to RPOP was lost with
    resent        \* the values whose LPUSH was sent again

vars == <<list, call, pushed, faults, accepted, given, lost, resent>>
history == <<accepted, given, lost, resent>>

Idle == [op |-> "idle"]
Calls ==
    {Idle} \cup
    [op : {"LPUSH"}, queue : Queues, value : Values, done : BOOLEAN] \cup
    [op : {"RPOP"}, queue : Queues, value : Values \cup {None}, done : BOOLEAN]

TypeOK ==
    /\ list \in [Queues -> Seq(Encodable)]
    /\ call \in [Callers -> Calls]
    /\ pushed \subseteq Values
    /\ faults \in 0..MaxFaults
    /\ accepted \in [Queues -> SUBSET pushed]
    /\ given \in [Values -> Nat]
    /\ lost \subseteq pushed
    /\ resent \subseteq pushed

Init ==
    /\ list = [q \in Queues |-> <<>>]
    /\ call = [c \in Callers |-> Idle]
    /\ pushed = {}
    /\ faults = 0
    /\ accepted = [q \in Queues |-> {}]
    /\ given = [v \in Values |-> 0]
    /\ lost = {}
    /\ resent = {}

\* Faulty: the error of json.Marshal is not returned.
PushUnencoded(c, q, v) ==
    /\ call[c] = Idle
    /\ v \notin pushed
    /\ pushed' = pushed \cup {v}
    /\ call' = [call EXCEPT ![c] = [op |-> "LPUSH", queue |-> q,
                                   value |-> v, done |-> FALSE]]
    /\ UNCHANGED <<list, faults, history>>

\* Push: a value that does not encode is refused before anything is sent.
Push(c, q, v) ==
    /\ call[c] = Idle
    /\ v \notin pushed
    /\ pushed' = pushed \cup {v}
    /\ call' = IF v \in Encodable
               THEN [call EXCEPT ![c] = [op |-> "LPUSH", queue |-> q,
                                         value |-> v, done |-> FALSE]]
               ELSE call
    /\ UNCHANGED <<list, faults, history>>

\* Faulty: at the end that Pop takes from.
ServerPushRight(c) ==
    /\ call[c].op = "LPUSH" /\ ~call[c].done
    /\ list' = [list EXCEPT ![call[c].queue] = Append(@, call[c].value)]
    /\ call' = [call EXCEPT ![c].done = TRUE]
    /\ UNCHANGED <<pushed, faults, history>>

\* The server executes LPUSH.
ServerPush(c) ==
    /\ call[c].op = "LPUSH" /\ ~call[c].done
    /\ list' = [list EXCEPT ![call[c].queue] = <<call[c].value>> \o @]
    /\ call' = [call EXCEPT ![c].done = TRUE]
    /\ UNCHANGED <<pushed, faults, history>>

PushReturns(c) ==
    /\ call[c].op = "LPUSH" /\ call[c].done
    /\ accepted' = [accepted EXCEPT ![call[c].queue] = @ \cup {call[c].value}]
    /\ call' = [call EXCEPT ![c] = Idle]
    /\ UNCHANGED <<list, pushed, faults, given, lost, resent>>

Pop(c, q) ==
    /\ call[c] = Idle
    /\ call' = [call EXCEPT ![c] = [op |-> "RPOP", queue |-> q,
                                    value |-> None, done |-> FALSE]]
    /\ UNCHANGED <<list, pushed, faults, history>>

\* Faulty: the element is read and stays in the list.
ServerPopPeeking(c) ==
    LET q == call[c].queue IN
    /\ call[c].op = "RPOP" /\ ~call[c].done
    /\ call' = [call EXCEPT ![c].done = TRUE,
                            ![c].value = IF list[q] = <<>> THEN None
                                         ELSE Last(list[q])]
    /\ UNCHANGED <<list, pushed, faults, history>>

\* The server executes RPOP; of an empty list it answers nil.
ServerPop(c) ==
    LET q == call[c].queue IN
    /\ call[c].op = "RPOP" /\ ~call[c].done
    /\ IF list[q] = <<>>
       THEN /\ call' = [call EXCEPT ![c].done = TRUE]
            /\ UNCHANGED list
       ELSE /\ call' = [call EXCEPT ![c].done = TRUE, ![c].value = Last(list[q])]
            /\ list' = [list EXCEPT ![q] = Front(@)]
    /\ UNCHANGED <<pushed, faults, history>>

\* Pop returns what T keeps of the value, or the error of an empty list or of
\* the decoding; what does not decode is gone.
PopReturns(c) ==
    LET v == call[c].value IN
    /\ call[c].op = "RPOP" /\ call[c].done
    /\ given' = IF v \in Decodes[c] THEN [given EXCEPT ![v] = @ + 1] ELSE given
    /\ call' = [call EXCEPT ![c] = Idle]
    /\ UNCHANGED <<list, pushed, faults, accepted, lost, resent>>

\* Faulty: LPush is not asked for its Err.
CommandFailsUnnoticed(c) ==
    /\ call[c] # Idle /\ ~call[c].done /\ faults < MaxFaults
    /\ faults' = faults + 1
    /\ call' = [call EXCEPT ![c] = Idle]
    /\ accepted' = IF call[c].op = "LPUSH"
                   THEN [accepted EXCEPT ![call[c].queue] = @ \cup {call[c].value}]
                   ELSE accepted
    /\ UNCHANGED <<list, pushed, given, lost, resent>>

\* The command does not reach the server: Push or Pop returns the error.
CommandFails(c) ==
    /\ call[c] # Idle /\ ~call[c].done /\ faults < MaxFaults
    /\ faults' = faults + 1
    /\ call' = [call EXCEPT ![c] = Idle]
    /\ UNCHANGED <<list, pushed, history>>

\* What goes with the answer that c does not get.
LoseAnswer(c) ==
    /\ call[c] # Idle /\ call[c].done /\ faults < MaxFaults
    /\ faults' = faults + 1
    /\ lost' = IF call[c].op = "RPOP" /\ call[c].value # None
               THEN lost \cup {call[c].value} ELSE lost

\* The answer is lost and Push or Pop returns the error, or the caller dies
\* with the answer in its hand.
AnswerLost(c) ==
    /\ LoseAnswer(c)
    /\ call' = [call EXCEPT ![c] = Idle]
    /\ UNCHANGED <<list, pushed, accepted, given, resent>>

\* The answer is lost and go-redis sends the command again.
SendAgain(c) ==
    /\ LoseAnswer(c)
    /\ IF call[c].op = "LPUSH"
       THEN /\ resent' = resent \cup {call[c].value}
            /\ call' = [call EXCEPT ![c].done = FALSE]
       ELSE /\ call' = [call EXCEPT ![c].done = FALSE, ![c].value = None]
            /\ UNCHANGED resent
    /\ UNCHANGED <<list, pushed, accepted, given>>

Next == \E c \in Callers :
    \/ \E q \in Queues, v \in Values : Push(c, q, v)
    \/ \E q \in Queues : Pop(c, q)
    \/ ServerPush(c) \/ PushReturns(c) \/ ServerPop(c) \/ PopReturns(c)
    \/ CommandFails(c) \/ AnswerLost(c) \/ SendAgain(c)

Spec == Init /\ [][Next]_vars

-----------------------------------------------------------------------------

\* The value in the hand of c: removed from the list and not returned yet.
Hand(c) == IF call[c].op = "RPOP" THEN call[c].value ELSE None

\* The services that pop from a queue are those of its element type: v can be
\* lost to a decoding only where some caller's type does not take it.
DecodedByAll(v) == \A c \in Callers : v \in Decodes[c]

\* A Push that returned nil means that its value is in the queue, on its way
\* to a consumer or consumed, whatever other calls failed, unless an answer was
\* lost or a consumer died with it or it does not decode (queue_redis.go:35,
\* :41 and :46).
AcceptedIsKept ==
    \A q \in Queues : \A v \in accepted[q] :
        \/ \E i \in DOMAIN list[q] : list[q][i] = v
        \/ \E c \in Callers : Hand(c) = v
        \/ given[v] > 0
        \/ v \in lost
        \/ ~DecodedByAll(v)

\* A value is returned by at most one Pop, and never while it is still queued
\* for another, unless go-redis sent its LPUSH twice: RPOP removes what it
\* answers, whoever else pops the list at the time (queue_redis.go:41).
GivenOnce ==
    \A v \in Values \ resent :
        /\ given[v] <= 1
        /\ given[v] = 1 =>
              /\ \A q \in Queues : \A i \in DOMAIN list[q] : list[q][i] # v
              /\ \A c \in Callers : Hand(c) # v

\* The two lists in the order of the interface, the oldest first, with what
\* callers hold: Push adds to one end, Pop takes from the other, and a value
\* that left the list is handed out by the caller that holds it or by nobody.
Promised == INSTANCE Queue
    WITH content <- [q \in Queues |-> Reverse(list[q])],
         hand <- [c \in Callers |-> Hand(c)]

ImplementsQueue == Promised!QueueSpec

=============================================================================
