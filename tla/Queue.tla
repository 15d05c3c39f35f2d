-------------------------------- MODULE Queue --------------------------------
(***************************************************************************)
(* What the Queue interface of pkg/queue/queue.go promises: Push adds a    *)
(* value to the end of a queue, Pop removes the oldest one.  A value that  *)
(* was removed is in the hand of the caller until Pop returns it, and is   *)
(* then given out or lost; it never goes back.                             *)
(***************************************************************************)
EXTENDS Naturals, Sequences

CONSTANTS
    Queues,
    Values,
    Callers,
    None

VARIABLES
    content,      \* content[q]: the values in q, the oldest first
    hand,         \* hand[c]: the value removed for c's Pop, or None
    given         \* given[v]: how often v was returned by a Pop

queueVars == <<content, hand, given>>

QueueInit ==
    /\ content = [q \in Queues |-> <<>>]
    /\ hand = [c \in Callers |-> None]
    /\ given = [v \in Values |-> 0]

Push(q, v) ==
    /\ content' = [content EXCEPT ![q] = Append(@, v)]
    /\ UNCHANGED <<hand, given>>

Remove(c, q) ==
    /\ hand[c] = None
    /\ content[q] # <<>>
    /\ hand' = [hand EXCEPT ![c] = Head(content[q])]
    /\ content' = [content EXCEPT ![q] = Tail(@)]
    /\ UNCHANGED given

Give(c) ==
    /\ hand[c] # None
    /\ hand' = [hand EXCEPT ![c] = None]
    /\ given' = [given EXCEPT ![hand[c]] = @ + 1]
    /\ UNCHANGED content

Lose(c) ==
    /\ hand[c] # None
    /\ hand' = [hand EXCEPT ![c] = None]
    /\ UNCHANGED <<content, given>>

QueueNext ==
    \/ \E q \in Queues, v \in Values : Push(q, v)
    \/ \E c \in Callers, q \in Queues : Remove(c, q)
    \/ \E c \in Callers : Give(c) \/ Lose(c)

QueueSpec == QueueInit /\ [][QueueNext]_queueVars

=============================================================================
