------------------------------ MODULE EventBus ------------------------------
(***************************************************************************)
(* What the event bus promises, without transports: a subscription is      *)
(* called only with what the transport took, of its topic and its tenant,  *)
(* and once for each time that it took it, whoever else handles it and     *)
(* whenever.  A transport may take an envelope more than once              *)
(* (bus.go:67-70), so this is not once for each Publish.  Once the bus is  *)
(* closed it accepts none, and a quiet transport hands out none either.    *)
(***************************************************************************)
EXTENDS Envelope, Integers, Sequences

CONSTANT Quiet      \* whether no handler runs once the bus is closed

VARIABLES
    sent,           \* what the transport took, in order, copies included
    handled,        \* handled[s]: the positions in sent of those s handled
    shut            \* whether the bus is closed

vars == <<sent, handled, shut>>

\* Whether m is for s: an envelope of its topic and of the tenant it filters by.
Concerns(s, m) ==
    /\ m.topic = TopicOf[s]
    /\ m.tenant \in IF FilterOf[s] = NoFilter THEN Tenants \cup {NoTenant}
                                            ELSE {FilterOf[s]}

Init ==
    /\ sent = <<>>
    /\ handled = [s \in Subs |-> <<>>]
    /\ shut = FALSE

Accept == \E m \in Messages :
    /\ ~shut
    /\ sent' = Append(sent, m)
    /\ UNCHANGED <<handled, shut>>

Handle(s) == \E i \in 1 .. Len(sent) :
    /\ Quiet => ~shut
    /\ \A j \in 1 .. Len(handled[s]) : handled[s][j] # i
    /\ Concerns(s, sent[i])
    /\ handled' = [handled EXCEPT ![s] = Append(@, i)]
    /\ UNCHANGED <<sent, shut>>

Close ==
    /\ shut' = TRUE
    /\ UNCHANGED <<sent, handled>>

Next == Accept \/ (\E s \in Subs : Handle(s)) \/ Close

Spec == Init /\ [][Next]_vars

=============================================================================
