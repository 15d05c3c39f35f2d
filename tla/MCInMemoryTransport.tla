------------------------- MODULE MCInMemoryTransport -------------------------
(* Instances of InMemoryTransport for TLC. *)
EXTENDS InMemoryTransport

CONSTANTS s1, s2, s3, orders, bills, acme

\* s1 and s2 on one topic, s1 for one tenant only; s3 on the other topic.
MCTopicOf == [s \in Subs |-> IF s = s3 THEN bills ELSE orders]
MCFilterOf == [s \in Subs |-> IF s = s1 THEN acme ELSE NoFilter]

=============================================================================
