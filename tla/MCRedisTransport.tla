-------------------------- MODULE MCRedisTransport --------------------------
(* Instances of RedisTransport for TLC. *)
EXTENDS RedisTransport

CONSTANTS s1, s2, orders, acme

\* One topic; s1 filters by the empty tenant, s2 is for all.
MCTopicOf == [s \in Subs |-> orders]
MCFilterOf == [s \in Subs |-> IF s = s1 THEN NoTenant ELSE NoFilter]

\* What callbacks do: anything but close, or close as well.
MCReentrant == {"publish", "subscribe"}
MCClosing == {"publish", "subscribe", "close"}

=============================================================================
