----------------------------- MODULE MCRedisQueue -----------------------------
(* An instance of RedisQueue for TLC: two callers, of which the second has a  *)
(* type that one of the values does not decode to.                            *)
EXTENDS RedisQueue

CONSTANTS jobs, mails, c1, c2, anOrder, aBill, aNaN

MCDecodes == [c \in Callers |-> IF c = c1 THEN Encodable ELSE {anOrder}]

=============================================================================
