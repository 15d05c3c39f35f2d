---------------------------- MODULE SchemaHistory ----------------------------
(***************************************************************************)
(* What applying migrations promises, without services, documents or       *)
(* calls: the database goes through the migrations in the order of their   *)
(* versions, one at a time, and back in the reverse order.                 *)
(***************************************************************************)
EXTENDS Integers

CONSTANTS Migrations, Version

VARIABLE applied    \* the migrations whose changes are in the database

Newer(m, S) == \A n \in S : Version[n] < Version[m]

Init == applied = {}

Upgrade == \E m \in Migrations \ applied :
    /\ \A n \in Migrations \ (applied \cup {m}) : Version[m] < Version[n]
    /\ Newer(m, applied)
    /\ applied' = applied \cup {m}

Rollback == \E m \in applied :
    /\ Newer(m, applied \ {m})
    /\ applied' = applied \ {m}

Next == Upgrade \/ Rollback

Spec == Init /\ [][Next]_applied

=============================================================================
