----------------------------- MODULE MCMigration -----------------------------
(* Instances of Migration for TLC. *)
EXTENDS Migration

CONSTANTS m1, m2, m3, old, new

\* Versions in the order of the migrations.
MCVersion == [m \in Names |->
    CASE m = Base -> 0 [] m = m1 -> 1 [] m = m2 -> 2 [] OTHER -> 3]

\* Every service knows every migration.
MCRegisteredAll == [s \in Services |-> Migrations]

\* A rolling deployment: the old service knows all but the newest migration.
MCRegisteredRolling ==
    [s \in Services |-> IF s = old THEN Migrations \ {m2} ELSE Migrations]

MCForward == {0, 1, 2}
MCUpAndDown == {-2, -1, 1, 2}

=============================================================================
