------------------------------ MODULE MCIndexes ------------------------------
(* An instance of Indexes for TLC: two services that want the same keys, the  *)
(* one under a name of its own, the other under the driver's, and an index    *)
(* each besides.                                                              *)
EXTENDS Indexes

CONSTANTS blue, green, byCase, byTime, byCaseName, byTimeName, mine

MCGenerated == [k \in Keys |-> IF k = byCase THEN byCaseName ELSE byTimeName]

MCWanted == [s \in Services |->
    IF s = blue
    THEN <<[name |-> mine, keys |-> byCase], [name |-> byTimeName, keys |-> byTime]>>
    ELSE <<[name |-> byCaseName, keys |-> byCase], [name |-> mine, keys |-> byTime]>>]

\* An administrator gives names of his own, among them one that is wanted.
MCForeign == {[name |-> mine, keys |-> byTime]}

=============================================================================
