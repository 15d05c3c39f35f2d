------------------------------ MODULE MCMaestro ------------------------------
(* Instances of Maestro for TLC. *)
EXTENDS Maestro

CONSTANTS fired, foreign, broken, r1, r2, g1, g2, maestro, maestroOld

\* An event the service handles, one it does not, one that does not decode.
MCNameOf == [x \in Intents |-> x]

\* One request at a time on each of two replicas.
MCReplicaOf == [g \in Goroutines |-> IF g = g1 THEN r1 ELSE r2]

\* swagger.yaml:22-31 does not require the flag, with which replies come with
\* it and without; errors come with a 500 or, from a proxy, with a 200 that is
\* not JSON.
MCAccepting ==
    {[status |-> 200, json |-> TRUE, decodes |-> TRUE, success |-> "true"],
     [status |-> 200, json |-> TRUE, decodes |-> TRUE, success |-> "absent"]}
MCRefusing ==
    {[status |-> 200, json |-> TRUE, decodes |-> TRUE, success |-> "false"],
     [status |-> 200, json |-> TRUE, decodes |-> TRUE, success |-> "absent"],
     [status |-> 200, json |-> TRUE, decodes |-> FALSE, success |-> "absent"],
     [status |-> 200, json |-> FALSE, decodes |-> FALSE, success |-> "absent"],
     [status |-> 500, json |-> TRUE, decodes |-> TRUE, success |-> "absent"]}

\* Tokens with an aud that maestro takes, with one on which the check differs
\* from it, and without an aud.
MCTokens == {[kind |-> "string", audiences |-> {maestro}],
             [kind |-> "listWithNull", audiences |-> {maestro}],
             [kind |-> "noAud", audiences |-> {}]}

=============================================================================
