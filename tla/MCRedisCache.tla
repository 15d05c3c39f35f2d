---------------------------- MODULE MCRedisCache ----------------------------
(* An instance of RedisCache for TLC: the caches of three services. *)
EXTENDS RedisCache

CONSTANTS user, session, job, id, aUser, aSession, aJob

\* Two prefixes of which one continues the other, and keys that make both
\* caches use the full key user:session:id; one that is apart from them.
MCPrefixes == {<<user>>, <<user, session>>, <<job>>}
MCKeys == {<<id>>, <<session, id>>}

\* Each service stores values of its own type.
MCValuesOf == [p \in Prefixes |->
    {IF p = <<user>> THEN aUser ELSE IF p = <<job>> THEN aJob ELSE aSession}]

Under(s) == {f \in FullKeys : Head(f) = s}

\* Callers that pass the pattern "user:*", as in cache.go:62, which reaches
\* into the cache next door; and some that put their own prefix before it.
MCPatternsOf == [p \in Prefixes |-> {Under(Head(p))}]

=============================================================================
