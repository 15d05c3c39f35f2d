------------------------------- MODULE Producer -------------------------------
(***************************************************************************)
(* What a Producer of pkg/maestro decides by itself: whether a token is    *)
(* addressed to maestro (audience.go), what the generated client makes of  *)
(* a reply (client_generated.go), and what Announce takes for success      *)
(* (producer.go).  A token, its claims and a reply are abstracted to the   *)
(* parts that these decisions look at.                                     *)
(***************************************************************************)

CONSTANTS
    Audience,         \* the audience maestro enforces
    OtherAudiences    \* some others, of which one may contain its name

\* What a TokenSource returns: nothing to read claims from, or claims with an
\* aud of any JSON shape.  A list may be of strings, of strings and null, which
\* decodes into []string all the same, or "mixed" with something else.
Tokens ==
    [kind : {"error", "nil", "empty", "notThreeSegments", "notBase64", "notClaims",
             "noAud", "null", "emptyString", "number", "mixed"}, audiences : {{}}]
    \cup [kind : {"string"}, audiences : {{a} : a \in {Audience} \cup OtherAudiences}]
    \cup [kind : {"list", "listWithNull"}, audiences : SUBSET ({Audience} \cup OtherAudiences)]

NoToken == [kind |-> "nil", audiences |-> {}]

\* audiencesOf returns its list, an empty one included, without an error.
HasAudiences(t) ==
    t.kind \in {"noAud", "null", "emptyString", "string", "list", "listWithNull"}

\* Faulty: a token without an aud is taken for one that is not restricted.
VerifyAudienceIfAny(t) ==
    HasAudiences(t) /\ (t.audiences = {} \/ Audience \in t.audiences)

\* VerifyAudience returns nil.
VerifyAudience(t) == HasAudiences(t) /\ Audience \in t.audiences

-----------------------------------------------------------------------------

\* The parts of an HTTP reply: its status, whether its Content-Type contains
\* json and its body decodes, and the flag in the body.
Replies == [status : {200, 401, 500}, json : BOOLEAN, decodes : BOOLEAN,
            success : {"true", "false", "absent"}]

\* No reply: the request or the reply was lost, or an editor failed.
Lost == [status |-> 0, json |-> FALSE, decodes |-> FALSE, success |-> "absent"]

\* ParseAnnounceEventHTTPResponse returns an error: a body that does not decode
\* under one of the statuses it knows.
ParseFails(m) == m.json /\ m.status \in {200, 400, 404, 500} /\ ~m.decodes

\* JSON200 is set.
HasJSON200(m) == m.json /\ m.status = 200 /\ m.decodes

\* Faulty: a 200 without a parsed body counts too.
SucceededOn200(m) == m.status = 200 /\ ~ParseFails(m)

\* Faulty: the flag is not optional, as if it were no pointer.
SucceededIfAbsent(m) ==
    ~ParseFails(m) /\ m.status = 200 /\ HasJSON200(m) /\ m.success = "absent"

\* What Announce takes for success: an absent flag too.
Succeeded(m) ==
    ~ParseFails(m) /\ m.status = 200 /\ HasJSON200(m) /\ m.success # "false"

=============================================================================
