------------------------------ MODULE GraphClient ------------------------------
(***************************************************************************)
(* Calls to Microsoft Graph: client.rs, modeled.rs and auth.rs of          *)
(* sim-site-msgraph.  A modeled call is answered from a cassette of        *)
(* recorded responses; a live one passes the gate, gets a token and goes   *)
(* through a transport that the host supplies.                             *)
(***************************************************************************)
EXTENDS DocSites

CONSTANT Blanks     \* the texts without a visible character

\* A blank is one of them.
ASSUME BlanksAssumption == " " \in Blanks

Blank(text) == text \in Blanks

\* A path by its segments; it is site-local if it is absolute and no URL.
Path(segments) == [local |-> TRUE, segments |-> segments]

\* A response: its status, and its body, or None where the bytes are no JSON.
Response(status, body) == [status |-> status, body |-> body]

\* The answer to a call: the body, or the cause of its failure.
GraphOk(body) == [ok |-> TRUE, cause |-> "none", body |-> body]
GraphError(cause) == [ok |-> FALSE, cause |-> cause, body |-> None]

\* A mode: a cassette, or a base URL and a token provider, whose token is
\* None if it cannot supply one.
Modeled(gets, posts) ==
    [modeled |-> TRUE, gets |-> gets, posts |-> posts, base |-> None, token |-> None]
Live(base, token) ==
    [modeled |-> FALSE, gets |-> <<>>, posts |-> <<>>, base |-> base, token |-> token]

\* with_json, with_status, with_post_status; a second response to the same
\* request replaces the first.
InsertGet(mode, path, response) == [mode EXCEPT !.gets = (path :> response) @@ @]
InsertPost(mode, path, body, response) ==
    [mode EXCEPT !.posts = (<<path, body>> :> response) @@ @]

Success(response) == response.status \in 200..299

\* get and post of a cassette: post responses are found by the path
\* and the body together.
CassetteAnswer(recorded, key) ==
    IF key \notin DOMAIN recorded THEN GraphError("missing")
    ELSE IF Success(recorded[key]) THEN GraphOk(recorded[key].body)
    ELSE GraphError("status")

\* require_live_gate, the token, and the base URL of graph_url, in this order;
\* "none" if the request may be sent.
LiveRefusal(mode, granted) ==
    IF ~({NetConnect, Credentials} \subseteq granted) THEN "denied"
    ELSE IF mode.token = None THEN "token"
    ELSE IF Blank(mode.base) THEN "path"
    ELSE "none"

Sends(mode, granted, path) ==
    path.local /\ ~mode.modeled /\ LiveRefusal(mode, granted) = "none"

DecodeResponse(response) ==
    IF ~Success(response) THEN GraphError("status")
    ELSE IF response.body = None THEN GraphError("decode")
    ELSE GraphOk(response.body)

\* What a live call answers to the response of the transport, None where the
\* transport failed.
LiveAnswer(mode, granted, response, decoded) ==
    IF LiveRefusal(mode, granted) # "none" THEN GraphError(LiveRefusal(mode, granted))
    ELSE IF response = None THEN GraphError("transport")
    ELSE decoded

GraphGet(mode, granted, path, response) ==
    IF ~path.local THEN GraphError("path")
    ELSE IF mode.modeled THEN CassetteAnswer(mode.gets, path)
    ELSE LiveAnswer(mode, granted, response, DecodeResponse(response))

GraphPost(mode, granted, path, body, response) ==
    IF ~path.local THEN GraphError("path")
    ELSE IF mode.modeled THEN CassetteAnswer(mode.posts, <<path, body>>)
    ELSE LiveAnswer(mode, granted, response, DecodeResponse(response))
===============================================================================
