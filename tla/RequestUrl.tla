----------------------------- MODULE RequestUrl -----------------------------
(***************************************************************************)
(* What a signed request must pass before enter or candidate look at it    *)
(* (hubserv/src/types.rs; the first lines of the two handlers in           *)
(* hubserv/src/entrance_server_router.rs), and the url under which its     *)
(* session is registered.                                                  *)
(*                                                                         *)
(* Url::parse has resolved the spelling of scheme, host and path; a url    *)
(* that it accepts is a record of its parts, rest standing for all that    *)
(* normalize_url drops: white space around it, port, query and fragment.   *)
(***************************************************************************)
EXTENDS Naturals, Sequences, FiniteSets

CONSTANTS
    Hosts,      \* scheme and host
    Segments,   \* path segments that are not empty
    Rests,      \* what is dropped
    MaxPath,    \* bound: segments in a path
    MaxSlashes, \* bound: slashes at the end of a path
    MaxPassed,  \* bound: requests that are remembered
    NoHost,     \* a url without one, as data:text is
    Incorrect,  \* a url that is too long or has a line break in it
    Unparsable, \* a url that Url::parse refuses
    NoUrl       \* the empty url, which is a bad request

ASSUME UrlAssumption ==
    /\ NoHost \notin Hosts
    /\ MaxPath \in Nat /\ MaxSlashes \in Nat /\ MaxPassed \in Nat

Paths == UNION {[1 .. n -> Segments] : n \in 0 .. MaxPath}

Urls == [host : Hosts \cup {NoHost}, path : Paths, slashes : 0 .. MaxSlashes, rest : Rests]

\* What the payload names as its url
Given == {Incorrect, Unparsable} \cup Urls

\* A path is never without a slash after parsing: "https://host" has path "/".
ParsedSlashes(u) == IF u.path = <<>> /\ u.slashes = 0 THEN 1 ELSE u.slashes

SlashesLeftAll(slashes) == slashes  \* mutant: the slash stays
SlashesLeft(slashes) == IF slashes = 0 THEN 0 ELSE slashes - 1

\* normalize_url: one slash is popped.
NormalizeUrl(u) ==
    IF u = Unparsable THEN NoUrl
    ELSE IF u.host = NoHost THEN NoUrl
    ELSE [host |-> u.host, path |-> u.path, slashes |-> SlashesLeft(ParsedSlashes(u))]

\* EnterRequestPayload::normalize and CandidateRequestPayload::normalize, each
\* with a text of its own; the raw url goes to the access log.
NormalizeEnter(u) == IF u = Incorrect THEN NoUrl ELSE NormalizeUrl(u)
NormalizeCandidate(u) == IF u = Incorrect THEN NoUrl ELSE NormalizeUrl(u)

VARIABLES
    passed,  \* requests that their handler goes on with: what they gave, and
             \* the url that is redirected by and that a session enters
    answer   \* how the last request was answered

urlVars == <<passed, answer>>

UrlInit == passed = {} /\ answer = "none"

\* SignedRequest::verify fails: the session id or the payload does not parse,
\* or the signature over the payload is not the session's.
RefuseUnsigned ==
    /\ answer' = "INTERNAL_SERVER_ERROR"
    /\ UNCHANGED passed

\* A signed request; hasBody: its sdp or its candidate is not empty.
TakeSigned(handler, u, normalized, hasBody, badRequest) ==
    \/ /\ normalized = NoUrl \/ ~hasBody
       /\ answer' = badRequest
       /\ UNCHANGED passed
    \/ /\ normalized # NoUrl /\ hasBody
       /\ Cardinality(passed) < MaxPassed
       /\ passed' = passed \cup {[handler |-> handler, given |-> u, url |-> normalized]}
       /\ answer' = "passed"

Enter(u, hasBody) ==
    TakeSigned("enter", u, NormalizeEnter(u), hasBody, "BAD_REQUEST")
Candidate(u, hasBody) ==
    TakeSigned("candidate", u, NormalizeCandidate(u), hasBody, "UNPROCESSABLE_ENTITY")

UrlNext ==
    \/ RefuseUnsigned
    \/ \E u \in Given, hasBody \in BOOLEAN : Enter(u, hasBody) \/ Candidate(u, hasBody)

UrlSpec == UrlInit /\ [][UrlNext]_urlVars

-----------------------------------------------------------------------------
(* Properties                                                              *)

\* Spellings of a page: same host and path, with or without the last slash
SamePage(u, v) ==
    /\ u.host = v.host /\ u.path = v.path
    /\ u.slashes = v.slashes \/ {u.slashes, v.slashes} \subseteq {0, 1}

\* The sessions of a page meet: all its spellings, in enter and in candidate
\* alike, come to one url, and so to one node of the cluster and one list of
\* clients; and pages with another host or path never share it, for all that
\* is dropped.
SpellingsMeet ==
    \A p, q \in passed : p.url = q.url <=> SamePage(p.given, q.given)
=============================================================================
