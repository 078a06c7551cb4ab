--------------------------- MODULE RequestChecks ---------------------------
(***************************************************************************)
(* What the gateway decides about one request, as operators without state: *)
(* client address, authentication, policies, push notification URLs        *)
(* (internal/security), the protocol binding (internal/protocol), and the  *)
(* request that the gRPC interceptors make up (internal/grpc).             *)
(*                                                                         *)
(* A request is a record:                                                  *)
(*   proto    "http" or "grpc"                                             *)
(*   verb     "GET", "POST" or "DELETE"                                    *)
(*   path     [agent, rest]: /agents/{agent}/{rest}, or /{rest} where      *)
(*            agent is NoAgent                                             *)
(*   ctype    "json", "grpc", "other" or "none" (no such header)           *)
(*   body     "empty", "small", "large" (beyond 64 KB), "broken" (the      *)
(*            client fails to deliver it)                                  *)
(*   rpc      the JSON-RPC method in the body, "" if it has none           *)
(*   push     the push notification URL in the body, or NoURL              *)
(*   addr     the peer's address;  xff: the X-Forwarded-For entries        *)
(*   cred     the Authorization header: [scheme, sub, claims, signed]      *)
(*   nonce    X-Sentinel-Nonce, or the JSON-RPC id;  NoNonce if neither    *)
(*   headers  other headers policies ask for                               *)
(* Texts are what parsing makes of them: a network is the set of its       *)
(* addresses, an entry that does not parse the empty one, and the subject  *)
(* of a token is what extractSubjectFromToken or the JWT library finds.    *)
(***************************************************************************)
EXTENDS Integers, Sequences, FiniteSets

CONSTANTS
    NoAgent,      \* a path without the prefix; no default agent
    NoURL,        \* no push notification URL
    NoNonce,      \* no nonce
    Unparsable    \* an X-Forwarded-For entry that is no address

First(S) == CHOOSE i \in S : \A j \in S : i <= j
Last(S) == CHOOSE i \in S : \A j \in S : j <= i

----------------------------------------------------------------------------
(* clientip.go.  proxies is the set of networks in trusted_proxies. *)

TrustedClientIP(remote, xff, proxies) ==
    LET untrusted == {i \in DOMAIN xff :
                         xff[i] # Unparsable /\ xff[i] \notin UNION proxies}
    IN IF proxies = {} \/ untrusted = {} THEN remote ELSE xff[Last(untrusted)]

----------------------------------------------------------------------------
(* auth.go.  A user is <<prefix, subject>>, as the code joins them. *)

Nobody == <<"", "">>
Identified(prefix, sub) ==
    [ok |-> TRUE, user |-> IF sub = "" THEN Nobody ELSE <<prefix, sub>>]
Rejected == [ok |-> FALSE, user |-> Nobody]

WithoutHeader(auth) ==
    IF auth.allowUnauthenticated THEN Identified("", "") ELSE Rejected

PassthroughStrict(auth, cred) ==
    IF cred.scheme = "none" THEN WithoutHeader(auth)
    ELSE Identified("unverified:", cred.sub)

\* fetched: the key set could be had.  Without a JWKS URL only the claims count.
Terminate(auth, cred, fetched) ==
    IF cred.scheme = "none" THEN WithoutHeader(auth)
    ELSE IF /\ cred.scheme = "bearer"
            /\ cred.claims
            /\ auth.jwks => fetched /\ cred.signed
         THEN Identified("", cred.sub) ELSE Rejected

Authenticate(auth, cred, fetched) ==
    CASE auth.mode = "passthrough" -> Identified("", "")
      [] auth.mode = "terminate"   -> Terminate(auth, cred, fetched)
      [] OTHER                     -> PassthroughStrict(auth, cred)

----------------------------------------------------------------------------
(* policy_engine.go.  A policy is [priority, action, agents, methods,       *)
(* users, ips, headers, hours]; a condition that is empty always holds.     *)
(* hours is <<>> or <<start, end>>; a range that does not parse is <<>>.    *)

MatchStringList(list, value) == list = {} \/ value \in list

\* The first pattern that covers the address decides, "!" or not.
MatchIPs(patterns, ip) ==
    LET hits == {i \in DOMAIN patterns : ip \in patterns[i].net}
    IN IF hits = {} THEN \A i \in DOMAIN patterns : patterns[i].negated
       ELSE ~patterns[First(hits)].negated

MatchTimeRange(hours, now) ==
    \/ hours = <<>>
    \/ /\ hours[1] <= hours[2]
       /\ hours[1] <= now /\ now < hours[2]
    \/ /\ hours[1] > hours[2]
       /\ hours[1] <= now \/ now < hours[2]

MatchPolicy(p, q) ==
    /\ MatchStringList(p.agents, q.agent)
    /\ MatchStringList(p.methods, q.method)
    /\ MatchStringList(p.users, q.user)
    /\ MatchIPs(p.ips, q.ip)
    /\ p.headers \subseteq q.headers
    /\ MatchTimeRange(p.hours, q.now)

\* Mutant: lowest priority first.
MutSortPolicies(policies) ==
    {s \in [1 .. Cardinality(policies) -> policies] :
        /\ {s[i] : i \in DOMAIN s} = policies
        /\ \A i, j \in DOMAIN s : i < j => s[i].priority <= s[j].priority}

\* The orders sort.Slice may leave policies in: it is not stable.
SortPolicies(policies) ==
    {s \in [1 .. Cardinality(policies) -> policies] :
        /\ {s[i] : i \in DOMAIN s} = policies
        /\ \A i, j \in DOMAIN s : i < j => s[i].priority >= s[j].priority}

Evaluate(sorted, q) ==
    LET hits == {i \in DOMAIN sorted : MatchPolicy(sorted[i], q)}
    IN IF hits = {} THEN "allow" ELSE sorted[First(hits)].action

----------------------------------------------------------------------------
(* internal/protocol: the binding and the A2A method of a request *)

RESTPatterns == {
    <<"POST", "message:send", "message/send">>,
    <<"POST", "message:stream", "message/stream">>,
    <<"POST", "tasks/id:cancel", "tasks/cancel">>,
    <<"POST", "tasks/id/pushNotifications", "tasks/pushNotificationConfig/set">>,
    <<"GET", "tasks", "tasks/list">>,
    <<"GET", "tasks/id:subscribe", "tasks/subscribe">>,
    <<"GET", "tasks/id/pushNotifications", "tasks/pushNotificationConfig/get">>,
    <<"GET", "tasks/id", "tasks/get">>,
    <<"DELETE", "tasks/id/pushNotifications", "tasks/pushNotificationConfig/delete">>}

\* A path that still has its /agents/{name} prefix matches nothing.
MatchRESTPattern(r) ==
    LET hits == {t \in RESTPatterns : t[1] = r.verb /\ t[2] = r.path.rest}
    IN IF r.path.agent # NoAgent \/ hits = {} THEN ""
       ELSE (CHOOSE t \in hits : TRUE)[3]

\* InspectAndRewind hands out 64 KB at most: a longer body is cut off and no
\* longer parses.
ParseJSONRPCMethod(r) == IF r.body = "small" THEN r.rpc ELSE ""

Detect(r) ==
    IF r.verb = "GET" /\ r.path = [agent |-> NoAgent, rest |-> "agent/authenticatedExtendedCard"]
    THEN "agent/authenticatedExtendedCard"
    ELSE IF r.ctype = "grpc" THEN ""
    ELSE IF r.verb = "POST" /\ ParseJSONRPCMethod(r) # "" THEN ParseJSONRPCMethod(r)
    ELSE MatchRESTPattern(r)

Streaming(method) == method \in {"message/stream", "tasks/subscribe"}

----------------------------------------------------------------------------
(* ssrf.go.  A URL is [scheme, host, resolves]; resolves is "private" if    *)
(* the host is one of the known local names or an address of it is private, *)
(* "public", or "fails".  allowed lists the domains with their subdomains.  *)

ExtractPushURL(r) ==
    LET method == ParseJSONRPCMethod(r)
        carries == IF method # ""
                   THEN method \in {"tasks/pushNotificationConfig/set",
                                    "message/send", "message/stream"}
                   ELSE MatchRESTPattern(r) = "tasks/pushNotificationConfig/set"
    IN IF r.verb = "POST" /\ r.body = "small" /\ carries THEN r.push ELSE NoURL

ValidatePushURL(push, url) ==
    /\ url.scheme \in {"http", "https"}
    /\ push.requireHTTPS => url.scheme = "https"
    /\ url.host # ""
    /\ push.allowed = {} \/ url.host \in push.allowed
    /\ push.blockPrivate =>
          \/ url.resolves = "public"
          \/ url.resolves = "fails" /\ push.dnsFail = "allow"

----------------------------------------------------------------------------
(* interceptors.go *)

\* The middlewares see the metadata and the peer of a gRPC call, not its
\* message; grpc-go hands on the content type.
BuildSyntheticRequest(r) ==
    [r EXCEPT !.verb = "POST", !.ctype = "grpc", !.body = "empty", !.rpc = "", !.push = NoURL,
              !.path = [agent |-> NoAgent, rest |-> "grpc"]]

OK == 0
Unknown == 2
InvalidArgument == 3
NotFound == 5
AlreadyExists == 6
PermissionDenied == 7
ResourceExhausted == 8
Internal == 13
Unavailable == 14
Unauthenticated == 16

HTTPStatusToGRPCCode(status) ==
    CASE status = 400 -> InvalidArgument
      [] status = 401 -> Unauthenticated
      [] status = 403 -> PermissionDenied
      [] status = 404 -> NotFound
      [] status = 409 -> AlreadyExists
      [] status = 429 -> ResourceExhausted
      [] status \in {502, 503} -> Unavailable
      [] OTHER -> Internal
=============================================================================
