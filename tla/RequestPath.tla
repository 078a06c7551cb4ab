---------------------------- MODULE RequestPath ----------------------------
(***************************************************************************)
(* The way of a request through the gateway: the security pipeline, the    *)
(* router, and the forwarding, for HTTP (internal/server/server.go) and    *)
(* for gRPC (internal/grpc), which runs a pipeline of its own on a request *)
(* made up from the call's metadata.  Requests run beside each other,      *)
(* beside the pollers that find agents healthy or not, and beside          *)
(* PolicyEngine.UpdatePolicies.                                            *)
(*                                                                         *)
(* Every middleware is a step; the policy guard and the nonce store, which *)
(* read shared state and act on it later, are two, and so is a route that  *)
(* falls back to the default agent.  What the middlewares keep over time   *)
(* is in modules of its own: token buckets that refill and are swept in    *)
(* RateLimiter, nonces that expire and timestamps in ReplayDetector,       *)
(* stream slots in StreamManager.  Here no bucket refills, no nonce        *)
(* expires and no request carries a timestamp: requests come close         *)
(* together.                                                               *)
(***************************************************************************)
EXTENDS RequestChecks

CONSTANTS
    Requests,      \* handler goroutines
    Shapes,        \* the requests that may come
    Configs,       \* the configurations the gateway may run with
    Agents,        \* configured agents
    PolicySets,    \* policies given to NewPolicyEngine and UpdatePolicies
    Hours,         \* readings of the clock at the policy guard
    MaxChanges,    \* bound: changes of health
    MaxUpdates     \* bound: calls of UpdatePolicies

Protocols == {"http", "grpc"}

\* What a request is made of (RequestChecks).
Fields == {"proto", "verb", "path", "ctype", "body", "rpc", "push", "addr", "xff", "cred",
           "nonce", "headers"}

ASSUME RequestsAssumption == IsFiniteSet(Requests)
ASSUME ShapesAssumption ==
    \A s \in Shapes :
       /\ DOMAIN s = Fields /\ s.proto \in Protocols
       /\ s.xff \in Seq({s.xff[i] : i \in DOMAIN s.xff})
       /\ "sub" \in DOMAIN s.cred
ASSUME ConfigsAssumption == \A c \in Configs : {c.global, c.ip, c.user} \subseteq Nat
ASSUME AgentsAssumption == NoAgent \notin Agents
ASSUME BoundsAssumption == MaxChanges \in Nat /\ MaxUpdates \in Nat
ASSUME PoliciesAssumption ==
    \A P \in PolicySets : IsFiniteSet(P) /\ \A p \in P : p.priority \in Int

Users == {Nobody} \cup ({"", "unverified:"} \X {s.cred.sub : s \in Shapes})
Addresses == {s.addr : s \in Shapes}
               \cup ((UNION {{s.xff[i] : i \in DOMAIN s.xff} : s \in Shapes}) \ {Unparsable})
Policies == UNION PolicySets

VARIABLES
    cfg,          \* the configuration
    healthy,      \* agents the card manager holds for healthy
    changes,      \* bounded: how often that changed
    installed,    \* the policies the engine was last given
    policies,     \* PolicyEngine.policies: the same in evaluation order
    updates,      \* bounded: calls of UpdatePolicies
    global,       \* global[p]: tokens of the global limiter in p's pipeline
    perIP,        \* perIP[p]: tokens by client address
    perUser,      \* perUser[p]: tokens by user
    nonces,       \* nonces[p]: nonces stored by p's replay detector
    req,          \* req[r]: how far request r is, and what is known of it
    during        \* history: during[r]: policies installed while r's guard
                  \* judged, agents found up or down while r was routed

health == <<healthy, changes>>
engine == <<installed, policies, updates>>
buckets == <<global, perIP, perUser>>
vars == <<cfg, health, engine, buckets, nonces, req, during>>

----------------------------------------------------------------------------
(* The pipeline *)

Optional(condition, middleware) == IF condition THEN <<middleware>> ELSE <<>>

\* Mutants: the user's bucket is asked, or the nonce checked, before authentication.
MutUserFirst ==
    Optional(cfg.global > 0, "global") \o Optional(cfg.ip > 0, "ip")
    \o Optional(cfg.user > 0, "user") \o <<"auth">> \o Optional(cfg.guarded, "policy")
    \o <<"jws", "replay", "ssrf">>
MutReplayFirst ==
    Optional(cfg.global > 0, "global") \o Optional(cfg.ip > 0, "ip") \o <<"replay", "auth">>
    \o Optional(cfg.user > 0, "user") \o Optional(cfg.guarded, "policy") \o <<"jws", "ssrf">>

BuildPipeline ==
    Optional(cfg.global > 0, "global") \o Optional(cfg.ip > 0, "ip") \o <<"auth">>
    \o Optional(cfg.user > 0, "user") \o Optional(cfg.guarded, "policy")
    \o <<"jws", "replay", "ssrf">>

Bypasses(s) ==
    /\ s.proto = "http" /\ s.path.agent = NoAgent
    /\ s.path.rest \in {cfg.livenessPath, cfg.readinessPath, "metrics"}

NotYet == -1
NoQuery(s) ==
    [agent |-> NoAgent, method |-> "", user |-> Nobody, ip |-> s.addr, headers |-> {}, now |-> 0]

\* pc: "mux", "pipeline", "evaluate" (policies read), "store" (nonce not
\* found), "handler", "route", "default" (the named agent is not to be had),
\* "forward", "reply" (the backend's result is in), "done".
\* passed counts the middlewares behind the request; order is the policy
\* slice Evaluate reads.
Arriving(s) ==
    [shape |-> s, pc |-> IF Bypasses(s) THEN "mux" ELSE "pipeline", passed |-> 0,
     user |-> Nobody, query |-> NoQuery(s), order |-> <<>>, method |-> "", target |-> NoAgent, path |-> s.path, answer |-> NotYet]

Proto(r) == req[r].shape.proto

\* What the middlewares see of a request.
View(r) == IF Proto(r) = "grpc" THEN BuildSyntheticRequest(req[r].shape) ELSE req[r].shape

At(r, m) == req[r].pc = "pipeline" /\ BuildPipeline[req[r].passed + 1] = m

\* Mutant: the last middleware is left out.
MutOnward(q) ==
    [q EXCEPT !.passed = @ + 1,
              !.pc = IF q.passed + 2 >= Len(BuildPipeline) THEN "handler" ELSE "pipeline"]

\* next.ServeHTTP
Onward(q) ==
    [q EXCEPT !.passed = @ + 1,
              !.pc = IF q.passed + 1 = Len(BuildPipeline) THEN "handler" ELSE "pipeline"]
Answered(q, code) == [q EXCEPT !.pc = "done", !.answer = code]

Becomes(r, q) == req' = [req EXCEPT ![r] = q]
PassOn(r) == Becomes(r, Onward(req[r]))
Answer(r, code) == Becomes(r, Answered(req[r], code))

\* A refusal as the client sees it: the status, or the gRPC code for it.
Code(r, status) == IF Proto(r) = "grpc" THEN HTTPStatusToGRPCCode(status) ELSE status
Refuse(r, status) == Answer(r, Code(r, status))

NoHistory == [policies |-> {}, up |-> {}, down |-> {}]

Init ==
    /\ cfg \in Configs
    /\ healthy \in SUBSET Agents
    /\ changes = 0
    /\ installed \in IF cfg.guarded THEN PolicySets ELSE {{}}
    /\ policies \in SortPolicies(installed)
    /\ updates = 0
    /\ global = [p \in Protocols |-> cfg.global]
    /\ perIP = [p \in Protocols |-> [a \in Addresses |-> cfg.ip]]
    /\ perUser = [p \in Protocols |-> [u \in Users |-> cfg.user]]
    /\ nonces = [p \in Protocols |-> {}]
    /\ req \in {[r \in Requests |-> Arriving(f[r])] : f \in [Requests -> Shapes]}
    /\ during = [r \in Requests |-> NoHistory]

\* A poll finds an agent healthy, or not.
HealthChanges(a) ==
    /\ changes < MaxChanges
    /\ changes' = changes + 1
    /\ healthy' = IF a \in healthy THEN healthy \ {a} ELSE healthy \cup {a}
    /\ during' = [r \in Requests |->
                     IF req[r].pc = "default"
                     THEN [during[r] EXCEPT !.up = @ \cup healthy',
                                            !.down = @ \cup (Agents \ healthy')]
                     ELSE during[r]]
    /\ UNCHANGED <<cfg, engine, buckets, nonces, req>>

UpdatePolicies ==
    /\ cfg.guarded
    /\ updates < MaxUpdates
    /\ updates' = updates + 1
    /\ installed' \in PolicySets
    /\ policies' \in SortPolicies(installed')
    /\ during' = [r \in Requests |->
                     IF req[r].pc = "evaluate"
                     THEN [during[r] EXCEPT !.policies = @ \cup {installed'}]
                     ELSE during[r]]
    /\ UNCHANGED <<cfg, health, buckets, nonces, req>>

----------------------------------------------------------------------------
(* The mux serves health and metrics outside the pipeline, at the paths    *)
(* configured; the health handler knows two of them only.                  *)

Ready ==
    CASE cfg.readiness = "default_healthy" -> cfg.default \in healthy
      [] cfg.readiness = "all_healthy"     -> healthy = Agents /\ Agents # {}
      [] OTHER                             -> healthy # {}

Bypass(r) ==
    /\ req[r].pc = "mux"
    /\ LET rest == req[r].path.rest
       IN \/ rest \in {"healthz", "metrics"} /\ Answer(r, 200)
          \/ rest = "readyz" /\ Answer(r, IF Ready THEN 200 ELSE 503)
          \/ rest \notin {"healthz", "metrics", "readyz"} /\ Answer(r, 404)
    /\ UNCHANGED <<cfg, health, engine, buckets, nonces, during>>

----------------------------------------------------------------------------
(* The middlewares *)

GlobalLimit(r) ==
    /\ At(r, "global")
    /\ \/ /\ global[Proto(r)] > 0
          /\ global' = [global EXCEPT ![Proto(r)] = @ - 1]
          /\ PassOn(r)
       \/ /\ global[Proto(r)] = 0
          /\ Refuse(r, 503)
          /\ UNCHANGED global
    /\ UNCHANGED <<cfg, health, engine, perIP, perUser, nonces, during>>

ClientIP(r) == TrustedClientIP(View(r).addr, View(r).xff, cfg.trusted)

\* Mutant: the bucket is that of the connection's peer.
MutIPLimit(r) ==
    /\ At(r, "ip")
    /\ IF perIP[Proto(r)][View(r).addr] > 0
       THEN /\ perIP' = [perIP EXCEPT ![Proto(r)][View(r).addr] = @ - 1]
            /\ PassOn(r)
       ELSE Refuse(r, 429) /\ UNCHANGED perIP
    /\ UNCHANGED <<cfg, health, engine, global, perUser, nonces, during>>

IPLimit(r) ==
    /\ At(r, "ip")
    /\ \/ /\ perIP[Proto(r)][ClientIP(r)] > 0
          /\ perIP' = [perIP EXCEPT ![Proto(r)][ClientIP(r)] = @ - 1]
          /\ PassOn(r)
       \/ /\ perIP[Proto(r)][ClientIP(r)] = 0
          /\ Refuse(r, 429)
          /\ UNCHANGED perIP
    /\ UNCHANGED <<cfg, health, engine, global, perUser, nonces, during>>

\* The key set is fetched for every request; the fetch may fail.
Auth(r) ==
    /\ At(r, "auth")
    /\ \E fetched \in BOOLEAN :
          LET info == Authenticate(cfg.auth, View(r).cred, fetched)
          IN IF info.ok THEN Becomes(r, Onward([req[r] EXCEPT !.user = info.user]))
             ELSE Refuse(r, 401)
    /\ UNCHANGED <<cfg, health, engine, buckets, nonces, during>>

UserLimit(r) ==
    /\ At(r, "user")
    /\ \/ /\ req[r].user = Nobody
          /\ PassOn(r)
          /\ UNCHANGED perUser
       \/ /\ req[r].user # Nobody
          /\ perUser[Proto(r)][req[r].user] > 0
          /\ perUser' = [perUser EXCEPT ![Proto(r)][req[r].user] = @ - 1]
          /\ PassOn(r)
       \/ /\ req[r].user # Nobody
          /\ perUser[Proto(r)][req[r].user] = 0
          /\ Refuse(r, 429)
          /\ UNCHANGED perUser
    /\ UNCHANGED <<cfg, health, engine, global, perIP, nonces, during>>

\* The agent is known once the request is routed, the method once detected.
BuildPolicyRequest(r, now) ==
    [agent |-> IF req[r].target # NoAgent THEN req[r].target ELSE View(r).path,
     method |-> req[r].method, user |-> req[r].user, ip |-> View(r).addr,
     headers |-> View(r).headers, now |-> now]

ReadPolicies(r) ==
    /\ At(r, "policy")
    /\ \E now \in Hours :
          Becomes(r, [req[r] EXCEPT !.pc = "evaluate", !.order = policies,
                                    !.query = BuildPolicyRequest(r, now)])
    /\ during' = [during EXCEPT ![r].policies = {installed}]
    /\ UNCHANGED <<cfg, health, engine, buckets, nonces>>

Judge(r) ==
    /\ req[r].pc = "evaluate"
    /\ LET judged == [req[r] EXCEPT !.order = <<>>, !.query = NoQuery(req[r].shape)]
       IN IF Evaluate(req[r].order, req[r].query) = "deny"
          THEN Becomes(r, Answered(judged, Code(r, 403)))
          ELSE Becomes(r, Onward(judged))
    /\ during' = [during EXCEPT ![r] = NoHistory]
    /\ UNCHANGED <<cfg, health, engine, buckets, nonces>>

\* Signatures of cards are checked when they are polled.
VerifyJWS(r) ==
    /\ At(r, "jws")
    /\ PassOn(r)
    /\ UNCHANGED <<cfg, health, engine, buckets, nonces, during>>

\* Replay detection reads JSON posts only, and those that do not say what they
\* are; a body that fails has no id.
Guarded(r) ==
    cfg.replay.enabled /\ View(r).verb = "POST" /\ View(r).ctype \in {"json", "none"}
PassOnWarning(r) == cfg.replay.policy # "require" /\ PassOn(r)

CheckNonce(r) ==
    /\ At(r, "replay")
    /\ \/ ~Guarded(r) /\ PassOn(r)
       \/ /\ Guarded(r) /\ View(r).nonce = NoNonce
          /\ \/ PassOnWarning(r)
             \/ cfg.replay.policy = "require" /\ Refuse(r, 400)
       \/ /\ Guarded(r) /\ View(r).nonce \in nonces[Proto(r)]
          /\ \/ PassOnWarning(r)
             \/ cfg.replay.policy = "require" /\ Refuse(r, 429)
       \/ /\ Guarded(r) /\ View(r).nonce \notin nonces[Proto(r)] \cup {NoNonce}
          /\ Becomes(r, [req[r] EXCEPT !.pc = "store"])
    /\ UNCHANGED <<cfg, health, engine, buckets, nonces, during>>

\* The nonce may have been stored since it was looked for.
StoreNonce(r) ==
    /\ req[r].pc = "store"
    /\ nonces' = [nonces EXCEPT ![Proto(r)] = @ \cup {View(r).nonce}]
    /\ PassOn(r)
    /\ UNCHANGED <<cfg, health, engine, buckets, during>>

CheckPushURL(r) ==
    /\ At(r, "ssrf")
    /\ LET url == ExtractPushURL(View(r))
       IN IF url = NoURL \/ ValidatePushURL(cfg.push, url) THEN PassOn(r) ELSE Refuse(r, 403)
    /\ UNCHANGED <<cfg, health, engine, buckets, nonces, during>>

----------------------------------------------------------------------------
(* The handler behind the pipeline *)

CardPath == [agent |-> NoAgent, rest |-> ".well-known/agent.json"]

ServeCard(r) ==
    /\ req[r].pc = "handler" /\ Proto(r) = "http"
    /\ req[r].shape.verb = "GET" /\ req[r].path = CardPath
    /\ Answer(r, 200)
    /\ UNCHANGED <<cfg, health, engine, buckets, nonces, during>>

\* The body is read where the method may stand in it.
DetectMethod(r) ==
    /\ req[r].pc = "handler" /\ Proto(r) = "http"
    /\ ~(req[r].shape.verb = "GET" /\ req[r].path = CardPath)
    /\ IF req[r].shape.verb = "POST" /\ req[r].shape.ctype # "grpc" /\ req[r].shape.body = "broken"
       THEN Answer(r, 400)
       ELSE Becomes(r, [req[r] EXCEPT !.pc = "route", !.method = Detect(req[r].shape)])
    /\ UNCHANGED <<cfg, health, engine, buckets, nonces, during>>

\* A gRPC call becomes a JSON-RPC post to the path "/", unless it cannot be
\* translated, or not encoded.
TranslateCall(r) ==
    /\ req[r].pc = "handler" /\ Proto(r) = "grpc"
    /\ \/ \E code \in {InvalidArgument, Internal} : Answer(r, code)
       \/ Becomes(r, [req[r] EXCEPT !.pc = "route", !.method = req[r].shape.rpc,
                                    !.path = [agent |-> NoAgent, rest |-> ""]])
    /\ UNCHANGED <<cfg, health, engine, buckets, nonces, during>>

----------------------------------------------------------------------------
(* The router.  Health is read once for every agent that is considered. *)

To(r, a, p) == Becomes(r, [req[r] EXCEPT !.pc = "forward", !.target = a, !.path = p])

\* HealthyAgents ranges over a map: any of them may come first.
RouteSingle(r) ==
    /\ req[r].pc = "route" /\ cfg.mode = "single"
    /\ \/ \E a \in healthy : To(r, a, req[r].path)
       \/ healthy = {} /\ Refuse(r, 503)
    /\ UNCHANGED <<cfg, health, engine, buckets, nonces, during>>

\* Mutant: an agent that is configured is taken, healthy or not.
MutRouteConfigured(r) ==
    /\ req[r].pc = "route" /\ cfg.mode = "path-prefix"
    /\ LET a == req[r].path.agent
       IN IF a \in Agents
          THEN /\ To(r, a, [req[r].path EXCEPT !.agent = NoAgent])
               /\ UNCHANGED during
          ELSE /\ Becomes(r, [req[r] EXCEPT !.pc = "default"])
               /\ during' = [during EXCEPT ![r].up = healthy, ![r].down = Agents \ healthy]
    /\ UNCHANGED <<cfg, health, engine, buckets, nonces>>

RoutePathPrefix(r) ==
    /\ req[r].pc = "route" /\ cfg.mode = "path-prefix"
    /\ LET a == req[r].path.agent
       IN IF a \in Agents /\ a \in healthy
          THEN /\ To(r, a, [req[r].path EXCEPT !.agent = NoAgent])
               /\ UNCHANGED during
          ELSE /\ Becomes(r, [req[r] EXCEPT !.pc = "default"])
               /\ during' = [during EXCEPT ![r].up = healthy, ![r].down = Agents \ healthy]
    /\ UNCHANGED <<cfg, health, engine, buckets, nonces>>

RouteDefault(r) ==
    /\ req[r].pc = "default"
    /\ \/ cfg.default = NoAgent /\ Refuse(r, 404)
       \/ cfg.default \in healthy /\ To(r, cfg.default, req[r].path)
       \/ cfg.default \in Agents \ healthy /\ Refuse(r, 503)
    /\ during' = [during EXCEPT ![r] = NoHistory]
    /\ UNCHANGED <<cfg, health, engine, buckets, nonces>>

----------------------------------------------------------------------------
(* Forwarding.  What the backend answers is its own business: 200 stands   *)
(* for whatever status it sends.                                           *)

Forward(r) ==
    /\ req[r].pc = "forward" /\ Proto(r) = "http" /\ ~Streaming(req[r].method)
    /\ \E status \in {200, 503} : Answer(r, status)
    /\ UNCHANGED <<cfg, health, engine, buckets, nonces, during>>

\* No slot for the agent, no backend, or the stream.
ProxyStream(r) ==
    /\ req[r].pc = "forward" /\ Proto(r) = "http" /\ Streaming(req[r].method)
    /\ \E status \in {429, 503, 200} : Answer(r, status)
    /\ UNCHANGED <<cfg, health, engine, buckets, nonces, during>>

\* The backend is not reached, fails or answers with an error, or has a result.
ForwardUnary(r) ==
    /\ req[r].pc = "forward" /\ Proto(r) = "grpc" /\ ~Streaming(req[r].method)
    /\ \/ \E code \in {Unavailable, Internal} : Answer(r, code)
       \/ Becomes(r, [req[r] EXCEPT !.pc = "reply"])
    /\ UNCHANGED <<cfg, health, engine, buckets, nonces, during>>

\* The result is the task or configuration the call asks for, or no such thing.
AnswerCall(r) ==
    /\ req[r].pc = "reply"
    /\ \E code \in {OK, Internal} : Answer(r, code)
    /\ UNCHANGED <<cfg, health, engine, buckets, nonces, during>>

\* No slot is taken for a gRPC stream.  That an event cannot be sent has no
\* code of its own.
StreamMessage(r) ==
    /\ req[r].pc = "forward" /\ Proto(r) = "grpc" /\ Streaming(req[r].method)
    /\ \E code \in {Unavailable, Internal, Unknown, OK} : Answer(r, code)
    /\ UNCHANGED <<cfg, health, engine, buckets, nonces, during>>

----------------------------------------------------------------------------

\* All requests are answered.
Finished == (\A r \in Requests : req[r].pc = "done") /\ UNCHANGED vars

Next ==
    \/ \E a \in Agents : HealthChanges(a)
    \/ UpdatePolicies
    \/ \E r \in Requests :
          \/ Bypass(r) \/ GlobalLimit(r) \/ IPLimit(r) \/ Auth(r) \/ UserLimit(r)
          \/ ReadPolicies(r) \/ Judge(r) \/ VerifyJWS(r)
          \/ CheckNonce(r) \/ StoreNonce(r) \/ CheckPushURL(r)
          \/ ServeCard(r) \/ DetectMethod(r) \/ TranslateCall(r)
          \/ RouteSingle(r) \/ RoutePathPrefix(r) \/ RouteDefault(r)
          \/ Forward(r) \/ ProxyStream(r)
          \/ ForwardUnary(r) \/ AnswerCall(r) \/ StreamMessage(r)
    \/ Finished

Spec == Init /\ [][Next]_vars

----------------------------------------------------------------------------
(* Properties *)

Stages == {"mux", "pipeline", "evaluate", "store", "handler", "route", "default",
           "forward", "reply", "done"}
Codes == {NotYet, 200, 400, 401, 403, 404, 429, 503, OK, Unknown, InvalidArgument, NotFound,
          PermissionDenied, ResourceExhausted, Internal, Unavailable, Unauthenticated}

\* What the state holds: a request is answered exactly when it is done, has a
\* target exactly when the router found one, and no bucket is overdrawn.
TypeOK ==
    /\ healthy \subseteq Agents
    /\ changes \in 0 .. MaxChanges /\ updates \in 0 .. MaxUpdates
    /\ installed \in PolicySets \cup {{}} /\ policies \in SortPolicies(installed)
    /\ global \in [Protocols -> Nat]
    /\ perIP \in [Protocols -> [Addresses -> Nat]]
    /\ perUser \in [Protocols -> [Users -> Nat]]
    /\ \A r \in Requests :
          /\ req[r].shape \in Shapes /\ req[r].pc \in Stages /\ req[r].user \in Users
          /\ req[r].passed \in 0 .. Len(BuildPipeline) /\ req[r].answer \in Codes
          /\ (req[r].pc = "done") <=> (req[r].answer # NotYet)
          /\ req[r].pc \in {"forward", "reply"} => req[r].target \in Agents
          /\ req[r].pc \in {"handler", "route", "default", "forward", "reply"}
                => req[r].passed = Len(BuildPipeline)

Handled(p) == {r \in Requests : Proto(r) = p /\ req[r].passed = Len(BuildPipeline)}

\* Requests close together: whatever the order in which they pass the
\* limiters, no more of them reach a handler than the global burst, the burst
\* of their address and the burst of the user they turn out to be allow,
\* in each protocol's pipeline.
BudgetHeld ==
    \A p \in Protocols :
       /\ cfg.global > 0 => Cardinality(Handled(p)) <= cfg.global
       /\ cfg.ip > 0 => \A a \in Addresses :
             Cardinality({r \in Handled(p) : ClientIP(r) = a}) <= cfg.ip
       /\ cfg.user > 0 => \A u \in Users \ {Nobody} :
             Cardinality({r \in Handled(p) : req[r].user = u}) <= cfg.user

Passed(r, m) == \E i \in 1 .. req[r].passed : BuildPipeline[i] = m

\* A nonce is remembered only for a request that authentication, the limiters
\* and the policies let through: a request they refuse may come again.
NonceOfAdmitted ==
    \A p \in Protocols : \A n \in nonces[p] :
       \E r \in Requests :
          /\ Proto(r) = p /\ View(r).nonce = n
          /\ \A m \in {"global", "ip", "auth", "user", "policy"} :
                (\E i \in DOMAIN BuildPipeline : BuildPipeline[i] = m) => Passed(r, m)

\* Behind the pipeline every check still stands: the request is the user that
\* authentication found it to be, its nonce is stored where one is required,
\* and a push notification URL the gateway can see is one it allows.
HandledIsChecked ==
    \A r \in Requests :
       req[r].pc \in {"handler", "route", "default", "forward", "reply"} =>
          /\ \E fetched \in BOOLEAN :
                LET info == Authenticate(cfg.auth, View(r).cred, fetched)
                IN info.ok /\ info.user = req[r].user
          /\ Guarded(r) /\ cfg.replay.policy = "require"
                => View(r).nonce \in nonces[Proto(r)] \ {NoNonce}
          /\ LET url == ExtractPushURL(View(r))
             IN url = NoURL \/ ValidatePushURL(cfg.push, url)

\* P may decide so: a policy of the highest priority among those that match
\* says it, or none matches and the request is let through.
MayDecide(P, q, denied) ==
    LET hits == {p \in P : MatchPolicy(p, q)}
        top  == {p \in hits : \A o \in hits : o.priority <= p.priority}
    IN \/ hits = {} /\ ~denied
       \/ \E p \in top : (p.action = "deny") <=> denied

\* The guard's answer is that of a set of policies that was installed as a
\* whole at some moment while the guard judged, the highest number first, as
\* the code has it (policy.go:15, policy_engine.go:102-107) and the documents
\* do not (README, section 5).
JudgedByOneSet ==
    [][\A r \in Requests :
          req[r].pc = "evaluate" /\ req'[r].pc # "evaluate" =>
             \E P \in during[r].policies :
                MayDecide(P, req[r].query, req'[r].pc = "done")]_vars

\* Agents found healthy, or not, at some moment while r is routed.
Up(r) == during[r].up \cup healthy
Down(r) == during[r].down \cup (Agents \ healthy)
Routing(r) == req[r].pc \in {"route", "default"}

\* A request goes to an agent that was up while it was routed; past the agent
\* it names only if that one was down, and then with its path untouched; and
\* it is refused only if every agent it might have gone to was down.
RoutedWhereHealthy ==
    [][\A r \in Requests :
          Routing(r) /\ req'[r].pc \notin {"route", "default"} =>
             LET t == req'[r].target
                 named == req[r].path.agent
             IN /\ cfg.mode = "path-prefix" /\ named \in Agents /\ t # named
                      => named \in Down(r) /\ req'[r].path = req[r].path
                /\ t # NoAgent => t \in Up(r)
                /\ t = NoAgent =>
                      IF cfg.mode = "single" THEN Agents \subseteq Down(r)
                      ELSE cfg.default \in Down(r) \cup {NoAgent}]_vars

\* The pipeline is an admission (module Admission): whatever happens between
\* the first bucket and the last check, it is as if a request were let in, with
\* all its budgets charged, in the step that takes it to its handler.
Gate == INSTANCE Admission WITH
            Sources <- [proto : Protocols, ip : Addresses],
            Answers <- Codes \ {NotYet},
            Refusals <- Codes \ {NotYet, 200, OK},
            burst <- [global |-> cfg.global, ip |-> cfg.ip, user |-> cfg.user],
            from <- [r \in Requests |-> [proto |-> Proto(r), ip |-> ClientIP(r)]],
            aside <- {r \in Requests : Bypasses(req[r].shape)},
            admitted <- Handled("http") \cup Handled("grpc"),
            user <- [r \in Requests |->
                        IF req[r].passed = Len(BuildPipeline) THEN req[r].user ELSE Nobody],
            answer <- [r \in Requests |-> req[r].answer]

AdmissionSpec == Gate!Spec

\* A request that a policy on its agent or its method denies is not forwarded
\* (policy.go:22-23: a policy's agents and methods are matched against the
\* request).  For policies that stay as they are.
DeniedNotServed ==
    \A r \in Requests : \A now \in Hours :
       cfg.guarded /\ req[r].pc = "forward" =>
          Evaluate(policies, BuildPolicyRequest(r, now)) # "deny"
=============================================================================
