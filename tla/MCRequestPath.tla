--------------------------- MODULE MCRequestPath ---------------------------
(* Two requests, two agents, a reverse proxy in front of the gateway.      *)
EXTENDS RequestPath, TLC

CONSTANTS r1, r2, a1, a2, client, proxy, n1, n2

MCRequests == {r1, r2}
MCAgents == {a1, a2}
Symmetry == Permutations(MCRequests)

None == [scheme |-> "none", sub |-> "", claims |-> FALSE, signed |-> FALSE]
Alice == [scheme |-> "bearer", sub |-> "alice", claims |-> TRUE, signed |-> TRUE]
Forged == [Alice EXCEPT !.signed = FALSE]
Inside == [scheme |-> "https", host |-> "agent", resolves |-> "private"]

\* A JSON-RPC post to an agent.
Send == [proto |-> "http", verb |-> "POST", path |-> [agent |-> a1, rest |-> ""],
         ctype |-> "json", body |-> "small", rpc |-> "message/send", push |-> NoURL,
         addr |-> client, xff |-> <<>>, cred |-> Alice, nonce |-> n1, headers |-> {}]
Stream == [Send EXCEPT !.path.agent = a2, !.rpc = "message/stream", !.nonce = n2,
                       !.cred = Forged, !.addr = proxy, !.xff = <<Unparsable, client, proxy>>]
Push == [Send EXCEPT !.path = [agent |-> NoAgent, rest |-> "tasks/id/pushNotifications"],
                     !.rpc = "", !.push = Inside, !.ctype = "none", !.cred = None, !.addr = proxy]
Broken == [Send EXCEPT !.body = "broken", !.nonce = NoNonce, !.headers = {"audit"}]
Card == [Send EXCEPT !.verb = "GET", !.path = CardPath, !.ctype = "other", !.body = "empty",
                     !.rpc = "", !.cred = None, !.nonce = NoNonce]
Readiness == [Card EXCEPT !.path.rest = "readyz"]
Liveness == [Card EXCEPT !.path.rest = "live"]
Metrics == [Card EXCEPT !.path.rest = "metrics"]
Call == [Send EXCEPT !.proto = "grpc"]
CallStream == [Call EXCEPT !.rpc = "message/stream"]

MCShapes == {Send, Stream, Push, Broken, Card, Readiness, Liveness, Metrics, Call, CallStream}

\* The burst of a limiter is 0 where the limiter is left out.
Strict ==
    [global |-> 2, ip |-> 2, user |-> 1, guarded |-> TRUE, trusted |-> {},
     auth |-> [mode |-> "terminate", allowUnauthenticated |-> TRUE, jwks |-> TRUE],
     replay |-> [enabled |-> TRUE, policy |-> "require"],
     push |-> [requireHTTPS |-> TRUE, allowed |-> {}, blockPrivate |-> TRUE, dnsFail |-> "block"],
     mode |-> "path-prefix", default |-> a1, readiness |-> "default_healthy",
     livenessPath |-> "healthz", readinessPath |-> "readyz"]
Lenient ==
    [Strict EXCEPT !.ip = 1, !.user = 0, !.guarded = FALSE, !.trusted = {{proxy}},
                   !.auth.mode = "passthrough-strict", !.replay.policy = "warn",
                   !.push.blockPrivate = FALSE, !.default = NoAgent, !.readiness = "any_healthy"]
Single ==
    [Strict EXCEPT !.global = 1, !.ip = 0, !.user = 0, !.guarded = FALSE,
                   !.auth.mode = "passthrough", !.replay.enabled = FALSE, !.mode = "single", !.default = NoAgent,
                   !.readiness = "all_healthy", !.livenessPath = "live"]
MCConfigs == {Strict, Lenient, Single}

Policy == [priority |-> 10, action |-> "deny", agents |-> {}, methods |-> {}, users |-> {},
           ips |-> <<>>, headers |-> {}, hours |-> <<>>]
NoSending == [Policy EXCEPT !.methods = {"message/send"}]
ByNight == [Policy EXCEPT !.hours = <<22, 6>>]
FromProxy == [Policy EXCEPT !.priority = 20, !.action = "allow",
                            !.ips = <<[net |-> {proxy}, negated |-> FALSE]>>]
NoAlice == [Policy EXCEPT !.users = {<<"", "alice">>},
                          !.ips = <<[net |-> {proxy}, negated |-> TRUE]>>]
Audited == [Policy EXCEPT !.action = "allow", !.headers = {"audit"}]
MCPolicySets == {{FromProxy, ByNight}, {NoAlice, Audited}}
MCMethodPolicies == {{NoSending}}
MCHours == {3, 12}
=============================================================================
