--------------------------- MODULE MCMcpSessions ---------------------------
(* Two handlers, one agent, two sessions, a foreign id, and a restart.     *)
EXTENDS McpSessions, TLC

CONSTANTS h1, h2, a, s1, s2

MCHandlers == {h1, h2}
MCSids == {s1, s2}
Symmetry == Permutations(MCHandlers) \cup Permutations(MCSids)

List == [verb |-> "POST", auth |-> "none", decodes |-> TRUE, id |-> TRUE,
         method |-> "tools/list", what |-> "", params |-> "ok", agent |-> NoAgent]
Hello == [List EXCEPT !.method = "initialize"]
Approve == [List EXCEPT !.method = "tools/call", !.auth = "valid", !.agent = a,
                        !.what = "approve_card_change"]
ReadCard == [List EXCEPT !.method = "resources/read", !.agent = a, !.what = "sentinel://agents/"]

MCCalls ==
    {List, Hello, Approve, ReadCard,
     [List EXCEPT !.verb = "GET"],
     [List EXCEPT !.auth = "wrong"],
     [List EXCEPT !.decodes = FALSE],
     [List EXCEPT !.id = FALSE],
     [List EXCEPT !.method = "ping"],
     [List EXCEPT !.method = "resources/list"],
     [Approve EXCEPT !.what = "reject_card_change", !.auth = "none"],
     [Approve EXCEPT !.params = "bad"],
     [Approve EXCEPT !.params = "broken"],
     [Approve EXCEPT !.what = "register_agent"],
     [Approve EXCEPT !.what = "get_agent_card", !.auth = "none"],
     [Approve EXCEPT !.what = "flush_replay_cache"],
     [ReadCard EXCEPT !.agent = NoAgent],
     [ReadCard EXCEPT !.what = "sentinel://config"]}
=============================================================================
