---------------------------- MODULE McpSessions ----------------------------
(***************************************************************************)
(* The MCP management endpoint (internal/mcpserver/server.go, tools.go):   *)
(* one HTTP handler that authenticates, validates the session, dispatches  *)
(* JSON-RPC methods and tools, and hands out sessions.  Handlers run       *)
(* beside each other; the sessions, and the pending card changes the tools *)
(* decide on, live in memory and are gone after a restart.                 *)
(*                                                                         *)
(* A call is a record:                                                     *)
(*   verb     "POST" or another;  auth  "none", "valid" or "wrong"         *)
(*   decodes  the body is JSON;   id    it has one (else a notification)   *)
(*   method   what is called;  what  the tool, or the resource             *)
(*   params   "ok", "bad" (the tool rejects its arguments) or "broken"     *)
(*   agent    the agent that is named, or NoAgent                          *)
(* Approval and rejection are one step here; AgentCards takes them apart.  *)
(***************************************************************************)
EXTENDS Integers, FiniteSets

CONSTANTS
    Handlers,      \* handler goroutines
    Calls,         \* the requests that may come
    Agents,        \* configured agents
    NoAgent,       \* a call that names none
    Sids,          \* the session ids rand.Read will give
    Foreign,       \* session ids it will never give
    NoSid,         \* no Mcp-Session-Id header
    MaxChanges,    \* bound: card changes detected
    MaxRestarts    \* bound: restarts of the gateway

ASSUME SidsDistinct == NoSid \notin Sids \cup Foreign /\ Sids \cap Foreign = {}

VARIABLES
    hasToken,      \* mcp.auth.token is set
    sessions,      \* Server.sessions
    issued,        \* session ids handed to clients
    lost,          \* history: those handed out before the last restart
    pending,       \* agents with a pending card change
    known,         \* agents whose card is known
    pc,            \* pc[h]: "idle", "received", "admitted", "valid", "replying"
    call,          \* call[h]: the request h serves
    sid,           \* sid[h]: its Mcp-Session-Id
    trusted,       \* trusted[h]: authenticated
    reply,         \* reply[h]: status, JSON-RPC error or Result
    listed,        \* listed[h]: the tools in the reply
    opened,        \* opened[h]: the session h opened
    changes,       \* bounded: card changes so far
    restarts,      \* bounded: restarts so far
    first          \* history: first[h]: no session existed when h's request came

request == <<call, sid, trusted, first>>
server == <<hasToken, issued, lost, restarts>>
cards == <<pending, known, changes>>
vars == <<server, sessions, cards, request, pc, reply, listed, opened>>

Result == 0
NoReply == 1
MethodNotAllowed == 405
Unauthorized == 401
BadRequest == 400
SessionNotFound == 404
Accepted == 202
ParamsError == -32602
InternalError == -32603
MethodNotFound == -32601
ToolDenied == -32001

\* What call[h] holds while h is idle.
AnyCall == CHOOSE c \in Calls : TRUE

Init ==
    /\ hasToken \in BOOLEAN
    /\ sessions = {} /\ issued = {} /\ lost = {} /\ restarts = 0
    /\ pending = {} /\ known = {} /\ changes = 0
    /\ pc = [h \in Handlers |-> "idle"]
    /\ call = [h \in Handlers |-> AnyCall]
    /\ sid = [h \in Handlers |-> NoSid]
    /\ trusted = [h \in Handlers |-> FALSE]
    /\ reply = [h \in Handlers |-> NoReply]
    /\ listed = [h \in Handlers |-> {}]
    /\ opened = [h \in Handlers |-> NoSid]
    /\ first = [h \in Handlers |-> TRUE]

----------------------------------------------------------------------------
(* Server.handleRPC *)

\* Bound: no more initialize requests in flight than session ids left.
MayCome(c) ==
    c.method = "initialize" =>
       Cardinality({h \in Handlers : pc[h] # "idle" /\ call[h].method = "initialize"})
          < Cardinality(Sids \ issued)

\* A client sends a request, with a session it was given, an id of its own or
\* none.
Receive(h) ==
    /\ pc[h] = "idle"
    /\ \E c \in {d \in Calls : MayCome(d)}, s \in issued \cup Foreign \cup {NoSid} :
          /\ call' = [call EXCEPT ![h] = c]
          /\ sid' = [sid EXCEPT ![h] = s]
    /\ pc' = [pc EXCEPT ![h] = "received"]
    /\ first' = [first EXCEPT ![h] = (sessions = {})]
    /\ UNCHANGED <<server, sessions, cards, trusted, reply, listed, opened>>

Finish(h, r) ==
    /\ pc' = [pc EXCEPT ![h] = "replying"]
    /\ reply' = [reply EXCEPT ![h] = r]

\* What is wrong with the request before its session is looked at.  The
\* Authorization header counts only if there is a token.
Refusal(c) ==
    CASE c.verb # "POST"                 -> MethodNotAllowed
      [] hasToken /\ c.auth = "wrong"    -> Unauthorized
      [] ~c.decodes                      -> BadRequest
      [] OTHER                           -> NoReply

Admit(h) ==
    /\ pc[h] = "received"
    /\ \/ /\ Refusal(call[h]) # NoReply
          /\ Finish(h, Refusal(call[h]))
          /\ UNCHANGED trusted
       \/ /\ Refusal(call[h]) = NoReply
          /\ pc' = [pc EXCEPT ![h] = "admitted"]
          /\ trusted' = [trusted EXCEPT ![h] = hasToken /\ call[h].auth = "valid"]
          /\ UNCHANGED reply
    /\ UNCHANGED <<server, sessions, cards, call, sid, first, listed, opened>>

\* Mutant: an id that is presented is not looked up.
MutSessionRefusal(h) ==
    IF call[h].method # "initialize" /\ sid[h] = NoSid /\ sessions # {} THEN BadRequest
    ELSE NoReply

SessionRefusal(h) ==
    CASE call[h].method = "initialize"   -> NoReply
      [] sid[h] = NoSid                  -> IF sessions = {} THEN NoReply ELSE BadRequest
      [] OTHER                           -> IF sid[h] \in sessions THEN NoReply ELSE SessionNotFound

CheckSession(h) ==
    /\ pc[h] = "admitted"
    /\ \/ SessionRefusal(h) # NoReply /\ Finish(h, SessionRefusal(h))
       \/ SessionRefusal(h) = NoReply /\ ~call[h].id /\ Finish(h, Accepted)
       \/ /\ SessionRefusal(h) = NoReply /\ call[h].id
          /\ pc' = [pc EXCEPT ![h] = "valid"]
          /\ UNCHANGED reply
    /\ UNCHANGED <<server, sessions, cards, request, listed, opened>>

----------------------------------------------------------------------------
(* Server.dispatch *)

At(h, m) == pc[h] = "valid" /\ call[h].method = m

\* Mutant: the session is announced and not stored.
MutOpenSession(h) ==
    /\ At(h, "initialize")
    /\ \E s \in Sids \ issued :
          /\ \A g \in Handlers : opened[g] # s
          /\ opened' = [opened EXCEPT ![h] = s]
    /\ Finish(h, Result)
    /\ UNCHANGED <<server, sessions, cards, request, listed>>

\* generateSessionID gives an id never seen before.
OpenSession(h) ==
    /\ At(h, "initialize")
    /\ \E s \in Sids \ issued :
          /\ \A g \in Handlers : opened[g] # s
          /\ sessions' = sessions \cup {s}
          /\ opened' = [opened EXCEPT ![h] = s]
    /\ Finish(h, Result)
    /\ UNCHANGED <<server, cards, request, listed>>

Set(f, H, v) == [h \in Handlers |-> IF h \in H THEN v ELSE f[h]]

\* Handlers of H have returned: what they held is gone.
Forget(H) ==
    /\ pc' = Set(pc, H, "idle") /\ call' = Set(call, H, AnyCall)
    /\ sid' = Set(sid, H, NoSid) /\ trusted' = Set(trusted, H, FALSE)
    /\ first' = Set(first, H, TRUE) /\ reply' = Set(reply, H, NoReply)
    /\ listed' = Set(listed, H, {}) /\ opened' = Set(opened, H, NoSid)

\* The reply carries the session; the client may use it from now on.
Reply(h) ==
    /\ pc[h] = "replying"
    /\ issued' = issued \cup ({opened[h]} \ {NoSid})
    /\ Forget({h})
    /\ UNCHANGED <<hasToken, lost, restarts, sessions, cards>>

Methods == {"initialize", "tools/list", "tools/call", "resources/list", "resources/read"}

Answers(h, r) ==
    /\ Finish(h, r)
    /\ UNCHANGED <<server, sessions, request, opened>>

UnknownMethod(h) ==
    /\ pc[h] = "valid" /\ call[h].method \notin Methods
    /\ Answers(h, MethodNotFound)
    /\ UNCHANGED <<cards, listed>>

----------------------------------------------------------------------------
(* tools.go *)

Deciding == {"approve_card_change", "reject_card_change"}
NotImplemented == {"update_rate_limit", "register_agent", "deregister_agent", "send_test_message"}
Parameterless == {"list_agents", "health_check", "get_aggregated_card", "get_rate_limit_status",
                  "list_policies", "list_pending_changes"}
Tools == Deciding \cup NotImplemented \cup Parameterless
           \cup {"get_blocked_requests", "evaluate_policy", "get_agent_card"}

\* Mutant: a tool that changes state is missing from the list.
MutWriteToolNames == NotImplemented \cup {"approve_card_change"}

writeToolNames == NotImplemented \cup Deciding

\* Without a token every tool is listed, the write tools too.
ToolsList(h) ==
    /\ At(h, "tools/list")
    /\ listed' = [listed EXCEPT ![h] = IF trusted[h] \/ ~hasToken THEN Tools
                                       ELSE Tools \ writeToolNames]
    /\ Answers(h, Result)
    /\ UNCHANGED cards

Denied(h) == call[h].what \in writeToolNames /\ ~trusted[h]

\* What the bridge answers where nothing is decided.
ToolReply(c) ==
    CASE c.what \in Parameterless     -> Result
      [] c.what \in NotImplemented    -> InternalError
      [] c.params = "bad"             -> InternalError
      [] c.what = "get_agent_card"    -> IF c.agent \in known THEN Result ELSE InternalError
      [] OTHER                        -> Result

RefuseTool(h) ==
    /\ At(h, "tools/call")
    /\ \/ call[h].params = "broken" /\ Answers(h, ParamsError)
       \/ call[h].params # "broken" /\ Denied(h) /\ Answers(h, ToolDenied)
       \/ call[h].params # "broken" /\ call[h].what \notin Tools /\ Answers(h, ParamsError)
    /\ UNCHANGED <<cards, listed>>

CallTool(h) ==
    /\ At(h, "tools/call") /\ call[h].params # "broken" /\ ~Denied(h)
    /\ call[h].what \in Tools \ Deciding
    /\ Answers(h, ToolReply(call[h]))
    /\ UNCHANGED <<cards, listed>>

\* An agent name is required, and a change that is pending.
DecideChange(h) ==
    /\ At(h, "tools/call") /\ call[h].params # "broken" /\ ~Denied(h)
    /\ call[h].what \in Deciding
    /\ \/ /\ call[h].params = "bad" \/ call[h].agent \notin pending
          /\ Answers(h, InternalError)
          /\ UNCHANGED cards
       \/ /\ call[h].params = "ok" /\ call[h].agent \in pending
          /\ pending' = pending \ {call[h].agent}
          /\ Answers(h, Result)
          /\ UNCHANGED <<known, changes>>
    /\ UNCHANGED listed

----------------------------------------------------------------------------
(* Resources *)

ResourcesList(h) ==
    /\ At(h, "resources/list")
    /\ Answers(h, Result)
    /\ UNCHANGED <<cards, listed>>

FixedResources == {"sentinel://config", "sentinel://metrics", "sentinel://security/report"}

ReadReply(c) ==
    CASE c.params = "broken"               -> ParamsError
      [] c.what \in FixedResources         -> Result
      [] c.what # "sentinel://agents/"     -> ParamsError
      [] c.agent = NoAgent                 -> ParamsError
      [] c.agent \in known                 -> Result
      [] OTHER                             -> InternalError

ResourcesRead(h) ==
    /\ At(h, "resources/read")
    /\ Answers(h, ReadReply(call[h]))
    /\ UNCHANGED <<cards, listed>>

----------------------------------------------------------------------------
(* The card manager, and the gateway's own end *)

\* A poll finds the first card of an agent, or a changed one.
PollCard(a) ==
    /\ changes < MaxChanges
    /\ changes' = changes + 1
    /\ \/ a \notin known /\ known' = known \cup {a} /\ UNCHANGED pending
       \/ a \in known /\ pending' = pending \cup {a} /\ UNCHANGED known
    /\ UNCHANGED <<server, sessions, request, pc, reply, listed, opened>>

\* The process ends and starts again; clients keep the sessions they know.
Restart ==
    /\ restarts < MaxRestarts
    /\ restarts' = restarts + 1
    /\ sessions' = {} /\ lost' = issued
    /\ pending' = {} /\ known' = {}
    /\ Forget(Handlers)
    /\ UNCHANGED <<hasToken, issued, changes>>

Next ==
    \/ \E h \in Handlers :
          \/ Receive(h) \/ Admit(h) \/ CheckSession(h) \/ UnknownMethod(h)
          \/ OpenSession(h) \/ Reply(h)
          \/ ToolsList(h) \/ RefuseTool(h) \/ CallTool(h) \/ DecideChange(h)
          \/ ResourcesList(h) \/ ResourcesRead(h)
    \/ \E a \in Agents : PollCard(a)
    \/ Restart

Spec == Init /\ [][Next]_vars

----------------------------------------------------------------------------
(* Properties *)

\* What is dispatched, other than an initialize, names a session of this run
\* of the gateway, or names none and came when there was none: neither an id
\* of the client's own, nor one of before a restart, nor a session that others
\* open meanwhile, gets a request through (server.go:191-212).
SessionRequired ==
    \A h \in Handlers :
       pc[h] = "valid" /\ call[h].method # "initialize" =>
          IF sid[h] = NoSid THEN first[h] ELSE sid[h] \in sessions

\* A session works from the moment its client hears of it until the gateway
\* restarts: only a session of before a restart, or an id the gateway never
\* gave, is not found (server.go:206-225).
SessionKept ==
    \A h \in Handlers : reply[h] = SessionNotFound => sid[h] \in lost \cup Foreign

\* A pending card change goes away only by a restart, or by a decision on that
\* agent of a caller who showed the token, in a gateway that has one.
DecidedByOperator ==
    [][\A a \in pending \ pending' :
          \/ restarts' # restarts
          \/ \E h \in Handlers :
                /\ pc[h] = "valid" /\ pc'[h] = "replying" /\ reply'[h] = Result
                /\ hasToken /\ call[h].auth = "valid" /\ call[h].agent = a]_vars
=============================================================================
