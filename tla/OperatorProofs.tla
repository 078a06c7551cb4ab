--------------------------- MODULE OperatorProofs ---------------------------
(***************************************************************************)
(* Proofs about the two ways in which a running gateway takes orders: MCP  *)
(* calls (McpSessions) and the configuration file (ConfigReload).  They    *)
(* share nothing; each has an inductive invariant of its own.              *)
(*                                                                         *)
(* For any handlers, calls, agents and sessions, and any number of         *)
(* restarts.  SessionRequired needs to know that a session once there      *)
(* stays (FirstMeans), SessionKept where every session ever handed out is  *)
(* (HandedOut), and DecidedByOperator what authenticated stands for        *)
(* (TrustedMeans).                                                         *)
(*                                                                         *)
(* For any files, callers and number of subscribers, and any number of     *)
(* edits and signals.  ReloadInv says that only files that load are ever   *)
(* held by anybody, that two actors in Reload at once are recorded in      *)
(* overlapped, and how far the one actor that notifies has come (Told).    *)
(***************************************************************************)
EXTENDS McpSessions, ConfigReload, TLAPS

----------------------------------------------------------------------------
(* MCP sessions *)

Stages == {"idle", "received", "admitted", "valid", "replying"}

Types ==
    /\ hasToken \in BOOLEAN
    /\ pc \in [Handlers -> Stages]
    /\ call \in [Handlers -> Calls \cup {AnyCall}]
    /\ sid \in [Handlers -> issued \cup Foreign \cup {NoSid}]
    /\ trusted \in [Handlers -> BOOLEAN]
    /\ first \in [Handlers -> BOOLEAN]
    /\ reply \in [Handlers -> Int]
    /\ opened \in [Handlers -> sessions \cup {NoSid}]

HandedOut == issued \subseteq sessions \cup lost

FirstMeans == \A h \in Handlers : pc[h] # "idle" /\ ~first[h] => sessions # {}

TrustedMeans == \A h \in Handlers : trusted[h] => hasToken /\ call[h].auth = "valid"

\* What a handler holds before it has authenticated, and before it answers.
Fresh ==
    \A h \in Handlers : /\ pc[h] \in {"idle", "received"} => ~trusted[h]
                        /\ pc[h] # "replying" => reply[h] = NoReply

IInv ==
    /\ Types /\ HandedOut /\ FirstMeans /\ TrustedMeans /\ Fresh
    /\ SessionRequired /\ SessionKept

----------------------------------------------------------------------------
LEMMA InitIInv == Init => IInv
  BY DEF Init, IInv, Types, Stages, HandedOut, FirstMeans, TrustedMeans, SessionRequired,
         SessionKept, Fresh, NoReply, SessionNotFound

\* A handler comes to its answer.
LEMMA FinishKeepsIInv ==
    ASSUME IInv, NEW h \in Handlers, NEW r \in Int, Finish(h, r),
           r = SessionNotFound => sid[h] \in lost \cup Foreign,
           UNCHANGED <<server, sessions, request, opened>>, pc[h] # "idle"
    PROVE  IInv'
  <1>1. /\ UNCHANGED <<hasToken, issued, lost, sessions, call, sid, trusted, first, opened>>
        /\ pc' = [pc EXCEPT ![h] = "replying"] /\ reply' = [reply EXCEPT ![h] = r]
    BY DEF Finish, server, request
  <1>2. Types'
    BY <1>1 DEF IInv, Types, Stages
  <1>3. HandedOut' /\ TrustedMeans' /\ Fresh'
    BY <1>1 DEF IInv, Types, HandedOut, TrustedMeans, Fresh
  <1>4. FirstMeans' /\ SessionRequired' /\ SessionKept'
    BY <1>1 DEF IInv, Types, FirstMeans, SessionRequired, SessionKept
  <1> QED
    BY <1>2, <1>3, <1>4 DEF IInv

\* Every answer of a method or a tool.
LEMMA AnswersKeepsIInv ==
    ASSUME IInv, NEW h \in Handlers, NEW r \in Int, r # SessionNotFound, Answers(h, r),
           pc[h] = "valid"
    PROVE  IInv'
  BY FinishKeepsIInv DEF Answers

LEMMA ReplyNumbers ==
    /\ \A n \in {Result, MethodNotAllowed, Unauthorized, BadRequest, Accepted, ParamsError,
                 InternalError, MethodNotFound, ToolDenied} : n \in Int /\ n # SessionNotFound
    /\ SessionNotFound \in Int /\ NoReply \in Int /\ NoReply # SessionNotFound
    /\ \A c : ToolReply(c) \in {Result, InternalError}
    /\ \A c : ReadReply(c) \in {Result, ParamsError, InternalError}
    /\ \A c : Refusal(c) \in {MethodNotAllowed, Unauthorized, BadRequest, NoReply}
  <1>1. \A c : ToolReply(c) \in {Result, InternalError}
    BY DEF ToolReply
  <1>2. \A c : ReadReply(c) \in {Result, ParamsError, InternalError}
    BY DEF ReadReply
  <1>3. \A c : Refusal(c) \in {MethodNotAllowed, Unauthorized, BadRequest, NoReply}
    BY DEF Refusal
  <1>4. /\ \A n \in {Result, MethodNotAllowed, Unauthorized, BadRequest, Accepted, ParamsError,
                     InternalError, MethodNotFound, ToolDenied} : n \in Int /\ n # SessionNotFound
        /\ SessionNotFound \in Int /\ NoReply \in Int /\ NoReply # SessionNotFound
    BY DEF Result, MethodNotAllowed, Unauthorized, BadRequest, Accepted, ParamsError,
           InternalError, MethodNotFound, ToolDenied, SessionNotFound, NoReply
  <1> QED
    BY <1>1, <1>2, <1>3, <1>4

----------------------------------------------------------------------------
LEMMA ReceiveKeepsIInv == ASSUME IInv, NEW h \in Handlers, Receive(h) PROVE IInv'
  <1>1. /\ UNCHANGED <<hasToken, issued, lost, sessions, trusted, reply, opened>>
        /\ pc[h] = "idle" /\ pc' = [pc EXCEPT ![h] = "received"]
        /\ first' = [first EXCEPT ![h] = (sessions = {})]
        /\ \E c \in Calls : call' = [call EXCEPT ![h] = c]
        /\ \E s \in issued \cup Foreign \cup {NoSid} : sid' = [sid EXCEPT ![h] = s]
    BY DEF Receive, server
  <1>2. Types'
    BY <1>1 DEF IInv, Types, Stages
  <1>3. HandedOut'
    BY <1>1 DEF IInv, HandedOut
  <1>4. FirstMeans'
    <2> SUFFICES ASSUME NEW g \in Handlers, pc'[g] # "idle", ~first'[g] PROVE sessions # {}
      BY <1>1 DEF FirstMeans
    <2>1. CASE g = h
      BY <1>1, <2>1 DEF IInv, Types
    <2>2. CASE g # h
      BY <1>1, <2>2 DEF IInv, Types, FirstMeans
    <2> QED
      BY <2>1, <2>2
  <1>5. TrustedMeans' /\ Fresh'
    BY <1>1 DEF IInv, Types, TrustedMeans, Fresh
  <1>6. SessionRequired'
    BY <1>1 DEF IInv, Types, SessionRequired
  <1>7. SessionKept'
    BY <1>1, ReplyNumbers DEF IInv, Types, SessionKept, Fresh
  <1> QED
    BY <1>2, <1>3, <1>4, <1>5, <1>6, <1>7 DEF IInv

LEMMA AdmitKeepsIInv == ASSUME IInv, NEW h \in Handlers, Admit(h) PROVE IInv'
  <1>1. CASE Refusal(call[h]) # NoReply
    <2>1. Finish(h, Refusal(call[h])) /\ UNCHANGED <<server, sessions, request, opened>>
      BY <1>1 DEF Admit, request
    <2> QED
      BY <1>1, <2>1, FinishKeepsIInv, ReplyNumbers DEF Admit
  <1>2. CASE Refusal(call[h]) = NoReply
    <2>1. /\ UNCHANGED <<hasToken, issued, lost, sessions, call, sid, first, reply, opened>>
          /\ pc[h] = "received" /\ pc' = [pc EXCEPT ![h] = "admitted"]
          /\ trusted' = [trusted EXCEPT ![h] = hasToken /\ call[h].auth = "valid"]
      BY <1>2 DEF Admit, server
    <2>2. Types' /\ HandedOut' /\ FirstMeans' /\ Fresh'
      BY <2>1 DEF IInv, Types, Stages, HandedOut, FirstMeans, Fresh
    <2>3. TrustedMeans'
      <3> SUFFICES ASSUME NEW g \in Handlers, trusted'[g]
                   PROVE  hasToken /\ call[g].auth = "valid"
        BY <2>1 DEF TrustedMeans
      <3>1. CASE g = h
        BY <2>1, <3>1, Zenon DEF IInv, Types
      <3>2. CASE g # h
        BY <2>1, <3>2 DEF IInv, Types, TrustedMeans
      <3> QED
        BY <3>1, <3>2
    <2>4. SessionRequired' /\ SessionKept'
      BY <2>1 DEF IInv, Types, SessionRequired, SessionKept
    <2> QED
      BY <2>2, <2>3, <2>4 DEF IInv
  <1> QED
    BY <1>1, <1>2

LEMMA CheckSessionKeepsIInv == ASSUME IInv, NEW h \in Handlers, CheckSession(h) PROVE IInv'
  <1>1. pc[h] = "admitted" /\ UNCHANGED <<server, sessions, request, opened>>
    BY DEF CheckSession
  <1>2. SessionRefusal(h) \in {NoReply, BadRequest, SessionNotFound}
    BY DEF SessionRefusal
  <1>3. SessionRefusal(h) = SessionNotFound => sid[h] \in (issued \cup Foreign) \ sessions
    BY ReplyNumbers DEF SessionRefusal, IInv, Types
  <1>4. CASE SessionRefusal(h) # NoReply
    <2>1. Finish(h, SessionRefusal(h))
      BY <1>4 DEF CheckSession
    <2>2. SessionRefusal(h) = SessionNotFound => sid[h] \in lost \cup Foreign
      BY <1>3 DEF IInv, HandedOut
    <2> QED
      BY <1>1, <1>2, <1>4, <2>1, <2>2, FinishKeepsIInv, ReplyNumbers
  <1>5. CASE SessionRefusal(h) = NoReply /\ ~call[h].id
    <2>1. Finish(h, Accepted)
      BY <1>5 DEF CheckSession
    <2> QED
      BY <1>1, <2>1, FinishKeepsIInv, ReplyNumbers
  <1>6. CASE SessionRefusal(h) = NoReply /\ call[h].id
    <2>1. /\ UNCHANGED <<hasToken, issued, lost, sessions, call, sid, trusted, first, reply, opened>>
          /\ pc' = [pc EXCEPT ![h] = "valid"]
      BY <1>1, <1>6 DEF CheckSession, server, request
    <2>2. Types' /\ HandedOut' /\ FirstMeans' /\ Fresh' /\ TrustedMeans' /\ SessionKept'
      BY <1>1, <2>1 DEF IInv, Types, Stages, HandedOut, FirstMeans, Fresh, TrustedMeans,
                        SessionKept
    <2>3. call[h].method # "initialize" => IF sid[h] = NoSid THEN first[h] ELSE sid[h] \in sessions
      <3>1. ASSUME call[h].method # "initialize", sid[h] = NoSid PROVE first[h]
        <4>1. sessions = {}
          BY <1>6, <3>1, ReplyNumbers DEF SessionRefusal, BadRequest, NoReply
        <4> QED
          BY <1>1, <4>1 DEF IInv, FirstMeans
      <3>2. ASSUME call[h].method # "initialize", sid[h] # NoSid PROVE sid[h] \in sessions
        BY <1>6, <3>2, ReplyNumbers DEF SessionRefusal, SessionNotFound, NoReply
      <3> QED
        BY <3>1, <3>2
    <2>4. SessionRequired'
      BY <2>1, <2>3 DEF IInv, Types, SessionRequired
    <2> QED
      BY <2>2, <2>4 DEF IInv
  <1> QED
    BY <1>4, <1>5, <1>6

LEMMA OpenSessionKeepsIInv == ASSUME IInv, NEW h \in Handlers, OpenSession(h) PROVE IInv'
  <1>1. PICK s \in Sids \ issued : /\ sessions' = sessions \cup {s}
                                  /\ opened' = [opened EXCEPT ![h] = s]
    BY DEF OpenSession
  <1>2. /\ UNCHANGED <<hasToken, issued, lost, call, sid, trusted, first>> /\ pc[h] = "valid"
        /\ pc' = [pc EXCEPT ![h] = "replying"] /\ reply' = [reply EXCEPT ![h] = Result]
    BY DEF OpenSession, Finish, At, server, request
  <1>3. Types'
    BY <1>1, <1>2, ReplyNumbers DEF IInv, Types, Stages
  <1>4. HandedOut' /\ FirstMeans' /\ Fresh' /\ TrustedMeans'
    BY <1>1, <1>2 DEF IInv, Types, HandedOut, FirstMeans, Fresh, TrustedMeans
  <1>5. SessionRequired' /\ SessionKept'
    BY <1>1, <1>2, ReplyNumbers DEF IInv, Types, SessionRequired, SessionKept
  <1> QED
    BY <1>3, <1>4, <1>5 DEF IInv

\* What Forget leaves of the handlers of H, and of the others.
LEMMA ForgetGives ==
    ASSUME IInv, NEW H \in SUBSET Handlers, Forget(H)
    PROVE  /\ \A h \in H : /\ pc'[h] = "idle" /\ call'[h] = AnyCall /\ sid'[h] = NoSid
                          /\ trusted'[h] = FALSE /\ first'[h] = TRUE /\ reply'[h] = NoReply
                          /\ opened'[h] = NoSid
           /\ \A h \in Handlers \ H : /\ pc'[h] = pc[h] /\ call'[h] = call[h] /\ sid'[h] = sid[h]
                                     /\ trusted'[h] = trusted[h] /\ first'[h] = first[h]
                                     /\ reply'[h] = reply[h] /\ opened'[h] = opened[h]
           /\ pc' \in [Handlers -> Stages] /\ call' \in [Handlers -> Calls \cup {AnyCall}]
           /\ trusted' \in [Handlers -> BOOLEAN] /\ first' \in [Handlers -> BOOLEAN]
           /\ reply' \in [Handlers -> Int]
           /\ sid' = [h \in Handlers |-> IF h \in H THEN NoSid ELSE sid[h]]
           /\ opened' = [h \in Handlers |-> IF h \in H THEN NoSid ELSE opened[h]]
  BY ReplyNumbers DEF Forget, Set, IInv, Types, Stages

LEMMA ReplyKeepsIInv == ASSUME IInv, NEW h \in Handlers, Reply(h) PROVE IInv'
  <1>1. /\ Forget({h}) /\ UNCHANGED <<hasToken, lost, sessions>>
        /\ issued' = issued \cup ({opened[h]} \ {NoSid})
    BY DEF Reply
  <1>2. issued \subseteq issued' /\ issued' \subseteq issued \cup sessions
    BY <1>1 DEF IInv, Types
  <1>3. Types'
    <2>1. sid' \in [Handlers -> issued' \cup Foreign \cup {NoSid}]
      BY <1>1, <1>2, ForgetGives DEF IInv, Types
    <2>2. opened' \in [Handlers -> sessions' \cup {NoSid}]
      BY <1>1, ForgetGives DEF IInv, Types
    <2> QED
      BY <1>1, <2>1, <2>2, ForgetGives DEF IInv, Types
  <1>4. HandedOut'
    BY <1>1, <1>2 DEF IInv, HandedOut
  <1>5. FirstMeans' /\ Fresh'
    BY <1>1, ForgetGives DEF IInv, FirstMeans, Fresh
  <1>6. /\ ~trusted'[h] /\ pc'[h] = "idle" /\ reply'[h] = NoReply
        /\ \A g \in Handlers : g # h =>
              /\ pc'[g] = pc[g] /\ call'[g] = call[g] /\ sid'[g] = sid[g]
              /\ trusted'[g] = trusted[g] /\ first'[g] = first[g] /\ reply'[g] = reply[g]
    <2>1. trusted'[h] = FALSE /\ pc'[h] = "idle" /\ reply'[h] = NoReply
      BY <1>1, ForgetGives
    <2>2. ASSUME NEW g \in Handlers, g # h
          PROVE  /\ pc'[g] = pc[g] /\ call'[g] = call[g] /\ sid'[g] = sid[g]
                 /\ trusted'[g] = trusted[g] /\ first'[g] = first[g] /\ reply'[g] = reply[g]
      <3>1. g \in Handlers \ {h} /\ {h} \in SUBSET Handlers
        BY <2>2
      <3> QED
        BY <1>1, <3>1, ForgetGives, Zenon
    <2> QED
      BY <2>1, <2>2
  <1>7. TrustedMeans'
    <2> SUFFICES ASSUME NEW g \in Handlers, trusted'[g]
                 PROVE  hasToken' /\ call'[g].auth = "valid"
      BY DEF TrustedMeans
    <2>1. g # h /\ trusted[g]
      BY <1>6
    <2> QED
      BY <1>1, <1>6, <2>1 DEF IInv, TrustedMeans
  <1>8. SessionRequired'
    <2> SUFFICES ASSUME NEW g \in Handlers, pc'[g] = "valid", call'[g].method # "initialize"
                 PROVE  IF sid'[g] = NoSid THEN first'[g] ELSE sid'[g] \in sessions'
      BY DEF SessionRequired
    <2>1. g # h
      BY <1>6
    <2>2. /\ pc[g] = "valid" /\ call[g].method # "initialize"
          /\ sid'[g] = sid[g] /\ first'[g] = first[g]
      BY <1>6, <2>1
    <2>3. IF sid[g] = NoSid THEN first[g] ELSE sid[g] \in sessions
      BY <2>2 DEF IInv, SessionRequired
    <2> QED
      BY <1>1, <2>2, <2>3
  <1>9. SessionKept'
    BY <1>1, <1>6, ReplyNumbers DEF IInv, SessionKept
  <1> QED
    BY <1>3, <1>4, <1>5, <1>7, <1>8, <1>9 DEF IInv

LEMMA RestartKeepsIInv == ASSUME IInv, Restart PROVE IInv'
  <1>1. /\ Forget(Handlers) /\ sessions' = {} /\ lost' = issued
        /\ UNCHANGED <<hasToken, issued>>
    BY DEF Restart
  <1>2. Types'
    <2>1. \A h \in Handlers : sid'[h] = NoSid /\ opened'[h] = NoSid
      BY <1>1, ForgetGives
    <2>2. sid' \in [Handlers -> issued' \cup Foreign \cup {NoSid}]
      BY <1>1, <2>1, ForgetGives
    <2>3. opened' \in [Handlers -> sessions' \cup {NoSid}]
      BY <1>1, <2>1, ForgetGives
    <2>4. hasToken' \in BOOLEAN
      BY <1>1 DEF IInv, Types
    <2> QED
      BY <1>1, <2>2, <2>3, <2>4, ForgetGives DEF Types
  <1>3. HandedOut' /\ FirstMeans' /\ Fresh' /\ TrustedMeans'
    BY <1>1, ForgetGives DEF HandedOut, FirstMeans, Fresh, TrustedMeans
  <1>4. SessionRequired' /\ SessionKept'
    BY <1>1, ForgetGives, ReplyNumbers DEF SessionRequired, SessionKept
  <1> QED
    BY <1>2, <1>3, <1>4 DEF IInv

LEMMA DispatchKeepsIInv ==
    ASSUME IInv, NEW h \in Handlers,
           \/ UnknownMethod(h) \/ ToolsList(h) \/ RefuseTool(h) \/ CallTool(h)
           \/ DecideChange(h) \/ ResourcesList(h) \/ ResourcesRead(h)
    PROVE  IInv'
  <1>1. \E r \in {Result, ParamsError, InternalError, MethodNotFound, ToolDenied} : Answers(h, r)
    BY ReplyNumbers DEF UnknownMethod, ToolsList, RefuseTool, CallTool, DecideChange,
                        ResourcesList, ResourcesRead
  <1>2. pc[h] = "valid"
    BY DEF UnknownMethod, ToolsList, RefuseTool, CallTool, DecideChange, ResourcesList,
           ResourcesRead, At
  <1> QED
    BY <1>1, <1>2, AnswersKeepsIInv, ReplyNumbers

LEMMA QuietKeepsIInv ==
    ASSUME IInv, UNCHANGED <<server, sessions, request, pc, reply, opened>>
    PROVE  IInv'
  BY DEF server, request, IInv, Types, HandedOut, FirstMeans, TrustedMeans, Fresh,
         SessionRequired, SessionKept

LEMMA NextKeepsIInv == ASSUME IInv, [Next]_vars PROVE IInv'
  <1>1. ASSUME NEW h \in Handlers,
               Receive(h) \/ Admit(h) \/ CheckSession(h) \/ OpenSession(h) \/ Reply(h)
        PROVE  IInv'
    BY <1>1, ReceiveKeepsIInv, AdmitKeepsIInv, CheckSessionKeepsIInv, OpenSessionKeepsIInv,
       ReplyKeepsIInv
  <1>2. ASSUME NEW a \in Agents, PollCard(a) PROVE IInv'
    BY <1>2, QuietKeepsIInv DEF PollCard
  <1>3. CASE UNCHANGED vars
    BY <1>3, QuietKeepsIInv DEF vars
  <1> QED
    BY <1>1, <1>2, <1>3, DispatchKeepsIInv, RestartKeepsIInv DEF Next

LEMMA Inductive == Spec => []IInv
  <1>1. IInv /\ [Next]_vars => IInv'
    BY NextKeepsIInv
  <1> QED
    BY InitIInv, <1>1, PTL DEF Spec

LEMMA RestartsCounted == Spec => [](restarts \in Nat)
  <1>1. Init => restarts \in Nat
    BY DEF Init
  <1>2. restarts \in Nat /\ [Next]_vars => (restarts \in Nat)'
    <2> SUFFICES ASSUME restarts \in Nat, [Next]_vars PROVE restarts' \in Nat
      OBVIOUS
    <2>1. ASSUME NEW h \in Handlers,
                 Receive(h) \/ Admit(h) \/ CheckSession(h) \/ OpenSession(h) \/ Reply(h)
          PROVE  restarts' = restarts
      BY <2>1 DEF Receive, Admit, CheckSession, OpenSession, Reply, server
    <2>2. ASSUME NEW h \in Handlers, NEW r, Answers(h, r) PROVE restarts' = restarts
      BY <2>2 DEF Answers, server
    <2>3. ASSUME NEW h \in Handlers,
                 \/ UnknownMethod(h) \/ ToolsList(h) \/ RefuseTool(h) \/ CallTool(h)
                 \/ DecideChange(h) \/ ResourcesList(h) \/ ResourcesRead(h)
          PROVE  restarts' = restarts
      BY <2>2, <2>3 DEF UnknownMethod, ToolsList, RefuseTool, CallTool, DecideChange,
                        ResourcesList, ResourcesRead
    <2>4. ASSUME NEW a \in Agents, PollCard(a) PROVE restarts' = restarts
      BY <2>4 DEF PollCard, server
    <2>5. UNCHANGED vars => restarts' = restarts
      BY DEF vars, server
    <2>6. Restart => restarts' = restarts + 1
      BY DEF Restart
    <2> QED
      BY <2>1, <2>3, <2>4, <2>5, <2>6 DEF Next
  <1> QED
    BY <1>1, <1>2, PTL DEF Spec

----------------------------------------------------------------------------
\* Nothing but initialize is dispatched with a session id this run of the
\* gateway has not stored, nor, after the first session, without one
\* (server.go:191-212).
THEOREM RequiredCorrect == Spec => []SessionRequired
  <1>1. IInv => SessionRequired
    BY DEF IInv
  <1> QED
    BY <1>1, Inductive, PTL

\* A session that a client was given is found until the gateway restarts
\* (server.go:206-211, 223-226).
THEOREM KeptCorrect == Spec => []SessionKept
  <1>1. IInv => SessionKept
    BY DEF IInv
  <1> QED
    BY <1>1, Inductive, PTL

\* Pending card changes are decided by callers who showed the token, and by
\* nobody else (server.go:160-176, tools.go:42-90).
THEOREM DecisionCorrect == Spec => DecidedByOperator
  <1> DEFINE Step == \A a \in pending \ pending' :
                        \/ restarts' # restarts
                        \/ \E h \in Handlers :
                              /\ pc[h] = "valid" /\ pc'[h] = "replying" /\ reply'[h] = Result
                              /\ hasToken /\ call[h].auth = "valid" /\ call[h].agent = a
  <1>1. IInv /\ restarts \in Nat /\ [Next]_vars => [Step]_vars
    <2> SUFFICES ASSUME IInv, restarts \in Nat, Next, NEW a \in pending \ pending', restarts' = restarts
                 PROVE  \E h \in Handlers :
                              /\ pc[h] = "valid" /\ pc'[h] = "replying" /\ reply'[h] = Result
                              /\ hasToken /\ call[h].auth = "valid" /\ call[h].agent = a
      OBVIOUS
    <2>1. ~Restart
      BY DEF Restart
    <2>2. ASSUME NEW b \in Agents, PollCard(b) PROVE FALSE
      BY <2>2 DEF PollCard
    <2>3. PICK h \in Handlers : DecideChange(h)
      BY <2>1, <2>2 DEF Next, Receive, Admit, CheckSession, UnknownMethod, OpenSession, Reply,
                        ToolsList, RefuseTool, CallTool, ResourcesList, ResourcesRead, cards
    <2>4. /\ pc[h] = "valid" /\ call[h].what \in Deciding /\ ~Denied(h)
          /\ call[h].agent = a /\ Answers(h, Result)
      BY <2>3 DEF DecideChange, At, cards
    <2>5. trusted[h]
      BY <2>4 DEF Denied, writeToolNames
    <2>6. hasToken /\ call[h].auth = "valid"
      BY <2>5 DEF IInv, TrustedMeans
    <2>7. pc'[h] = "replying" /\ reply'[h] = Result
      BY <2>4 DEF Answers, Finish, IInv, Types
    <2> QED
      BY <2>4, <2>6, <2>7
  <1> QED
    BY <1>1, Inductive, RestartsCounted, PTL DEF DecidedByOperator, Spec

----------------------------------------------------------------------------
(* Configuration reload *)

Places == {"idle", "load", "loaded", "store", "notify"}

ReloadTypes ==
    /\ currentCfg \in Valid
    /\ stage \in [Actors -> Places]
    /\ newCfg \in [Actors -> Valid]
    /\ nextSub \in [Actors -> Nat]
    /\ held \in [Subs -> Valid]
    /\ declined \in [Subs -> BOOLEAN]
    /\ overlapped \in BOOLEAN

\* One that does not notify starts with the first subscriber.
Counting ==
    \A a \in Actors : IF stage[a] = "notify" THEN nextSub[a] \in Subs ELSE nextSub[a] = 1

OneAtATime == ~overlapped => \A a, b \in Actors : stage[a] # "idle" /\ stage[b] # "idle" => a = b

Agrees(s) == held[s] = currentCfg \/ declined[s]

\* While a notifies, what it loaded is current, and those it has told agree.
Told ==
    ~overlapped =>
       /\ \A a \in Actors : stage[a] = "notify" =>
             /\ newCfg[a] = currentCfg
             /\ \A s \in Subs : s < nextSub[a] => Agrees(s)
       /\ (\A a \in Actors : stage[a] # "notify") => \A s \in Subs : Agrees(s)

ReloadInv == ReloadTypes /\ Counting /\ OneAtATime /\ Told

----------------------------------------------------------------------------
(* Load *)

LEMMA PortIsSet == ASSUME NEW c PROVE Has(ApplyDefaults(c), "listen_port")
  <1> DEFINE defaults == {Default, CardSignatureDefault, ReplayDefault, RateLimitDefault,
                          AuditDefault, PushDefault(c), ReloadDefault(c)}
             given == UNION {DOMAIN d : d \in defaults}
             values == [f \in given |-> (CHOOSE d \in defaults : f \in DOMAIN d)[f]]
  <1>1. "listen_port" \in DOMAIN Default
    BY DEF Default
  <1>2. "listen_port" \in given
    <2>1. Default \in defaults
      OBVIOUS
    <2> HIDE DEF defaults
    <2> QED
      BY <1>1, <2>1
  <1>3. ApplyDefaults(c).settings = Fill(c.settings, values)
    BY Zenon DEF ApplyDefaults
  <1> HIDE DEF given
  <1>4. "listen_port" \in DOMAIN values
    BY <1>2
  <1> HIDE DEF values
  <1>5. DOMAIN Fill(c.settings, values) = DOMAIN c.settings \cup DOMAIN values
    BY DEF Fill
  <1> QED
    BY <1>3, <1>4, <1>5 DEF Has

\* An agent's interval and time are what the file gives, or the default.
LEMMA AgentTimes ==
    ASSUME NEW a \in AgentConfig, ValidAgent(AgentDefaults(a))
    PROVE  AgentDefaults(a).poll_interval > 0 /\ AgentDefaults(a).timeout > 0
  <1>1. a.poll_interval \in Int /\ a.timeout \in Int
    BY DEF AgentConfig
  <1>2. /\ AgentDefaults(a).poll_interval = IF a.poll_interval = 0 THEN 60 ELSE a.poll_interval
        /\ AgentDefaults(a).timeout = IF a.timeout = 0 THEN 30 ELSE a.timeout
    BY DEF AgentDefaults, AgentConfig
  <1>3. AgentDefaults(a).poll_interval >= 0 /\ AgentDefaults(a).timeout >= 0
    BY DEF ValidAgent
  <1> QED
    BY <1>1, <1>2, <1>3

\* The agents of what Load returns are those of the file, filled in.
LEMMA LoadedUsable == ASSUME NEW c \in Valid PROVE Usable(Config[c])
  <1>1. Config[c] = ApplyDefaults(c) /\ c \in Contents
    BY DEF Config, Valid
  <1>2. Validate(ApplyDefaults(c))
    BY DEF Valid, Loads
  <1>3. Has(ApplyDefaults(c), "listen_port")
    BY PortIsSet
  <1>4. ApplyDefaults(c).agents = [i \in DOMAIN c.agents |-> AgentDefaults(c.agents[i])]
    BY Zenon DEF ApplyDefaults
  <1>5. ASSUME NEW i \in DOMAIN ApplyDefaults(c).agents
        PROVE  /\ ApplyDefaults(c).agents[i].poll_interval > 0
               /\ ApplyDefaults(c).agents[i].timeout > 0
    <2>1. i \in DOMAIN c.agents /\ ApplyDefaults(c).agents[i] = AgentDefaults(c.agents[i])
      BY <1>4
    <2>2. c.agents[i] \in AgentConfig
      BY <1>1, <2>1, ContentsAssumption
    <2>3. ValidAgent(AgentDefaults(c.agents[i]))
      BY <1>2, <2>1 DEF Validate
    <2> QED
      BY <2>1, <2>2, <2>3, AgentTimes
  <1> QED
    BY <1>1, <1>2, <1>3, <1>5, Zenon DEF Usable, Validate

----------------------------------------------------------------------------
LEMMA ReloadInitInv == ReloadInit => ReloadInv
  <1> SUFFICES ASSUME ReloadInit PROVE ReloadInv
    OBVIOUS
  <1>1. ReloadTypes
    BY DEF ReloadInit, ReloadTypes, Places
  <1>2. Counting /\ OneAtATime
    BY DEF ReloadInit, Counting, OneAtATime
  <1>3. \A s \in Subs : held[s] = currentCfg
    BY DEF ReloadInit
  <1>4. Told
    BY <1>3 DEF ReloadInit, Told, Agrees
  <1> QED
    BY <1>1, <1>2, <1>4 DEF ReloadInv

\* The file, the operator, Start and Stop, and the loop's own bookkeeping.
LEMMA OutsideKeepsReloadInv ==
    ASSUME ReloadInv, UNCHANGED <<currentCfg, stage, newCfg, nextSub, held, declined, overlapped>>
    PROVE  ReloadInv'
  BY DEF ReloadInv, ReloadTypes, Counting, OneAtATime, Told, Agrees

LEMMA BeginKeepsReloadInv ==
    ASSUME ReloadInv, NEW a \in Actors, BeginReload(a), UNCHANGED <<currentCfg, held, declined>>
    PROVE  ReloadInv'
  <1>1. /\ stage[a] = "idle" /\ stage' = [stage EXCEPT ![a] = "load"]
        /\ overlapped' = (overlapped \/ Busy # {})
        /\ newCfg' = newCfg /\ nextSub' = nextSub
        /\ currentCfg' = currentCfg /\ held' = held /\ declined' = declined
    BY DEF BeginReload
  <1>2. ReloadTypes' /\ Counting'
    BY <1>1 DEF ReloadInv, ReloadTypes, Counting, Places
  <1>3. ~overlapped' => ~overlapped /\ \A b \in Actors : stage[b] = "idle"
    BY <1>1, Zenon DEF Busy
  <1>4. OneAtATime' /\ Told'
    BY <1>1, <1>3 DEF ReloadInv, ReloadTypes, OneAtATime, Told, Agrees
  <1> QED
    BY <1>2, <1>4 DEF ReloadInv

LEMMA ReloadKeepsReloadInv ==
    ASSUME ReloadInv, NEW a \in Actors, Reload(a)
    PROVE  ReloadInv'
  <1>1. CASE ReadFile(a) \/ Compare(a)
    <2>1. /\ stage[a] # "notify" /\ stage[a] # "idle"
          /\ \E p \in Places \ {"notify"} : stage' = [stage EXCEPT ![a] = p]
          /\ \E c \in Valid : newCfg' = [newCfg EXCEPT ![a] = c]
          /\ UNCHANGED <<currentCfg, nextSub, held, declined, overlapped>>
      <3>1. newCfg = [newCfg EXCEPT ![a] = newCfg[a]] /\ newCfg[a] \in Valid
        BY DEF ReloadInv, ReloadTypes
      <3>2. CASE ReadFile(a)
        BY <3>1, <3>2 DEF ReadFile, Goto, Places, subs
      <3>3. CASE Compare(a)
        BY <3>1, <3>3 DEF Compare, Goto, Places, subs
      <3> QED
        BY <1>1, <3>2, <3>3
    <2>2. ReloadTypes' /\ Counting'
      BY <2>1 DEF ReloadInv, ReloadTypes, Counting
    <2>3. OneAtATime'
      BY <2>1 DEF ReloadInv, ReloadTypes, OneAtATime
    <2>4. \A b \in Actors : /\ (stage'[b] = "notify") <=> (stage[b] = "notify")
                            /\ stage[b] = "notify" => newCfg'[b] = newCfg[b]
      BY <2>1 DEF ReloadInv, ReloadTypes
    <2>5. Told'
      BY <2>1, <2>4 DEF ReloadInv, Told, Agrees
    <2> QED
      BY <2>2, <2>3, <2>5 DEF ReloadInv
  <1>2. CASE Store(a)
    <2>1. /\ stage[a] = "store" /\ currentCfg' = newCfg[a] /\ nextSub[a] = 1
          /\ stage' = [stage EXCEPT ![a] = IF Subscribers = 0 THEN "idle" ELSE "notify"]
          /\ UNCHANGED <<newCfg, nextSub, held, declined, overlapped>>
      BY <1>2 DEF Store, Goto, subs, ReloadInv, Counting
    <2>2. ReloadTypes' /\ OneAtATime'
      BY <2>1 DEF ReloadInv, ReloadTypes, OneAtATime, Places
    <2>3. Counting'
      BY <2>1, SubscribersAssumption DEF ReloadInv, ReloadTypes, Counting, Subs
    <2>4. ASSUME ~overlapped PROVE \A b \in Actors : b # a => stage'[b] = "idle"
      BY <2>1, <2>4 DEF ReloadInv, ReloadTypes, OneAtATime
    <2>5. Told'
      <3>1. CASE Subscribers = 0
        BY <2>1, <2>4, <3>1 DEF ReloadInv, ReloadTypes, Told, Subs
      <3>2. CASE Subscribers # 0
        <4>1. stage'[a] = "notify"
          BY <2>1, <3>2 DEF ReloadInv, ReloadTypes
        <4>2. \A s \in Subs : ~(s < nextSub'[a])
          BY <2>1, SubscribersAssumption DEF Subs
        <4> QED
          BY <2>1, <2>4, <4>1, <4>2 DEF ReloadInv, ReloadTypes, Told
      <3> QED
        BY <3>1, <3>2
    <2> QED
      BY <2>2, <2>3, <2>5 DEF ReloadInv
  <1>3. CASE Notify(a)
    <2> DEFINE n == nextSub[a]
    <2>1. /\ stage[a] = "notify" /\ n \in Subs
          /\ UNCHANGED <<currentCfg, newCfg, overlapped>>
          /\ \/ held' = [held EXCEPT ![n] = newCfg[a]] /\ declined' = [declined EXCEPT ![n] = FALSE]
             \/ held' = held /\ declined' = [declined EXCEPT ![n] = TRUE]
          /\ IF n = Subscribers
             THEN stage' = [stage EXCEPT ![a] = "idle"] /\ nextSub' = [nextSub EXCEPT ![a] = 1]
             ELSE stage' = stage /\ nextSub' = [nextSub EXCEPT ![a] = n + 1]
      BY <1>3 DEF Notify, After, Goto, ReloadInv, Counting
    <2>2. ReloadTypes'
      <3>1. stage' \in [Actors -> Places]
        BY <2>1 DEF ReloadInv, ReloadTypes, Places
      <3>2. nextSub' \in [Actors -> Nat]
        BY <2>1, SubscribersAssumption DEF ReloadInv, ReloadTypes, Subs
      <3>3. held' \in [Subs -> Valid] /\ declined' \in [Subs -> BOOLEAN]
        BY <2>1 DEF ReloadInv, ReloadTypes
      <3> QED
        BY <2>1, <3>1, <3>2, <3>3 DEF ReloadInv, ReloadTypes
    <2>3. Counting'
      BY <2>1, SubscribersAssumption DEF ReloadInv, ReloadTypes, Counting, Subs
    <2>4. OneAtATime'
      BY <2>1 DEF ReloadInv, ReloadTypes, OneAtATime
    <2>5. ASSUME ~overlapped
          PROVE  /\ newCfg[a] = currentCfg /\ (\A s \in Subs : s <= n => Agrees(s)')
                 /\ \A b \in Actors : b # a => stage'[b] # "notify"
      <3>1. newCfg[a] = currentCfg /\ \A s \in Subs : s < n => Agrees(s)
        BY <2>1, <2>5 DEF ReloadInv, Told
      <3>2. held'[n] = currentCfg' \/ declined'[n] = TRUE
        BY <2>1, <3>1 DEF ReloadInv, ReloadTypes
      <3>3. ASSUME NEW s \in Subs, s < n
            PROVE  held'[s] = held[s] /\ declined'[s] = declined[s]
        BY <2>1, <3>3, SubscribersAssumption DEF ReloadInv, ReloadTypes, Subs
      <3>4. ASSUME NEW s \in Subs, s <= n PROVE Agrees(s)'
        <4>1. s < n \/ s = n
          BY <2>1, <3>4, SubscribersAssumption DEF Subs
        <4>2. CASE s = n
          BY <3>2, <4>2, Zenon DEF Agrees
        <4>3. CASE s < n
          BY <2>1, <3>1, <3>3, <4>3 DEF Agrees
        <4> QED
          BY <4>1, <4>2, <4>3
      <3>5. \A b \in Actors : b # a => stage'[b] # "notify"
        BY <2>1, <2>5 DEF ReloadInv, ReloadTypes, OneAtATime
      <3> QED
        BY <3>1, <3>4, <3>5
    <2>6. Told'
      <3>1. CASE n = Subscribers
        <4>1. \A s \in Subs : s <= n
          BY <3>1, SubscribersAssumption DEF Subs
        <4>2. stage'[a] = "idle"
          BY <2>1, <3>1 DEF ReloadInv, ReloadTypes
        <4> QED
          BY <2>1, <2>5, <4>1, <4>2 DEF Told
      <3>2. CASE n # Subscribers
        <4>1. stage'[a] = "notify" /\ nextSub'[a] = n + 1
          BY <2>1, <3>2 DEF ReloadInv, ReloadTypes
        <4>2. \A s \in Subs : s < n + 1 => s <= n
          BY <2>1, SubscribersAssumption DEF Subs
        <4> QED
          BY <2>1, <2>5, <4>1, <4>2 DEF Told
      <3> QED
        BY <3>1, <3>2
    <2> QED
      BY <2>2, <2>3, <2>4, <2>6 DEF ReloadInv
  <1> QED
    BY <1>1, <1>2, <1>3 DEF Reload

LEMMA ReloadNextKeepsInv == ASSUME ReloadInv, [ReloadNext]_reloadVars PROVE ReloadInv'
  <1>1. CASE WriteFile \/ MoveAway \/ RemoveOrReplace \/ CreateFile
    BY <1>1, OutsideKeepsReloadInv
       DEF WriteFile, MoveAway, RemoveOrReplace, CreateFile, Edit, work, subs
  <1>2. CASE Signal \/ Start \/ Stop
    BY <1>2, OutsideKeepsReloadInv DEF Signal, Start, Stop, work, subs
  <1>3. CASE TakeEvent \/ LoopEnds
    BY <1>3, OutsideKeepsReloadInv DEF TakeEvent, LoopEnds, work, subs
  <1>4. CASE TakeSignal \/ DebounceFires
    BY <1>4, BeginKeepsReloadInv DEF TakeSignal, DebounceFires, subs, Actors
  <1>5. ASSUME NEW a \in Callers, Call(a) PROVE ReloadInv'
    BY <1>5, BeginKeepsReloadInv DEF Call, subs, Actors
  <1>6. ASSUME NEW a \in Actors, Reload(a) PROVE ReloadInv'
    BY <1>6, ReloadKeepsReloadInv
  <1>7. CASE UNCHANGED reloadVars
    BY <1>7, OutsideKeepsReloadInv DEF reloadVars, work, subs
  <1> QED
    BY <1>1, <1>2, <1>3, <1>4, <1>5, <1>6, <1>7 DEF ReloadNext, Run, Actors

LEMMA ReloadInductive == ReloadSpec => []ReloadInv
  <1>1. ReloadInv /\ [ReloadNext]_reloadVars => ReloadInv'
    BY ReloadNextKeepsInv
  <1> QED
    BY ReloadInitInv, <1>1, PTL DEF ReloadSpec

----------------------------------------------------------------------------
\* With no overlap the subscribers and the current configuration agree, but
\* for those who declined (reload.go:109-178).
THEOREM AgreementCorrect == ReloadSpec => []AgreeUnlessOverlapped
  <1>1. ReloadInv => AgreeUnlessOverlapped
    BY DEF ReloadInv, ReloadTypes, Told, Agrees, AgreeUnlessOverlapped, Busy, Places
  <1> QED
    BY <1>1, ReloadInductive, PTL

\* What is current, and what subscribers hold, is usable, overlap or not
\* (reload.go:112-163, config.go:276-294).
THEOREM UsableCorrect == ReloadSpec => []OnlyUsable
  <1>1. ReloadInv => OnlyUsable
    BY LoadedUsable DEF ReloadInv, ReloadTypes, OnlyUsable
  <1> QED
    BY <1>1, ReloadInductive, PTL
=============================================================================
