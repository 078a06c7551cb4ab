--------------------------- MODULE GatewayProofs ---------------------------
(***************************************************************************)
(* Proofs about GatewayLifecycle, for any finite set of connections, any   *)
(* calls and any limits: the semaphore of limitedListener is exact, no     *)
(* more than max_connections are ever open, and Start returns nil only     *)
(* when nothing is left to serve.  The stream slots are used as            *)
(* StreamSlots allows, which bounds the streams and keeps new ones out of  *)
(* a drain; and a shutdown is held up only by max_connections connections. *)
(***************************************************************************)
EXTENDS GatewayLifecycle, FiniteSetTheorems, TLAPS

Open == InRequest \cup {"fresh", "idle", "closed"}

----------------------------------------------------------------------------
(* The inductive invariant. *)

SlotsMatch ==
    /\ waiting[Agent] = {c \in Conns : conn[c] = "asking"}
    /\ active[Agent] = {c \in Conns : conn[c] = "streaming"}

\* What each stage of Shutdown has achieved for good.
Stages ==
    /\ main = "start" => acceptor = "off"
    /\ main \in {"polling", "grpcStop", "mcpStop"} => acceptor = "exited"
    /\ main \in {"grpcStop", "mcpStop"} => Served = {}
    /\ main = "mcpStop" => grpc # "serving" /\ calls = {}
    /\ main # "returned" => result = "none"
    /\ grpc = "none" => calls = {}

\* Only a connection that Shutdown closed has been released early.
ReleasedOnce == \A c \in Conns : released[c] => conn[c] = "closed"

IInv ==
    /\ TypeOK
    /\ ReleasedOnce
    /\ TokensExact
    /\ SlotsMatch
    /\ Stages
    /\ CleanExit
----------------------------------------------------------------------------
(* How the set of connections that hold a token moves. *)

LEMMA HoldingFinite == IsFiniteSet(Holding) /\ Cardinality(Holding) \in Nat
  BY ConnsFinite, FS_Subset, FS_CardinalityType DEF Holding

\* A connection that stays open, or stays away, keeps what it holds.
LEMMA GotoKeepsHolding ==
  ASSUME TypeOK, NEW c \in Conns, NEW label, Goto(c, label), released' = released,
         conn[c] \in Open <=> label \in Open
  PROVE  Holding' = Holding
  BY DEF TypeOK, Goto, Holding, Open, InRequest

\* An accepted connection takes over the token its Accept had (server.go:593).
LEMMA AcceptedHolds ==
  ASSUME TypeOK, NEW c \in Conns, AcceptConn(c)
  PROVE  /\ Holding' = Holding \cup {c}
         /\ Cardinality(Holding') = Cardinality(Holding) + 1
<1>1. c \notin Holding /\ Holding' = Holding \cup {c}
  BY DEF TypeOK, AcceptConn, Holding, InRequest
<1>2. QED
  BY <1>1, HoldingFinite, FS_AddElement

\* The last close gives a token back unless an earlier one did (server.go:606).
LEMMA ClosedHolds ==
  ASSUME TypeOK, NEW c \in Conns, CloseConn(c)
  PROVE  /\ Holding' = Holding \ {c}
         /\ c \in Holding <=> ~released[c]
         /\ Cardinality(Holding') = Cardinality(Holding) - (IF released[c] THEN 0 ELSE 1)
<1>1. Holding' = Holding \ {c} /\ (c \in Holding <=> ~released[c])
  BY DEF TypeOK, CloseConn, Goto, Holding, InRequest
<1>2. CASE released[c]
  <2>1. Holding' = Holding
    BY <1>1, <1>2
  <2>2. QED
    BY <1>1, <1>2, <2>1, HoldingFinite
<1>3. CASE ~released[c]
  BY <1>1, <1>3, HoldingFinite, FS_RemoveElement
<1>4. QED
  BY <1>1, <1>2, <1>3

\* Closing what is idle releases the tokens of exactly those connections.
LEMMA IdleReleased ==
  ASSUME TypeOK, CloseIdle
  PROVE  /\ Cardinality(Holding') =
              Cardinality(Holding) - Cardinality({c \in Conns : conn[c] = "idle" /\ ~released[c]})
         /\ Cardinality({c \in Conns : conn[c] = "idle" /\ ~released[c]}) \in Nat
<1> DEFINE Idle == {c \in Conns : conn[c] = "idle" /\ ~released[c]}
<1>1. Holding' = Holding \ Idle
  BY DEF TypeOK, CloseIdle, Holding, InRequest
<1>2. Idle \subseteq Holding
  BY DEF Holding
<1>3. IsFiniteSet(Idle) /\ Cardinality(Idle) \in Nat
  BY <1>2, HoldingFinite, FS_Subset, FS_CardinalityType
<1>4. Holding \cap Idle = Idle
  BY <1>2
<1>5. Cardinality(Holding \ Idle) = Cardinality(Holding) - Cardinality(Holding \cap Idle)
  BY HoldingFinite, <1>3, FS_Difference
<1>6. QED
  BY <1>1, <1>3, <1>4, <1>5
----------------------------------------------------------------------------
(* The invariant. *)

LEMMA InitInvariant == Init => IInv
<1> SUFFICES ASSUME Init PROVE IInv
  OBVIOUS
<1>1. Holding = {} /\ Served = {}
  BY DEF Init, Holding, Served, InRequest
<1>2. TypeOK
  <2>1. waiting \in [{Agent} -> SUBSET Conns] /\ active \in [{Agent} -> SUBSET Conns] /\ open
    BY DEF Init, Slots!Init
  <2>2. sem \in 0..MaxConnections
    BY MaxConnectionsPositive DEF Init
  <2>3. QED
    BY <2>1, <2>2 DEF Init, TypeOK
<1>3. TokensExact
  BY <1>1, FS_EmptySet DEF Init, TokensExact
<1>4. ReleasedOnce /\ SlotsMatch /\ Stages /\ CleanExit
  BY DEF Init, Slots!Init, ReleasedOnce, SlotsMatch, Stages, CleanExit
<1>5. QED
  BY <1>2, <1>3, <1>4 DEF IInv

\* Start and Shutdown, but for CloseIdle: no connection moves.
LEMMA MainInvariant ==
  ASSUME IInv,
         \/ Start \/ GRPCServeError \/ Signal \/ BeginShutdown \/ Drained \/ DrainExpires
         \/ CloseListener \/ ServeReturned \/ HTTPStopped \/ HTTPTimesOut
         \/ GracefulStop \/ StopMCP \/ Expire
  PROVE  IInv'
<1> USE DEF Start, Return, mainVars, listenVars, connVars, slotVars
<1>1. /\ conn' = conn /\ released' = released /\ sem' = sem
      /\ waiting' = waiting /\ active' = active
      /\ acceptor' = acceptor \/ (main = "start" /\ acceptor' = "token")
  BY DEF Listen, StartGRPC, StartMCP, ServeError, GRPCServeError, Signal, BeginShutdown, Drained,
         DrainExpires, CloseListener, ServeReturned, HTTPStopped, HTTPTimesOut, GracefulStop,
         StopMCP, Expire, Slots!Close
<1>2. Holding' = Holding /\ Served' = Served
  BY <1>1 DEF Holding, Served
<1>3. TypeOK'
  <2>1. CASE Listen
    BY <1>1, <2>1 DEF IInv, TypeOK, Listen
  <2>2. CASE StartGRPC
    BY <1>1, <2>2 DEF IInv, TypeOK, StartGRPC
  <2>3. CASE StartMCP
    BY <1>1, <2>3 DEF IInv, TypeOK, StartMCP
  <2>4. CASE ServeError
    BY <1>1, <2>4 DEF IInv, TypeOK, ServeError
  <2>5. CASE GRPCServeError
    BY <1>1, <2>5 DEF IInv, TypeOK, GRPCServeError
  <2>6. CASE Signal
    BY <1>1, <2>6 DEF IInv, TypeOK, Signal
  <2>7. CASE BeginShutdown
    BY <1>1, <2>7 DEF IInv, TypeOK, Slots!Close, BeginShutdown
  <2>8. CASE Drained
    BY <1>1, <2>8 DEF IInv, TypeOK, Drained
  <2>9. CASE DrainExpires
    BY <1>1, <2>9 DEF IInv, TypeOK, DrainExpires
  <2>10. CASE CloseListener
    BY <1>1, <2>10 DEF IInv, TypeOK, CloseListener
  <2>11. CASE ServeReturned
    BY <1>1, <2>11 DEF IInv, TypeOK, ServeReturned
  <2>12. CASE HTTPStopped
    BY <1>1, <2>12 DEF IInv, TypeOK, HTTPStopped
  <2>13. CASE HTTPTimesOut
    BY <1>1, <2>13 DEF IInv, TypeOK, HTTPTimesOut
  <2>14. CASE GracefulStop
    BY <1>1, <2>14 DEF IInv, TypeOK, GracefulStop
  <2>15. CASE StopMCP
    BY <1>1, <2>15 DEF IInv, TypeOK, StopMCP
  <2>16. CASE Expire
    BY <1>1, <2>16 DEF IInv, TypeOK, Expire
  <2>17. QED
    BY <2>1, <2>2, <2>3, <2>4, <2>5, <2>6, <2>7, <2>8, <2>9, <2>10, <2>11, <2>12, <2>13, <2>14, <2>15, <2>16
<1>4. TokensExact'
  BY <1>1, <1>2 DEF IInv, TokensExact, Stages
<1>5. SlotsMatch' /\ ReleasedOnce'
  BY <1>1 DEF IInv, SlotsMatch, ReleasedOnce
<1>6. Stages' /\ CleanExit'
  <2>1. CASE Listen
    BY <1>1, <1>2, <2>1 DEF IInv, Stages, CleanExit, Listen
  <2>2. CASE StartGRPC
    BY <1>1, <1>2, <2>2 DEF IInv, Stages, CleanExit, StartGRPC
  <2>3. CASE StartMCP
    BY <1>1, <1>2, <2>3 DEF IInv, Stages, CleanExit, StartMCP
  <2>4. CASE ServeError
    BY <1>1, <1>2, <2>4 DEF IInv, Stages, CleanExit, ServeError
  <2>5. CASE GRPCServeError
    BY <1>1, <1>2, <2>5 DEF IInv, Stages, CleanExit, GRPCServeError
  <2>6. CASE Signal
    BY <1>1, <1>2, <2>6 DEF IInv, Stages, CleanExit, Signal
  <2>7. CASE BeginShutdown
    BY <1>1, <1>2, <2>7 DEF IInv, Stages, CleanExit, BeginShutdown
  <2>8. CASE Drained
    BY <1>1, <1>2, <2>8 DEF IInv, Stages, CleanExit, Drained
  <2>9. CASE DrainExpires
    BY <1>1, <1>2, <2>9 DEF IInv, Stages, CleanExit, DrainExpires
  <2>10. CASE CloseListener
    BY <1>1, <1>2, <2>10 DEF IInv, Stages, CleanExit, CloseListener
  <2>11. CASE ServeReturned
    BY <1>1, <1>2, <2>11 DEF IInv, Stages, CleanExit, ServeReturned
  <2>12. CASE HTTPStopped
    BY <1>1, <1>2, <2>12 DEF IInv, Stages, CleanExit, HTTPStopped
  <2>13. CASE HTTPTimesOut
    BY <1>1, <1>2, <2>13 DEF IInv, Stages, CleanExit, HTTPTimesOut
  <2>14. CASE GracefulStop
    BY <1>1, <1>2, <2>14 DEF IInv, Stages, CleanExit, GracefulStop
  <2>15. CASE StopMCP
    <3>1. Served = {} /\ calls = {} /\ active[Agent] = {}
      BY <2>15 DEF IInv, Stages, SlotsMatch, StopMCP, Served, InRequest
    <3>2. QED
      BY <1>1, <1>2, <2>15, <3>1 DEF IInv, Stages, CleanExit, StopMCP
  <2>16. CASE Expire
    BY <1>1, <1>2, <2>16 DEF IInv, Stages, CleanExit, Expire
  <2>17. QED
    BY <2>1, <2>2, <2>3, <2>4, <2>5, <2>6, <2>7, <2>8, <2>9, <2>10, <2>11, <2>12, <2>13, <2>14, <2>15, <2>16
<1>7. QED
  BY <1>3, <1>4, <1>5, <1>6 DEF IInv

\* No Start action has returned while the system goes on.
LEMMA Running == ASSUME IInv, main # "returned" PROVE result = "none"
  BY DEF IInv, Stages

\* Shutdown closes idle connections, and their tokens come back at once.
LEMMA CloseIdleInvariant ==
  ASSUME IInv, CloseIdle
  PROVE  IInv'
<1> USE DEF CloseIdle, mainVars, slotVars
<1> DEFINE Idle == {c \in Conns : conn[c] = "idle" /\ ~released[c]}
<1>1. Cardinality(Holding') = Cardinality(Holding) - Cardinality(Idle)
      /\ Cardinality(Idle) \in Nat /\ Cardinality(Holding') \in Nat
  BY IdleReleased, HoldingFinite, ConnsFinite, FS_Subset, FS_CardinalityType DEF IInv, Holding
<1>2. sem' = sem - Cardinality(Idle)
  OBVIOUS
<1>3. TokensExact'
  BY <1>1, <1>2, HoldingFinite DEF IInv, TokensExact, TypeOK
<1>4. sem' \in 0..MaxConnections
  BY <1>1, <1>2, <1>3, MaxConnectionsPositive DEF IInv, TokensExact, TypeOK
<1>5. TypeOK'
  BY <1>4 DEF IInv, TypeOK
<1>6. SlotsMatch' /\ ReleasedOnce'
  BY DEF IInv, SlotsMatch, ReleasedOnce, TypeOK
<1>7. Stages' /\ CleanExit'
  BY Running DEF IInv, Stages, SlotsMatch, CleanExit, TypeOK
<1>8. QED
  BY <1>3, <1>5, <1>6, <1>7 DEF IInv

\* The accept loop: a token is taken before the connection is there.
LEMMA AcceptInvariant ==
  ASSUME IInv, main # "returned", Accept
  PROVE  IInv'
<1> USE DEF mainVars, slotVars, connVars
<1>1. CASE TakeToken
  <2>1. Holding' = Holding /\ Served' = Served
    BY <1>1 DEF TakeToken, Holding, Served
  <2>2. TypeOK'
    BY <1>1, MaxConnectionsPositive DEF IInv, TypeOK, TakeToken
  <2>3. TokensExact'
    BY <1>1, <2>1, HoldingFinite DEF IInv, TokensExact, TakeToken
  <2>4. ReleasedOnce' /\ SlotsMatch' /\ Stages' /\ CleanExit'
    BY <1>1, <2>1, Running DEF IInv, ReleasedOnce, SlotsMatch, Stages, CleanExit, TakeToken
  <2>5. QED
    BY <2>2, <2>3, <2>4 DEF IInv
<1>2. CASE AcceptRetries \/ AcceptFails
  <2>1. Holding' = Holding /\ Served' = Served
    BY <1>2 DEF AcceptRetries, AcceptFails, Holding, Served
  <2>2. TokensExact' /\ sem' \in Nat
    BY <1>2, <2>1, HoldingFinite DEF IInv, TokensExact, AcceptRetries, AcceptFails
  <2>3. TypeOK'
    BY <1>2, <2>2, MaxConnectionsPositive DEF IInv, TypeOK, AcceptRetries, AcceptFails
  <2>4. ReleasedOnce' /\ SlotsMatch' /\ Stages' /\ CleanExit'
    BY <1>2, <2>1, Running DEF IInv, ReleasedOnce, SlotsMatch, Stages, CleanExit,
              AcceptRetries, AcceptFails
  <2>5. QED
    BY <2>2, <2>3, <2>4 DEF IInv
<1>3. ASSUME NEW c \in Conns, AcceptConn(c) PROVE IInv'
  <2>1. TypeOK'
    BY <1>3 DEF IInv, TypeOK, AcceptConn
  <2>2. TokensExact'
    <3>1. Cardinality(Holding') = Cardinality(Holding) + 1 /\ Cardinality(Holding) \in Nat
      BY <1>3, AcceptedHolds, HoldingFinite DEF IInv
    <3>2. acceptor = "accept" /\ acceptor' = "token" /\ sem' = sem
      BY <1>3 DEF AcceptConn
    <3>3. QED
      BY <3>1, <3>2 DEF IInv, TokensExact
  <2>3. SlotsMatch' /\ ReleasedOnce'
    BY <1>3 DEF IInv, TypeOK, SlotsMatch, ReleasedOnce, AcceptConn
  <2>4. Stages' /\ CleanExit'
    BY <1>3, <2>3, Running DEF IInv, SlotsMatch, Stages, CleanExit, AcceptConn
  <2>5. QED
    BY <2>1, <2>2, <2>3, <2>4 DEF IInv
<1>4. QED
  BY <1>1, <1>2, <1>3 DEF Accept

\* A step of one connection that stays open, or stays away.
LEMMA KeepingInvariant ==
  ASSUME IInv, main # "returned", NEW c \in Conns,
         NEW label \in {"out", "queued", "fresh", "idle", "closed"} \cup InRequest,
         Goto(c, label), released' = released, conn[c] # "closed", conn[c] \in Open <=> label \in Open,
         label \in Open => main \notin {"grpcStop", "mcpStop"},
         open' = open,
         waiting' \in [{Agent} -> SUBSET Conns], active' \in [{Agent} -> SUBSET Conns],
         SlotsMatch',
         UNCHANGED <<main, result, ctxDone, timedOut, listener, acceptor, sem, grpc, calls, mcp>>
  PROVE  IInv'
<1>1. Holding' = Holding
  BY GotoKeepsHolding DEF IInv
<1>2. TypeOK'
  BY DEF IInv, TypeOK, Goto
<1>3. TokensExact'
  BY <1>1 DEF IInv, TokensExact
<1>4. main \in {"grpcStop", "mcpStop"} => Served' = {}
  BY DEF IInv, TypeOK, Stages, Served, Goto, Open, InRequest
<1>5. Stages'
  BY <1>4 DEF IInv, Stages
<1>6. CleanExit'
  BY Running DEF IInv, CleanExit, SlotsMatch
<1>7. ReleasedOnce'
  BY DEF IInv, TypeOK, ReleasedOnce, Goto
<1>8. QED
  BY <1>2, <1>3, <1>5, <1>6, <1>7 DEF IInv

\* Whoever is served is served before gRPC is stopped.
LEMMA ServedEarly ==
  ASSUME IInv, NEW c \in Conns, conn[c] \in InRequest \cup {"fresh", "idle"}
  PROVE  main \notin {"grpcStop", "mcpStop"}
  BY DEF IInv, Stages, Served

LEMMA ClientInvariant ==
  ASSUME IInv, main # "returned", NEW c \in Conns, Client(c)
  PROVE  IInv'
<1> USE DEF Goto, mainVars, listenVars, slotVars
<1>1. CASE Connect(c)
  BY <1>1, KeepingInvariant DEF Connect, IInv, TypeOK, SlotsMatch, Open, InRequest
<1>2. CASE LeaveQueue(c)
  BY <1>2, KeepingInvariant DEF LeaveQueue, IInv, TypeOK, SlotsMatch, Open, InRequest
<1>3. CASE LeaveIdle(c)
  BY <1>3, KeepingInvariant, ServedEarly DEF LeaveIdle, IInv, TypeOK, SlotsMatch, Open, InRequest
<1>4. CASE BeginRequest(c)
  BY <1>4, KeepingInvariant, ServedEarly DEF BeginRequest, IInv, TypeOK, SlotsMatch, Open, InRequest
<1>5. QED
  BY <1>1, <1>2, <1>3, <1>4 DEF Client

LEMMA HandlerInvariant ==
  ASSUME IInv, main # "returned", NEW c \in Conns, Handler(c)
  PROVE  IInv'
<1> USE DEF Goto, mainVars, listenVars
<1>1. CASE BeginStream(c)
  BY <1>1, KeepingInvariant, ServedEarly
     DEF BeginStream, Slots!Arrive, IInv, TypeOK, SlotsMatch, Open, InRequest
<1>2. CASE Admitted(c)
  BY <1>2, KeepingInvariant, ServedEarly
     DEF Admitted, Slots!Admit, IInv, TypeOK, SlotsMatch, Open, InRequest
<1>3. CASE Refused(c)
  BY <1>3, KeepingInvariant, ServedEarly
     DEF Refused, Slots!Refuse, IInv, TypeOK, SlotsMatch, Open, InRequest
<1>4. CASE EndStream(c)
  BY <1>4, KeepingInvariant, ServedEarly
     DEF EndStream, Slots!Finish, IInv, TypeOK, SlotsMatch, Open, InRequest
<1>5. CASE EndRequest(c)
  BY <1>5, KeepingInvariant, ServedEarly
     DEF EndRequest, slotVars, IInv, TypeOK, SlotsMatch, Open, InRequest
<1>6. CASE FreshTimesOut(c)
  BY <1>6, KeepingInvariant, ServedEarly
     DEF FreshTimesOut, slotVars, IInv, TypeOK, SlotsMatch, Open, InRequest
<1>7. CASE CloseConn(c)
  <2>1. Cardinality(Holding') = Cardinality(Holding) - (IF released[c] THEN 0 ELSE 1)
        /\ Cardinality(Holding) \in Nat /\ Cardinality(Holding)' \in Nat
    BY <1>7, ClosedHolds, HoldingFinite, ConnsFinite, FS_Subset, FS_CardinalityType DEF IInv, Holding
  <2>2. sem' = (IF released[c] THEN sem ELSE sem - 1) /\ acceptor' = acceptor
    BY <1>7 DEF CloseConn
  <2>3. TokensExact'
    BY <2>1, <2>2 DEF IInv, TokensExact, TypeOK
  <2>4. sem' \in 0..MaxConnections
    BY <2>1, <2>2, <2>3, MaxConnectionsPositive DEF IInv, TokensExact, TypeOK
  <2>5. TypeOK'
    BY <1>7, <2>4 DEF IInv, TypeOK, CloseConn, slotVars
  <2>6. SlotsMatch' /\ ReleasedOnce'
    BY <1>7 DEF IInv, TypeOK, SlotsMatch, ReleasedOnce, CloseConn, Goto, InRequest, slotVars
  <2>7. Served' \subseteq Served
    BY <1>7 DEF IInv, TypeOK, CloseConn, Served, InRequest
  <2>8. Stages' /\ CleanExit'
    BY <1>7, <2>6, <2>7, Running DEF IInv, Stages, SlotsMatch, CleanExit, CloseConn
  <2>9. QED
    BY <2>3, <2>5, <2>6, <2>8 DEF IInv
<1>8. QED
  BY <1>1, <1>2, <1>3, <1>4, <1>5, <1>6, <1>7 DEF Handler

\* gRPC calls and the MCP server, whose connections are not limited.
LEMMA OtherServersInvariant ==
  ASSUME IInv, main # "returned", RunMCP \/ \E k \in Calls : BeginCall(k) \/ EndCall(k)
  PROVE  IInv'
<1> USE DEF mainVars, listenVars, connVars, slotVars
<1>1. Holding' = Holding /\ Served' = Served
  BY DEF RunMCP, BeginCall, EndCall, Holding, Served
<1>2. TypeOK'
  BY DEF IInv, TypeOK, RunMCP, BeginCall, EndCall
<1>3. ReleasedOnce' /\ TokensExact' /\ SlotsMatch'
  BY <1>1 DEF IInv, ReleasedOnce, TokensExact, SlotsMatch, RunMCP, BeginCall, EndCall
<1>4. Stages' /\ CleanExit'
  BY <1>1, Running DEF IInv, Stages, CleanExit, RunMCP, BeginCall, EndCall
<1>5. QED
  BY <1>2, <1>3, <1>4 DEF IInv

LEMMA StutterInvariant ==
  ASSUME IInv, UNCHANGED vars
  PROVE  IInv'
<1> USE DEF vars, mainVars, listenVars, connVars, slotVars
<1>1. Holding' = Holding /\ Served' = Served
  BY DEF Holding, Served
<1>2. QED
  BY <1>1 DEF IInv, TypeOK, ReleasedOnce, TokensExact, SlotsMatch, Stages, CleanExit

LEMMA Invariance == Spec => []IInv
<1>1. IInv /\ [Next]_vars => IInv'
  <2> SUFFICES ASSUME IInv, [Next]_vars PROVE IInv'
    OBVIOUS
  <2>1. CASE UNCHANGED vars
    BY <2>1, StutterInvariant
  <2>2. CASE Next
    BY <2>2, MainInvariant, CloseIdleInvariant, AcceptInvariant, ClientInvariant,
       HandlerInvariant, OtherServersInvariant
       DEF Next, Shutdown
  <2>3. QED
    BY <2>1, <2>2
<1>2. QED
  BY InitInvariant, <1>1, PTL DEF Spec
----------------------------------------------------------------------------
(* The theorems. *)

\* Type correctness; in particular the semaphore never holds more tokens than
\* it has room for, and is never asked for one that is not there, so that no
\* Close ever blocks (server.go:578-608).
THEOREM TypeCorrect == Spec => []TypeOK
  BY Invariance, PTL DEF IInv

\* Every open connection, and the Accept in progress, has exactly one token
\* (server.go:586-608).
THEOREM TokensCorrect == Spec => []TokensExact
  BY Invariance, PTL DEF IInv

\* listen.max_connections is a limit: never more connections are served.
ConnectionLimit == Cardinality(Served) <= MaxConnections

\* A connection that is served has not been closed, so it holds its token.
THEOREM ConnectionsLimited == Spec => []ConnectionLimit
<1>1. ASSUME IInv PROVE ConnectionLimit
  <2>1. Served \subseteq Holding
    BY <1>1 DEF IInv, ReleasedOnce, Served, Holding, InRequest
  <2>2. Cardinality(Served) <= Cardinality(Holding) /\ Cardinality(Served) \in Nat
    BY <2>1, HoldingFinite, FS_Subset, FS_CardinalityType
  <2>3. Cardinality(Holding) <= MaxConnections
    BY <1>1, HoldingFinite, MaxConnectionsPositive DEF IInv, TypeOK, TokensExact
  <2>4. QED
    BY <2>2, <2>3, HoldingFinite, MaxConnectionsPositive DEF ConnectionLimit
<1>2. QED
  BY <1>1, Invariance, PTL

\* When Start returns nil nothing is being served (server.go:303-338).
THEOREM ExitCorrect == Spec => []CleanExit
  BY Invariance, PTL DEF IInv

----------------------------------------------------------------------------
(* The stream slots of the gateway are those of StreamSlots. *)

\* A connection asks for a slot, gets a verdict and gives the slot back as the
\* pool allows it; shutdown closes the pool; nobody else touches it.
LEMMA StepOfSlots == ASSUME Next PROVE [Slots!Next]_slotVars
<1> USE DEF Slots!Next
<1>1. CASE Start \/ GRPCServeError \/ Signal \/ Expire \/ Accept \/ RunMCP
  <2>1. UNCHANGED slotVars
    BY <1>1 DEF Start, Listen, StartGRPC, StartMCP, ServeError, GRPCServeError, Signal, Expire,
       Accept, TakeToken, AcceptConn, AcceptRetries, AcceptFails, RunMCP
  <2>2. QED
    BY <2>1
<1>2. CASE Shutdown
  <2>1. CASE BeginShutdown
    BY <2>1 DEF BeginShutdown
  <2>2. CASE Shutdown /\ ~BeginShutdown
    BY <2>2 DEF Shutdown, Drained, DrainExpires, CloseListener, ServeReturned, CloseIdle,
       HTTPStopped, HTTPTimesOut, GracefulStop, StopMCP
  <2>3. QED
    BY <1>2, <2>1, <2>2
<1>3. ASSUME NEW c \in Conns, Client(c) \/ Handler(c) PROVE [Slots!Next]_slotVars
  <2>1. CASE BeginStream(c) \/ Admitted(c) \/ Refused(c) \/ EndStream(c)
    <3>1. Slots!Arrive(c, Agent) \/ Slots!Admit(c, Agent) \/ Slots!Refuse(c, Agent)
          \/ Slots!Finish(c, Agent)
      BY <2>1 DEF BeginStream, Admitted, Refused, EndStream
    <3>2. QED
      BY <3>1
  <2>2. CASE Client(c) \/ EndRequest(c) \/ FreshTimesOut(c) \/ CloseConn(c)
    BY <2>2 DEF Client, Connect, LeaveQueue, LeaveIdle, BeginRequest, EndRequest, FreshTimesOut,
       CloseConn
  <2>3. QED
    BY <1>3, <2>1, <2>2 DEF Handler
<1>4. CASE \E k \in Calls : BeginCall(k) \/ EndCall(k)
  BY <1>4 DEF BeginCall, EndCall
<1>5. QED
  BY <1>1, <1>2, <1>3, <1>4 DEF Next

\* The gateway uses the pool as StreamSlots has it (streams.go, sse.go,
\* server.go:307): what the stream manager is proved to implement is what the
\* connections and the drain rely on here.
THEOREM GatewayUsesSlots == Spec => Slots!Spec
<1>1. Init => Slots!Init
  BY DEF Init
<1>2. [Next]_vars => [Slots!Next]_slotVars
  BY StepOfSlots DEF vars, slotVars
<1>3. QED
  BY <1>1, <1>2, PTL DEF Spec, Slots!Spec, Slots!slotVars, slotVars

----------------------------------------------------------------------------
(* What follows from the pool for the streams. *)

StreamLimit == Cardinality(active[Agent]) <= MaxStreams

\* The instance counts as this module does.
LEMMA SameCardinality == \A S : Slots!Cardinality(S) = Cardinality(S)
  BY DEF Slots!Cardinality, Cardinality

\* A slot is given to one more stream only while there is one left.
LEMMA SlotsKeepLimit ==
  ASSUME TypeOK, TypeOK', StreamLimit, [Slots!Next]_slotVars
  PROVE  StreamLimit'
<1>1. /\ active[Agent] \subseteq Conns /\ IsFiniteSet(active[Agent])
      /\ Cardinality(active[Agent]) \in Nat
  BY ConnsFinite, FS_Subset, FS_CardinalityType DEF TypeOK
<1>2. CASE active' = active
  BY <1>2 DEF StreamLimit
<1>3. ASSUME NEW c \in Conns, NEW a \in {Agent}, Slots!Admit(c, a) PROVE StreamLimit'
  <2>1. Cardinality(active[Agent]) < MaxStreams
    BY <1>1, <1>3, MaxStreamsNat, SameCardinality DEF Slots!Admit, Slots!Full
  <2>2. active'[Agent] = active[Agent] \cup {c}
    BY <1>3 DEF TypeOK, Slots!Admit
  <2>3. \/ Cardinality(active'[Agent]) = Cardinality(active[Agent])
        \/ Cardinality(active'[Agent]) = Cardinality(active[Agent]) + 1
    BY <1>1, <2>2, FS_AddElement
  <2>4. QED
    BY <1>1, <2>1, <2>3, MaxStreamsNat DEF StreamLimit
<1>4. ASSUME NEW c \in Conns, NEW a \in {Agent}, Slots!Finish(c, a) PROVE StreamLimit'
  <2>1. active'[Agent] \subseteq active[Agent]
    BY <1>4 DEF TypeOK, Slots!Finish
  <2>2. Cardinality(active'[Agent]) <= Cardinality(active[Agent]) /\ Cardinality(active'[Agent]) \in Nat
    BY <1>1, <2>1, FS_Subset, FS_CardinalityType
  <2>3. QED
    BY <1>1, <2>2, MaxStreamsNat DEF StreamLimit
<1>5. QED
  BY <1>2, <1>3, <1>4 DEF Slots!Next, Slots!Close, Slots!Arrive, Slots!Refuse, slotVars

\* No more connections stream than max_streams allows (streams.go:46).
THEOREM StreamsLimited == Spec => []StreamLimit
<1>1. Init => StreamLimit
  <2>1. ASSUME Init PROVE active[Agent] = {}
    BY <2>1 DEF Init, Slots!Init
  <2>2. QED
    BY <2>1, FS_EmptySet, MaxStreamsNat DEF StreamLimit
<1>2. TypeOK /\ TypeOK' /\ StreamLimit /\ [Slots!Next]_slotVars => StreamLimit'
  BY SlotsKeepLimit
<1>3. QED
  BY <1>1, <1>2, TypeCorrect, GatewayUsesSlots, PTL
     DEF Spec, Slots!Spec, Slots!slotVars, slotVars

\* The streams there are, with or without a slot.
Streams == waiting[Agent] \cup active[Agent]

\* Shutdown waits only for streams that were there when it began: the pool does
\* not open again, and none comes while it is closed (server.go:307,
\* streams.go:30).
THEOREM DrainOnlyEmpties == Spec => [][~open => ~open' /\ Streams' \subseteq Streams]_slotVars
<1>1. TypeOK /\ [Slots!Next]_slotVars => [~open => ~open' /\ Streams' \subseteq Streams]_slotVars
  BY DEF TypeOK, Streams, slotVars, Slots!Next, Slots!Close, Slots!Arrive, Slots!Admit, Slots!Refuse,
     Slots!Finish
<1>2. QED
  BY <1>1, TypeCorrect, GatewayUsesSlots, PTL DEF Slots!Spec, Slots!slotVars, slotVars

----------------------------------------------------------------------------
(* What holds up a shutdown. *)

\* The accept loop runs from Listen on.
Accepting == main \notin {"start", "returned"} => acceptor # "off"

\* A shutdown that has closed its listener waits for an accept loop that has
\* ended, is about to fail on the closed listener, can still take a token, or
\* finds every one of max_connections taken: only the last can last (the run
\* gateway_shutdown is such a wait; server.go:586-593).
HeldUpAtLimit ==
  main = "closing" /\ InShutdown =>
     \/ acceptor \in {"exited", "accept"}
     \/ acceptor = "token" /\ sem < MaxConnections
     \/ acceptor = "token" /\ Cardinality(Holding) = MaxConnections

\* Nothing takes the accept loop back to where it was before Listen.
LEMMA AcceptingKept == ASSUME Accepting, [Next]_vars PROVE Accepting'
<1> USE DEF Accepting, mainVars, listenVars
<1>1. CASE UNCHANGED vars
  BY <1>1 DEF vars
<1>2. CASE Start \/ GRPCServeError \/ Signal \/ Expire \/ RunMCP
  BY <1>2 DEF Start, Listen, StartGRPC, StartMCP, ServeError, GRPCServeError, Signal, Expire, RunMCP,
     Return
<1>3. CASE Shutdown
  BY <1>3 DEF Shutdown, BeginShutdown, Drained, DrainExpires, CloseListener, ServeReturned, CloseIdle,
     HTTPStopped, HTTPTimesOut, GracefulStop, StopMCP, Return
<1>4. CASE Accept
  BY <1>4 DEF Accept, TakeToken, AcceptConn, AcceptRetries, AcceptFails
<1>5. CASE \E c \in Conns : Client(c) \/ Handler(c)
  BY <1>5 DEF Client, Handler, Connect, LeaveQueue, LeaveIdle, BeginRequest, BeginStream, Admitted,
     Refused, EndStream, EndRequest, FreshTimesOut, CloseConn
<1>6. CASE \E k \in Calls : BeginCall(k) \/ EndCall(k)
  BY <1>6 DEF BeginCall, EndCall
<1>7. QED
  BY <1>1, <1>2, <1>3, <1>4, <1>5, <1>6 DEF Next

\* A blocked accept loop means that max_connections connections are held.
THEOREM ShutdownHeldUpAtLimit == Spec => []HeldUpAtLimit
<1>1. Init => Accepting
  BY DEF Init, Accepting
<1>2. Accepting /\ [Next]_vars => Accepting'
  BY AcceptingKept
<1>3. ASSUME TypeOK, TokensExact, Accepting PROVE HeldUpAtLimit
  BY <1>3, HoldingFinite, MaxConnectionsPositive
     DEF TypeOK, TokensExact, Accepting, HeldUpAtLimit
<1>4. QED
  BY <1>1, <1>2, <1>3, TypeCorrect, TokensCorrect, PTL DEF Spec
=============================================================================
