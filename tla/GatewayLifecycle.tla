-------------------------- MODULE GatewayLifecycle --------------------------
(***************************************************************************)
(* internal/server/server.go: how the gateway starts, how it limits its    *)
(* connections, and how Start shuts it down when its context is canceled.  *)
(*                                                                         *)
(* The goroutine of Start goes through the start-up, waits, and goes       *)
(* through Shutdown.  Beside it run the accept loop of net/http over the   *)
(* limitedListener, a goroutine per connection, the gRPC server and the    *)
(* MCP server.  Stream slots are those of StreamSlots, which the stream    *)
(* manager implements; one agent is enough here.                           *)
(*                                                                         *)
(* net/http is modelled as far as server.go depends on it: Shutdown closes *)
(* the listener, waits until Serve has returned, and then closes idle      *)
(* connections until none is left or the context is over; the goroutine of *)
(* a connection closes it on its way out, after Shutdown may have done so. *)
(***************************************************************************)
EXTENDS Integers, FiniteSets

CONSTANTS
    Conns,             \* client connections
    Calls,             \* gRPC calls
    MaxConnections,    \* listen.max_connections
    MaxStreams         \* max_streams of the agent

ASSUME ConnsFinite == IsFiniteSet(Conns)
ASSUME MaxConnectionsPositive == MaxConnections \in Nat \ {0}
ASSUME MaxStreamsNat == MaxStreams \in Nat

VARIABLES
    main,        \* where Start and Shutdown stand
    result,      \* what Start returned
    ctxDone,     \* has SIGINT or SIGTERM canceled Start's context?
    timedOut,    \* has the shutdown context expired?
    listener,    \* the TCP listener: "off", "open", "closed" or "broken"
    acceptor,    \* where the accept loop stands
    sem,         \* tokens in limitedListener.sem
    conn,        \* conn[c]: where the goroutine of connection c stands
    released,    \* released[c]: has limitedConn.closed fired?
    open, waiting, active,    \* stream slots
    grpc,        \* "none" if not configured
    calls,       \* gRPC calls in progress
    mcp          \* "none" if not configured

mainVars == <<main, result>>
listenVars == <<listener, acceptor, sem>>
connVars == <<conn, released>>
slotVars == <<open, waiting, active>>
vars == <<mainVars, ctxDone, timedOut, listenVars, connVars, slotVars, grpc, calls, mcp>>

Agent == "agent"
Slots == INSTANCE StreamSlots WITH
    Agents <- {Agent}, Streams <- Conns, MaxStreams <- [a \in {Agent} |-> MaxStreams]

\* Connections that net/http serves, and those among them within a request.
InRequest == {"busy", "asking", "streaming", "ending"}
Served == {c \in Conns : conn[c] \in InRequest \cup {"fresh", "idle"}}

\* Connections whose token limitedConn.Close has not put back.
Holding == {c \in Conns : conn[c] \in InRequest \cup {"fresh", "idle", "closed"} /\ ~released[c]}

Init ==
    /\ main = "start"
    /\ result = "none"
    /\ ctxDone = FALSE
    /\ timedOut = FALSE
    /\ listener = "off"
    /\ acceptor = "off"
    /\ sem = 0
    /\ conn = [c \in Conns |-> "out"]
    /\ released = [c \in Conns |-> FALSE]
    /\ Slots!Init
    /\ grpc \in {"none", "off"}
    /\ calls = {}
    /\ mcp \in {"none", "off"}

----------------------------------------------------------------------------
(* Start *)

Return(r) == main' = "returned" /\ result' = r

Listen ==
    /\ main = "start"
    /\ \/ /\ main' = "listening"
          /\ listener' = "open"
          /\ acceptor' = "token"
          /\ UNCHANGED result
       \/ Return("failed") /\ UNCHANGED <<listener, acceptor>>
    /\ UNCHANGED <<ctxDone, timedOut, sem, connVars, slotVars, grpc, calls, mcp>>

StartGRPC ==
    /\ main = "listening"
    /\ \/ grpc = "none" /\ main' = "grpcUp" /\ UNCHANGED <<result, grpc>>
       \/ grpc = "off" /\ main' = "grpcUp" /\ grpc' = "serving" /\ UNCHANGED result
       \/ grpc = "off" /\ Return("failed") /\ UNCHANGED grpc
    /\ UNCHANGED <<ctxDone, timedOut, listenVars, connVars, slotVars, calls, mcp>>

StartMCP ==
    /\ main = "grpcUp"
    /\ main' = "serving"
    /\ mcp' = IF mcp = "off" THEN "starting" ELSE mcp
    /\ UNCHANGED <<result, ctxDone, timedOut, listenVars, connVars, slotVars, grpc, calls>>

\* errCh: the accept loop gave up while nobody shuts the server down.
ServeError ==
    /\ main = "serving"
    /\ listener = "broken"
    /\ Return("failed")
    /\ UNCHANGED <<ctxDone, timedOut, listenVars, connVars, slotVars, grpc, calls, mcp>>

\* The same for the accept loop of the gRPC server, whose listener is its own.
GRPCServeError ==
    /\ main = "serving"
    /\ grpc = "serving"
    /\ Return("failed")
    /\ UNCHANGED <<ctxDone, timedOut, listenVars, connVars, slotVars, grpc, calls, mcp>>

Signal ==
    /\ ~ctxDone
    /\ ctxDone' = TRUE
    /\ UNCHANGED <<mainVars, timedOut, listenVars, connVars, slotVars, grpc, calls, mcp>>

----------------------------------------------------------------------------
(* Shutdown *)

\* The context is done: Shutdown begins with DrainAll, which closes the pool.
BeginShutdown ==
    /\ main = "serving"
    /\ ctxDone
    /\ Slots!Close
    /\ main' = "draining"
    /\ UNCHANGED <<result, ctxDone, timedOut, listenVars, connVars, grpc, calls, mcp>>

\* DrainAll returns because it saw no stream, or because its time is over.
Drained ==
    /\ main = "draining"
    /\ active[Agent] = {}
    /\ main' = "closing"
    /\ UNCHANGED <<result, ctxDone, timedOut, listenVars, connVars, slotVars, grpc, calls, mcp>>

DrainExpires ==
    /\ main = "draining"
    /\ main' = "closing"
    /\ UNCHANGED <<result, ctxDone, timedOut, listenVars, connVars, slotVars, grpc, calls, mcp>>

\* Mutant: only the drain has a deadline.
MutExpire ==
    /\ main = "draining"
    /\ ~timedOut
    /\ timedOut' = TRUE
    /\ UNCHANGED <<mainVars, ctxDone, listenVars, connVars, slotVars, grpc, calls, mcp>>

Expire ==
    /\ main \in {"draining", "closing", "polling", "grpcStop", "mcpStop"}
    /\ ~timedOut
    /\ timedOut' = TRUE
    /\ UNCHANGED <<mainVars, ctxDone, listenVars, connVars, slotVars, grpc, calls, mcp>>

InShutdown == listener = "closed"

CloseListener ==
    /\ main = "closing"
    /\ ~InShutdown
    /\ listener' = "closed"
    /\ UNCHANGED <<mainVars, ctxDone, timedOut, acceptor, sem, connVars, slotVars, grpc, calls, mcp>>

\* http.Server.Shutdown waits for its accept loop before anything else.
ServeReturned ==
    /\ main = "closing"
    /\ InShutdown
    /\ acceptor = "exited"
    /\ main' = "polling"
    /\ UNCHANGED <<result, ctxDone, timedOut, listenVars, connVars, slotVars, grpc, calls, mcp>>

\* Then it closes what is idle; the tokens of those connections come back.
CloseIdle ==
    /\ main = "polling"
    /\ \E c \in Conns : conn[c] = "idle"
    /\ conn' = [c \in Conns |-> IF conn[c] = "idle" THEN "closed" ELSE conn[c]]
    /\ released' = [c \in Conns |-> released[c] \/ conn[c] = "idle"]
    /\ sem' = sem - Cardinality({c \in Conns : conn[c] = "idle" /\ ~released[c]})
    /\ UNCHANGED <<mainVars, ctxDone, timedOut, listener, acceptor, slotVars, grpc, calls, mcp>>

HTTPStopped ==
    /\ main = "polling"
    /\ Served = {}
    /\ main' = "grpcStop"
    /\ UNCHANGED <<result, ctxDone, timedOut, listenVars, connVars, slotVars, grpc, calls, mcp>>

\* Mutant: the error of the HTTP server is logged and the shutdown goes on.
MutHTTPTimesOut ==
    /\ main = "polling"
    /\ timedOut
    /\ main' = "grpcStop"
    /\ UNCHANGED <<result, ctxDone, timedOut, listenVars, connVars, slotVars, grpc, calls, mcp>>

\* A server that does not stop in time ends the shutdown: gRPC and MCP are
\* left to the end of the process.
HTTPTimesOut ==
    /\ main = "polling"
    /\ timedOut
    /\ Return("timeout")
    /\ UNCHANGED <<ctxDone, timedOut, listenVars, connVars, slotVars, grpc, calls, mcp>>

\* GracefulStop takes no more calls and waits for the others, without a limit.
GracefulStop ==
    /\ main = "grpcStop"
    /\ \/ grpc = "serving" /\ grpc' = "stopping" /\ UNCHANGED main
       \/ grpc = "stopping" /\ calls = {} /\ grpc' = "stopped" /\ main' = "mcpStop"
       \/ grpc = "none" /\ UNCHANGED grpc /\ main' = "mcpStop"
    /\ UNCHANGED <<result, ctxDone, timedOut, listenVars, connVars, slotVars, calls, mcp>>

\* The MCP server is stopped, if it has got as far as to have a server; then
\* the card manager.
StopMCP ==
    /\ main = "mcpStop"
    /\ mcp' = IF mcp = "serving" THEN "stopped" ELSE mcp
    /\ Return("ok")
    /\ UNCHANGED <<ctxDone, timedOut, listenVars, connVars, slotVars, grpc, calls>>

----------------------------------------------------------------------------
(* The accept loop over limitedListener *)

\* l.sem <- struct{}{}: blocks while max_connections are held.
TakeToken ==
    /\ acceptor = "token"
    /\ sem < MaxConnections
    /\ sem' = sem + 1
    /\ acceptor' = "accept"
    /\ UNCHANGED <<mainVars, ctxDone, timedOut, listener, connVars, slotVars, grpc, calls, mcp>>

AcceptConn(c) ==
    /\ acceptor = "accept"
    /\ listener = "open"
    /\ conn[c] = "queued"
    /\ conn' = [conn EXCEPT ![c] = "fresh"]
    /\ released' = [released EXCEPT ![c] = FALSE]
    /\ acceptor' = "token"
    /\ UNCHANGED <<mainVars, ctxDone, timedOut, listener, sem, slotVars, grpc, calls, mcp>>

\* Mutant: the token of a failed Accept is not put back.
MutAcceptFails ==
    /\ acceptor = "accept"
    /\ listener' = IF listener = "open" THEN "broken" ELSE listener
    /\ acceptor' = "exited"
    /\ UNCHANGED <<mainVars, ctxDone, timedOut, sem, connVars, slotVars, grpc, calls, mcp>>

\* Accept fails for now (no file descriptors, a connection already aborted):
\* the token goes back, and net/http, unless it is shutting down, tries again.
AcceptRetries ==
    /\ acceptor = "accept"
    /\ listener = "open"
    /\ sem' = sem - 1
    /\ acceptor' = "token"
    /\ UNCHANGED <<mainVars, ctxDone, timedOut, listener, connVars, slotVars, grpc, calls, mcp>>

\* The listener has been closed, or breaks: the token goes back, Serve returns.
AcceptFails ==
    /\ acceptor = "accept"
    /\ listener' = IF listener = "open" THEN "broken" ELSE listener
    /\ sem' = sem - 1
    /\ acceptor' = "exited"
    /\ UNCHANGED <<mainVars, ctxDone, timedOut, connVars, slotVars, grpc, calls, mcp>>

----------------------------------------------------------------------------
(* A connection *)

Goto(c, label) == conn' = [conn EXCEPT ![c] = label]

Connect(c) ==
    /\ conn[c] = "out"
    /\ listener = "open"
    /\ Goto(c, "queued")
    /\ UNCHANGED <<mainVars, ctxDone, timedOut, listenVars, released, slotVars, grpc, calls, mcp>>

\* The client gives up, or the listener is gone.
LeaveQueue(c) ==
    /\ conn[c] = "queued"
    /\ Goto(c, "out")
    /\ UNCHANGED <<mainVars, ctxDone, timedOut, listenVars, released, slotVars, grpc, calls, mcp>>

LeaveIdle(c) ==
    /\ conn[c] \in {"fresh", "idle"}
    /\ Goto(c, "ending")
    /\ UNCHANGED <<mainVars, ctxDone, timedOut, listenVars, released, slotVars, grpc, calls, mcp>>

\* ReadHeaderTimeout, or five seconds during Shutdown, for a connection that
\* has not sent a request yet; a kept one may be idle without limit.
FreshTimesOut(c) ==
    /\ conn[c] = "fresh"
    /\ Goto(c, "ending")
    /\ UNCHANGED <<mainVars, ctxDone, timedOut, listenVars, released, slotVars, grpc, calls, mcp>>

BeginRequest(c) ==
    /\ conn[c] \in {"fresh", "idle"}
    /\ Goto(c, "busy")
    /\ UNCHANGED <<mainVars, ctxDone, timedOut, listenVars, released, slotVars, grpc, calls, mcp>>

\* A streaming request that finds the pool open waits for a slot; one that
\* finds it closed stays an ordinary request, answered with 429.
BeginStream(c) ==
    /\ conn[c] = "busy"
    /\ Slots!Arrive(c, Agent)
    /\ Goto(c, "asking")
    /\ UNCHANGED <<mainVars, ctxDone, timedOut, listenVars, released, grpc, calls, mcp>>

Admitted(c) ==
    /\ conn[c] = "asking"
    /\ Slots!Admit(c, Agent)
    /\ Goto(c, "streaming")
    /\ UNCHANGED <<mainVars, ctxDone, timedOut, listenVars, released, grpc, calls, mcp>>

Refused(c) ==
    /\ conn[c] = "asking"
    /\ Slots!Refuse(c, Agent)
    /\ Goto(c, "busy")
    /\ UNCHANGED <<mainVars, ctxDone, timedOut, listenVars, released, grpc, calls, mcp>>

EndStream(c) ==
    /\ conn[c] = "streaming"
    /\ Slots!Finish(c, Agent)
    /\ Goto(c, "busy")
    /\ UNCHANGED <<mainVars, ctxDone, timedOut, listenVars, released, grpc, calls, mcp>>

\* A response is complete: the connection is kept, unless the client wants it
\* closed or the server shuts down.
EndRequest(c) ==
    /\ conn[c] = "busy"
    /\ \/ Goto(c, "ending")
       \/ ~InShutdown /\ Goto(c, "idle")
    /\ UNCHANGED <<mainVars, ctxDone, timedOut, listenVars, released, slotVars, grpc, calls, mcp>>

\* Mutant: Close forgets the token.
MutKeepToken(c) ==
    /\ conn[c] \in {"ending", "closed"}
    /\ Goto(c, "out")
    /\ released' = [released EXCEPT ![c] = FALSE]
    /\ UNCHANGED <<mainVars, ctxDone, timedOut, listenVars, slotVars, grpc, calls, mcp>>

\* limitedConn.Close, called by the connection's goroutine on its way out.
CloseConn(c) ==
    /\ conn[c] \in {"ending", "closed"}
    /\ Goto(c, "out")
    /\ sem' = IF released[c] THEN sem ELSE sem - 1
    /\ released' = [released EXCEPT ![c] = FALSE]
    /\ UNCHANGED <<mainVars, ctxDone, timedOut, listener, acceptor, slotVars, grpc, calls, mcp>>

----------------------------------------------------------------------------
(* gRPC calls and the MCP server *)

BeginCall(k) ==
    /\ grpc = "serving"
    /\ calls' = calls \cup {k}
    /\ UNCHANGED <<mainVars, ctxDone, timedOut, listenVars, connVars, slotVars, grpc, mcp>>

EndCall(k) ==
    /\ calls' = calls \ {k}
    /\ UNCHANGED <<mainVars, ctxDone, timedOut, listenVars, connVars, slotVars, grpc, mcp>>

\* It listens, or fails to; it stops by itself as soon as the context is done.
RunMCP ==
    /\ \/ mcp = "starting" /\ mcp' \in {"serving", "stopped"}
       \/ mcp = "serving" /\ ctxDone /\ mcp' = "stopped"
    /\ UNCHANGED <<mainVars, ctxDone, timedOut, listenVars, connVars, slotVars, grpc, calls>>

----------------------------------------------------------------------------
Start == Listen \/ StartGRPC \/ StartMCP \/ ServeError

Shutdown ==
    \/ BeginShutdown \/ Drained \/ DrainExpires \/ CloseListener \/ ServeReturned
    \/ CloseIdle \/ HTTPStopped \/ HTTPTimesOut \/ GracefulStop \/ StopMCP

Accept == TakeToken \/ AcceptRetries \/ AcceptFails \/ \E c \in Conns : AcceptConn(c)

Client(c) == Connect(c) \/ LeaveQueue(c) \/ LeaveIdle(c) \/ BeginRequest(c)

Handler(c) ==
    \/ BeginStream(c) \/ Admitted(c) \/ Refused(c) \/ EndStream(c) \/ EndRequest(c)
    \/ FreshTimesOut(c) \/ CloseConn(c)

\* When Start has returned, main.go ends the process.
Next ==
    /\ main # "returned"
    /\ \/ Start \/ GRPCServeError \/ Signal \/ Shutdown \/ Expire \/ Accept \/ RunMCP
       \/ \E c \in Conns : Client(c) \/ Handler(c)
       \/ \E k \in Calls : BeginCall(k) \/ EndCall(k)

Spec == Init /\ [][Next]_vars

\* Goroutines are scheduled and timers fire; a blocked sender on sem gets the
\* next token that comes back, the kernel hands out connections in order, and
\* what makes Accept fail for now does not last.
\* Clients, requests, streams and calls need not end.
Fairness ==
    /\ WF_vars(Start)
    /\ WF_vars(Shutdown)
    /\ WF_vars(main # "returned" /\ Expire)
    /\ SF_vars(main # "returned" /\ TakeToken)
    /\ WF_vars(main # "returned" /\ InShutdown /\ AcceptFails)
    /\ \A c \in Conns : SF_vars(main # "returned" /\ AcceptConn(c))
    /\ \A c \in Conns : WF_vars(main # "returned" /\ (CloseConn(c) \/ Admitted(c) \/ Refused(c)))
    /\ \A c \in Conns : WF_vars(main # "returned" /\ FreshTimesOut(c))

FairSpec == Spec /\ Fairness

----------------------------------------------------------------------------
(* Properties *)

TypeOK ==
    /\ main \in {"start", "listening", "grpcUp", "serving", "draining", "closing", "polling",
                 "grpcStop", "mcpStop", "returned"}
    /\ result \in {"none", "ok", "failed", "timeout"}
    /\ ctxDone \in BOOLEAN /\ timedOut \in BOOLEAN
    /\ listener \in {"off", "open", "closed", "broken"}
    /\ acceptor \in {"off", "token", "accept", "exited"}
    /\ sem \in 0..MaxConnections
    /\ conn \in [Conns -> {"out", "queued", "fresh", "idle", "closed"} \cup InRequest]
    /\ released \in [Conns -> BOOLEAN]
    /\ open \in BOOLEAN
    /\ waiting \in [{Agent} -> SUBSET Conns] /\ active \in [{Agent} -> SUBSET Conns]
    /\ grpc \in {"none", "off", "serving", "stopping", "stopped"}
    /\ calls \in SUBSET Calls
    /\ mcp \in {"none", "off", "starting", "serving", "stopped"}

\* The semaphore counts the open connections and the one Accept waits for, so
\* that never more than max_connections are served: no token is lost with a
\* failed Accept, or put back twice by the two closes of a connection
\* (server.go:586-608).
TokensExact == sem = Cardinality(Holding) + (IF acceptor = "accept" THEN 1 ELSE 0)

\* A graceful end is one: no request, stream or call is left when Start
\* returns nil, and a slot is held by a streaming connection only
\* (server.go:303-338).
CleanExit ==
    /\ waiting[Agent] \cup active[Agent] = {c \in Conns : conn[c] \in {"asking", "streaming"}}
    /\ result = "ok" => Served = {} /\ active[Agent] = {} /\ calls = {}

\* A client waits in the queue only while max_connections others are served.
ConnectionsServed ==
    \A c \in Conns :
        []<>(\/ conn[c] # "queued" \/ listener # "open" \/ main = "returned"
             \/ Cardinality(Holding) = MaxConnections)

\* Shutdown ends, whatever streams and requests do: by the drain and its
\* deadline, by the HTTP server or the shutdown timeout.  It does not if a
\* gRPC call goes on for ever, or if the accept loop never gets a token back.
ShutdownEnds ==
    []<>(calls = {}) /\ []<>(sem < MaxConnections)
        => (main = "draining" ~> main = "returned")

\* server_test.go: Shutdown with an expired context returns its error.  The
\* wait for the accept loop comes before the context is looked at.
ShutdownKeepsDeadline ==
    grpc = "none" => (timedOut ~> main = "returned")
=============================================================================
