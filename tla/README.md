# A verification development for a2a-sentinel

a2a-sentinel is a gateway in front of A2A agents: it forwards HTTP, SSE and gRPC
requests to the backends, limits and authenticates them, keeps the backends' Agent
Cards, and lets an operator decide on card changes through an MCP server. This
directory holds TLA+ models of its stateful parts, the TLC configurations that check
them on small instances, and proofs for TLAPS.

All paths below are relative to the repository. Model-check with
`tlc -config X.cfg M`, prove with `tlapm XProofs.tla`; `PROJECT.json` lists the runs, the
theorems, the lines each definition stands for, and the hazards the properties are about.

## 1. The system

A request passes the security pipeline (a chain of middlewares), the router and a
proxy. Background goroutines poll the agents' cards, sweep the nonce store and the rate
limiters, and watch the configuration file. Shutdown drains the streams first and stops
the rest after.

| Component | State | Operations | Correct when | Module |
| --- | --- | --- | --- | --- |
| Stream manager `internal/proxy/streams.go` | map of int64 counters under `mu`, atomic `draining` | AcquireStream, ReleaseStream, ActiveStreams, DrainAll | counters exact, limit never exceeded, drain ends and misses nobody | `StreamManager`, `StreamSlots` |
| SSE proxy `internal/proxy/sse.go` | two goroutines, `lineCh`, idle timer, deferred calls | ProxyStream | lines in order and complete, slot given back on every way out, bounded read-ahead | `SSEStream`, `LineRelay` |
| Agent Card manager `internal/agentcard` | card and health per agent under `m.mu`, pending store under its own lock | poll, approve, reject, Stop | cards change only as the policy allows; health and cards catch up | `AgentCards` |
| Card signatures `internal/agentcard/jws.go`, `internal/security/jws.go` | JWKS cache | VerifyCardSignature | an unverified card stays out where it must | `AgentCards` (branches) |
| Replay detector `internal/security/replay.go` | `sync.Map` nonce to expiry | Process, CheckAndStore, cleanup | a nonce is new once per window; entries go away | `ReplayDetector` |
| Rate limiters `ratelimit_ip.go`, `ratelimit_user.go` | `sync.Map` of token buckets with last use | Process, cleanup | rate held per key, buckets not lost early | `RateLimiter` |
| Authentication, policies, SSRF checker, client address, protocol detection | configuration; atomically replaced policies | Process, Evaluate, UpdatePolicies, Detect | decisions as the code's order and matching say | `RequestChecks` (operators), `RequestPath` |
| Pipeline `security/pipeline.go`, handler `server.go`, router, HTTP proxy, health, gRPC `internal/grpc` | limiters and nonces per protocol, the agents' health | BuildPipeline, ServeHTTP, Route, Forward, interceptors, forwardUnary, StreamMessage | budgets held, nonces of admitted requests only, every check still true at the handler, routed where healthy | `RequestPath`, `Admission` |
| Server lifecycle `internal/server/server.go` | listeners, semaphore of `limitedListener` | Start, Shutdown, Accept, Close | tokens exact, nobody served when Start returns nil, shutdown ends | `GatewayLifecycle` |
| MCP server `internal/mcpserver` | `sync.Map` of sessions | initialize, tools, resources | a session where one is needed, a token where a card is decided on | `McpSessions`, operators of `AgentCards` |
| Configuration `internal/config` | none | ApplyDefaults, Validate, Load, Diff | what loads is usable, with the defaults filled in | `ConfigRules` |
| Configuration reload `internal/config/reload.go` | current configuration, watcher, debounce timer, subscribers | Start, Stop, Reload, the loop | subscribers agree with what is current; the last change is applied, as far as Diff compares | `ConfigReload` |
| Audit, errors, i18n, card aggregation, command line, migration | none that matters elsewhere | formatting, parsing | | not modelled |

Who talks to whom: the SSE proxy calls the stream manager around every stream; shutdown
calls `DrainAll`; the pollers and the MCP tools meet in the card manager; router, health
handler and aggregator read the card manager under its read lock; the middlewares share
the request and its context. The reloader is there with its tests, but no code of the
server constructs it. What is hard is: counters and flags touched without a common lock,
two goroutines and a timer around one channel, decisions split over two locks, stores that
are read and written without one, checks whose order decides what they see, and a file
that changes while it is read.

## 2. The modules

### StreamManager, StreamSlots

One element of `Streams` is a request handler, one extra goroutine runs `DrainAll`. A
step is one atomic operation or one critical section of `mu`.

| TLA+ | code |
| --- | --- |
| `entries`, `counter` | keys of `counts`, the int64 each points to |
| `CheckDraining`, `LookUp`, `Load`, `CompareAndSwap` | AcquireStream: flag, critical section, load and limit test, CAS and retry |
| `ReturnRefused` | ProxyStream answers 429 without a release |
| `ReleaseLookUp`, `ReleaseDecrement` | ReleaseStream |
| `StartDrain`, `Tick`, `Deadline` | DrainAll: the flag, its 100 ms ticker, the context |
| `BeginSum`, `ReadCounter`, `EndSum` | totalStreams, one map entry at a time, `mu` held |

`late` is a history variable: holders whose compare-and-swap came after the flag.
`StreamSlots` is the abstract pool, with atomic verdicts; `SlotsSpec` is the refinement
(open = not draining, waiting = handlers between check and verdict, active = holders).

### SSEStream, LineRelay

One call of `ProxyStream`: main goroutine, reader goroutine, `lineCh` with capacity 1,
`idleTimer`, the deferred calls in their order. A line is its position in the backend's
output. The four cases of the select are four actions, any ready one may run; the case of
a received value splits into a line, an error and the closed channel. `AcquireStream`
answers either way (StreamManager says when). The text of the events and the headers are
left out.

The client reads, stalls (`ClientStalls`, `ClientResumes`) or leaves. Writing a line and
writing the error event (`WriteLine`, `SendEvent`) are steps of their own, and nothing
bounds them while the client stalls: the server sets no write timeout
(`server.go:244-247`). `NoFlusher` is the way out with the backend's body open and no reader
running (`sse.go:108-115`).

`LineRelay` is the stream as its two ends see it, without goroutines, channel, timer and
deferred calls: lines are delivered one after the other as they were sent, while the slot
is held; the end has one cause, which must be there (`Interrupt` needs a broken backend or
a client that left, `Complete` every line delivered); an error event is the last thing
sent. `RelaySpec` is the refinement: held = `slot`, source = `backend`, delivered =
`written`, notice = `errorSent`, outcome = `result` once the error event is out; a stalled
client is connected to it. What the reader scans, what lies in
the channel and where the goroutines stand are stutters.

### AgentCards

A poller per agent: `Fetch` (the request and `fetchCard`, no lock) and one update action
per branch of `fetchAndUpdate` and `handleCardChange` (one critical section of `m.mu`). An
approval is `Approve` (the pending store's lock) and `Apply` (`m.mu`). `PendingStore.Add`
inside the update replaces the entry. A card is a pair: `shown`, the fields and counts
`DetectChanges` compares, and `rest`, what it does not look at (a skill replaced by
another is a change of `rest`). A response is a card in plain JSON or inside a JWS,
compact or JSON, that verifies or does not; `FetchCard` follows `fetchCard` branch by
branch, including the branch that unmarshals the raw body when verification failed and
`require` is off. Key fetching is part of the environment: a key set that cannot be had
is a signature that does not verify.

The bridge shows an operator only how many fields changed and whether one is critical;
`reviewed` is therefore at least as much as an operator could have seen.

### ReplayDetector

Handler goroutines that run `Process` for one request after another, and the sweep. Each
clock reading, load, store and delete is a step of its own. A stamp is the timestamp
header, absent, unparsable or a tick; a nonce fixes its stamp, since requests with one
nonce are copies of one message. `stored`, `prior` and `since` are history.

### RateLimiter

The middleware of `ratelimit_ip.go`; `ratelimit_user.go` repeats it with another key, and
lets a request without a subject through before anything is touched. A handler reads the
clock, loads its key's entry or stores a new one (`LoadOrStore`), stamps it and asks the
bucket; the sweep visits one key at a time, its look and its delete being two steps. The
clock is a sequence of ticks and instants are kept as ages, so the state stays finite
however long the gateway runs. `MaxRequest` and `MaxSweep` bound the ticks between a
goroutine's clock reading and its last step, and are part of `IdleIsFull`, the assumption
under which the sweep is harmless: a bucket is full before it is old enough to go.
A sweep may begin at any time, not only every `cleanup_interval`.

`allowance` is history: for each key the ideal bucket, with the same burst and rate, which
nothing ever replaces. `met` holds the requests that got hold of a bucket the sweep had
found idle, or held it when it did; they spend the old bucket while the next one starts
full, so they are the ones the ideal bucket does not count. The window is the few
instructions between `entry.lastSeen.Load()` and `Delete`.

### GatewayLifecycle

The goroutine that runs `Start` and then `Shutdown`, the accept loop of net/http over
`limitedListener`, a goroutine per connection, the gRPC server and the MCP server. Stream
slots are an instance of `StreamSlots` with one agent: the manager implements that pool
(`SlotsSpec`), so its atomic verdicts stand for the whole acquisition.

| TLA+ | code |
| --- | --- |
| `main` | where Start and Shutdown stand; `result` is what Start returned |
| `sem`, `TakeToken`, `AcceptConn`, `AcceptRetries`, `AcceptFails` | `limitedListener.sem` and its Accept: an error gives the token back, a temporary one is retried by net/http |
| `conn[c]` | out, queued by the kernel, fresh (no request yet), idle (kept alive), busy, asking for a stream slot, streaming, ending, closed by Shutdown |
| `released`, `CloseConn` | `limitedConn.closed` and Close; `CloseIdle` is the earlier close by Shutdown |
| `BeginShutdown`, `Drained`, `DrainExpires` | DrainAll, with and without an error (which is only logged) |
| `CloseListener`, `ServeReturned`, `CloseIdle`, `HTTPStopped`, `HTTPTimesOut` | `http.Server.Shutdown` as far as server.go depends on it |
| `GracefulStop`, `StopMCP`, `RunMCP` | the rest of Shutdown; the MCP server also stops by itself when the context is done |

The gateway goes on accepting connections and requests while it drains; it refuses
streams only. gRPC streams do not pass the stream manager, so neither `max_streams` nor
the drain knows of them, and `GracefulStop` waits for them without a limit. When Start
returns, `main.go` ends the process, and whatever is left ends with it; that is why `Next`
stops there. The pollers and the card manager's Stop are in `AgentCards`.

### RequestChecks, RequestPath, Admission

`RequestChecks` has no state: it says what the gateway decides about one request. Client
address, the three authentication modes, matching, sorting and evaluation of policies, push
notification URLs, the protocol binding, and the request the gRPC interceptors make up are
operators on a record that holds what parsing makes of a request. Texts, networks and
tokens are members of small sets; what the decision turns on is kept (a body beyond the
64 KB that are peeked at, a body the client fails to deliver, an `X-Forwarded-For` entry
that is no address, a signature that does not verify).

`RequestPath` lets requests go through the gateway beside each other.

| TLA+ | code |
| --- | --- |
| `BuildPipeline`, `Onward` | pipeline.go: which middlewares there are and in which order; `next.ServeHTTP` |
| `GlobalLimit`, `IPLimit`, `UserLimit` | the buckets as tokens that do not refill: requests come close together |
| `ReadPolicies`, `Judge`, `UpdatePolicies` | PolicyGuard reads the engine's policies (one atomic load) and then judges with them |
| `CheckNonce`, `StoreNonce` | the nonce is looked up and stored, as in ReplayDetector |
| `RouteSingle`, `RoutePathPrefix`, `RouteDefault` | two looks at the health of two agents, the pollers in between |
| `Forward`, `ProxyStream`, `ForwardUnary`, `AnswerCall`, `StreamMessage` | the proxies by their outcome |
| `global[p]`, `perIP[p]`, `perUser[p]`, `nonces[p]` | HTTP and gRPC build a pipeline each |

`Admission` is what the agents are promised of all this: requests are let in one at a time,
each in one step that finds room in every budget and charges them all; a request is served
only after that (or aside, for health and metrics), refused only before, answered once,
and no refusal looks like a success. `AdmissionSpec` maps "admitted" to having the whole
pipeline behind one. In the code the buckets are asked at up to three different moments,
requests overtake each other in between, and a token is spent on requests that a later
middleware refuses.

The assumptions say what the constants stand for: finitely many requests, each a record of
the fields that parsing gives, from one of the two protocols; bursts in `Nat` (a limiter
with 0 is left out, `pipeline.go:64`); finite sets of policies with whole priorities; and
that `NoAgent` is the name of no agent (an empty name does not pass Validate).

### McpSessions

Handler goroutines of `handleRPC`, split where another request can come in between: the
session check, the dispatch, the opening of a session and the reply. The sessions are a
`sync.Map`, one load, range or store at a time and no lock around them. A request presents
no id, one that was handed out (before a restart, too) or one that never was (`Foreign`). Every method, tool and resource is there by its outcome, with its parameters good,
bad or undecodable. A restart of the gateway empties the session map and the pending store
and ends the requests in flight; ids come from `rand.Read`, so none comes twice.

### ConfigRules, ConfigReload

`ConfigRules` translates `ApplyDefaults`, `Validate`, `Load` and `Diff` as operators on a
parsed file: a function from the settings it gives to values, and the sequence of agents.
A setting with Go's zero value cannot be told from one that is absent, and is absent here;
an empty list can, since `Diff` compares lists with `reflect.DeepEqual`.

`ConfigReload` is the reloader: its loop over signals, watcher events and the debounce
timer, and `Reload` in its steps (read, compare, store, notify one subscriber after the
other) by the loop and by other callers, with nothing that keeps two of them apart. The
file system is an adversary: files are written in place, moved away, removed, replaced and
created, and the watch follows the file and not the name, as fsnotify does.

## 3. The runs

| Run | Instance | Distinct states | Shows |
| --- | --- | --- | --- |
| `streams` | 2 agents (limits 1 and 2), 3 handlers, 1 drain | 111,356 | `CounterIsHolders`, `LimitRespected`, `DrainedExceptLate`, `DrainSettles`, `SlotsSpec` |
| `sse` | at most 6 lines | 15,407 | `LinesInOrder`, `SilentEndIsWhole`, `SlotCoversBackend`, `BoundedReadAhead`, `ReaderGoneAfterEnd`, `HandlerReturns`, `RelaySpec` |
| `cards` | 1 agent, 2 operators, 3 cards, 7 bodies, 2 changes of the backend | 815,670 | `OnlySanctioned`, `VerifiedWhenRequired`, `HealthSettles`, `AutoCatchesUp`, `ChangeIsOffered` |
| `cards_review` | same | violation | `ApprovedAsReviewed` |
| `replay` | 2 handlers, 1 nonce, window 1, skew 1, clock 0..3, stamps 0..2 | 1,315,609 | `NewUnlessForgotten`, `ForgottenWhenStale`, `ReplayHasOriginal`, `ExpiredForgotten` |
| `limiter` | 2 handlers, 1 key, burst 2, rate 1, interval 3, requests and sweeps of at most 1 tick | 73,526 | `RateHeld`, `NeverStricter`, `IdleForgotten` |
| `gateway` | 3 connections, limit 2, 1 gRPC call, 1 stream slot | 66,528 | `TokensExact`, `CleanExit`, `ConnectionsServed`, `ShutdownEnds` |
| `gateway_shutdown` | same | violation | `ShutdownKeepsDeadline` |
| `requests` | 2 requests of 10 shapes, 3 configurations, 2 agents, 2 sets of policies, 1 change of health, 1 update of the policies | 425,523 | `BudgetHeld`, `NonceOfAdmitted`, `HandledIsChecked`, `JudgedByOneSet`, `RoutedWhereHealthy`, `AdmissionSpec` |
| `requests_policy` | same, one policy on a method | violation | `DeniedNotServed` |
| `mcp` | 2 handlers, 18 calls, 1 agent, 2 sessions, 1 foreign id, 2 card changes, 1 restart | 2,602,240 | `SessionRequired`, `SessionKept`, `DecidedByOperator` |
| `reload` | 1 caller beside the loop, 2 subscribers, 4 files, 2 edits, 1 signal | 752,801 | `AgreeUnlessOverlapped`, `OnlyUsable`, `ComparedSettle` |

What the properties mean is said above each of them. The type invariants of StreamManager,
GatewayLifecycle, RateLimiter, ReplayDetector, SSEStream, AgentCards and RequestPath are
proved and no longer run.

**Why these bounds are enough.** *streams*: three handlers give a lost
compare-and-swap race on an agent with a free second slot, a refusal by one agent while
the other has room, and a late stream beside two regular ones; the proofs cover every
other size. *sse*: with six lines there are two more than the channel and the two
goroutines hold together, and each goroutine can be behind by as much as the code
allows. *cards*: agents share nothing but locks held for one action, so one is enough;
two operators can hold two approvals at once, and two changes of the backend can replace a
pending change and take it back. Two cards that differ only in `rest` are there for
`DetectChanges`, and every form of body verifies or fails. *replay*: two handlers can
overlap each other and the sweep; nonces are independent keys of the map; with window 1 and
the clock up to 3 an entry is stored, expires, is renewed and expires again. *limiter*: keys
share nothing but the sweep, so one is enough; two handlers race to store its bucket, stamp
it in the wrong order and meet the sweep, and one more than burst is refused. The interval
is the shortest that satisfies `IdleIsFull`. *gateway*: with three connections and
max_connections 2 one client waits for a token, and with one slot one stream is refused
while another goes on. *requests*: the properties relate two requests (one spends what
the other wanted, one nonce comes twice), or one request and one change of health or of
the policies during it; the ten shapes take every branch of both protocols and the health and metrics paths, and the
three configurations have each middleware in and out. *mcp*: two handlers race to open the
first session and to decide one change; ids that are missing, held, lost or foreign come
before and after; a second change and a second session show a later
one after a restart. *reload*: two Reloads overlap, two subscribers can be told apart, one
edit can come during the reload of another, and the files differ in a setting, in their
agents, in what `Diff` does not see, or do not load.

**Deadlock** is checked for `streams`, `limiter`, `replay`, `requests` (where all requests
being answered is the one place to stop, `Finished`), `mcp` and `reload`; a finished SSE
request, a stopped card manager with nothing pending and a process that has ended have no
more steps, so those configurations turn it off.

**Fairness.** Goroutines that can run are scheduled, tickers tick, an armed timer fires and
the clock goes on (requests need not arrive: `IdleForgotten` allows for a key that always
has one under way). A compare-and-swap loop gets weak fairness per handler: a retry is lost
only to another handler's success. `Deadline` is strongly fair, since the drain goes in and
out of its wait while the deadline runs. A card fetch ends because its HTTP client has a
timeout. Go wakes a goroutine blocked on a full channel in the order of arrival, so
`TakeToken` is strongly fair, and the kernel hands out queued connections in order, so is
`AcceptConn`; a fresh connection is cut off by `ReadHeaderTimeout`. There is no fairness
for clients, backends and operators, nor for a stream's end, nor for `client.Do` in
ProxyStream, which has no deadline; `HandlerReturns` therefore starts at the select loop,
and rests on the finite `MaxLines`: a backend that sends for ever is served for ever. A
write to the client is fair only while the client is not stalled, and `HandlerReturns` has
the premise that it does not stall for good (it may leave); without that premise it
does not hold (section 5). In
ConfigReload only the loop's own goroutine is fair: no signal, edit, or other caller has to
come or to finish, so `ComparedSettle` says nothing where Reloads overlapped. RequestPath and
McpSessions state no liveness, and no fairness.

## 4. What is proved

`StreamManagerProofs`, for any `Agents`, any finite set `Streams` (`StreamsFinite`) and any
limits in `Nat` (`MaxStreamsNat`: `max_streams` is not validated, but 0 becomes 10, and a
negative one refuses every stream as 0 would):

| Theorem | States |
| --- | --- |
| `TypeCorrect` | `Spec => []TypeOK`; in particular no counter is negative |
| `CounterCorrect` | `Spec => []CounterIsHolders` |
| `LimitCorrect` | `Spec => []LimitRespected` |
| `DrainCorrect` | `Spec => []DrainedExceptLate` |
| `ManagerImplementsSlots` | `Spec => SlotsSpec` |

The inductive invariant `IInv` adds to these what the code keeps between its steps. The
limit alone is not inductive: a handler about to swap must have loaded a value below the
limit (`SeenBelowLimit`), and the counter it compares with must be the number of holders
(`CounterExact`). The counter equals the holders only if no entry is created over an
existing one, hence `Entered`: whoever is past the map has its agent in `entries`. For the
drain, `SumSound` says that while the running sum is zero the agents already visited have
late holders only, and `DrainFlag` ties the flag to the drain's program counter, so that a
slot granted during the sum is a late one. `Invariance` proves `IInv` action by action; the
lemmas before it say how `Holders(a)` and its cardinality move under a grant, a release
and any other step. The refinement maps the granting swap to `Admit`, the load that
refuses to `Refuse`, the draining check to `Arrive`, the flag to `Close`, and everything
else to a stutter.

`GatewayProofs`, for any finite set of connections (`ConnsFinite`), any calls and a positive
`max_connections` (`MaxConnectionsPositive`; Validate demands it):

| Theorem | States |
| --- | --- |
| `TypeCorrect` | `Spec => []TypeOK` |
| `TokensCorrect` | `Spec => []TokensExact` |
| `ConnectionsLimited` | `Spec => []ConnectionLimit`: at most `max_connections` are served |
| `ExitCorrect` | `Spec => []CleanExit` |
| `GatewayUsesSlots` | `Spec => Slots!Spec`: the slots are used as StreamSlots has it |
| `StreamsLimited` | `Spec => []StreamLimit`: at most `max_streams` stream |
| `DrainOnlyEmpties` | once draining, the pool stays closed and no stream joins |
| `ShutdownHeldUpAtLimit` | `Spec => []HeldUpAtLimit` |

Here the invariant adds `ReleasedOnce` (only a connection that Shutdown closed has given
its token back before its goroutine ends; without it a served connection could be one that
no longer counts), `SlotsMatch` (slots and connections agree) and `Stages`, what each stage
of Shutdown has achieved for good: the accept loop is over before idle connections are
closed, nobody is served any more when gRPC is stopped, no call is left when MCP is. The
connection lemmas say by how much each action changes the number of holders;
`KeepingInvariant` covers all steps of a connection that stays open at once.

`GatewayUsesSlots` closes the chain from the compare-and-swap loop to the shutdown: the
manager implements `StreamSlots` (`ManagerImplementsSlots`), the gateway is a user of
`StreamSlots`, and the limit and the drain follow from the pool alone (`SlotsKeepLimit`; for
them `max_streams` is in `Nat`, `MaxStreamsNat`). `HeldUpAtLimit` is the safe half of
`ShutdownEnds` and the explanation of the run `gateway_shutdown`: while Shutdown waits for
the accept loop, that loop can move, or every one of `max_connections` is held by an open
connection.

`RateLimiterProofs`, for any keys and requests, any burst, rate and interval:

| Theorem | States |
| --- | --- |
| `TypeCorrect` | `Spec => []TypeOK`; no bucket is overdrawn or overfull |
| `RateCorrect` | `Spec => []RateHeld` |
| `NeverStricterCorrect` | `Spec => NeverStricter` |

Assumed are `IdleIsFull`, and that there is always a bucket nobody has (`EnoughBuckets`,
memory). `RateHeld` says nothing of the map, so the invariant ties the ideal bucket to the
real ones: `Spent`, the bucket in the map holds exactly the allowance, and a key without
one has a full allowance. For the delete to keep that, the bucket must be full, which is
`Refilled` (a bucket last seen u ticks ago has gained at least its rate times u, less two
request lengths) with `LatelySeen` (nobody takes a token later than that); and nobody but
the requests in `met` may still use it, which is `Judged`, `Current` and `MetHold`.
`Apart` keeps the keys from each other's buckets.

`SSEProofs`, for streams of any length:

| Theorem | States |
| --- | --- |
| `TypeCorrect` | `Spec => []TypeOK`: never more than one element in the channel |
| `OrderCorrect` | `Spec => []LinesInOrder` |
| `SilentEndCorrect` | `Spec => []SilentEndIsWhole` |
| `SlotCorrect` | `Spec => []SlotCoversBackend` |
| `ReadAheadCorrect` | `Spec => []BoundedReadAhead` |
| `ReaderCorrect` | `Spec => []ReaderGoneAfterEnd` |
| `StreamImplementsRelay` | `Spec => RelaySpec` |

`Account` counts where every scanned line is, `Handler` and `Reading` tie slot, body, result
and channel to the program counters of the two goroutines, and `WhyStopped` says why the
reader stopped: at the backend's end, or with an error that is still in the channel until
the handler has a result. `Order` adds which line is where; that the pieces put together
are the first `nread` lines is sequence algebra (`NextLine`). For the refinement two more are
needed: `Begun` (before the backend answers nothing is sent, while the loop runs the body is
open and the slot held, and no more is scanned than sent) and `Blame` (a read error in the
channel or in the reader's hand has a cause outside the gateway), since an abstract
`Interrupt` must find that cause long after the reader met it.

`RequestProofs`, for any requests, agents, policies and configurations, and any bursts:

| Theorem | States |
| --- | --- |
| `Inductive` | `Spec => []IInv`, the invariant the others follow from |
| `TypeCorrect` | `Spec => []TypeOK` |
| `BudgetCorrect` | `Spec => []BudgetHeld` |
| `NonceCorrect` | `Spec => []NonceOfAdmitted` |
| `CheckedCorrect` | `Spec => []HandledIsChecked` |
| `JudgedCorrect` | `Spec => JudgedByOneSet` |
| `RoutedCorrect` | `Spec => RoutedWhereHealthy` |
| `PipelineImplementsAdmission` | `Spec => AdmissionSpec` |
| `RoutePoliciesNeverMatch` | a policy on methods or agents matches only without either |
| `ClientAddress` | what `TrustedClientIP` returns, whatever the entries |

The pipeline has one order for every configuration (`PipelineInOrder`), so what a request
has passed is settled by the middleware it stands at (`PassedInOrder`). A step either stands
still or passes one middleware (`StepPasses`), and three middlewares touch a bucket. On that
rest the parts of `IInv`:

- `RequestsOK`: where a request stands agrees with what it has passed, its answer and its
  target.
- `Spent`: in every bucket the tokens left and the requests that took one add up to the
  burst. `BudgetHeld` is about the requests behind the whole pipeline; those are among the
  takers, but the step that takes the last of them there touches no bucket, so `BudgetHeld`
  alone is not inductive. That an address has a bucket, and a user, is `ClientIPAddress`
  and `AuthenticatedUser`.
- `HistoriesOK`: a guard about to judge has read an order of policies that were installed
  while it judges, and a request on its way to the default agent was routed past an agent
  that was down. `EvaluateMayDecide` then says that whatever order `sort.Slice` left
  policies of equal priority in, one of the highest priority that match decides.

`HandledIsChecked` is kept by `Checked`, which follows each check from its middleware on
(`WhoPasses`: no middleware is passed but by its own action), with the nonce between its
look-up and its store. `Unrouted` gives `RoutePoliciesNeverMatch`, of which the run
`requests_policy` shows one case.

In the refinement a request is admitted by the step behind its last middleware, when its
tokens have long been taken. That every budget has room just then is read off the state
after the step, where `BudgetHeld` holds with the request counted (`LastPassAdmits`); that
who it is admitted as is who was charged, from `AuthEffect`: only authentication changes the
user, and it stands before the user's bucket.

`AgentCardProofs`, for any agents, operators, cards and bodies:

| Theorem | States |
| --- | --- |
| `TypeCorrect` | `Spec => []TypeOK` |
| `SanctionedCorrect` | `Spec => []OnlySanctioned` |
| `VerifiedCorrect` | `Spec => []VerifiedWhenRequired` |

A change travels from the poller through the pending store and an operator to the card in
use, and the invariant says what holds of it at each stop (`Polling`, `Waiting`,
`Travelling`, `InUse`). `FirstMeans` is needed because the first card of an agent is taken
without a policy: no agent must come to be without a card again.

`ReplayProofs`, for any handlers and nonces, any skew and any window of at least one tick:

| Theorem | States |
| --- | --- |
| `TypeCorrect` | `Spec => []TypeOK` |
| `NewCorrect` | `Spec => []NewUnlessForgotten` |
| `ForgottenCorrect` | `Spec => []ForgottenWhenStale` |
| `ReplayCorrect` | `Spec => ReplayHasOriginal` |

`StoreIsHistory` relates the map to what was ever stored in it, `LoadedIsHistory` what a
handler found to what was there when it looked, and `AcceptedStamp` bounds the age of the
timestamp of a handler that got past it. `ForgottenWhenStale` bounds when a nonce can be new
a second time: from its expiry, for as long as the timestamp was ahead of the first check
and the second handler dawdles. The bound is closed: with neither, the instant of the expiry
is left (section 5).

`OperatorProofs`, on McpSessions for any handlers, calls, agents and session ids, and any
number of restarts:

| Theorem | States |
| --- | --- |
| `RequiredCorrect` | `Spec => []SessionRequired` |
| `KeptCorrect` | `Spec => []SessionKept` |
| `DecisionCorrect` | `Spec => DecidedByOperator` |

In `SessionRequired` the id of a request is one it came with, so the look-up in the
server's map is what keeps foreign and lost ids out. `HandedOut` and `FirstMeans` say where every session ever issued is, and that there was
none when a request came that is served without; `TrustedMeans` what it takes to be
trusted, which the list of tools in `Denied` then turns into `DecidedByOperator`.

and on ConfigRules and ConfigReload for any files, callers and subscribers, and any number
of edits:

| Theorem | States |
| --- | --- |
| `UsableCorrect` | `ReloadSpec => []OnlyUsable` |
| `AgreementCorrect` | `ReloadSpec => []AgreeUnlessOverlapped` |

`LoadedUsable` follows a file through the defaults and the checks to what is usable; it is not
the whole of what the gateway needs (section 5). `Told` says how far the one Reload that notifies has come; `OneAtATime` that there is one
while `overlapped` is false.

All theorems hold for every value of the bounds (`MaxDeploys`, `MaxLines`, `MaxTime`,
`MaxEdits`, ...), which are there for TLC only.

Only model-checked: liveness, which is out of reach of the prover (`DrainSettles`,
`HandlerReturns`, `HealthSettles`, `AutoCatchesUp`, `ChangeIsOffered`, `ExpiredForgotten`,
`IdleForgotten`, `ConnectionsServed`, `ShutdownEnds`, `ComparedSettle`), and the three runs
that end in a violation. Every safety property of a passing run is a theorem. Induction over
data is out of reach too, but not the least element of a set of numbers: `Least` and
`Greatest` take it from the well-foundedness of `<` on `Nat`, as a fact about sets.

## 5. Where the code and its documents disagree

1. `cards_review`: an approval names an agent, not the change that was reviewed.
2. `gateway_shutdown`: at `max_connections` the accept loop blocks in `sem` (`server.go:587`)
   where closing the listener does not wake it; `http.Server.Shutdown` waits for that loop
   before it looks at its context, so requests that go on keep Shutdown past any timeout.
   `ShutdownEnds`, which holds, has the return of a token as a premise.
3. `requests_policy`: the policy guard runs before protocol detection and routing, so a
   policy on agents or methods is compared with the URL path and the empty string
   (`policy_guard.go:82`), where `policy.go:22-23` has agent names and A2A methods.

Seen on the way, without a run of their own.

Streams, cards and nonces:
- The goroutine that watches the idle timer also writes to the client (`sse.go:209`), and
  the server has no write timeout. A client that stops reading without leaving blocks that
  write, the timer fires unseen, and the slot stays taken, where ARCHITECTURE.md:811 has the
  idle timeout close the stream and `sse.go:49` speaks of reliable detection. Hence the
  premise of `HandlerReturns`.
- A request past the draining check gets its slot even after `DrainAll` returned nil
  (`streams.go:30`); `late` in StreamManager is exactly that.
- `sse.go:155` sends without watching the context: the reader of a stream that the client
  or the idle timer ended can block for good.
- `require: true` without a JWKS URL accepts unsigned cards (`poller.go:123`), where
  ERRORS.md says they fail.
- The nonce sweep deletes by key and can take an entry that was just renewed
  (`replay.go:76`); `NewUnlessForgotten` allows for it.
- A request is too old when older than the window (`replay.go:268`, `>`), its nonce is
  forgotten as soon as it is as old (`replay.go:50`, `Before`): in the one instant between, it
  is accepted twice. `ForgottenWhenStale` has this instant in it.
- ARCHITECTURE.md:1293 has new connections stopped before the drain, where the code accepts
  them until after it; ARCHITECTURE.md:810 speaks of a channel of 100 to 200 events where
  the code has one line.

Requests:
- Policies are sorted by descending number (`policy_engine.go:105`, and `policy.go:15`), where
  ARCHITECTURE.md:361 and SECURITY.md:536 have the lowest number evaluated first: of an allow
  with 20 and a deny with 10 the allow wins. `JudgedByOneSet` has the order of the code.
- ARCHITECTURE.md:385 and :844 let gRPC share the token buckets of HTTP; there are two
  pipelines (`server.go:193-195`, `419-420`), with nonces and limits of their own.
- The synthetic request of the interceptors has the content type of gRPC and no body, so the
  replay detector skips it and the SSRF checker sees no push notification URL.
- A gRPC stream takes no stream slot. A JSON-RPC stream request of more than 64 KB is not
  recognised as one, and goes through Forward.
- A nonce is stored before the SSRF check, routing and forwarding: the retry of a request
  that failed there is a replay.
- `policy_engine.go:147-148` describes negated addresses otherwise than the code, where the
  first pattern that matches decides. Policies look at the peer's address, the rate limiter
  at the one behind trusted proxies.
- `UpdatePolicies` is not called by the server.
- The health paths are the configured ones, and bypass the pipeline (`server.go:427-428`); the
  health handler knows `/healthz` and `/readyz` only, and answers 404 at any other
  (`handler.go:48-55`).
- SECURITY.md:842 has all requests logged; refusals of the pipeline, and gRPC
  (ARCHITECTURE.md:387), are not audited.

MCP and configuration:
- Requests without a session are served as long as there is none, where
  ARCHITECTURE.md:591 requires one. Sessions are never removed. Without a configured token
  `tools/list` shows tools that are then refused.
- `Diff` does not look at policies, so a file in which only they changed is read and dropped
  (`reload.go:124-127`), where ARCHITECTURE.md:363, :947 and SECURITY.md:608 have them
  reloaded. `ComparedSettle` is about what `Diff` compares. Nor does `Diff` look at
  `mcp.auth.token`, `logging.output`, `grpc_url` and `allow_insecure`. Where :934 skips
  fields that need a restart, the new configuration is stored whole.
- A file replaced by moving another over it gives a remove event, which the loop ignores,
  and the watch is lost; a write between the initial Load and Start is not seen; `Stop`
  after a failed `Start` waits for ever. Duplicate agent names pass `Validate`,
  and so does `mcp.port` equal to `listen.port`. A negative `cleanup_interval` passes too, and
  `time.NewTicker` panics at it (`ratelimit_ip.go:96`, `ratelimit_user.go:100`,
  `replay.go:64`).

## 6. Not modelled, and why

Audit, metrics, errors, messages: counters and formatting that nothing else reads. Card
aggregation: a pure function of one snapshot of the cards. Command line and migration:
sequential I/O. Generated protobuf code. The conversions of `grpc/translate.go`: one message
into another, without state. Inside modelled parts: SSE text, header filters, JSON and YAML,
cutting a nonce out of a body, cryptography, DNS, address arithmetic. `Stop` of the replay
detector and of the rate limiters, which nothing in the server calls.

Abstractions a reader should know of: buckets do not refill and nonces do not expire in
RequestPath (RateLimiter and ReplayDetector have that part), an approval is one step in
McpSessions (AgentCards has its two), a stream slot is atomic in GatewayLifecycle
(StreamManager implements it).

Hazards without a property, with the reason, are in `PROJECT.json`: a backend that never
answers the request of a stream, a reader left behind by a stream that its client or the
idle timer ended, a pending change nobody withdraws, a change `DetectChanges` cannot see, a
gRPC call that never ends under `GracefulStop`, overlapping Reloads, what `Diff` does not
compare, and a
`cleanup_interval` that does not satisfy `IdleIsFull`.

## 7. What could come next

- Abstract specifications for the replay detector (a ledger of nonces, each new once per
  window but for the allowances `NewUnlessForgotten` makes) and for the card manager (the
  custody of a card from the backend to its use), with refinement proofs as for Admission.
- A refinement of RequestPath's nonce steps by ReplayDetector, and of its buckets by
  RateLimiter, as `SlotsSpec` relates StreamManager and StreamSlots.
- The server as a subscriber of the reloader, once it constructs one: requests judged under
  the old and the new configuration at once.
