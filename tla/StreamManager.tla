--------------------------- MODULE StreamManager ---------------------------
(***************************************************************************)
(* internal/proxy/streams.go: the per-agent limit on concurrent SSE        *)
(* streams, and the drain that graceful shutdown waits for.                *)
(*                                                                         *)
(* Each element of Streams is a request handler that calls AcquireStream,  *)
(* holds a slot while it streams and calls ReleaseStream on its way out;   *)
(* a handler that has returned stands for the next request.  One more      *)
(* goroutine runs DrainAll.  Steps are the points at which goroutines can  *)
(* interleave: an atomic load, store, add or compare-and-swap, or a        *)
(* critical section of mu.  Only totalStreams holds mu across several      *)
(* steps, so "mu is taken" is drain = "summing".                           *)
(***************************************************************************)
EXTENDS Integers, FiniteSets

CONSTANTS
    Agents,      \* names of the configured agents
    Streams,     \* request handlers
    MaxStreams   \* MaxStreams[a]: the max_streams setting of agent a

ASSUME StreamsFinite == IsFiniteSet(Streams)
ASSUME MaxStreamsNat == MaxStreams \in [Agents -> Nat]

VARIABLES
    entries,     \* keys of the map counts
    counter,     \* counter[a]: the int64 behind counts[a]
    draining,    \* the atomic flag
    pc,          \* pc[s]: where handler s stands
    agent,       \* agent[s]: the agent handler s asked for
    seen,        \* seen[s]: `current` in the compare-and-swap loop
    drain,       \* where the DrainAll goroutine stands
    unread,      \* keys totalStreams has still to visit
    total,       \* totalStreams' running sum
    late         \* history: slots granted after draining was set, still held

vars == <<entries, counter, draining, pc, agent, seen, drain, unread, total, late>>
drainVars == <<drain, unread, total>>

----------------------------------------------------------------------------
Acquiring == {"checked", "lookedUp", "loaded"}
Holding == {"holding", "releasing"}

\* Handlers between the draining check and the verdict, and slot holders.
Waiting(a) == {s \in Streams : pc[s] \in Acquiring /\ agent[s] = a}
Holders(a) == {s \in Streams : pc[s] \in Holding /\ agent[s] = a}

\* ActiveStreams: what the MCP bridge reports for agent a.
ActiveStreams(a) == IF a \in entries THEN counter[a] ELSE 0

MuFree == drain # "summing"

Goto(s, label) == pc' = [pc EXCEPT ![s] = label]

Init ==
    /\ entries = {}
    /\ counter = [a \in Agents |-> 0]
    /\ draining = FALSE
    /\ pc = [s \in Streams |-> "idle"]
    /\ agent \in [Streams -> Agents]
    /\ seen = [s \in Streams |-> 0]
    /\ drain = "idle"
    /\ unread = {}
    /\ total = 0
    /\ late = {}

----------------------------------------------------------------------------
(* AcquireStream *)

\* Mutant: the draining flag is not looked at.
MutCheckDraining(s, a) ==
    /\ pc[s] = "idle"
    /\ agent' = [agent EXCEPT ![s] = a]
    /\ Goto(s, "checked")
    /\ UNCHANGED <<entries, counter, draining, seen, drainVars, late>>

\* if sm.draining.Load() { return false }
CheckDraining(s, a) ==
    /\ pc[s] = "idle"
    /\ agent' = [agent EXCEPT ![s] = a]
    /\ Goto(s, IF draining THEN "refused" ELSE "checked")
    /\ UNCHANGED <<entries, counter, draining, seen, drainVars, late>>

\* Mutant: the counter is created again when it exists.
MutLookUp(s) ==
    /\ pc[s] = "checked"
    /\ MuFree
    /\ entries' = entries \union {agent[s]}
    /\ counter' = [counter EXCEPT ![agent[s]] = 0]
    /\ Goto(s, "lookedUp")
    /\ UNCHANGED <<draining, agent, seen, drainVars, late>>

\* The critical section that finds or creates the agent's counter.
LookUp(s) ==
    /\ pc[s] = "checked"
    /\ MuFree
    /\ entries' = entries \union {agent[s]}
    /\ counter' = [counter EXCEPT ![agent[s]] = IF agent[s] \in entries THEN @ ELSE 0]
    /\ Goto(s, "lookedUp")
    /\ UNCHANGED <<draining, agent, seen, drainVars, late>>

\* current := atomic.LoadInt64(counter); the limit test is on the loaded value.
Load(s) ==
    /\ pc[s] = "lookedUp"
    /\ IF counter[agent[s]] >= MaxStreams[agent[s]]
         THEN Goto(s, "refused") /\ UNCHANGED seen
         ELSE Goto(s, "loaded") /\ seen' = [seen EXCEPT ![s] = counter[agent[s]]]
    /\ UNCHANGED <<entries, counter, draining, agent, drainVars, late>>

\* Mutant: a plain store in place of the compare-and-swap.
MutCompareAndSwap(s) ==
    /\ pc[s] = "loaded"
    /\ counter' = [counter EXCEPT ![agent[s]] = seen[s] + 1]
    /\ Goto(s, "holding")
    /\ late' = IF draining THEN late \union {s} ELSE late
    /\ seen' = [seen EXCEPT ![s] = 0]
    /\ UNCHANGED <<entries, draining, agent, drainVars>>

\* CompareAndSwapInt64(counter, current, current+1): a lost race loads again.
CompareAndSwap(s) ==
    /\ pc[s] = "loaded"
    /\ IF counter[agent[s]] = seen[s]
         THEN /\ counter' = [counter EXCEPT ![agent[s]] = seen[s] + 1]
              /\ Goto(s, "holding")
              /\ late' = IF draining THEN late \union {s} ELSE late
         ELSE /\ Goto(s, "lookedUp")
              /\ UNCHANGED <<counter, late>>
    /\ seen' = [seen EXCEPT ![s] = 0]
    /\ UNCHANGED <<entries, draining, agent, drainVars>>

\* ProxyStream answers 429 and returns; the handler serves another request.
ReturnRefused(s) ==
    /\ pc[s] = "refused"
    /\ Goto(s, "idle")
    /\ UNCHANGED <<entries, counter, draining, agent, seen, drainVars, late>>

----------------------------------------------------------------------------
(* ReleaseStream *)

ReleaseLookUp(s) ==
    /\ pc[s] = "holding"
    /\ MuFree
    /\ Goto(s, IF agent[s] \in entries THEN "releasing" ELSE "idle")
    /\ UNCHANGED <<entries, counter, draining, agent, seen, drainVars, late>>

ReleaseDecrement(s) ==
    /\ pc[s] = "releasing"
    /\ counter' = [counter EXCEPT ![agent[s]] = @ - 1]
    /\ Goto(s, "idle")
    /\ late' = late \ {s}
    /\ UNCHANGED <<entries, draining, agent, seen, drainVars>>

----------------------------------------------------------------------------
(* DrainAll and totalStreams *)

handlerVars == <<entries, counter, pc, agent, seen, late>>

StartDrain ==
    /\ drain = "idle"
    /\ draining' = TRUE
    /\ drain' = "looping"
    /\ UNCHANGED <<handlerVars, unread, total>>

BeginSum ==
    /\ drain = "looping"
    /\ drain' = "summing"
    /\ unread' = entries
    /\ total' = 0
    /\ UNCHANGED <<handlerVars, draining>>

\* Mutant: the sum keeps only the last counter visited.
MutReadCounter(a) ==
    /\ drain = "summing"
    /\ a \in unread
    /\ unread' = unread \ {a}
    /\ total' = counter[a]
    /\ UNCHANGED <<handlerVars, draining, drain>>

\* One iteration over the map, in no particular order.
ReadCounter(a) ==
    /\ drain = "summing"
    /\ a \in unread
    /\ unread' = unread \ {a}
    /\ total' = total + counter[a]
    /\ UNCHANGED <<handlerVars, draining, drain>>

EndSum ==
    /\ drain = "summing"
    /\ unread = {}
    /\ drain' = IF total = 0 THEN "drained" ELSE "waiting"
    /\ UNCHANGED <<handlerVars, draining, unread, total>>

Tick ==
    /\ drain = "waiting"
    /\ drain' = "looping"
    /\ UNCHANGED <<handlerVars, draining, unread, total>>

\* Mutant: the wait does not watch the context.
MutDeadline ==
    /\ drain = "waiting"
    /\ total < 0
    /\ drain' = "timedOut"
    /\ UNCHANGED <<handlerVars, draining, unread, total>>

\* ctx.Done(): the drain deadline has passed.
Deadline ==
    /\ drain = "waiting"
    /\ drain' = "timedOut"
    /\ UNCHANGED <<handlerVars, draining, unread, total>>

----------------------------------------------------------------------------
Acquire(s) ==
    \/ LookUp(s)
    \/ Load(s)
    \/ CompareAndSwap(s)
    \/ ReturnRefused(s)

Handler(s) ==
    \/ \E a \in Agents : CheckDraining(s, a)
    \/ Acquire(s)
    \/ ReleaseLookUp(s)
    \/ ReleaseDecrement(s)

DrainAll ==
    \/ StartDrain
    \/ BeginSum
    \/ \E a \in Agents : ReadCounter(a)
    \/ EndSum
    \/ Tick
    \/ Deadline

Next == DrainAll \/ \E s \in Streams : Handler(s)

Spec == Init /\ [][Next]_vars

\* A runnable goroutine is eventually scheduled.  Nothing makes a stream end
\* or a shutdown begin, so ReleaseLookUp, CheckDraining and StartDrain get no
\* fairness; the deadline of the drain context does pass.
SumSteps == BeginSum \/ (\E a \in Agents : ReadCounter(a)) \/ EndSum

Fairness ==
    /\ \A s \in Streams : WF_vars(Acquire(s)) /\ WF_vars(ReleaseDecrement(s))
    /\ WF_vars(SumSteps)
    /\ SF_vars(Deadline)

FairSpec == Spec /\ Fairness

----------------------------------------------------------------------------
(* Properties *)

TypeOK ==
    /\ entries \in SUBSET Agents
    /\ counter \in [Agents -> Nat]
    /\ draining \in BOOLEAN
    /\ pc \in [Streams -> {"idle", "refused"} \union Acquiring \union Holding]
    /\ agent \in [Streams -> Agents]
    /\ seen \in [Streams -> Nat]
    /\ drain \in {"idle", "looping", "summing", "waiting", "drained", "timedOut"}
    /\ unread \in SUBSET Agents
    /\ total \in Nat
    /\ late \in SUBSET Streams

\* The number ActiveStreams reports for an agent is the number of handlers
\* that hold one of its slots, whatever acquires and releases are under way:
\* no slot is counted twice, lost, or given back twice (streams.go:29-74).
CounterIsHolders ==
    \A a \in Agents : ActiveStreams(a) = Cardinality(Holders(a))

\* No interleaving of load, limit test and compare-and-swap lets more
\* handlers stream from an agent than its max_streams (streams.go:43-52).
LimitRespected ==
    \A a \in Agents : Cardinality(Holders(a)) <= MaxStreams[a]

\* DrainAll returns nil only when every stream has ended, except streams
\* whose handler had passed the draining check before the flag was set and
\* took its slot after: the sum over a map that keeps changing does not miss
\* a stream that was active all along (streams.go:78-105).
DrainedExceptLate ==
    drain = "drained" => \A a \in Agents : Holders(a) \subseteq late

\* Once DrainAll has begun it returns, by the sum or by its deadline, and
\* every request caught inside AcquireStream gets its verdict: the retries
\* of the compare-and-swap loop come to an end (streams.go:44-52, 84-94).
DrainSettles ==
    draining ~> /\ drain \in {"drained", "timedOut"}
                /\ \A s \in Streams : pc[s] \notin Acquiring

\* The manager implements the pool of StreamSlots: a slot is granted or
\* refused at one instant between call and return, it is refused only when
\* the agent really had no slot left at that instant, and no request is
\* accepted for a verdict once draining is set.
Slots == INSTANCE StreamSlots WITH
    open <- ~draining,
    waiting <- [a \in Agents |-> Waiting(a)],
    active <- [a \in Agents |-> Holders(a)]

SlotsSpec == Slots!Spec
=============================================================================
