---------------------------- MODULE StreamSlots ----------------------------
(***************************************************************************)
(* What the stream manager promises to the SSE proxy: a pool of stream     *)
(* slots per agent.  A request that arrives while the pool is open waits   *)
(* for a verdict; the verdict is taken in one step and is either a slot,   *)
(* when the agent has one left, or a refusal, when it has none.  Closing   *)
(* the pool stops arrivals and leaves the waiting requests their verdict.  *)
(*                                                                         *)
(* Module StreamManager implements this specification with a mutex, one    *)
(* atomic counter per agent and a compare-and-swap loop.                   *)
(***************************************************************************)
EXTENDS Integers, FiniteSets

CONSTANTS
    Agents,      \* names of the configured agents
    Streams,     \* request handlers that may want a stream
    MaxStreams   \* MaxStreams[a]: the max_streams setting of agent a

VARIABLES
    open,        \* does the pool accept arrivals?
    waiting,     \* waiting[a]: requests for agent a without a verdict
    active       \* active[a]: requests holding a slot of agent a

slotVars == <<open, waiting, active>>

Full(a) == Cardinality(active[a]) >= MaxStreams[a]

Init ==
    /\ open = TRUE
    /\ waiting = [a \in Agents |-> {}]
    /\ active = [a \in Agents |-> {}]

Arrive(s, a) ==
    /\ open
    /\ waiting' = [waiting EXCEPT ![a] = @ \union {s}]
    /\ UNCHANGED <<open, active>>

Admit(s, a) ==
    /\ s \in waiting[a]
    /\ ~Full(a)
    /\ waiting' = [waiting EXCEPT ![a] = @ \ {s}]
    /\ active' = [active EXCEPT ![a] = @ \union {s}]
    /\ UNCHANGED open

Refuse(s, a) ==
    /\ s \in waiting[a]
    /\ Full(a)
    /\ waiting' = [waiting EXCEPT ![a] = @ \ {s}]
    /\ UNCHANGED <<open, active>>

Finish(s, a) ==
    /\ s \in active[a]
    /\ active' = [active EXCEPT ![a] = @ \ {s}]
    /\ UNCHANGED <<open, waiting>>

Close ==
    /\ open' = FALSE
    /\ UNCHANGED <<waiting, active>>

Next ==
    \/ Close
    \/ \E s \in Streams, a \in Agents :
          Arrive(s, a) \/ Admit(s, a) \/ Refuse(s, a) \/ Finish(s, a)

Spec == Init /\ [][Next]_slotVars
=============================================================================
