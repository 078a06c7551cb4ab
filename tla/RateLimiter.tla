---------------------------- MODULE RateLimiter ----------------------------
(***************************************************************************)
(* internal/security/ratelimit_ip.go and ratelimit_user.go: the middleware *)
(* that keeps a token bucket per key, and the goroutine that sweeps the    *)
(* buckets of idle keys.  The two files differ in the key only: the client *)
(* address, or the subject; a request without a subject passes untouched.  *)
(*                                                                         *)
(* getLimiter takes no lock over its steps: it reads the clock, loads the  *)
(* entry or stores a new one, stamps it, and Allow is called on whatever   *)
(* bucket that gave, in or out of the map by then.                         *)
(*                                                                         *)
(* Time is a sequence of ticks, and instants are ages, counted back from   *)
(* the present.  A bucket of x/time/rate fills up when it is asked; here   *)
(* it fills up with each tick, which comes to the same.                    *)
(***************************************************************************)
EXTENDS Integers, FiniteSets

CONSTANTS
    Requests,          \* handler goroutines
    Keys,              \* client addresses, or subjects
    Buckets,           \* identities of rate.Limiter objects
    Burst, Rate,       \* size of a bucket, and what it gains with a tick
    CleanupInterval,   \* cleanup_interval
    None, NoKey,       \* no bucket, no key
    MaxRequest,        \* bound: ticks between a request's clock reading and its end
    MaxSweep           \* bound: ticks a sweep takes

ASSUME NoneIsNoBucket == None \notin Buckets
ASSUME NoKeyIsNoKey == NoKey \notin Keys
ASSUME BurstPositive == Burst \in Nat \ {0}
ASSUME RateNat == Rate \in Nat
ASSUME DurationsNat == CleanupInterval \in Nat /\ MaxRequest \in Nat /\ MaxSweep \in Nat

\* There is always a bucket that nobody has: memory does not run out.
ASSUME EnoughBuckets ==
    /\ IsFiniteSet(Keys) /\ IsFiniteSet(Requests) /\ IsFiniteSet(Buckets)
    /\ Cardinality(Buckets) >= Cardinality(Keys) + Cardinality(Requests)

\* A bucket is full again by the time it is old enough for the sweep.  It is
\* emptied up to two request lengths after its lastSeen: a request that read
\* the clock early may stamp it last, and another one ask it later still.  The
\* defaults meet this (50 tokens at 200 a minute, 20 at 100, swept after five
\* minutes); Validate does not ask for it.
ASSUME IdleIsFull == (CleanupInterval + 1 - 2 * MaxRequest) * Rate >= Burst

VARIABLES
    entry,       \* entry[k]: the bucket of key k in the map, None if there is none
    tokens,      \* tokens[b]
    unseen,      \* unseen[b]: the age of lastSeen
    pc,          \* pc[r]: where handler r stands
    key,         \* key[r]: the key of r's request
    age,         \* age[r]: the age of `now` in getLimiter
    limiter,     \* limiter[r]: the bucket getLimiter found, None before
    sweep,       \* where the sweep stands
    sweepAge,    \* the age of the sweep's clock reading
    unvisited,   \* keys Range has still to visit
    judged,      \* the key whose entry was found idle, NoKey if none
    allowance,   \* history: an ideal bucket per key, which is never swept and
                 \* which requests in met leave alone
    met          \* history: requests that took a bucket the sweep is deleting

mapVars == <<entry, tokens, unseen>>
handlerVars == <<pc, key, age, limiter>>
sweepVars == <<sweep, sweepAge, unvisited, judged>>
history == <<allowance, met>>
vars == <<mapVars, handlerVars, sweepVars, history>>

----------------------------------------------------------------------------
Least(m, n) == IF m < n THEN m ELSE n
MaxAge == CleanupInterval + MaxSweep + 1

\* A bucket that nobody has hold of, for rate.NewLimiter.
Used == {entry[k] : k \in Keys} \cup {limiter[r] : r \in Requests}
Fresh == CHOOSE b \in Buckets : b \notin Used

\* Requests for key k that have a bucket and have not asked it yet.
Holding(k) == {r \in Requests : pc[r] \in {"stamp", "allow"} /\ key[r] = k}

Init ==
    /\ entry = [k \in Keys |-> None]
    /\ tokens = [b \in Buckets |-> Burst]
    /\ unseen = [b \in Buckets |-> 0]
    /\ pc = [r \in Requests |-> "idle"]
    /\ key \in [Requests -> Keys]
    /\ age = [r \in Requests |-> 0]
    /\ limiter = [r \in Requests |-> None]
    /\ sweep = "idle"
    /\ sweepAge = 0
    /\ unvisited = {}
    /\ judged = NoKey
    /\ allowance = [k \in Keys |-> Burst]
    /\ met = {}

Tick ==
    /\ \A r \in Requests : pc[r] # "idle" => age[r] < MaxRequest
    /\ sweep # "idle" => sweepAge < MaxSweep
    /\ tokens' = [b \in Buckets |-> Least(tokens[b] + Rate, Burst)]
    /\ unseen' = [b \in Buckets |-> Least(unseen[b] + 1, MaxAge)]
    /\ age' = [r \in Requests |-> IF pc[r] = "idle" THEN 0 ELSE age[r] + 1]
    /\ sweepAge' = IF sweep = "idle" THEN 0 ELSE sweepAge + 1
    /\ allowance' = [k \in Keys |-> Least(allowance[k] + Rate, Burst)]
    /\ UNCHANGED <<entry, pc, key, limiter, sweep, unvisited, judged, met>>

----------------------------------------------------------------------------
(* Process and getLimiter *)

\* A request that takes the bucket between the sweep's look at it and the
\* delete has met the sweep; so has one that holds it at that look.
Meets(r) == met' = IF judged = key[r] THEN met \cup {r} ELSE met

ReadClock(r) ==
    /\ pc[r] = "idle"
    /\ \E k \in Keys : key' = [key EXCEPT ![r] = k]
    /\ pc' = [pc EXCEPT ![r] = "load"]
    /\ UNCHANGED <<mapVars, age, limiter, sweepVars, history>>

Load(r) ==
    /\ pc[r] = "load"
    /\ IF entry[key[r]] = None
       THEN pc' = [pc EXCEPT ![r] = "create"] /\ UNCHANGED <<limiter, met>>
       ELSE /\ pc' = [pc EXCEPT ![r] = "stamp"]
            /\ limiter' = [limiter EXCEPT ![r] = entry[key[r]]]
            /\ Meets(r)
    /\ UNCHANGED <<mapVars, key, age, sweepVars, allowance>>

\* Mutant: Store instead of LoadOrStore.
MutCreate(r) ==
    /\ pc[r] = "create"
    /\ entry' = [entry EXCEPT ![key[r]] = Fresh]
    /\ tokens' = [tokens EXCEPT ![Fresh] = Burst]
    /\ unseen' = [unseen EXCEPT ![Fresh] = age[r]]
    /\ limiter' = [limiter EXCEPT ![r] = Fresh]
    /\ pc' = [pc EXCEPT ![r] = "allow"]
    /\ UNCHANGED <<key, age, sweepVars, history>>

\* Mutant: a new bucket starts with the one token this request needs.
MutCreateEmpty(r) ==
    /\ pc[r] = "create"
    /\ entry' = [entry EXCEPT ![key[r]] = Fresh]
    /\ tokens' = [tokens EXCEPT ![Fresh] = 1]
    /\ unseen' = [unseen EXCEPT ![Fresh] = age[r]]
    /\ limiter' = [limiter EXCEPT ![r] = Fresh]
    /\ pc' = [pc EXCEPT ![r] = "allow"]
    /\ UNCHANGED <<key, age, sweepVars, history>>

\* LoadOrStore: the entry is new and stamped already, or another request has
\* been faster.
Create(r) ==
    /\ pc[r] = "create"
    /\ IF entry[key[r]] = None
       THEN /\ entry' = [entry EXCEPT ![key[r]] = Fresh]
            /\ tokens' = [tokens EXCEPT ![Fresh] = Burst]
            /\ unseen' = [unseen EXCEPT ![Fresh] = age[r]]
            /\ limiter' = [limiter EXCEPT ![r] = Fresh]
            /\ pc' = [pc EXCEPT ![r] = "allow"]
            /\ UNCHANGED met
       ELSE /\ limiter' = [limiter EXCEPT ![r] = entry[key[r]]]
            /\ pc' = [pc EXCEPT ![r] = "stamp"]
            /\ Meets(r)
            /\ UNCHANGED mapVars
    /\ UNCHANGED <<key, age, sweepVars, allowance>>

\* lastSeen may go back: the clock was read before.
Stamp(r) ==
    /\ pc[r] = "stamp"
    /\ unseen' = [unseen EXCEPT ![limiter[r]] = age[r]]
    /\ pc' = [pc EXCEPT ![r] = "allow"]
    /\ UNCHANGED <<entry, tokens, key, age, limiter, sweepVars, history>>

Leave(r) ==
    /\ pc' = [pc EXCEPT ![r] = "idle"]
    /\ age' = [age EXCEPT ![r] = 0]
    /\ limiter' = [limiter EXCEPT ![r] = None]
    /\ met' = met \ {r}
    /\ UNCHANGED <<entry, unseen, key, sweepVars>>

Pass(r) ==
    /\ pc[r] = "allow"
    /\ tokens[limiter[r]] >= 1
    /\ tokens' = [tokens EXCEPT ![limiter[r]] = @ - 1]
    /\ allowance' = IF r \in met THEN allowance ELSE [allowance EXCEPT ![key[r]] = @ - 1]
    /\ Leave(r)

Refuse(r) ==
    /\ pc[r] = "allow"
    /\ tokens[limiter[r]] < 1
    /\ UNCHANGED <<tokens, allowance>>
    /\ Leave(r)

----------------------------------------------------------------------------
(* cleanup *)

SweepStart ==
    /\ sweep = "idle"
    /\ sweep' = "ranging"
    /\ unvisited' = Keys
    /\ UNCHANGED <<mapVars, handlerVars, sweepAge, judged, history>>

Idle(b) == unseen[b] > CleanupInterval + sweepAge

\* Mutant: an entry goes in the instant it becomes idle, or never.
MutSweepOnce ==
    /\ sweep = "ranging"
    /\ judged = NoKey
    /\ \E k \in unvisited :
          /\ unvisited' = unvisited \ {k}
          /\ judged' = IF /\ entry[k] # None
                          /\ unseen[entry[k]] = CleanupInterval + sweepAge + 1
                       THEN k ELSE NoKey
    /\ UNCHANGED <<mapVars, handlerVars, sweep, sweepAge, history>>

SweepVisit ==
    /\ sweep = "ranging"
    /\ judged = NoKey
    /\ \E k \in unvisited :
          /\ unvisited' = unvisited \ {k}
          /\ judged' = IF entry[k] # None /\ Idle(entry[k]) THEN k ELSE NoKey
          /\ met' = IF judged' = k THEN met \cup Holding(k) ELSE met
    /\ UNCHANGED <<mapVars, handlerVars, sweep, sweepAge, allowance>>

\* Delete names the key, whoever has taken its bucket or stamped it since.
SweepDelete ==
    /\ judged # NoKey
    /\ entry' = [entry EXCEPT ![judged] = None]
    /\ judged' = NoKey
    /\ UNCHANGED <<tokens, unseen, handlerVars, sweep, sweepAge, unvisited, history>>

SweepEnd ==
    /\ sweep = "ranging"
    /\ unvisited = {} /\ judged = NoKey
    /\ sweep' = "idle"
    /\ sweepAge' = 0
    /\ UNCHANGED <<mapVars, handlerVars, unvisited, judged, history>>

----------------------------------------------------------------------------
GetLimiter(r) == Load(r) \/ Create(r) \/ Stamp(r)
Process(r) == GetLimiter(r) \/ Pass(r) \/ Refuse(r)
Cleanup == SweepStart \/ SweepVisit \/ SweepDelete \/ SweepEnd

Next == Tick \/ Cleanup \/ \E r \in Requests : ReadClock(r) \/ Process(r)

Spec == Init /\ [][Next]_vars

\* Time passes, the ticker fires and goroutines are scheduled; requests need
\* not arrive.
Fairness == WF_vars(Tick) /\ WF_vars(Cleanup) /\ \A r \in Requests : WF_vars(Process(r))

FairSpec == Spec /\ Fairness

----------------------------------------------------------------------------
(* Properties *)

TypeOK ==
    /\ entry \in [Keys -> Buckets \cup {None}]
    /\ tokens \in [Buckets -> 0..Burst]
    /\ unseen \in [Buckets -> 0..MaxAge]
    /\ pc \in [Requests -> {"idle", "load", "create", "stamp", "allow"}]
    /\ key \in [Requests -> Keys]
    /\ age \in [Requests -> 0..MaxRequest]
    /\ limiter \in [Requests -> Buckets \cup {None}]
    /\ sweep \in {"idle", "ranging"}
    /\ sweepAge \in 0..MaxSweep
    /\ unvisited \in SUBSET Keys
    /\ judged \in Keys \cup {NoKey}
    /\ allowance \in [Keys -> Int]
    /\ met \in SUBSET Requests

\* Over any span of time a key gets no more than Burst requests and Rate per
\* tick through, as from one bucket that is never thrown away: what comes on
\* top is only requests that the sweep overtook between their getLimiter and
\* its Delete (ratelimit_ip.go:72-109).
RateHeld == \A k \in Keys : allowance[k] >= 0

\* And never fewer: a request is refused only if that one bucket is empty too,
\* whatever buckets were made and deleted for its key, or if the bucket it took
\* was being deleted (ratelimit_ip.go:53-56).
NeverStricter ==
    [][\A r \in Requests \ met :
          pc[r] = "allow" /\ pc'[r] = "idle" /\ allowance' = allowance
             => allowance[key[r]] < 1]_vars

\* The bucket of a key that no more requests come for is given up.
IdleForgotten ==
    \A k \in Keys :
        []<>(entry[k] = None) \/ []<>(\E r \in Requests : pc[r] # "idle" /\ key[r] = k)
=============================================================================
