--------------------------- MODULE ReplayDetector ---------------------------
(***************************************************************************)
(* internal/security/replay.go: the middleware that stops a request seen   *)
(* before, its in-memory nonce store and the goroutine that sweeps it.     *)
(*                                                                         *)
(* Each element of Requests is a handler goroutine; one that has returned  *)
(* serves the next request.  CheckAndStore takes no lock: it reads the     *)
(* clock, loads the entry, reads the clock again and stores, and other     *)
(* handlers, the sweep and the clock may move between any two of those.    *)
(* The sweep reads the clock once and then visits key after key, each with *)
(* a load and, some time later, a delete.                                  *)
(*                                                                         *)
(* Time is a counter of ticks.  A stamp is the X-Sentinel-Timestamp header *)
(* on the same scale.  Requests with one nonce are copies of one message,  *)
(* so the nonce fixes the stamp.  The detector is enabled.                 *)
(***************************************************************************)
EXTENDS Integers

CONSTANTS
    Requests,    \* handler goroutines
    Nonces,      \* nonces that requests carry
    Window,      \* security.replay.window
    ClockSkew,   \* security.replay.clock_skew
    MaxTime,     \* bound: the last tick
    MaxStamp     \* bound: the last stamp

ASSUME WindowPositive == Window \in Nat \ {0}
ASSUME ClockSkewNat == ClockSkew \in Nat
ASSUME BoundsNat == MaxTime \in Nat /\ MaxStamp \in Nat

VARIABLES
    policy,      \* nonce_policy
    stamp,       \* stamp[n]: the timestamp header of the message with nonce n
    clock,       \* time.Now()
    entries,     \* the store: expiry of each nonce, Absent if there is none
    pc,          \* pc[r]: where handler r stands
    why,         \* why[r]: what the error response of r is about
    nonce,       \* nonce[r]: the nonce of r's request
    expiry,      \* expiry[r]: `expiry` in CheckAndStore
    found,       \* found[r]: the entry r loaded, Absent if none
    sweep,       \* where the sweep stands
    sweepNow,    \* `now` in startCleanup
    unvisited,   \* keys Range has still to visit
    visiting,    \* the key and value the callback was given
    stored,      \* history: what is known of the last store for each nonce
    prior,       \* history: stored[nonce[r]] at the time of r's load
    since        \* history: since[r]: when r looked at its timestamp

handlerVars == <<pc, why, nonce, expiry, found>>
sweepVars == <<sweep, sweepNow, unvisited, visiting>>
history == <<stored, prior, since>>
vars == <<policy, stamp, clock, entries, handlerVars, sweepVars, history>>

----------------------------------------------------------------------------
Absent == -1
Nothing == [key |-> Absent, value |-> Absent]

\* What keeps a request from having a nonce: its body cannot be read, or there
\* is no id and no header.
Unreadable == "unreadable"
NoNonce == "noNonce"
NoStamp == -1
Garbled == -2
Stamps == {NoStamp, Garbled} \cup 0..MaxStamp

\* A store: its expiry, and whether a sweep has since deleted the entry although
\* it had not read it.
Never == [expiry |-> Absent, lost |-> FALSE]

Init ==
    /\ policy \in {"warn", "require"}
    /\ stamp \in [Nonces -> Stamps]
    /\ clock = 0
    /\ entries = [n \in Nonces |-> Absent]
    /\ pc = [r \in Requests |-> "idle"]
    /\ why = [r \in Requests |-> "none"]
    /\ nonce \in [Requests -> Nonces]
    /\ expiry = [r \in Requests |-> 0]
    /\ found = [r \in Requests |-> Absent]
    /\ sweep = "idle"
    /\ sweepNow = 0
    /\ unvisited = {}
    /\ visiting = Nothing
    /\ stored = [n \in Nonces |-> Never]
    /\ prior = [r \in Requests |-> Never]
    /\ since = [r \in Requests |-> 0]

Tick ==
    /\ clock < MaxTime
    /\ clock' = clock + 1
    /\ UNCHANGED <<policy, stamp, entries, handlerVars, sweepVars, history>>

----------------------------------------------------------------------------
(* Process, up to the nonce store: it reads the clock once and nothing else *)
(* that is shared.                                                          *)

\* Handler r is through with the middleware: it has answered the request
\* itself, or handed it to the next handler and is free for another one.
Leave(r, place, reason) ==
    /\ pc' = [pc EXCEPT ![r] = place]
    /\ why' = [why EXCEPT ![r] = reason]
    /\ expiry' = [expiry EXCEPT ![r] = 0]
    /\ found' = [found EXCEPT ![r] = Absent]
    /\ prior' = [prior EXCEPT ![r] = Never]
    /\ since' = [since EXCEPT ![r] = 0]
    /\ UNCHANGED nonce

Refuse(r, reason) == Leave(r, "rejected", reason)
Pass(r) == Leave(r, "idle", "none")

\* The policy decides about a request with a fault.
ByPolicy(r, reason) == IF policy = "require" THEN Refuse(r, reason) ELSE Pass(r)

Untouched == UNCHANGED <<policy, stamp, clock, entries, sweepVars, stored>>

PassExempt(r) ==
    /\ pc[r] = "idle"
    /\ Pass(r)
    /\ Untouched

FaultyNonce(r) ==
    /\ pc[r] = "idle"
    /\ \E fault \in {Unreadable, NoNonce} : ByPolicy(r, fault)
    /\ Untouched

TooOld(n) == stamp[n] >= 0 /\ clock - stamp[n] > Window
TooNew(n) == stamp[n] >= 0 /\ stamp[n] - clock > ClockSkew

FaultyStamp(r) ==
    /\ pc[r] = "idle"
    /\ \E n \in Nonces : \/ stamp[n] = Garbled /\ ByPolicy(r, "garbled")
                         \/ TooOld(n) /\ ByPolicy(r, "stale")
                         \/ TooNew(n) /\ ByPolicy(r, "future")
    /\ Untouched

\* Mutant: the past gets the allowance that is meant for the future.
MutSoundStamp(r) ==
    /\ pc[r] = "idle"
    /\ \E n \in Nonces : /\ stamp[n] # Garbled
                         /\ ~(stamp[n] >= 0 /\ clock - stamp[n] > Window + ClockSkew)
                         /\ ~TooNew(n)
                         /\ nonce' = [nonce EXCEPT ![r] = n]
    /\ since' = [since EXCEPT ![r] = clock]
    /\ pc' = [pc EXCEPT ![r] = "sound"]
    /\ UNCHANGED <<why, expiry, found, prior>>
    /\ Untouched

\* The past is measured against the window, the future against the skew.
SoundStamp(r) ==
    /\ pc[r] = "idle"
    /\ \E n \in Nonces : /\ stamp[n] # Garbled /\ ~TooOld(n) /\ ~TooNew(n)
                         /\ nonce' = [nonce EXCEPT ![r] = n]
    /\ since' = [since EXCEPT ![r] = clock]
    /\ pc' = [pc EXCEPT ![r] = "sound"]
    /\ UNCHANGED <<why, expiry, found, prior>>
    /\ Untouched

----------------------------------------------------------------------------
(* CheckAndStore *)

BeginCheck(r) ==
    /\ pc[r] = "sound"
    /\ expiry' = [expiry EXCEPT ![r] = clock + Window]
    /\ pc' = [pc EXCEPT ![r] = "load"]
    /\ UNCHANGED <<policy, stamp, clock, entries, why, nonce, found, sweepVars, history>>

Load(r) ==
    /\ pc[r] = "load"
    /\ found' = [found EXCEPT ![r] = entries[nonce[r]]]
    /\ prior' = [prior EXCEPT ![r] = stored[nonce[r]]]
    /\ pc' = [pc EXCEPT ![r] = "compare"]
    /\ UNCHANGED <<policy, stamp, clock, entries, why, nonce, expiry, sweepVars, stored, since>>

Unexpired(t) == t # Absent /\ clock < t

\* Mutant: an entry counts for as long as it is there.
MutSeen(r) ==
    /\ pc[r] = "compare"
    /\ found[r] # Absent
    /\ ByPolicy(r, "replay")
    /\ Untouched

Seen(r) ==
    /\ pc[r] = "compare"
    /\ Unexpired(found[r])
    /\ ByPolicy(r, "replay")
    /\ Untouched

NotSeen(r) ==
    /\ pc[r] = "compare"
    /\ ~Unexpired(found[r])
    /\ pc' = [pc EXCEPT ![r] = "store"]
    /\ found' = [found EXCEPT ![r] = Absent]
    /\ UNCHANGED <<policy, stamp, clock, entries, why, nonce, expiry, sweepVars, history>>

Store(r) ==
    /\ pc[r] = "store"
    /\ entries' = [entries EXCEPT ![nonce[r]] = expiry[r]]
    /\ stored' = [stored EXCEPT ![nonce[r]] = [expiry |-> expiry[r], lost |-> FALSE]]
    /\ Pass(r)
    /\ UNCHANGED <<policy, stamp, clock, sweepVars>>

\* The error response is out; the handler goroutine is free again.
Return(r) ==
    /\ pc[r] = "rejected"
    /\ Pass(r)
    /\ Untouched

----------------------------------------------------------------------------
(* The sweep *)

\* Mutant: the sweep reads the clock once for all its rounds.
MutSweepStart ==
    /\ sweep = "idle"
    /\ sweep' = "ranging"
    /\ unvisited' = Nonces
    /\ UNCHANGED <<policy, stamp, clock, entries, handlerVars, sweepNow, visiting, history>>

SweepStart ==
    /\ sweep = "idle"
    /\ sweep' = "ranging"
    /\ sweepNow' = clock
    /\ unvisited' = Nonces
    /\ UNCHANGED <<policy, stamp, clock, entries, handlerVars, visiting, history>>

\* Range calls back with a key and its value; a key that is not in the map when
\* Range comes by is passed over.
SweepVisit ==
    /\ sweep = "ranging"
    /\ \E n \in unvisited :
          /\ unvisited' = unvisited \ {n}
          /\ IF entries[n] = Absent
             THEN UNCHANGED <<sweep, visiting>>
             ELSE /\ sweep' = "visiting"
                  /\ visiting' = [key |-> n, value |-> entries[n]]
    /\ UNCHANGED <<policy, stamp, clock, entries, handlerVars, sweepNow, history>>

SweepKeep ==
    /\ sweep = "visiting"
    /\ ~(sweepNow > visiting.value)
    /\ sweep' = "ranging"
    /\ visiting' = Nothing
    /\ UNCHANGED <<policy, stamp, clock, entries, handlerVars, sweepNow, unvisited, history>>

\* Mutant: an entry that is about to expire goes as well.
MutSweepDelete ==
    /\ sweep = "visiting"
    /\ sweepNow >= visiting.value - 1
    /\ sweep' = "ranging"
    /\ visiting' = Nothing
    /\ entries' = [entries EXCEPT ![visiting.key] = Absent]
    /\ stored' = [stored EXCEPT ![visiting.key].lost =
                     @ \/ entries[visiting.key] # visiting.value]
    /\ UNCHANGED <<policy, stamp, clock, handlerVars, sweepNow, unvisited, prior, since>>

\* Delete names the key: what is there by now goes, read or not.
SweepDelete ==
    /\ sweep = "visiting"
    /\ sweepNow > visiting.value
    /\ sweep' = "ranging"
    /\ visiting' = Nothing
    /\ entries' = [entries EXCEPT ![visiting.key] = Absent]
    /\ stored' = [stored EXCEPT ![visiting.key].lost =
                     @ \/ entries[visiting.key] # visiting.value]
    /\ UNCHANGED <<policy, stamp, clock, handlerVars, sweepNow, unvisited, prior, since>>

SweepEnd ==
    /\ sweep = "ranging"
    /\ unvisited = {}
    /\ sweep' = "idle"
    /\ sweepNow' = 0
    /\ UNCHANGED <<policy, stamp, clock, entries, handlerVars, unvisited, visiting, history>>

----------------------------------------------------------------------------
Inspect(r) == PassExempt(r) \/ FaultyNonce(r) \/ FaultyStamp(r) \/ SoundStamp(r)
CheckAndStore(r) == BeginCheck(r) \/ Load(r) \/ Seen(r) \/ NotSeen(r) \/ Store(r)
Handler(r) == Inspect(r) \/ CheckAndStore(r) \/ Return(r)
Sweep == SweepStart \/ SweepVisit \/ SweepKeep \/ SweepDelete \/ SweepEnd

Next == Tick \/ Sweep \/ \E r \in Requests : Handler(r)

Spec == Init /\ [][Next]_vars

\* Time passes, the ticker fires and goroutines are scheduled; requests need
\* not arrive.
Fairness ==
    /\ WF_vars(Tick)
    /\ WF_vars(Sweep)
    /\ \A r \in Requests : WF_vars(CheckAndStore(r))

FairSpec == Spec /\ Fairness

----------------------------------------------------------------------------
(* Properties *)

Expiries == Window..(MaxTime + Window)
Stores == [expiry : Expiries \cup {Absent}, lost : BOOLEAN]

TypeOK ==
    /\ policy \in {"warn", "require"}
    /\ clock \in 0..MaxTime
    /\ entries \in [Nonces -> Expiries \cup {Absent}]
    /\ pc \in [Requests -> {"idle", "sound", "load", "compare", "store", "rejected"}]
    /\ why \in [Requests -> {"none", Unreadable, NoNonce, "garbled", "stale", "future",
                             "replay"}]
    /\ nonce \in [Requests -> Nonces]
    /\ stamp \in [Nonces -> Stamps]
    /\ expiry \in [Requests -> Expiries \cup {0}]
    /\ found \in [Requests -> Expiries \cup {Absent}]
    /\ sweep \in {"idle", "ranging", "visiting"}
    /\ sweepNow \in 0..clock
    /\ unvisited \in SUBSET Nonces
    /\ visiting \in [key : Nonces, value : Expiries] \cup {Nothing}
    /\ stored \in [Nonces -> Stores]
    /\ prior \in [Requests -> Stores]
    /\ since \in [Requests -> 0..clock]

\* A request is called a replay only within Window of an earlier store of its
\* nonce: expired entries that no sweep has reached yet do not count
\* (replay.go:48-55).
ReplayHasOriginal ==
    [][\A r \in Requests : why'[r] = "replay" /\ why[r] # "replay" =>
          prior[r].expiry # Absent /\ clock < prior[r].expiry]_vars

\* A nonce is taken for new only if nothing had been stored for it when r
\* loaded, or that store has expired, or a sweep deleted it unread.  So a second
\* request with a nonce gets through only if the two overlap or a sweep
\* overlaps the first (replay.go:48-59, 72-79).
NewUnlessForgotten ==
    \A r \in Requests : pc[r] = "store" =>
        prior[r].expiry = Absent \/ prior[r].expiry <= clock \/ prior[r].lost

\* When a stamped message that was stored can be taken for new again: from
\* expiry, Window after its first check, and then only for as long as its
\* timestamp was ahead of that check (lead) and it is since r looked at the
\* timestamp (delay).  A timestamp that was behind makes it never.  With neither lead nor
\* delay one instant is left, the expiry itself: a timestamp of exactly Window
\* passes (replay.go:268, ">"), and a nonce of exactly Window is forgotten
\* (replay.go:50, Before).
ForgottenWhenStale ==
    \A r \in Requests :
        LET expiry0 == prior[r].expiry
            lead == stamp[nonce[r]] - (expiry0 - Window)
            delay == clock - since[r]
        IN  /\ pc[r] = "store"
            /\ expiry0 # Absent /\ ~prior[r].lost
            /\ stamp[nonce[r]] # NoStamp
            => expiry0 <= clock /\ clock <= expiry0 + lead + delay

\* An expired entry is swept, or renewed by a later request (replay.go:71-79).
Expired(n) == entries[n] # Absent /\ clock > entries[n]

ExpiredForgotten == \A n \in Nonces : Expired(n) ~> ~Expired(n)
=============================================================================
