------------------------- MODULE RateLimiterProofs -------------------------
(***************************************************************************)
(* Proofs about RateLimiter, for any number of keys and requests, any      *)
(* burst, rate and cleanup interval that satisfy IdleIsFull: the map of    *)
(* swept buckets limits a key as one bucket for ever would.                *)
(***************************************************************************)
EXTENDS RateLimiter, FiniteSetTheorems, TLAPS

----------------------------------------------------------------------------
(* The inductive invariant. *)

Holds(r) == pc[r] \in {"stamp", "allow"}

HasLimiter == \A r \in Requests : Holds(r) <=> limiter[r] # None

\* No bucket serves two keys.
Apart ==
    /\ \A k, l \in Keys : entry[k] = entry[l] /\ entry[k] # None => k = l
    /\ \A r \in Requests, k \in Keys : Holds(r) /\ limiter[r] = entry[k] => key[r] = k

\* Who has not met the sweep asks the bucket that is in the map.
Current == \A r \in Requests : Holds(r) /\ r \notin met => limiter[r] = entry[key[r]]

\* Who has met it asks one that is being deleted, or gone.
MetHold == \A r \in met : Holds(r) /\ (limiter[r] = entry[key[r]] => judged = key[r])

Judged ==
    judged # NoKey =>
        /\ entry[judged] # None
        /\ \A r \in Requests : Holds(r) /\ key[r] = judged => r \in met

\* The bucket in the map is the ideal one; a key without one has a full allowance.
Spent ==
    \A k \in Keys :
        allowance[k] = IF entry[k] = None \/ judged = k THEN Burst ELSE tokens[entry[k]]

\* What a bucket has gained by the time it was last seen u ticks ago.
Gained(u) == (u - 2 * MaxRequest) * Rate

Refilled == \A b \in Buckets : tokens[b] = Burst \/ tokens[b] >= Gained(unseen[b])

LatelySeen ==
    \A r \in Requests : pc[r] = "allow" => unseen[limiter[r]] <= MaxRequest + age[r]

IInv ==
    /\ TypeOK
    /\ HasLimiter
    /\ Apart
    /\ Current
    /\ MetHold
    /\ Judged
    /\ Spent
    /\ Refilled
    /\ LatelySeen

----------------------------------------------------------------------------
(* Arithmetic of the refill. *)

LEMMA GainedGrows ==
  ASSUME NEW u \in Nat
  PROVE  /\ Gained(u) \in Int
         /\ Gained(u + 1) = Gained(u) + Rate
         /\ u <= 2 * MaxRequest => Gained(u) <= 0
<1> DEFINE d == u - 2 * MaxRequest
<1>1. d \in Int /\ Rate \in Nat
  BY DurationsNat, RateNat
<1>2. (d + 1) * Rate = d * Rate + Rate
  BY <1>1
<1>3. (u + 1) - 2 * MaxRequest = d + 1
  BY DurationsNat
<1>4. d <= 0 => d * Rate <= 0
  BY <1>1
<1>5. d * Rate \in Int
  BY <1>1
<1>6. u <= 2 * MaxRequest => d <= 0
  BY DurationsNat
<1> QED
  BY <1>2, <1>3, <1>4, <1>5, <1>6 DEF Gained

LEMMA RequestsAreShort == 2 * MaxRequest <= CleanupInterval
<1> DEFINE c == CleanupInterval + 1 - 2 * MaxRequest
<1>1. c \in Int /\ Rate \in Nat /\ c * Rate >= 1
  BY DurationsNat, RateNat, BurstPositive, IdleIsFull
<1>2. c >= 1
  BY <1>1
<1> QED
  BY <1>2, DurationsNat

\* A bucket the sweep may take is full (ratelimit_ip.go:106-109).
LEMMA IdleFull ==
  ASSUME TypeOK, Refilled, NEW b \in Buckets, Idle(b)
  PROVE  tokens[b] = Burst
<1> DEFINE c == CleanupInterval + 1 - 2 * MaxRequest
           d == unseen[b] - 2 * MaxRequest
<1>1. c \in Int /\ d \in Int /\ Rate \in Nat /\ d >= c
  BY DurationsNat, RateNat DEF TypeOK, Idle, MaxAge
<1>2. d * Rate >= c * Rate
  BY <1>1
<1>3. d * Rate \in Int /\ c * Rate \in Int /\ c * Rate >= Burst
  BY <1>1, IdleIsFull
<1>4. Gained(unseen[b]) >= Burst
  BY <1>2, <1>3, BurstPositive DEF Gained
<1>5. Gained(unseen[b]) \in Int
  BY <1>3 DEF Gained
<1> QED
  BY <1>4, <1>5, BurstPositive DEF TypeOK, Refilled

\* There is a bucket left for LoadOrStore.
LEMMA FreshIsFree ==
  ASSUME TypeOK, NEW r \in Requests, limiter[r] = None
  PROVE  Fresh \in Buckets /\ Fresh \notin Used
<1> DEFINE E == {entry[k] : k \in Keys}
           L == {limiter[q] : q \in Requests}
<1>1. IsFiniteSet(E) /\ Cardinality(E) <= Cardinality(Keys)
  <2>1. entry \in Surjection(Keys, E)
    BY DEF TypeOK, Surjection
  <2> QED
    BY <2>1, FS_Surjection, EnoughBuckets
<1>2. IsFiniteSet(L) /\ Cardinality(L) <= Cardinality(Requests)
  <2>1. limiter \in Surjection(Requests, L)
    BY DEF TypeOK, Surjection
  <2> QED
    BY <2>1, FS_Surjection, EnoughBuckets
<1>3. IsFiniteSet(Used) /\ Cardinality(Used) <= Cardinality(Keys) + Cardinality(Requests)
  <2>1. Used = E \cup L
    BY DEF Used
  <2>2. /\ IsFiniteSet(E \cup L)
        /\ Cardinality(E \cup L) = Cardinality(E) + Cardinality(L) - Cardinality(E \cap L)
    BY <1>1, <1>2, FS_Union
  <2>3. Cardinality(E \cap L) \in Nat
    BY <1>1, FS_Subset, FS_CardinalityType
  <2>4. /\ Cardinality(E) \in Nat /\ Cardinality(L) \in Nat
        /\ Cardinality(Keys) \in Nat /\ Cardinality(Requests) \in Nat
    BY <1>1, <1>2, EnoughBuckets, FS_CardinalityType
  <2> QED
    BY <1>1, <1>2, <2>1, <2>2, <2>3, <2>4
<1>4. Cardinality(Used \ {None}) < Cardinality(Buckets)
  <2>1. None \in Used
    BY DEF Used
  <2>2. Cardinality(Used \ {None}) = Cardinality(Used) - 1
    BY <1>3, <2>1, FS_RemoveElement
  <2>3. /\ Cardinality(Used) \in Nat /\ Cardinality(Buckets) \in Nat
        /\ Cardinality(Keys) \in Nat /\ Cardinality(Requests) \in Nat
    BY <1>3, EnoughBuckets, FS_CardinalityType
  <2> QED
    BY <1>3, <2>2, <2>3, EnoughBuckets
<1>5. \E b \in Buckets : b \notin Used
  <2> SUFFICES ASSUME Buckets \subseteq Used PROVE FALSE
    OBVIOUS
  <2>1. Buckets \subseteq Used \ {None}
    BY NoneIsNoBucket
  <2>2. IsFiniteSet(Used \ {None})
    BY <1>3, FS_RemoveElement
  <2>3. Cardinality(Buckets) <= Cardinality(Used \ {None})
    BY <2>1, <2>2, FS_Subset
  <2>4. Cardinality(Buckets) \in Nat /\ Cardinality(Used \ {None}) \in Nat
    BY <2>2, EnoughBuckets, FS_CardinalityType
  <2> QED
    BY <1>4, <2>3, <2>4
<1> QED
  BY <1>5 DEF Fresh

----------------------------------------------------------------------------
(* Each step keeps the invariant. *)

LEMMA TickKeeps == IInv /\ Tick => IInv'
<1> SUFFICES ASSUME IInv, Tick PROVE IInv'
  OBVIOUS
<1>1. TypeOK'
  BY DurationsNat, RateNat, BurstPositive DEF IInv, TypeOK, Tick, Spent, Least, MaxAge
<1>2. HasLimiter' /\ Apart' /\ Current' /\ MetHold' /\ Judged'
  BY DEF IInv, Tick, HasLimiter, Apart, Current, MetHold, Judged, Holds
<1>3. Spent'
  BY RateNat, BurstPositive DEF IInv, TypeOK, Tick, Spent, Least
<1>4. Refilled'
  <2> SUFFICES ASSUME NEW b \in Buckets, tokens'[b] # Burst
               PROVE  tokens'[b] >= Gained(unseen'[b])
    BY DEF Refilled, Gained
  <2>1. tokens'[b] = tokens[b] + Rate /\ tokens[b] # Burst
    BY RateNat, BurstPositive DEF IInv, TypeOK, Tick, Least
  <2>2. tokens[b] >= Gained(unseen[b])
    BY <2>1 DEF IInv, Refilled
  <2>3. unseen[b] \in Nat /\ tokens[b] \in Nat
    BY DurationsNat DEF IInv, TypeOK, MaxAge
  <2>4. unseen'[b] = unseen[b] \/ unseen'[b] = unseen[b] + 1
    <3>1. unseen'[b] = Least(unseen[b] + 1, MaxAge) /\ unseen[b] <= MaxAge
      BY DEF IInv, TypeOK, Tick
    <3> QED
      BY <2>3, <3>1, DurationsNat DEF Least, MaxAge
  <2> QED
    BY <2>1, <2>2, <2>3, <2>4, GainedGrows, RateNat
<1>5. LatelySeen'
  <2> SUFFICES ASSUME NEW r \in Requests, pc[r] = "allow"
               PROVE  unseen'[limiter[r]] <= MaxRequest + age'[r]
    BY DEF LatelySeen, Tick
  <2>1. limiter[r] \in Buckets
    BY DEF IInv, HasLimiter, Holds, TypeOK
  <2>2. /\ unseen[limiter[r]] \in Nat /\ age[r] \in Nat
        /\ unseen[limiter[r]] <= MaxRequest + age[r]
    BY <2>1, DurationsNat DEF IInv, TypeOK, LatelySeen, MaxAge
  <2>3. unseen'[limiter[r]] \in Nat /\ unseen'[limiter[r]] <= unseen[limiter[r]] + 1
    BY <2>1, <2>2, DurationsNat DEF IInv, TypeOK, Tick, Least, MaxAge
  <2>4. age'[r] = age[r] + 1
    BY DEF IInv, TypeOK, Tick
  <2> QED
    BY <2>2, <2>3, <2>4, DurationsNat
<1> QED
  BY <1>1, <1>2, <1>3, <1>4, <1>5 DEF IInv

LEMMA ReadClockKeeps == \A r \in Requests : IInv /\ ReadClock(r) => IInv'
<1> SUFFICES ASSUME NEW r \in Requests, IInv, ReadClock(r) PROVE IInv'
  OBVIOUS
<1>1. TypeOK'
  BY DEF IInv, TypeOK, ReadClock, mapVars, sweepVars, history
<1>2. HasLimiter' /\ Apart' /\ Current' /\ MetHold'
  BY DEF IInv, TypeOK, ReadClock, HasLimiter, Apart, Current, MetHold, Holds, mapVars,
         sweepVars, history
<1>3. Judged'
  BY DEF IInv, TypeOK, ReadClock, Judged, Holds, mapVars, sweepVars, history
<1>4. Spent' /\ Refilled' /\ LatelySeen'
  BY DEF IInv, TypeOK, ReadClock, Spent, Refilled, Gained, LatelySeen, mapVars, sweepVars,
         history
<1> QED
  BY <1>1, <1>2, <1>3, <1>4 DEF IInv

LEMMA LoadKeeps == \A r \in Requests : IInv /\ Load(r) => IInv'
<1> SUFFICES ASSUME NEW r \in Requests, IInv, Load(r) PROVE IInv'
  OBVIOUS
<1>1. TypeOK'
  BY DEF IInv, TypeOK, Load, Meets, mapVars, sweepVars
<1>2. HasLimiter' /\ Apart' /\ Current'
  BY NoneIsNoBucket
  DEF IInv, TypeOK, Load, Meets, HasLimiter, Apart, Current, Holds, mapVars, sweepVars
<1>3. MetHold' /\ Judged'
  BY DEF IInv, TypeOK, Load, Meets, MetHold, Judged, Holds, mapVars, sweepVars
<1>4. Spent' /\ Refilled' /\ LatelySeen'
  BY DEF IInv, TypeOK, Load, Spent, Refilled, Gained, LatelySeen, mapVars, sweepVars
<1> QED
  BY <1>1, <1>2, <1>3, <1>4 DEF IInv

LEMMA CreateKeeps == \A r \in Requests : IInv /\ Create(r) => IInv'
<1> SUFFICES ASSUME NEW r \in Requests, IInv, Create(r) PROVE IInv'
  OBVIOUS
<1>a. limiter[r] = None
  BY DEF IInv, HasLimiter, Holds, Create
<1>1. CASE entry[key[r]] = None
  <2>1. /\ Fresh \in Buckets /\ Fresh # None
        /\ \A k \in Keys : entry[k] # Fresh
        /\ \A q \in Requests : limiter[q] # Fresh
    BY <1>a, FreshIsFree, NoneIsNoBucket DEF IInv, Used
  <2>2. judged # key[r] /\ r \notin met
    BY <1>1, <1>a, NoKeyIsNoKey DEF IInv, TypeOK, Judged, MetHold, HasLimiter
  <2>3. /\ entry' = [entry EXCEPT ![key[r]] = Fresh]
        /\ tokens' = [tokens EXCEPT ![Fresh] = Burst]
        /\ unseen' = [unseen EXCEPT ![Fresh] = age[r]]
        /\ limiter' = [limiter EXCEPT ![r] = Fresh]
        /\ pc' = [pc EXCEPT ![r] = "allow"]
        /\ UNCHANGED <<met, key, age, sweep, sweepAge, unvisited, judged, allowance>>
    BY <1>1 DEF Create, sweepVars
  <2>4. TypeOK'
    BY <2>1, <2>3, BurstPositive, DurationsNat, RequestsAreShort DEF IInv, TypeOK, MaxAge
  <2>5. HasLimiter'
    BY <2>1, <2>3 DEF IInv, TypeOK, HasLimiter, Holds
  <2>6. Current'
    BY <1>1, <2>1, <2>2, <2>3 DEF IInv, TypeOK, HasLimiter, Current, Holds
  <2>7. Apart'
    BY <1>a, <2>1, <2>3 DEF IInv, TypeOK, HasLimiter, Apart, Holds
  <2>8. MetHold' /\ Judged'
    BY <2>1, <2>2, <2>3 DEF IInv, TypeOK, MetHold, Judged, Holds
  <2>9. Spent'
    BY <1>1, <2>1, <2>2, <2>3 DEF IInv, TypeOK, Spent
  <2>10. Refilled'
    BY <2>1, <2>3 DEF IInv, TypeOK, Refilled, Gained
  <2>11. LatelySeen'
    BY <2>1, <2>3, DurationsNat DEF IInv, TypeOK, LatelySeen
  <2> QED
    BY <2>4, <2>5, <2>6, <2>7, <2>8, <2>9, <2>10, <2>11 DEF IInv
<1>2. CASE entry[key[r]] # None
  <2>1. /\ limiter' = [limiter EXCEPT ![r] = entry[key[r]]]
        /\ pc' = [pc EXCEPT ![r] = "stamp"]
        /\ met' = IF judged = key[r] THEN met \cup {r} ELSE met
        /\ UNCHANGED <<entry, tokens, unseen, key, age, sweep, sweepAge, unvisited, judged,
                       allowance>>
    BY <1>2 DEF Create, Meets, mapVars, sweepVars
  <2>2. TypeOK'
    BY <2>1 DEF IInv, TypeOK
  <2>3. HasLimiter' /\ Apart' /\ Current'
    BY <1>2, <2>1, NoneIsNoBucket DEF IInv, TypeOK, HasLimiter, Apart, Current, Holds
  <2>4. r \notin met
    BY DEF IInv, MetHold, Holds, Create
  <2>5. MetHold'
    BY <1>2, <2>1, <2>4 DEF IInv, TypeOK, MetHold, Holds
  <2>6. Judged'
    BY <2>1 DEF IInv, TypeOK, Judged, Holds
  <2>7. Spent' /\ Refilled' /\ LatelySeen'
    BY <2>1 DEF IInv, TypeOK, Spent, Refilled, Gained, LatelySeen
  <2> QED
    BY <2>2, <2>3, <2>5, <2>6, <2>7 DEF IInv
<1> QED
  BY <1>1, <1>2

LEMMA StampKeeps == \A r \in Requests : IInv /\ Stamp(r) => IInv'
<1> SUFFICES ASSUME NEW r \in Requests, IInv, Stamp(r) PROVE IInv'
  OBVIOUS
<1>1. limiter[r] \in Buckets
  BY DEF IInv, TypeOK, HasLimiter, Holds, Stamp
<1>2. age[r] \in Nat /\ age[r] <= MaxRequest
  BY DurationsNat DEF IInv, TypeOK
<1>3. TypeOK'
  BY <1>1, <1>2, DurationsNat, RequestsAreShort
  DEF IInv, TypeOK, Stamp, MaxAge, sweepVars, history
<1>4. HasLimiter' /\ Apart' /\ Current'
  BY DEF IInv, TypeOK, Stamp, HasLimiter, Apart, Current, Holds, sweepVars, history
<1>5. MetHold' /\ Judged'
  BY DEF IInv, TypeOK, Stamp, MetHold, Judged, Holds, sweepVars, history
<1>6. Spent'
  BY DEF IInv, TypeOK, Stamp, Spent, sweepVars, history
<1>7. Refilled'
  <2>1. Gained(age[r]) <= 0 /\ Gained(age[r]) \in Int
    BY <1>2, DurationsNat, GainedGrows
  <2> SUFFICES ASSUME NEW b \in Buckets, tokens[b] # Burst
               PROVE  tokens[b] >= Gained(unseen'[b])
    BY DEF Refilled, Gained, Stamp
  <2>2. CASE b = limiter[r]
    <3>1. unseen'[b] = age[r] /\ tokens[b] \in Nat
      BY <2>2 DEF IInv, TypeOK, Stamp
    <3> QED
      BY <2>1, <3>1
  <2>3. CASE b # limiter[r]
    BY <2>3 DEF IInv, TypeOK, Stamp, Refilled
  <2> QED
    BY <2>2, <2>3
<1>8. LatelySeen'
  <2> SUFFICES ASSUME NEW q \in Requests, pc'[q] = "allow"
               PROVE  unseen'[limiter[q]] <= MaxRequest + age[q]
    BY DEF LatelySeen, Stamp
  <2>1. age[q] \in Nat /\ limiter[q] \in Buckets
    BY DurationsNat DEF IInv, TypeOK, HasLimiter, Holds, Stamp
  <2>2. CASE limiter[q] = limiter[r]
    <3>1. unseen'[limiter[q]] = age[r]
      BY <1>1, <2>2 DEF IInv, TypeOK, Stamp
    <3> QED
      BY <1>2, <2>1, <3>1, DurationsNat
  <2>3. CASE limiter[q] # limiter[r]
    BY <2>1, <2>3 DEF IInv, TypeOK, Stamp, LatelySeen
  <2> QED
    BY <2>2, <2>3
<1> QED
  BY <1>3, <1>4, <1>5, <1>6, <1>7, <1>8 DEF IInv

\* Whoever leaves gives up its bucket; only Pass has taken something out of it.
LEMMA LeaveKeeps ==
  ASSUME IInv, NEW r \in Requests, pc[r] = "allow", Leave(r)
  PROVE  /\ HasLimiter' /\ Apart' /\ Current' /\ MetHold' /\ Judged' /\ LatelySeen'
         /\ tokens' \in [Buckets -> 0..Burst] /\ allowance' \in [Keys -> Int] => TypeOK'
<1>1. HasLimiter' /\ Apart' /\ Current'
  BY DEF IInv, TypeOK, Leave, HasLimiter, Apart, Current, Holds, sweepVars
<1>2. MetHold' /\ Judged'
  BY DEF IInv, TypeOK, Leave, MetHold, Judged, Holds, sweepVars
<1>3. LatelySeen'
  BY DEF IInv, TypeOK, Leave, LatelySeen
<1>4. ASSUME tokens' \in [Buckets -> 0..Burst], allowance' \in [Keys -> Int]
      PROVE  TypeOK'
  BY <1>4, DurationsNat DEF IInv, TypeOK, Leave, sweepVars
<1> QED
  BY <1>1, <1>2, <1>3, <1>4

\* A request that has not met the sweep asks the ideal bucket (ratelimit_ip.go:51-53).
LEMMA AsksIdeal ==
  ASSUME IInv, NEW r \in Requests, pc[r] = "allow", r \notin met
  PROVE  /\ limiter[r] = entry[key[r]] /\ limiter[r] \in Buckets
         /\ judged # key[r]
         /\ allowance[key[r]] = tokens[limiter[r]]
<1>1. limiter[r] = entry[key[r]] /\ limiter[r] # None /\ key[r] \in Keys
  BY DEF IInv, TypeOK, HasLimiter, Current, Holds
<1>2. judged # key[r]
  BY NoKeyIsNoKey DEF IInv, TypeOK, Judged, Holds
<1> QED
  BY <1>1, <1>2 DEF IInv, TypeOK, Spent

LEMMA PassKeeps == \A r \in Requests : IInv /\ Pass(r) => IInv'
<1> SUFFICES ASSUME NEW r \in Requests, IInv, Pass(r) PROVE IInv'
  OBVIOUS
<1>1. /\ pc[r] = "allow" /\ Leave(r) /\ tokens[limiter[r]] >= 1
      /\ tokens' = [tokens EXCEPT ![limiter[r]] = @ - 1]
      /\ UNCHANGED <<entry, unseen, key, judged>>
  BY DEF Pass, Leave, sweepVars
<1>2. limiter[r] \in Buckets
  BY <1>1 DEF IInv, TypeOK, HasLimiter, Holds
<1>3. tokens' \in [Buckets -> 0..Burst] /\ allowance' \in [Keys -> Int]
  BY <1>1, <1>2, BurstPositive DEF IInv, TypeOK, Pass
<1>4. Spent'
  <2> SUFFICES ASSUME NEW k \in Keys
               PROVE  allowance'[k] = IF entry[k] = None \/ judged = k
                                      THEN Burst ELSE tokens'[entry[k]]
    BY <1>1 DEF Spent
  <2>1. CASE r \in met
    <3>1. allowance' = allowance
      BY <2>1 DEF Pass
    <3>2. limiter[r] = entry[k] => judged = k
      BY <1>1, <2>1 DEF IInv, Apart, MetHold, Holds
    <3> QED
      BY <1>1, <1>2, <3>1, <3>2 DEF IInv, TypeOK, Spent
  <2>2. CASE r \notin met /\ k = key[r]
    <3>1. allowance'[k] = allowance[k] - 1
      BY <2>2 DEF IInv, TypeOK, Pass
    <3>2. /\ limiter[r] = entry[k] /\ judged # k
          /\ allowance[k] = tokens[limiter[r]]
      BY <1>1, <2>2, AsksIdeal
    <3>3. tokens'[limiter[r]] = tokens[limiter[r]] - 1
      BY <1>1, <1>2 DEF IInv, TypeOK
    <3> QED
      BY <1>2, <3>1, <3>2, <3>3, NoneIsNoBucket
  <2>3. CASE r \notin met /\ k # key[r]
    <3>1. allowance'[k] = allowance[k]
      BY <2>3 DEF IInv, TypeOK, Pass
    <3>2. limiter[r] # entry[k]
      BY <1>1, <2>3 DEF IInv, Apart, Holds
    <3> QED
      BY <1>1, <3>1, <3>2 DEF IInv, TypeOK, Spent
  <2> QED
    BY <2>1, <2>2, <2>3
<1>5. Refilled'
  <2>1. unseen[limiter[r]] \in Nat /\ unseen[limiter[r]] <= 2 * MaxRequest
    BY <1>1, <1>2, DurationsNat DEF IInv, TypeOK, LatelySeen, MaxAge
  <2>2. Gained(unseen[limiter[r]]) <= 0 /\ Gained(unseen[limiter[r]]) \in Int
    BY <2>1, GainedGrows
  <2> SUFFICES ASSUME NEW b \in Buckets, tokens'[b] # Burst
               PROVE  tokens'[b] >= Gained(unseen[b])
    BY <1>1 DEF Refilled, Gained
  <2>3. CASE b = limiter[r]
    BY <1>3, <2>2, <2>3, BurstPositive
  <2>4. CASE b # limiter[r]
    BY <1>1, <2>4 DEF IInv, TypeOK, Refilled
  <2> QED
    BY <2>3, <2>4
<1> QED
  BY <1>1, <1>3, <1>4, <1>5, LeaveKeeps DEF IInv

LEMMA RefuseKeeps == \A r \in Requests : IInv /\ Refuse(r) => IInv'
<1> SUFFICES ASSUME NEW r \in Requests, IInv, Refuse(r) PROVE IInv'
  OBVIOUS
<1>1. /\ pc[r] = "allow" /\ Leave(r)
      /\ UNCHANGED <<tokens, allowance, entry, unseen, judged>>
  BY DEF Refuse, Leave, sweepVars
<1>2. tokens' \in [Buckets -> 0..Burst] /\ allowance' \in [Keys -> Int]
  BY <1>1 DEF IInv, TypeOK
<1>3. Spent' /\ Refilled'
  BY <1>1 DEF IInv, Spent, Refilled, Gained
<1> QED
  BY <1>1, <1>2, <1>3, LeaveKeeps DEF IInv

LEMMA SweepVisitKeeps == IInv /\ SweepVisit => IInv'
<1> SUFFICES ASSUME IInv, SweepVisit PROVE IInv'
  OBVIOUS
<1> PICK k \in unvisited :
        /\ unvisited' = unvisited \ {k}
        /\ judged' = IF entry[k] # None /\ Idle(entry[k]) THEN k ELSE NoKey
        /\ met' = IF judged' = k THEN met \cup Holding(k) ELSE met
  BY DEF SweepVisit
<1>1. /\ judged = NoKey
      /\ UNCHANGED <<entry, tokens, unseen, pc, key, age, limiter, sweep, sweepAge, allowance>>
  BY DEF SweepVisit, mapVars, handlerVars
<1>2. k \in Keys /\ k # NoKey
  BY NoKeyIsNoKey DEF IInv, TypeOK
<1>3. TypeOK'
  BY <1>1, <1>2 DEF IInv, TypeOK, Holding
<1>4. HasLimiter' /\ Apart' /\ Refilled' /\ LatelySeen'
  BY <1>1 DEF IInv, HasLimiter, Apart, Holds, Refilled, Gained, LatelySeen
<1>5. CASE entry[k] # None /\ Idle(entry[k])
  <2>1. judged' = k /\ met' = met \cup Holding(k)
    BY <1>5
  <2>2. Current'
    BY <1>1, <2>1 DEF IInv, Current, Holds
  <2>3. MetHold'
    <3> SUFFICES ASSUME NEW r \in met \cup Holding(k)
                 PROVE  Holds(r) /\ (limiter[r] = entry[key[r]] => key[r] = k)
      BY <1>1, <2>1 DEF MetHold, Holds
    <3>1. CASE r \in met
      <4>1. key[r] \in Keys
        BY <3>1 DEF IInv, TypeOK
      <4> QED
        BY <1>1, <3>1, <4>1, NoKeyIsNoKey DEF IInv, MetHold
    <3>2. CASE r \in Holding(k)
      BY <3>2 DEF Holding, Holds
    <3> QED
      BY <3>1, <3>2
  <2>4. Judged'
    BY <1>1, <1>5, <2>1 DEF Judged, Holds, Holding
  <2>5. tokens[entry[k]] = Burst
    BY <1>2, <1>5, IdleFull DEF IInv, TypeOK
  <2>6. Spent'
    BY <1>1, <1>2, <1>5, <2>1, <2>5, NoKeyIsNoKey DEF IInv, Spent
  <2> QED
    BY <1>3, <1>4, <2>2, <2>3, <2>4, <2>6 DEF IInv
<1>6. CASE ~(entry[k] # None /\ Idle(entry[k]))
  <2>1. judged' = judged /\ met' = met
    BY <1>1, <1>2, <1>6
  <2>2. Current' /\ MetHold' /\ Judged'
    BY <1>1, <2>1 DEF IInv, Current, MetHold, Judged, Holds
  <2>3. Spent'
    BY <1>1, <2>1 DEF IInv, Spent
  <2> QED
    BY <1>3, <1>4, <2>2, <2>3 DEF IInv
<1> QED
  BY <1>5, <1>6

LEMMA SweepDeleteKeeps == IInv /\ SweepDelete => IInv'
<1> SUFFICES ASSUME IInv, SweepDelete PROVE IInv'
  OBVIOUS
<1>1. /\ judged # NoKey /\ judged' = NoKey
      /\ entry' = [entry EXCEPT ![judged] = None]
      /\ UNCHANGED <<tokens, unseen, pc, key, age, limiter, sweep, sweepAge, unvisited,
                     allowance, met>>
  BY DEF SweepDelete, handlerVars, history
<1>2. TypeOK'
  BY <1>1 DEF IInv, TypeOK
<1>3. HasLimiter'
  BY <1>1 DEF IInv, HasLimiter, Holds
<1>4. Apart'
  BY <1>1 DEF IInv, TypeOK, HasLimiter, Apart, Holds
<1>5. Current'
  BY <1>1 DEF IInv, TypeOK, Current, Judged, Holds
<1>6. MetHold' /\ Judged'
  BY <1>1 DEF IInv, TypeOK, HasLimiter, MetHold, Judged, Holds
<1>7. Spent'
  BY <1>1, NoKeyIsNoKey DEF IInv, TypeOK, Spent
<1>8. Refilled' /\ LatelySeen'
  BY <1>1 DEF IInv, Refilled, Gained, LatelySeen
<1> QED
  BY <1>2, <1>3, <1>4, <1>5, <1>6, <1>7, <1>8 DEF IInv

\* The steps that touch nothing the invariant is about.
LEMMA IdleStepKeeps ==
  ASSUME IInv, TypeOK', UNCHANGED <<mapVars, handlerVars, judged, history>>
  PROVE  IInv'
<1>1. HasLimiter' /\ Apart' /\ Current' /\ MetHold' /\ Judged'
  BY DEF IInv, HasLimiter, Apart, Current, MetHold, Judged, Holds, mapVars, handlerVars, history
<1>2. Spent' /\ Refilled' /\ LatelySeen'
  BY DEF IInv, Spent, Refilled, Gained, LatelySeen, mapVars, handlerVars, history
<1> QED
  BY <1>1, <1>2 DEF IInv

LEMMA InitKeeps == Init => IInv
<1> SUFFICES ASSUME Init PROVE IInv
  OBVIOUS
<1>1. TypeOK
  BY BurstPositive, DurationsNat DEF Init, TypeOK, MaxAge
<1>2. HasLimiter /\ Apart /\ Current /\ MetHold /\ Judged /\ LatelySeen
  BY DEF Init, HasLimiter, Apart, Current, MetHold, Judged, Holds, LatelySeen
<1>3. Spent /\ Refilled
  BY DEF Init, Spent, Refilled
<1> QED
  BY <1>1, <1>2, <1>3 DEF IInv

THEOREM Invariance == Spec => []IInv
<1>1. IInv /\ [Next]_vars => IInv'
  <2> SUFFICES ASSUME IInv, [Next]_vars PROVE IInv'
    OBVIOUS
  <2>1. CASE Tick
    BY <2>1, TickKeeps
  <2>2. CASE Cleanup
    <3>1. CASE SweepStart
      <4>1. TypeOK'
        BY <3>1 DEF IInv, TypeOK, SweepStart, mapVars, handlerVars, history
      <4> QED
        BY <3>1, <4>1, IdleStepKeeps DEF SweepStart
    <3>2. CASE SweepEnd
      <4>1. TypeOK'
        BY <3>2, DurationsNat DEF IInv, TypeOK, SweepEnd, mapVars, handlerVars, history
      <4> QED
        BY <3>2, <4>1, IdleStepKeeps DEF SweepEnd
    <3> QED
      BY <2>2, <3>1, <3>2, SweepVisitKeeps, SweepDeleteKeeps DEF Cleanup
  <2>3. ASSUME NEW r \in Requests, ReadClock(r) \/ Process(r) PROVE IInv'
    BY <2>3, ReadClockKeeps, LoadKeeps, CreateKeeps, StampKeeps, PassKeeps, RefuseKeeps
    DEF Process, GetLimiter
  <2>4. CASE UNCHANGED vars
    <3>1. TypeOK'
      BY <2>4 DEF IInv, TypeOK, vars, mapVars, handlerVars, sweepVars, history
    <3> QED
      BY <2>4, <3>1, IdleStepKeeps DEF vars, sweepVars
  <2> QED
    BY <2>1, <2>2, <2>3, <2>4 DEF Next
<1> QED
  BY <1>1, InitKeeps, PTL DEF Spec

----------------------------------------------------------------------------
(* What the map of swept buckets promises. *)

\* Every variable keeps its type; no bucket is overdrawn or overfull.
THEOREM TypeCorrect == Spec => []TypeOK
<1>1. IInv => TypeOK
  BY DEF IInv
<1> QED
  BY <1>1, Invariance, PTL

\* No key gets more through than one bucket for ever would let through, the
\* requests apart that met the sweep (ratelimit_ip.go:72-109).
THEOREM RateCorrect == Spec => []RateHeld
<1>1. IInv => RateHeld
  BY BurstPositive DEF IInv, TypeOK, Spent, RateHeld
<1> QED
  BY <1>1, Invariance, PTL

\* No key is refused where that bucket would not refuse it (ratelimit_ip.go:53-56).
THEOREM NeverStricterCorrect == Spec => NeverStricter
<1> DEFINE Refused(r) == pc[r] = "allow" /\ pc'[r] = "idle" /\ allowance' = allowance
<1>1. IInv /\ [Next]_vars => \A r \in Requests \ met : Refused(r) => allowance[key[r]] < 1
  <2> SUFFICES ASSUME IInv, [Next]_vars, NEW r \in Requests, r \notin met, Refused(r)
               PROVE  allowance[key[r]] < 1
    OBVIOUS
  <2>1. \E q \in Requests : ReadClock(q) \/ Process(q)
    BY DEF Next, Tick, Cleanup, SweepStart, SweepVisit, SweepDelete, SweepEnd, vars, handlerVars
  <2>2. PICK q \in Requests : ReadClock(q) \/ Process(q)
    BY <2>1
  <2>3. q = r /\ (Pass(r) \/ Refuse(r))
    BY <2>2
    DEF IInv, TypeOK, ReadClock, Process, GetLimiter, Load, Create, Stamp, Pass, Refuse, Leave
  <2>4. allowance[key[r]] = tokens[limiter[r]] /\ limiter[r] \in Buckets
    BY AsksIdeal
  <2>5. ~Pass(r)
    BY DEF IInv, TypeOK, Pass
  <2> QED
    BY <2>3, <2>4, <2>5 DEF Refuse
<1> QED
  BY <1>1, Invariance, PTL DEF Spec, NeverStricter

=============================================================================
