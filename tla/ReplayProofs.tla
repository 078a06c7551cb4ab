---------------------------- MODULE ReplayProofs ----------------------------
(***************************************************************************)
(* Proofs about ReplayDetector, for any handlers, nonces, window and skew. *)
(*                                                                         *)
(* The inductive invariant IInv says, beside the types, what the store has *)
(* to do with the history of it (StoreIsHistory), what a handler that has  *)
(* loaded knows (LoadedIsHistory), and how old the timestamp is that let a *)
(* handler come this far (AcceptedStamp).                                  *)
(***************************************************************************)
EXTENDS ReplayDetector, TLAPS

Checking == {"load", "compare", "store"}

\* CheckAndStore computes the expiry first, the sweep's callback gets an
\* entry that was there.
Begun ==
    /\ \A r \in Requests : pc[r] \in Checking => expiry[r] \in Expiries
    /\ sweep = "visiting" => visiting \in [key : Nonces, value : Expiries]

\* Why an entry is not there: none was stored, or it was deleted unread, or it
\* had expired.
Gone(s) == s.expiry = Absent \/ s.lost \/ s.expiry < clock

StoreIsHistory ==
    \A n \in Nonces : \/ entries[n] # Absent /\ stored[n].expiry = entries[n]
                      \/ entries[n] = Absent /\ Gone(stored[n])

LoadedIsHistory ==
    \A r \in Requests : pc[r] = "compare" =>
        \/ found[r] # Absent /\ prior[r].expiry = found[r]
        \/ found[r] = Absent /\ Gone(prior[r])

AcceptedStamp ==
    \A r \in Requests : pc[r] \in Checking \cup {"sound"} =>
        /\ stamp[nonce[r]] # Garbled
        /\ stamp[nonce[r]] >= 0 => since[r] - stamp[nonce[r]] <= Window

IInv ==
    /\ TypeOK /\ Begun
    /\ StoreIsHistory /\ LoadedIsHistory /\ NewUnlessForgotten
    /\ AcceptedStamp

----------------------------------------------------------------------------
LEMMA Numbers ==
    /\ Window \in Nat /\ Window >= 1 /\ MaxTime \in Nat
    /\ Absent = -1 /\ Absent \notin Expiries
    /\ Expiries \subseteq Nat
    /\ \A c \in 0..MaxTime : c + Window \in Expiries
    /\ Never \in Stores /\ Stamps \subseteq Int
  BY WindowPositive, BoundsNat DEF Absent, Expiries, Never, Stores, Stamps, NoStamp, Garbled

LEMMA StoresInt == \A s \in Stores : s.expiry \in Int /\ s.lost \in BOOLEAN
  <1>1. Expiries \cup {Absent} \subseteq Int
    BY Numbers
  <1> QED
    BY <1>1, Zenon DEF Stores

\* Leave, whatever it is called for.
LEMMA LeaveKeeps ==
    ASSUME TypeOK, NEW r \in Requests, NEW place, NEW reason,
           place \in {"idle", "rejected"},
           reason \in {"none", Unreadable, NoNonce, "garbled", "stale", "future", "replay"},
           Leave(r, place, reason)
    PROVE  /\ pc' \in [Requests -> {"idle", "sound", "load", "compare", "store", "rejected"}]
           /\ why' \in [Requests -> {"none", Unreadable, NoNonce, "garbled", "stale", "future",
                                     "replay"}]
           /\ nonce' = nonce
           /\ expiry' \in [Requests -> Expiries \cup {0}]
           /\ found' \in [Requests -> Expiries \cup {Absent}]
           /\ prior' \in [Requests -> Stores]
           /\ since' \in [Requests -> 0..clock]
           /\ \A q \in Requests :
                 pc'[q] \notin {"idle", "rejected"} =>
                    /\ q # r /\ pc'[q] = pc[q] /\ expiry'[q] = expiry[q]
                    /\ found'[q] = found[q] /\ prior'[q] = prior[q] /\ since'[q] = since[q]
           /\ \A q \in Requests : q # r => why'[q] = why[q]
           /\ why'[r] = reason
  <1>1. 0 \in 0..clock
    BY Numbers DEF TypeOK
  <1> QED
    BY <1>1, Numbers DEF Leave, TypeOK

\* A handler that answers or moves on disturbs nothing shared.
LEMMA LeavingKeepsIInv ==
    ASSUME IInv, NEW r \in Requests, NEW place, NEW reason,
           place \in {"idle", "rejected"},
           reason \in {"none", Unreadable, NoNonce, "garbled", "stale", "future", "replay"},
           Leave(r, place, reason), Untouched
    PROVE  IInv'
  <1>1. UNCHANGED <<policy, stamp, clock, entries, sweep, sweepNow, unvisited, visiting, stored>>
    BY DEF Untouched, sweepVars
  <1>2. TypeOK'
    BY <1>1, LeaveKeeps DEF TypeOK, IInv
  <1>3. Begun'
    BY <1>1, LeaveKeeps DEF Begun, Checking, IInv
  <1>4. StoreIsHistory'
    BY <1>1 DEF StoreIsHistory, Gone, IInv
  <1>5. LoadedIsHistory'
    BY <1>1, LeaveKeeps DEF LoadedIsHistory, Gone, IInv
  <1>6. NewUnlessForgotten'
    BY <1>1, LeaveKeeps DEF NewUnlessForgotten, IInv
  <1>7. AcceptedStamp'
    BY <1>1, LeaveKeeps DEF AcceptedStamp, Checking, IInv
  <1> QED
    BY <1>2, <1>3, <1>4, <1>5, <1>6, <1>7 DEF IInv

----------------------------------------------------------------------------
LEMMA InitIInv == Init => IInv
  <1> SUFFICES ASSUME Init PROVE IInv
    OBVIOUS
  <1>1. 0 \in 0..MaxTime /\ 0 \in 0..0
    BY Numbers
  <1>2. TypeOK
    BY <1>1, Numbers DEF Init, TypeOK
  <1>3. Begun /\ StoreIsHistory /\ LoadedIsHistory /\ NewUnlessForgotten /\ AcceptedStamp
    BY DEF Init, Begun, StoreIsHistory, LoadedIsHistory, NewUnlessForgotten, AcceptedStamp,
           Checking, Gone, Never
  <1> QED
    BY <1>2, <1>3 DEF IInv

LEMMA TickKeepsIInv == IInv /\ Tick => IInv'
  <1> SUFFICES ASSUME IInv, Tick PROVE IInv'
    OBVIOUS
  <1>1. /\ UNCHANGED <<policy, stamp, entries, pc, why, nonce, expiry, found, sweep, sweepNow,
                       unvisited, visiting, stored, prior, since>>
        /\ clock' = clock + 1 /\ clock \in Nat /\ clock' \in 0..MaxTime
    BY Numbers DEF Tick, handlerVars, sweepVars, history, IInv, TypeOK
  <1>2. sweepNow' \in 0..clock' /\ since' \in [Requests -> 0..clock']
    <2>1. 0..clock \subseteq 0..clock'
      BY <1>1
    <2> QED
      BY <1>1, <2>1 DEF IInv, TypeOK
  <1>3. TypeOK'
    BY <1>1, <1>2 DEF IInv, TypeOK
  <1>4. Begun'
    BY <1>1 DEF IInv, Begun
  <1>5. \A s \in Stores : /\ s.expiry < clock => s.expiry < clock'
                          /\ s.expiry <= clock => s.expiry <= clock'
    <2>1. \A s \in Stores : s.expiry \in Int
      BY StoresInt
    <2>2. clock \in Int /\ clock' = clock + 1
      BY <1>1
    <2>3. \A e \in Int : (e < clock => e < clock') /\ (e <= clock => e <= clock')
      BY <2>2
    <2> QED
      BY <2>1, <2>3
  <1>6. entries' = entries /\ stored' = stored /\ pc' = pc /\ found' = found /\ prior' = prior
    BY <1>1
  <1>7. StoreIsHistory'
    <2>1. \A n \in Nonces : stored[n] \in Stores
      BY DEF IInv, TypeOK
    <2>2. ASSUME NEW n \in Nonces, Gone(stored[n])
          PROVE  stored[n].expiry = Absent \/ stored[n].lost \/ stored[n].expiry < clock'
      BY <1>5, <2>1, <2>2 DEF Gone
    <2> QED
      BY <1>6, <2>2 DEF IInv, StoreIsHistory, Gone
  <1>8. LoadedIsHistory' /\ NewUnlessForgotten'
    <2>1. \A r \in Requests : prior[r] \in Stores
      BY DEF IInv, TypeOK
    <2>2. ASSUME NEW r \in Requests, Gone(prior[r])
          PROVE  prior[r].expiry = Absent \/ prior[r].lost \/ prior[r].expiry < clock'
      BY <1>5, <2>1, <2>2 DEF Gone
    <2>3. ASSUME NEW r \in Requests, prior[r].expiry <= clock
          PROVE  prior[r].expiry <= clock'
      BY <1>5, <2>1, <2>3
    <2>4. LoadedIsHistory'
      BY <1>6, <2>2 DEF IInv, LoadedIsHistory, Gone
    <2> QED
      BY <1>6, <2>3, <2>4 DEF IInv, NewUnlessForgotten
  <1>9. AcceptedStamp'
    BY <1>1 DEF IInv, AcceptedStamp
  <1> QED
    BY <1>3, <1>4, <1>7, <1>8, <1>9 DEF IInv

----------------------------------------------------------------------------
LEMMA HandlerKeepsIInv ==
    ASSUME IInv, NEW r \in Requests, Handler(r)
    PROVE  IInv'
  <1> DEFINE Reasons == {"none", Unreadable, NoNonce, "garbled", "stale", "future", "replay"}
  <1>1. ASSUME NEW reason \in Reasons, ByPolicy(r, reason), Untouched
        PROVE  IInv'
    BY <1>1, LeavingKeepsIInv DEF ByPolicy, Refuse, Pass
  <1>2. CASE PassExempt(r) \/ Return(r)
    BY <1>2, LeavingKeepsIInv DEF PassExempt, Return, Pass
  <1>3. CASE FaultyNonce(r)
    BY <1>1, <1>3 DEF FaultyNonce
  <1>4. CASE FaultyStamp(r)
    BY <1>1, <1>4 DEF FaultyStamp
  <1>5. CASE Seen(r)
    BY <1>1, <1>5 DEF Seen
  <1>6. CASE SoundStamp(r)
    <2>1. PICK n \in Nonces : /\ stamp[n] # Garbled /\ ~TooOld(n)
                              /\ nonce' = [nonce EXCEPT ![r] = n]
      BY <1>6 DEF SoundStamp
    <2>2. /\ UNCHANGED <<policy, stamp, clock, entries, why, expiry, found, sweep, sweepNow,
                         unvisited, visiting, stored, prior>>
          /\ since' = [since EXCEPT ![r] = clock] /\ pc' = [pc EXCEPT ![r] = "sound"]
      BY <1>6 DEF SoundStamp, Untouched, sweepVars
    <2>3. clock \in 0..clock
      BY Numbers DEF IInv, TypeOK
    <2>4. TypeOK'
      BY <2>1, <2>2, <2>3 DEF IInv, TypeOK
    <2>5. Begun' /\ StoreIsHistory' /\ LoadedIsHistory' /\ NewUnlessForgotten'
      BY <2>2 DEF IInv, TypeOK, Begun, StoreIsHistory, LoadedIsHistory, NewUnlessForgotten, Gone,
                  Checking
    <2>6. AcceptedStamp'
      <3>1. stamp[n] >= 0 => clock - stamp[n] <= Window
        <4>1. stamp[n] \in Int /\ clock \in Int /\ Window \in Int
          <5>1. stamp[n] \in Stamps /\ clock \in 0..MaxTime
            BY DEF IInv, TypeOK
          <5>2. stamp[n] \in Int
            BY <5>1, Numbers, Zenon
          <5> QED
            BY <5>1, <5>2, WindowPositive, BoundsNat
        <4>2. ~(stamp[n] >= 0 /\ clock - stamp[n] > Window)
          BY <2>1 DEF TooOld
        <4> QED
          BY <4>1, <4>2
      <3> SUFFICES ASSUME NEW q \in Requests, pc'[q] \in Checking \cup {"sound"}
                   PROVE  /\ stamp[nonce'[q]] # Garbled
                          /\ stamp[nonce'[q]] >= 0 => since'[q] - stamp[nonce'[q]] <= Window
        BY <2>2 DEF AcceptedStamp
      <3>2. CASE q = r
        <4>1. nonce'[r] = n /\ since'[r] = clock
          BY <2>1, <2>2 DEF IInv, TypeOK
        <4> QED
          BY <2>1, <3>1, <3>2, <4>1
      <3>3. CASE q # r
        <4>1. nonce'[q] = nonce[q] /\ since'[q] = since[q] /\ pc'[q] = pc[q]
          BY <2>1, <2>2, <3>3 DEF IInv, TypeOK
        <4> QED
          BY <4>1 DEF IInv, AcceptedStamp
      <3> QED
        BY <3>2, <3>3
    <2> QED
      BY <2>4, <2>5, <2>6 DEF IInv
  <1>7. CASE BeginCheck(r)
    <2>1. /\ UNCHANGED <<policy, stamp, clock, entries, why, nonce, found, sweep, sweepNow,
                         unvisited, visiting, stored, prior, since>>
          /\ expiry' = [expiry EXCEPT ![r] = clock + Window] /\ pc[r] = "sound"
          /\ pc' = [pc EXCEPT ![r] = "load"] /\ clock + Window \in Expiries
      BY <1>7, Numbers DEF BeginCheck, sweepVars, history, IInv, TypeOK
    <2>2. TypeOK'
      BY <2>1 DEF IInv, TypeOK
    <2>3. /\ Begun' /\ StoreIsHistory' /\ LoadedIsHistory' /\ NewUnlessForgotten'
          /\ AcceptedStamp'
      BY <2>1 DEF IInv, TypeOK, Begun, StoreIsHistory, LoadedIsHistory, NewUnlessForgotten, Gone,
                  Checking, AcceptedStamp
    <2> QED
      BY <2>2, <2>3 DEF IInv
  <1>8. CASE Load(r)
    <2>1. /\ UNCHANGED <<policy, stamp, clock, entries, why, nonce, expiry, sweep, sweepNow,
                         unvisited, visiting, stored, since>>
          /\ found' = [found EXCEPT ![r] = entries[nonce[r]]]
          /\ prior' = [prior EXCEPT ![r] = stored[nonce[r]]]
          /\ pc[r] = "load" /\ pc' = [pc EXCEPT ![r] = "compare"]
      BY <1>8 DEF Load, sweepVars
    <2>2. TypeOK'
      BY <2>1 DEF IInv, TypeOK
    <2>3. LoadedIsHistory'
      BY <2>1 DEF IInv, TypeOK, LoadedIsHistory, StoreIsHistory, Gone
    <2>4. Begun' /\ StoreIsHistory' /\ NewUnlessForgotten' /\ AcceptedStamp'
      BY <2>1 DEF IInv, TypeOK, Begun, StoreIsHistory, NewUnlessForgotten, Gone, Checking,
                  AcceptedStamp
    <2> QED
      BY <2>2, <2>3, <2>4 DEF IInv
  <1>9. CASE NotSeen(r)
    <2>1. /\ UNCHANGED <<policy, stamp, clock, entries, why, nonce, expiry, sweep, sweepNow,
                         unvisited, visiting, stored, prior, since>>
          /\ found' = [found EXCEPT ![r] = Absent] /\ ~Unexpired(found[r])
          /\ pc[r] = "compare" /\ pc' = [pc EXCEPT ![r] = "store"]
      BY <1>9 DEF NotSeen, sweepVars, history
    <2>2. TypeOK'
      BY <2>1 DEF IInv, TypeOK
    <2>3. NewUnlessForgotten'
      <3>1. prior[r].expiry = Absent \/ prior[r].expiry <= clock \/ prior[r].lost
        <4>1. prior[r].expiry \in Int /\ clock \in Int
          BY StoresInt, Numbers DEF IInv, TypeOK
        <4>2. CASE found[r] # Absent /\ prior[r].expiry = found[r]
          BY <2>1, <4>1, <4>2, SMT DEF Unexpired
        <4>3. CASE found[r] = Absent /\ Gone(prior[r])
          <5>1. prior[r].expiry < clock => prior[r].expiry <= clock
            BY <4>1
          <5> QED
            BY <4>3, <5>1, Zenon DEF Gone
        <4> QED
          BY <2>1, <4>2, <4>3 DEF IInv, LoadedIsHistory
      <3> QED
        BY <2>1, <3>1 DEF IInv, TypeOK, NewUnlessForgotten
    <2>4. Begun' /\ StoreIsHistory' /\ LoadedIsHistory' /\ AcceptedStamp'
      BY <2>1 DEF IInv, TypeOK, Begun, StoreIsHistory, LoadedIsHistory, Gone, Checking,
                  AcceptedStamp
    <2> QED
      BY <2>2, <2>3, <2>4 DEF IInv
  <1>10. CASE Store(r)
    <2>1. /\ UNCHANGED <<policy, stamp, clock, sweep, sweepNow, unvisited, visiting>>
          /\ entries' = [entries EXCEPT ![nonce[r]] = expiry[r]]
          /\ stored' = [stored EXCEPT ![nonce[r]] = [expiry |-> expiry[r], lost |-> FALSE]]
          /\ Leave(r, "idle", "none") /\ expiry[r] \in Expiries /\ expiry[r] # Absent
      BY <1>10, Numbers DEF Store, Pass, sweepVars, IInv, Begun, Checking
    <2>2. [expiry |-> expiry[r], lost |-> FALSE] \in Stores
      BY <2>1 DEF Stores
    <2>3. TypeOK'
      BY <2>1, <2>2, LeaveKeeps DEF IInv, TypeOK
    <2>4. Begun' /\ AcceptedStamp'
      BY <2>1, LeaveKeeps DEF IInv, Begun, AcceptedStamp, Checking
    <2>5. StoreIsHistory'
      BY <2>1 DEF IInv, TypeOK, StoreIsHistory, Gone
    <2>6. LoadedIsHistory' /\ NewUnlessForgotten'
      BY <2>1, LeaveKeeps DEF IInv, LoadedIsHistory, NewUnlessForgotten, Gone
    <2> QED
      BY <2>3, <2>4, <2>5, <2>6 DEF IInv
  <1> QED
    BY <1>2, <1>3, <1>4, <1>5, <1>6, <1>7, <1>8, <1>9, <1>10 DEF Handler, Inspect, CheckAndStore

LEMMA SweepKeepsIInv == IInv /\ Sweep => IInv'
  <1> SUFFICES ASSUME IInv, Sweep PROVE IInv'
    OBVIOUS
  <1>1. CASE SweepStart \/ SweepVisit \/ SweepKeep \/ SweepEnd
    <2>1. UNCHANGED <<policy, stamp, clock, entries, pc, why, nonce, expiry, found, stored,
                      prior, since>>
      BY <1>1 DEF SweepStart, SweepVisit, SweepKeep, SweepEnd, handlerVars, history
    <2>2. 0 \in 0..clock /\ clock \in 0..clock
      BY Numbers DEF IInv, TypeOK
    <2>3. ASSUME SweepVisit PROVE TypeOK' /\ Begun'
      BY <2>1, <2>3 DEF SweepVisit, IInv, TypeOK, Begun
    <2>4. ASSUME SweepStart \/ SweepKeep \/ SweepEnd PROVE TypeOK' /\ Begun'
      BY <2>1, <2>2, <2>4 DEF SweepStart, SweepKeep, SweepEnd, IInv, TypeOK, Begun
    <2>5. StoreIsHistory' /\ LoadedIsHistory' /\ NewUnlessForgotten' /\ AcceptedStamp'
      BY <2>1 DEF IInv, StoreIsHistory, LoadedIsHistory, NewUnlessForgotten, AcceptedStamp, Gone
    <2> QED
      BY <1>1, <2>3, <2>4, <2>5 DEF IInv
  <1>2. CASE SweepDelete
    <2> DEFINE k == visiting.key
    <2>1. /\ UNCHANGED <<policy, stamp, clock, pc, why, nonce, expiry, found, sweepNow, unvisited,
                         prior, since>>
          /\ k \in Nonces /\ visiting.value \in Int /\ visiting.value < sweepNow
          /\ sweep' = "ranging" /\ visiting' = Nothing
          /\ entries' = [entries EXCEPT ![k] = Absent]
          /\ stored' = [stored EXCEPT ![k].lost = @ \/ entries[k] # visiting.value]
      BY <1>2, Numbers DEF SweepDelete, handlerVars, IInv, TypeOK, Begun
    <2>2. stored' \in [Nonces -> Stores]
      BY <2>1 DEF IInv, TypeOK, Stores
    <2>3. TypeOK'
      BY <2>1, <2>2 DEF IInv, TypeOK
    <2>4. Begun' /\ LoadedIsHistory' /\ NewUnlessForgotten' /\ AcceptedStamp'
      BY <2>1 DEF IInv, Begun, LoadedIsHistory, NewUnlessForgotten, AcceptedStamp, Gone
    <2>5. StoreIsHistory'
      <3> SUFFICES ASSUME NEW n \in Nonces
                   PROVE  \/ entries'[n] # Absent /\ stored'[n].expiry = entries'[n]
                          \/ entries'[n] = Absent /\ Gone(stored'[n])
        BY <2>1 DEF StoreIsHistory, Gone
      <3>1. CASE n # k
        <4>1. entries'[n] = entries[n] /\ stored'[n] = stored[n]
          BY <2>1, <3>1 DEF IInv, TypeOK
        <4> QED
          BY <4>1 DEF IInv, StoreIsHistory
      <3>2. CASE n = k
        <4>1. /\ entries'[n] = Absent /\ stored'[n].expiry = stored[n].expiry
              /\ stored'[n].lost = (stored[n].lost \/ entries[k] # visiting.value)
          BY <2>1, <3>2 DEF IInv, TypeOK, Stores
        <4>2. CASE entries[k] # visiting.value
          BY <4>1, <4>2, Zenon DEF Gone
        <4>3. CASE entries[k] = visiting.value /\ entries[k] = Absent
          BY <3>2, <4>1, <4>3, Zenon DEF Gone, IInv, StoreIsHistory
        <4>4. CASE entries[k] = visiting.value /\ entries[k] # Absent
          <5>1. stored[n].expiry = visiting.value
            BY <2>1, <3>2, <4>4 DEF IInv, StoreIsHistory
          <5>2. stored[n].expiry < clock
            BY <2>1, <5>1, Numbers DEF IInv, TypeOK
          <5> QED
            BY <4>1, <5>2, Zenon DEF Gone
        <4> QED
          BY <4>2, <4>3, <4>4
      <3> QED
        BY <3>1, <3>2
    <2> QED
      BY <2>3, <2>4, <2>5 DEF IInv
  <1> QED
    BY <1>1, <1>2 DEF Sweep

LEMMA StutterKeepsIInv == IInv /\ UNCHANGED vars => IInv'
  BY DEF vars, handlerVars, sweepVars, history, IInv, TypeOK, Begun, StoreIsHistory, Gone,
         LoadedIsHistory, NewUnlessForgotten, AcceptedStamp

LEMMA Inductive == Spec => []IInv
  <1>1. IInv /\ [Next]_vars => IInv'
    BY TickKeepsIInv, SweepKeepsIInv, HandlerKeepsIInv, StutterKeepsIInv DEF Next
  <1> QED
    BY <1>1, InitIInv, PTL DEF Spec

----------------------------------------------------------------------------
\* Types: what is stored expires between Window and Window past the last tick,
\* the sweep's clock is never ahead (replay.go:38-79).
THEOREM TypeCorrect == Spec => []TypeOK
  <1>1. IInv => TypeOK
    BY DEF IInv
  <1> QED
    BY <1>1, Inductive, PTL

\* A nonce is taken for new only if nothing unexpired was stored for it, or a
\* sweep deleted that unread (replay.go:45-79).
THEOREM NewCorrect == Spec => []NewUnlessForgotten
  <1>1. IInv => NewUnlessForgotten
    BY DEF IInv
  <1> QED
    BY <1>1, Inductive, PTL

\* A stored message with a timestamp is taken for new again at its expiry at
\* the earliest, and after it only for the lead of its timestamp and the delay
\* between the two checks: what the handler knows of the store has expired,
\* and of the stamp it knows that it was no older than Window when the handler
\* looked (replay.go:45-50, 268, 288).
THEOREM ForgottenCorrect == Spec => []ForgottenWhenStale
  <1>1. IInv => ForgottenWhenStale
    <2> SUFFICES ASSUME IInv, NEW r \in Requests, pc[r] = "store",
                        prior[r].expiry # Absent, ~prior[r].lost, stamp[nonce[r]] # NoStamp
                 PROVE  /\ prior[r].expiry <= clock
                        /\ clock <= prior[r].expiry + (stamp[nonce[r]] - (prior[r].expiry - Window))
                                                    + (clock - since[r])
      BY DEF ForgottenWhenStale
    <2>1. prior[r].expiry <= clock
      BY DEF IInv, NewUnlessForgotten
    <2>2. stamp[nonce[r]] # Garbled /\ (stamp[nonce[r]] >= 0 =>
                                          since[r] - stamp[nonce[r]] <= Window)
      BY DEF IInv, AcceptedStamp, Checking
    <2>3. stamp[nonce[r]] \in Stamps
      BY DEF IInv, TypeOK
    <2>4. stamp[nonce[r]] >= 0 /\ stamp[nonce[r]] \in Int
      BY <2>2, <2>3, BoundsNat DEF Stamps
    <2>5. prior[r].expiry \in Int /\ clock \in Int /\ since[r] \in Int
      BY StoresInt, Numbers DEF IInv, TypeOK
    <2> QED
      BY <2>1, <2>2, <2>4, <2>5, Numbers
  <1> QED
    BY <1>1, Inductive, PTL

\* A request is called a replay only while an earlier store of its nonce has
\* not expired (replay.go:48-55).
THEOREM ReplayCorrect == Spec => ReplayHasOriginal
  <1> DEFINE Step == \A r \in Requests : why'[r] = "replay" /\ why[r] # "replay" =>
                        prior[r].expiry # Absent /\ clock < prior[r].expiry
  <1>1. IInv /\ [Next]_vars => [Step]_vars
    <2> SUFFICES ASSUME IInv, Next, NEW r \in Requests, why'[r] = "replay", why[r] # "replay"
                 PROVE  prior[r].expiry # Absent /\ clock < prior[r].expiry
      OBVIOUS
    <2>1. ~Tick /\ ~Sweep
      BY DEF Tick, Sweep, SweepStart, SweepVisit, SweepKeep, SweepDelete, SweepEnd, handlerVars
    <2>2. PICK q \in Requests : Handler(q)
      BY <2>1 DEF Next
    <2>3. ~SoundStamp(q) /\ ~BeginCheck(q) /\ ~Load(q) /\ ~NotSeen(q)
      BY DEF SoundStamp, BeginCheck, Load, NotSeen
    <2>4. ASSUME NEW place, NEW reason, Leave(q, place, reason)
          PROVE  q = r /\ reason = "replay"
      BY <2>4 DEF Leave, IInv, TypeOK
    <2>5. ~PassExempt(q) /\ ~Return(q) /\ ~Store(q)
      BY <2>4 DEF PassExempt, Return, Store, Pass
    <2>6. ~FaultyNonce(q)
      BY <2>4 DEF FaultyNonce, ByPolicy, Refuse, Pass, Unreadable, NoNonce
    <2>7. ~FaultyStamp(q)
      BY <2>4 DEF FaultyStamp, ByPolicy, Refuse, Pass
    <2>8. Seen(q)
      BY <2>2, <2>3, <2>5, <2>6, <2>7 DEF Handler, Inspect, CheckAndStore
    <2>9. q = r /\ pc[r] = "compare" /\ found[r] # Absent /\ clock < found[r]
      BY <2>4, <2>8 DEF Seen, ByPolicy, Refuse, Pass, Unexpired
    <2> QED
      BY <2>9 DEF IInv, LoadedIsHistory
  <1> QED
    BY <1>1, Inductive, PTL DEF ReplayHasOriginal, Spec
=============================================================================
