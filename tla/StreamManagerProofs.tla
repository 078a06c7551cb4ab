------------------------ MODULE StreamManagerProofs ------------------------
(***************************************************************************)
(* Proofs about StreamManager, for any finite set of handlers, any agents  *)
(* and any limits: the counters are exact, the limits hold, a clean drain  *)
(* misses only late streams, and the manager implements StreamSlots.       *)
(***************************************************************************)
EXTENDS StreamManager, FiniteSetTheorems, TLAPS

----------------------------------------------------------------------------
(* The inductive invariant. *)

CounterExact == \A a \in Agents : counter[a] = Cardinality(Holders(a))

\* Whoever has been through the map left the agent's entry there.
Entered ==
    \A s \in Streams :
        pc[s] \in {"lookedUp", "loaded"} \union Holding => agent[s] \in entries

\* A value that goes into the compare-and-swap passed the limit test.
SeenBelowLimit ==
    \A s \in Streams : pc[s] = "loaded" => seen[s] < MaxStreams[agent[s]]

DrainFlag == draining <=> drain # "idle"

\* While the running sum is zero, the agents it has covered have late streams only.
SumSound ==
    drain = "summing" /\ total = 0
        => \A a \in Agents \ unread : Holders(a) \subseteq late

IInv ==
    /\ TypeOK
    /\ CounterExact
    /\ LimitRespected
    /\ Entered
    /\ SeenBelowLimit
    /\ DrainFlag
    /\ SumSound
    /\ DrainedExceptLate
----------------------------------------------------------------------------
(* How the set of slot holders moves. *)

\* The holders of an agent are finitely many, so counting them makes sense.
LEMMA HoldersFinite == \A a : IsFiniteSet(Holders(a)) /\ Cardinality(Holders(a)) \in Nat
  BY StreamsFinite, FS_Subset, FS_CardinalityType DEF Holders

\* A step of one handler that holds a slot neither before nor after, or both
\* before and after, leaves the holders as they are.
LEMMA HoldersKept ==
  ASSUME TypeOK, NEW s \in Streams,
         \A u \in Streams \ {s} : pc'[u] = pc[u] /\ agent'[u] = agent[u],
         pc[s] \in Holding <=> pc'[s] \in Holding,
         pc[s] \in Holding => agent'[s] = agent[s]
  PROVE  \A a : Holders(a)' = Holders(a)
  BY DEF Holders

\* A granted slot adds its handler to the holders of its agent, and a release
\* removes it (streams.go:49, 61).
LEMMA HoldersGrown ==
  ASSUME TypeOK, NEW s \in Streams, pc[s] \notin Holding,
         agent' = agent, pc' = [pc EXCEPT ![s] = "holding"]
  PROVE  \A a : Holders(a)' = IF a = agent[s] THEN Holders(a) \union {s} ELSE Holders(a)
  BY DEF Holders, Holding, TypeOK

LEMMA HoldersShrunk ==
  ASSUME TypeOK, NEW s \in Streams, pc[s] \in Holding,
         agent' = agent, pc' = [pc EXCEPT ![s] = "idle"]
  PROVE  \A a : Holders(a)' = IF a = agent[s] THEN Holders(a) \ {s} ELSE Holders(a)
  BY DEF Holders, Holding, TypeOK

----------------------------------------------------------------------------
(* The invariant. *)

LEMMA InitInvariant == Init => IInv
<1> SUFFICES ASSUME Init PROVE IInv
  OBVIOUS
<1>1. \A a : Holders(a) = {}
  BY DEF Init, Holders, Holding
<1>2. TypeOK
  BY DEF Init, TypeOK, Acquiring, Holding
<1>3. CounterExact /\ LimitRespected
  BY <1>1, FS_EmptySet, MaxStreamsNat DEF Init, CounterExact, LimitRespected
<1>4. Entered /\ SeenBelowLimit /\ DrainFlag /\ SumSound /\ DrainedExceptLate
  BY DEF Init, Entered, SeenBelowLimit, DrainFlag, SumSound, DrainedExceptLate, Holding
<1>5. QED
  BY <1>2, <1>3, <1>4 DEF IInv

\* The facts about one handler's step that leaves holders, counters and the
\* late set alone.
LEMMA QuietStep ==
  ASSUME IInv, \A a : Holders(a)' = Holders(a),
         \A a \in Agents : counter'[a] = counter[a],
         late' = late, UNCHANGED drainVars, UNCHANGED draining
  PROVE  /\ CounterExact'
         /\ LimitRespected'
         /\ DrainFlag'
         /\ SumSound'
         /\ DrainedExceptLate'
<1>1. CounterExact'
  BY DEF IInv, CounterExact
<1>2. LimitRespected'
  BY DEF IInv, LimitRespected
<1>3. DrainFlag' /\ SumSound' /\ DrainedExceptLate'
  BY DEF IInv, DrainFlag, SumSound, DrainedExceptLate, drainVars
<1>4. QED
  BY <1>1, <1>2, <1>3

LEMMA CheckDrainingInvariant ==
  ASSUME IInv, NEW s \in Streams, NEW a \in Agents, CheckDraining(s, a)
  PROVE  IInv'
<1> USE DEF CheckDraining, Goto
<1>1. TypeOK'
  BY DEF IInv, TypeOK, Acquiring, Holding, drainVars
<1>2. \A b : Holders(b)' = Holders(b)
  BY HoldersKept DEF IInv, TypeOK, Holding
<1>3. Entered' /\ SeenBelowLimit'
  BY DEF IInv, TypeOK, Entered, SeenBelowLimit, Holding
<1>4. QED
  BY <1>1, <1>2, <1>3, QuietStep DEF IInv

LEMMA LookUpInvariant ==
  ASSUME IInv, NEW s \in Streams, LookUp(s)
  PROVE  IInv'
<1> USE DEF LookUp, Goto
<1>1. agent[s] \in Agents
  BY DEF IInv, TypeOK
<1>2. \A b : Holders(b)' = Holders(b)
  BY HoldersKept DEF IInv, TypeOK, Holding
<1>3. \A b \in Agents : counter'[b] = counter[b]
  <2>1. CASE agent[s] \in entries
    BY <2>1, <1>1 DEF IInv, TypeOK
  <2>2. CASE agent[s] \notin entries
    <3>1. Holders(agent[s]) = {}
      BY <2>2 DEF IInv, Entered, Holders
    <3>2. counter[agent[s]] = 0
      BY <3>1, <1>1, FS_EmptySet DEF IInv, CounterExact
    <3>3. QED
      BY <3>2, <2>2, <1>1 DEF IInv, TypeOK
  <2>3. QED
    BY <2>1, <2>2
<1>4. TypeOK'
  BY <1>1, <1>3 DEF IInv, TypeOK, Acquiring, Holding, drainVars
<1>5. Entered' /\ SeenBelowLimit'
  BY DEF IInv, TypeOK, Entered, SeenBelowLimit, Holding
<1>6. QED
  BY <1>2, <1>3, <1>4, <1>5, QuietStep DEF IInv

LEMMA LoadInvariant ==
  ASSUME IInv, NEW s \in Streams, Load(s)
  PROVE  IInv'
<1> USE DEF Load, Goto
<1>1. agent[s] \in Agents /\ MaxStreams[agent[s]] \in Nat /\ counter[agent[s]] \in Nat
  BY MaxStreamsNat DEF IInv, TypeOK
<1>2. TypeOK'
  BY <1>1 DEF IInv, TypeOK, Acquiring, Holding, drainVars
<1>3. \A b : Holders(b)' = Holders(b)
  BY HoldersKept DEF IInv, TypeOK, Holding
<1>4. Entered'
  BY DEF IInv, TypeOK, Entered, Holding
<1>5. SeenBelowLimit'
  BY <1>1 DEF IInv, TypeOK, SeenBelowLimit
<1>6. QED
  BY <1>2, <1>3, <1>4, <1>5, QuietStep DEF IInv

\* The step that matters: the counter still has the value that passed the
\* limit test, and that value is the number of holders.
LEMMA CompareAndSwapInvariant ==
  ASSUME IInv, NEW s \in Streams, CompareAndSwap(s)
  PROVE  IInv'
<1>0. PICK a : a = agent[s]
  OBVIOUS
<1>1. /\ a \in Agents
      /\ MaxStreams[a] \in Nat
      /\ counter[a] \in Nat
      /\ seen[s] \in Nat
      /\ seen[s] < MaxStreams[a]
      /\ pc[s] \notin Holding
      /\ a \in entries
  BY <1>0, MaxStreamsNat DEF IInv, TypeOK, CompareAndSwap, SeenBelowLimit, Entered, Holding
<1>2. TypeOK'
  BY <1>0, <1>1 DEF IInv, TypeOK, CompareAndSwap, Goto, Acquiring, Holding, drainVars
<1>3. Entered' /\ SeenBelowLimit' /\ DrainFlag'
  BY <1>0, <1>1 DEF IInv, TypeOK, Entered, SeenBelowLimit, DrainFlag, CompareAndSwap, Goto, Holding, drainVars
<1>4. CASE counter[a] # seen[s]
  <2>1. \A b : Holders(b)' = Holders(b)
    BY <1>0, <1>4, HoldersKept DEF IInv, TypeOK, CompareAndSwap, Goto, Holding
  <2>2. QED
    BY <1>0, <1>2, <1>3, <1>4, <2>1, QuietStep DEF IInv, CompareAndSwap
<1>5. CASE counter[a] = seen[s]
  <2>1. /\ counter' = [counter EXCEPT ![a] = seen[s] + 1]
        /\ pc' = [pc EXCEPT ![s] = "holding"]
        /\ agent' = agent
        /\ late' = IF draining THEN late \union {s} ELSE late
        /\ UNCHANGED drainVars
        /\ UNCHANGED draining
    BY <1>0, <1>5 DEF CompareAndSwap, Goto
  <2>2. \A b : Holders(b)' = IF b = a THEN Holders(b) \union {s} ELSE Holders(b)
    BY <1>0, <1>1, <2>1, HoldersGrown DEF IInv
  <2>3. s \notin Holders(a) /\ counter[a] = Cardinality(Holders(a))
    BY <1>1 DEF Holders, IInv, CounterExact
  <2>4. Cardinality(Holders(a)') = Cardinality(Holders(a)) + 1
    BY <2>2, <2>3, HoldersFinite, FS_AddElement
  <2>5. CounterExact'
    BY <1>1, <1>5, <2>1, <2>2, <2>3, <2>4 DEF IInv, TypeOK, CounterExact
  <2>6. LimitRespected'
    BY <1>1, <1>5, <2>2, <2>3, <2>4 DEF IInv, LimitRespected
  <2>7. SumSound' /\ DrainedExceptLate'
    BY <2>1, <2>2 DEF IInv, DrainFlag, SumSound, DrainedExceptLate, drainVars
  <2>8. QED
    BY <1>2, <1>3, <2>5, <2>6, <2>7 DEF IInv
<1>6. QED
  BY <1>4, <1>5

LEMMA ReturnRefusedInvariant ==
  ASSUME IInv, NEW s \in Streams, ReturnRefused(s)
  PROVE  IInv'
<1> USE DEF ReturnRefused, Goto
<1>1. TypeOK'
  BY DEF IInv, TypeOK, drainVars
<1>2. \A b : Holders(b)' = Holders(b)
  BY HoldersKept DEF IInv, TypeOK, Holding
<1>3. Entered' /\ SeenBelowLimit'
  BY DEF IInv, TypeOK, Entered, SeenBelowLimit, Holding
<1>4. QED
  BY <1>1, <1>2, <1>3, QuietStep DEF IInv

LEMMA ReleaseLookUpInvariant ==
  ASSUME IInv, NEW s \in Streams, ReleaseLookUp(s)
  PROVE  IInv'
<1>1. pc[s] = "holding" /\ pc' = [pc EXCEPT ![s] = "releasing"]
  BY DEF IInv, Entered, ReleaseLookUp, Goto, Holding
<1>2. TypeOK'
  BY <1>1 DEF IInv, TypeOK, ReleaseLookUp, Holding, drainVars
<1>3. \A b : Holders(b)' = Holders(b)
  BY <1>1, HoldersKept DEF IInv, TypeOK, ReleaseLookUp, Holding
<1>4. Entered' /\ SeenBelowLimit'
  BY <1>1 DEF IInv, TypeOK, Entered, SeenBelowLimit, ReleaseLookUp, Holding
<1>5. QED
  BY <1>2, <1>3, <1>4, QuietStep DEF IInv, ReleaseLookUp

LEMMA ReleaseDecrementInvariant ==
  ASSUME IInv, NEW s \in Streams, ReleaseDecrement(s)
  PROVE  IInv'
<1>0. PICK a : a = agent[s]
  OBVIOUS
<1>1. /\ a \in Agents
      /\ pc[s] \in Holding
      /\ s \in Holders(a)
      /\ counter[a] = Cardinality(Holders(a))
      /\ counter' = [counter EXCEPT ![a] = @ - 1]
      /\ pc' = [pc EXCEPT ![s] = "idle"]
      /\ agent' = agent
      /\ late' = late \ {s}
  BY <1>0 DEF IInv, TypeOK, CounterExact, ReleaseDecrement, Goto, Holders, Holding
<1>2. \A b : Holders(b)' = IF b = a THEN Holders(b) \ {s} ELSE Holders(b)
  BY <1>0, <1>1, HoldersShrunk DEF IInv
<1>3. /\ Cardinality(Holders(a)') = Cardinality(Holders(a)) - 1
      /\ Cardinality(Holders(a)') \in Nat
  <2>1. Holders(a)' = Holders(a) \ {s}
    BY <1>2
  <2>2. Cardinality(Holders(a) \ {s}) = Cardinality(Holders(a)) - 1
    BY <1>1, HoldersFinite, FS_RemoveElement
  <2>3. Cardinality(Holders(a) \ {s}) \in Nat
    BY HoldersFinite, FS_RemoveElement, FS_CardinalityType
  <2>4. QED
    BY <2>1, <2>2, <2>3
<1>4. TypeOK'
  BY <1>0, <1>1, <1>3 DEF IInv, TypeOK, ReleaseDecrement, drainVars
<1>5. CounterExact'
  BY <1>1, <1>2, <1>3 DEF IInv, TypeOK, CounterExact
<1>6. LimitRespected'
  BY <1>1, <1>2, <1>3, HoldersFinite, MaxStreamsNat DEF IInv, LimitRespected
<1>7. Entered' /\ SeenBelowLimit' /\ DrainFlag'
  BY <1>1 DEF IInv, TypeOK, Entered, SeenBelowLimit, DrainFlag, ReleaseDecrement, Holding, drainVars
<1>8. SumSound' /\ DrainedExceptLate'
  BY <1>1, <1>2 DEF IInv, SumSound, DrainedExceptLate, ReleaseDecrement, drainVars, Holders, Holding
<1>9. QED
  BY <1>4, <1>5, <1>6, <1>7, <1>8 DEF IInv

\* Steps of DrainAll leave the handlers, and so the holders, alone.
LEMMA DrainAllInvariant ==
  ASSUME IInv, DrainAll
  PROVE  IInv'
<1>1. /\ UNCHANGED handlerVars
      /\ \A a : Holders(a)' = Holders(a)
  BY DEF DrainAll, StartDrain, BeginSum, ReadCounter, EndSum, Tick, Deadline, handlerVars, Holders
<1>2. CounterExact' /\ LimitRespected' /\ Entered' /\ SeenBelowLimit'
  BY <1>1 DEF IInv, CounterExact, LimitRespected, Entered, SeenBelowLimit, handlerVars
<1>3. CASE StartDrain \/ Tick \/ Deadline
  BY <1>1, <1>2, <1>3 DEF IInv, TypeOK, DrainFlag, SumSound, DrainedExceptLate,
     StartDrain, Tick, Deadline, handlerVars
<1>4. CASE BeginSum
  <2>1. \A a \in Agents \ entries : Holders(a) = {}
    BY DEF IInv, Entered, Holders
  <2>2. QED
    BY <1>1, <1>2, <1>4, <2>1 DEF IInv, TypeOK, DrainFlag, SumSound, DrainedExceptLate,
       BeginSum, handlerVars
<1>5. ASSUME NEW a \in Agents, ReadCounter(a) PROVE IInv'
  <2>1. counter[a] \in Nat /\ total \in Nat /\ total' = total + counter[a]
    BY <1>5 DEF IInv, TypeOK, ReadCounter
  <2>2. total' = 0 => total = 0 /\ Holders(a) = {}
    BY <2>1, HoldersFinite, FS_EmptySet DEF IInv, CounterExact
  <2>3. TypeOK' /\ DrainFlag' /\ DrainedExceptLate'
    BY <1>1, <1>5, <2>1 DEF IInv, TypeOK, DrainFlag, DrainedExceptLate, ReadCounter, handlerVars
  <2>4. SumSound'
    BY <1>1, <1>5, <2>2 DEF IInv, SumSound, ReadCounter, handlerVars
  <2>5. QED
    BY <1>2, <2>3, <2>4 DEF IInv
<1>6. CASE EndSum
  BY <1>1, <1>2, <1>6 DEF IInv, TypeOK, DrainFlag, SumSound, DrainedExceptLate, EndSum, handlerVars
<1>7. QED
  BY <1>3, <1>4, <1>5, <1>6 DEF DrainAll

LEMMA StepInvariant == IInv /\ [Next]_vars => IInv'
<1> SUFFICES ASSUME IInv, [Next]_vars PROVE IInv'
  OBVIOUS
<1>1. CASE DrainAll
  BY <1>1, DrainAllInvariant
<1>2. ASSUME NEW s \in Streams, Handler(s) PROVE IInv'
  BY <1>2, CheckDrainingInvariant, LookUpInvariant, LoadInvariant, CompareAndSwapInvariant,
     ReturnRefusedInvariant, ReleaseLookUpInvariant, ReleaseDecrementInvariant
     DEF Handler, Acquire
<1>3. CASE UNCHANGED vars
  <2>1. \A a : Holders(a)' = Holders(a)
    BY <1>3 DEF vars, Holders
  <2>2. QED
    BY <1>3, <2>1 DEF vars, drainVars, IInv, TypeOK, CounterExact, LimitRespected, Entered,
       SeenBelowLimit, DrainFlag, SumSound, DrainedExceptLate
<1>4. QED
  BY <1>1, <1>2, <1>3 DEF Next

THEOREM Invariance == Spec => []IInv
  BY InitInvariant, StepInvariant, PTL DEF Spec

----------------------------------------------------------------------------
(* What readers of the code rely on. *)

\* Every variable keeps its type; in particular no counter goes below zero.
THEOREM TypeCorrect == Spec => []TypeOK
<1>1. IInv => TypeOK
  BY DEF IInv
<1>2. QED
  BY <1>1, Invariance, PTL

\* ActiveStreams is exact at every instant, for any number of handlers.
THEOREM CounterCorrect == Spec => []CounterIsHolders
<1>1. IInv => CounterIsHolders
  <2> SUFFICES ASSUME IInv, NEW a \in Agents
               PROVE  ActiveStreams(a) = Cardinality(Holders(a))
    BY DEF CounterIsHolders
  <2>1. a \notin entries => Holders(a) = {}
    BY DEF IInv, Entered, Holders
  <2>2. QED
    BY <2>1, FS_EmptySet DEF IInv, CounterExact, ActiveStreams
<1>2. QED
  BY <1>1, Invariance, PTL

\* max_streams is never exceeded, for any number of handlers and any limits.
THEOREM LimitCorrect == Spec => []LimitRespected
<1>1. IInv => LimitRespected
  BY DEF IInv
<1>2. QED
  BY <1>1, Invariance, PTL

\* A drain that returns nil has missed only streams that were granted late.
THEOREM DrainCorrect == Spec => []DrainedExceptLate
<1>1. IInv => DrainedExceptLate
  BY DEF IInv
<1>2. QED
  BY <1>1, Invariance, PTL
----------------------------------------------------------------------------
(* Refinement: each step of the manager is a step of the pool or none. *)

\* The set of waiting handlers moves only when a request passes the draining
\* check or gets its verdict.
LEMMA WaitingKept ==
  ASSUME NEW s \in Streams,
         \A u \in Streams \ {s} : pc'[u] = pc[u] /\ agent'[u] = agent[u],
         pc[s] \in Acquiring <=> pc'[s] \in Acquiring,
         pc[s] \in Acquiring => agent'[s] = agent[s]
  PROVE  \A a : Waiting(a)' = Waiting(a)
  BY DEF Waiting

LEMMA WaitingShrunk ==
  ASSUME TypeOK, NEW s \in Streams, NEW l, l \notin Acquiring,
         agent' = agent, pc' = [pc EXCEPT ![s] = l]
  PROVE  \A a : Waiting(a)' = IF a = agent[s] THEN Waiting(a) \ {s} ELSE Waiting(a)
  BY DEF Waiting, Acquiring, TypeOK

\* StreamSlots has its own copy of the module of finite sets.
LEMMA SameCardinality == \A S : Slots!Cardinality(S) = Cardinality(S)
  BY DEF Slots!Cardinality, Cardinality

LEMMA StutterStep ==
  ASSUME \A a : Holders(a)' = Holders(a), \A a : Waiting(a)' = Waiting(a), UNCHANGED draining
  PROVE  UNCHANGED Slots!slotVars
  BY DEF Slots!slotVars

LEMMA ArriveStep ==
  ASSUME IInv, NEW s \in Streams, NEW a \in Agents, CheckDraining(s, a)
  PROVE  [Slots!Next]_(Slots!slotVars)
<1>1. \A b : Holders(b)' = Holders(b)
  BY HoldersKept DEF IInv, TypeOK, CheckDraining, Goto, Holding
<1>2. CASE draining
  <2>1. \A b : Waiting(b)' = Waiting(b)
    BY <1>2, WaitingKept DEF IInv, TypeOK, CheckDraining, Goto, Acquiring
  <2>2. QED
    BY <1>1, <2>1, StutterStep DEF CheckDraining
<1>3. CASE ~draining
  <2>1. \A b : Waiting(b)' = IF b = a THEN Waiting(b) \union {s} ELSE Waiting(b)
    BY <1>3 DEF Waiting, Acquiring, IInv, TypeOK, CheckDraining, Goto
  <2>2. Slots!Arrive(s, a)
    BY <1>1, <1>3, <2>1 DEF Slots!Arrive, CheckDraining
  <2>3. QED
    BY <2>2 DEF Slots!Next
<1>4. QED
  BY <1>2, <1>3

LEMMA LoadStep ==
  ASSUME IInv, NEW s \in Streams, Load(s)
  PROVE  [Slots!Next]_(Slots!slotVars)
<1>0. PICK a : a = agent[s]
  OBVIOUS
<1>1. a \in Agents /\ s \in Waiting(a) /\ counter[a] = Cardinality(Holders(a))
  BY <1>0 DEF IInv, TypeOK, CounterExact, Waiting, Acquiring, Load
<1>2. \A b : Holders(b)' = Holders(b)
  BY HoldersKept DEF IInv, TypeOK, Load, Goto, Holding
<1>3. CASE counter[a] >= MaxStreams[a]
  <2>1. pc' = [pc EXCEPT ![s] = "refused"] /\ agent' = agent /\ draining' = draining
    BY <1>0, <1>3 DEF Load, Goto
  <2>2. \A b : Waiting(b)' = IF b = a THEN Waiting(b) \ {s} ELSE Waiting(b)
    BY <1>0, <2>1, WaitingShrunk DEF IInv, Acquiring
  <2>3. Slots!Full(a)
    BY <1>1, <1>3, SameCardinality DEF Slots!Full
  <2>4. Slots!Refuse(s, a)
    BY <1>1, <1>2, <2>1, <2>2, <2>3 DEF Slots!Refuse
  <2>5. QED
    BY <1>1, <2>4 DEF Slots!Next
<1>4. CASE ~(counter[a] >= MaxStreams[a])
  <2>1. \A b : Waiting(b)' = Waiting(b)
    BY <1>0, <1>4, WaitingKept DEF IInv, TypeOK, Load, Goto, Acquiring
  <2>2. QED
    BY <1>2, <2>1, StutterStep DEF Load
<1>5. QED
  BY <1>3, <1>4

LEMMA CompareAndSwapStep ==
  ASSUME IInv, NEW s \in Streams, CompareAndSwap(s)
  PROVE  [Slots!Next]_(Slots!slotVars)
<1>0. PICK a : a = agent[s]
  OBVIOUS
<1>1. /\ a \in Agents
      /\ s \in Waiting(a)
      /\ pc[s] \notin Holding
      /\ counter[a] = Cardinality(Holders(a))
      /\ counter[a] \in Nat
      /\ MaxStreams[a] \in Nat
      /\ seen[s] < MaxStreams[a]
  BY <1>0, MaxStreamsNat DEF IInv, TypeOK, CounterExact, SeenBelowLimit, Waiting, Acquiring,
     Holding, CompareAndSwap
<1>2. CASE counter[a] = seen[s]
  <2>1. pc' = [pc EXCEPT ![s] = "holding"] /\ agent' = agent /\ draining' = draining
    BY <1>0, <1>2 DEF CompareAndSwap, Goto
  <2>2. \A b : Waiting(b)' = IF b = a THEN Waiting(b) \ {s} ELSE Waiting(b)
    BY <1>0, <2>1, WaitingShrunk DEF IInv, Acquiring
  <2>3. \A b : Holders(b)' = IF b = a THEN Holders(b) \union {s} ELSE Holders(b)
    BY <1>0, <1>1, <2>1, HoldersGrown DEF IInv
  <2>4. ~Slots!Full(a)
    <3>1. Cardinality(Holders(a)) \in Nat /\ Cardinality(Holders(a)) < MaxStreams[a]
      BY <1>1, <1>2
    <3>2. Slots!Cardinality(Holders(a)) = Cardinality(Holders(a))
      BY SameCardinality
    <3>3. QED
      BY <1>1, <3>1, <3>2 DEF Slots!Full
  <2>5. Slots!Admit(s, a)
    BY <1>1, <2>1, <2>2, <2>3, <2>4 DEF Slots!Admit
  <2>6. QED
    BY <1>1, <2>5 DEF Slots!Next
<1>3. CASE counter[a] # seen[s]
  <2>1. \A b : Holders(b)' = Holders(b)
    BY <1>0, <1>3, HoldersKept DEF IInv, TypeOK, CompareAndSwap, Goto, Holding
  <2>2. \A b : Waiting(b)' = Waiting(b)
    BY <1>0, <1>3, WaitingKept DEF IInv, TypeOK, CompareAndSwap, Goto, Acquiring
  <2>3. QED
    BY <2>1, <2>2, StutterStep DEF CompareAndSwap
<1>4. QED
  BY <1>2, <1>3

LEMMA FinishStep ==
  ASSUME IInv, NEW s \in Streams, ReleaseDecrement(s)
  PROVE  [Slots!Next]_(Slots!slotVars)
<1>0. PICK a : a = agent[s]
  OBVIOUS
<1>1. /\ a \in Agents
      /\ s \in Holders(a)
      /\ pc[s] \in Holding
      /\ pc' = [pc EXCEPT ![s] = "idle"]
      /\ agent' = agent
      /\ draining' = draining
  BY <1>0 DEF IInv, TypeOK, Holders, Holding, ReleaseDecrement, Goto
<1>2. \A b : Holders(b)' = IF b = a THEN Holders(b) \ {s} ELSE Holders(b)
  BY <1>0, <1>1, HoldersShrunk DEF IInv
<1>3. \A b : Waiting(b)' = Waiting(b)
  BY <1>1, WaitingKept DEF IInv, TypeOK, Acquiring, Holding
<1>4. Slots!Finish(s, a)
  BY <1>1, <1>2, <1>3 DEF Slots!Finish
<1>5. QED
  BY <1>1, <1>4 DEF Slots!Next

LEMMA HandlerStep ==
  ASSUME IInv, NEW s \in Streams, Handler(s)
  PROVE  [Slots!Next]_(Slots!slotVars)
<1>1. CASE LookUp(s) \/ ReturnRefused(s) \/ ReleaseLookUp(s)
  <2>1. \A b : Holders(b)' = Holders(b)
    BY <1>1, HoldersKept DEF IInv, TypeOK, Entered, LookUp, ReturnRefused, ReleaseLookUp, Goto, Holding
  <2>2. \A b : Waiting(b)' = Waiting(b)
    BY <1>1, WaitingKept DEF IInv, TypeOK, LookUp, ReturnRefused, ReleaseLookUp, Goto, Acquiring
  <2>3. QED
    BY <1>1, <2>1, <2>2, StutterStep DEF LookUp, ReturnRefused, ReleaseLookUp
<1>2. QED
  BY <1>1, ArriveStep, LoadStep, CompareAndSwapStep, FinishStep DEF Handler, Acquire

LEMMA DrainAllStep ==
  ASSUME IInv, DrainAll
  PROVE  [Slots!Next]_(Slots!slotVars)
<1>1. \A a : Holders(a)' = Holders(a) /\ Waiting(a)' = Waiting(a)
  BY DEF DrainAll, StartDrain, BeginSum, ReadCounter, EndSum, Tick, Deadline, handlerVars,
     Holders, Waiting
<1>2. CASE StartDrain
  <2>1. Slots!Close
    BY <1>1, <1>2 DEF Slots!Close, StartDrain
  <2>2. QED
    BY <2>1 DEF Slots!Next
<1>3. CASE ~StartDrain
  <2>1. UNCHANGED draining
    BY <1>3 DEF DrainAll, BeginSum, ReadCounter, EndSum, Tick, Deadline
  <2>2. QED
    BY <1>1, <2>1, StutterStep
<1>4. QED
  BY <1>2, <1>3

\* The mutex, the atomic counters and the retry loop together behave as a pool
\* that decides each request in one step against the true number of holders.
THEOREM ManagerImplementsSlots == Spec => SlotsSpec
<1>1. Init => Slots!Init
  <2> SUFFICES ASSUME Init PROVE Slots!Init
    OBVIOUS
  <2>1. \A a : Holders(a) = {} /\ Waiting(a) = {}
    BY DEF Init, Holders, Waiting, Holding, Acquiring
  <2>2. QED
    BY <2>1 DEF Init, Slots!Init
<1>2. IInv /\ [Next]_vars => [Slots!Next]_(Slots!slotVars)
  <2> SUFFICES ASSUME IInv, [Next]_vars PROVE [Slots!Next]_(Slots!slotVars)
    OBVIOUS
  <2>1. CASE UNCHANGED vars
    BY <2>1, StutterStep DEF vars, Holders, Waiting
  <2>2. QED
    BY <2>1, DrainAllStep, HandlerStep DEF Next
<1>3. QED
  BY <1>1, <1>2, Invariance, PTL DEF Spec, SlotsSpec, Slots!Spec
=============================================================================
