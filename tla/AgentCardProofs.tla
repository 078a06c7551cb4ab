--------------------------- MODULE AgentCardProofs ---------------------------
(***************************************************************************)
(* Proofs about AgentCards, for any agents, operators, cards and bodies.   *)
(*                                                                         *)
(* A card comes into use by three ways, the first poll, the auto policy    *)
(* and an approval, and the approval travels from the poller through the   *)
(* pending store and an operator.  The invariants of the runs speak of its *)
(* ends; the inductive ones say what holds of a change at each stop on the *)
(* way (Waiting, Travelling), whoever moves it.                            *)
(***************************************************************************)
EXTENDS AgentCards, TLAPS

\* A card that is there, and verified where verification is required.
Sound(c) == c \in Held /\ (verifier.require /\ verifier.urls => c.signed)

\* A poll's outcome, and the card in use.
Polling == \A a \in Agents : got[a] # None => Sound(got[a])
InUse == \A a \in Agents : card[a] # None => Sound(card[a])

\* Only the approve policy leaves a change waiting.
Waiting ==
    \A a \in Agents : pending[a] # None => policy[a] = "approve" /\ Sound(pending[a].new)

\* A change an operator took out is one that was approved.
Travelling ==
    \A o \in Operators : taken[o] # None =>
        /\ policy[taken[o].agent] = "approve"
        /\ Sound(taken[o].change.new)
        /\ taken[o].change.new \in approved[taken[o].agent]

\* No agent loses its card: one without has never had any.
FirstMeans == \A a \in Agents : card[a] = None => first[a] = None

IInv == TypeOK /\ Polling /\ InUse /\ Waiting /\ Travelling /\ FirstMeans /\ OnlySanctioned

----------------------------------------------------------------------------
\* No card is nil, and no change is.
LEMMA NoneIsNothing ==
    None \notin Held /\ None \notin Change /\ None \notin [agent : Agents, change : Change]
  <1>1. \A c \in Held : c # None
    BY DEF Held, None
  <1>2. \A c \in Change : c # None
    BY DEF Change, None
  <1>3. \A t \in [agent : Agents, change : Change] : t # None
    BY DEF None
  <1> QED BY <1>1, <1>2, <1>3

LEMMA CardIsHeld ==
    ASSUME NEW c \in Contents \cup {[shown |-> Blank, rest |-> Blank]}, NEW s \in BOOLEAN
    PROVE  HoldCard(c, s) \in Held /\ HoldCard(c, s).signed = s
  BY DEF HoldCard, Held

\* fetchCard returns a card or nothing, and never an unverified card where
\* verification is required.
LEMMA FetchIsSound ==
    ASSUME verifier \in [require : BOOLEAN, urls : BOOLEAN], NEW b \in Bodies \cup {NoReply}
    PROVE  FetchCard(b) # None => Sound(FetchCard(b))
  <1>1. CASE b = NoReply
    BY <1>1 DEF FetchCard
  <1>2. CASE b # NoReply
    <2>1. b \in Body
      BY <1>2, BodiesAreBodies
    <2>2. /\ \A s \in BOOLEAN : HoldCard(b.content, s) \in Held /\ HoldCard(b.content, s).signed = s
          /\ HoldCard([shown |-> Blank, rest |-> Blank], FALSE) \in Held
      <3>1. b.content \in Contents
        BY <2>1 DEF Body
      <3> QED BY <3>1, CardIsHeld
    <2>3. Unmarshal(b) # None => Unmarshal(b) \in Held
      BY <2>1, <2>2 DEF Unmarshal, Body
    <2>4. CASE verifier.urls /\ VerifyCardSignature(b) = "ok"
      <3>1. FetchCard(b) = HoldCard(b.content, b.form # "plain")
        BY <1>2, <2>4 DEF FetchCard
      <3>2. verifier.require => b.form # "plain"
        BY <2>4 DEF VerifyCardSignature
      <3>3. (b.form # "plain") \in BOOLEAN
        OBVIOUS
      <3> QED BY <2>2, <3>1, <3>2, <3>3 DEF Sound
    <2>5. CASE ~(verifier.urls /\ VerifyCardSignature(b) = "ok")
      <3>1. FetchCard(b) # None => FetchCard(b) = Unmarshal(b)
                                        /\ ~(verifier.require /\ verifier.urls)
        BY <1>2, <2>5 DEF FetchCard
      <3> QED BY <2>3, <3>1 DEF Sound
    <2> QED BY <2>4, <2>5
  <1> QED BY <1>1, <1>2

LEMMA InitIInv == Init => IInv
  <1> SUFFICES ASSUME Init PROVE IInv OBVIOUS
  <1>1. TypeOK
    <2>4. deploys \in 0..MaxDeploys
      BY MaxDeploysNat DEF Init
    <2>1. /\ stopped \in BOOLEAN
          /\ poll \in [Agents -> {"idle", "fetched", "done"}] /\ healthy \in [Agents -> BOOLEAN]
          /\ op \in [Operators -> {"idle", "listed", "applying"}]
      BY DEF Init
    <2>2. /\ got \in [Agents -> Held \cup {None}] /\ card \in [Agents -> Held \cup {None}]
          /\ first \in [Agents -> Held \cup {None}] /\ pending \in [Agents -> Change \cup {None}]
          /\ reviewed \in [Operators -> [Agents -> Change \cup {None}]]
          /\ taken \in [Operators -> [agent : Agents, change : Change] \cup {None}]
          /\ approved \in [Agents -> SUBSET Held]
      BY DEF Init
    <2>3. \A o \in Operators : op[o] = "applying" <=> taken[o] # None
      BY DEF Init
    <2> QED BY <2>1, <2>2, <2>3, <2>4 DEF Init, TypeOK
  <1>2. Polling /\ InUse /\ Waiting /\ Travelling /\ FirstMeans /\ OnlySanctioned
    BY DEF Init, Polling, InUse, Waiting, Travelling, FirstMeans, OnlySanctioned
  <1> QED BY <1>1, <1>2 DEF IInv

\* Steps that touch neither cards nor changes.
LEMMA QuietKeepsIInv ==
    ASSUME IInv, TypeOK', UNCHANGED <<configVars, card, pending, taken, history>>,
           \A a \in Agents : got'[a] # None => Sound(got'[a])
    PROVE  IInv'
  <1> USE DEF IInv, configVars, history
  <1>1. Polling'
    BY DEF Polling, Sound
  <1>2. InUse' /\ Waiting' /\ Travelling'
    BY DEF InUse, Waiting, Travelling, Sound
  <1>3. FirstMeans' /\ OnlySanctioned'
    BY DEF FirstMeans, OnlySanctioned
  <1> QED BY <1>1, <1>2, <1>3

LEMMA FetchKeepsIInv == ASSUME IInv, NEW a \in Agents, Fetch(a) PROVE IInv'
  <1>1. FetchCard(served[a]) # None => Sound(FetchCard(served[a]))
    BY FetchIsSound DEF IInv, TypeOK
  <1>2. /\ poll' = [poll EXCEPT ![a] = "fetched"]
        /\ got' = [got EXCEPT ![a] = IF stopped THEN None ELSE FetchCard(served[a])]
        /\ UNCHANGED <<configVars, worldVars, stopped, card, healthy, pending, opVars, history>>
    BY DEF Fetch
  <1>3. got'[a] # None => Sound(got'[a])
    BY <1>1, <1>2 DEF IInv, TypeOK
  <1>4. \A b \in Agents : got'[b] # None => Sound(got'[b])
    BY <1>2, <1>3 DEF IInv, TypeOK, Polling
  <1>5. got' \in [Agents -> Held \cup {None}]
    BY <1>2, <1>4 DEF IInv, TypeOK, Sound
  <1>6. TypeOK'
    BY <1>2, <1>5 DEF IInv, TypeOK, configVars, worldVars, opVars, history
  <1> QED BY <1>2, <1>4, <1>6, QuietKeepsIInv DEF opVars

LEMMA OthersKeepIInv ==
    ASSUME IInv, \/ Stop
                 \/ \E a \in Agents : \/ Deploy(a) \/ Cancel(a) \/ PollFails(a)
                                     \/ SameCard(a) \/ AlertChange(a)
                 \/ \E o \in Operators : ListPending(o)
    PROVE  IInv'
  <1> USE DEF IInv, configVars, worldVars, pollVars, opVars, history
  <1>1. CASE Stop
    <2>1. TypeOK' /\ got' = got
      BY <1>1 DEF Stop, TypeOK
    <2> QED BY <1>1, <2>1, QuietKeepsIInv DEF Stop, Polling
  <1>2. ASSUME NEW a \in Agents, Deploy(a) PROVE IInv'
    <2>1. TypeOK' /\ got' = got
      BY <1>2, MaxDeploysNat DEF Deploy, TypeOK
    <2> QED BY <1>2, <2>1, QuietKeepsIInv DEF Deploy, Polling
  <1>3. ASSUME NEW a \in Agents, Cancel(a) PROVE IInv'
    <2>1. TypeOK' /\ \A b \in Agents : got'[b] = None \/ got'[b] = got[b]
      BY <1>3 DEF Cancel, TypeOK
    <2> QED BY <1>3, <2>1, QuietKeepsIInv DEF Cancel, Polling
  <1>4. ASSUME NEW a \in Agents, PollFails(a) PROVE IInv'
    <2>1. TypeOK' /\ got' = got
      BY <1>4 DEF PollFails, TypeOK
    <2> QED BY <1>4, <2>1, QuietKeepsIInv DEF PollFails, Polling
  <1>5. ASSUME NEW a \in Agents, SameCard(a) \/ AlertChange(a) PROVE IInv'
    <2>1. /\ got' = [got EXCEPT ![a] = None] /\ poll' = [poll EXCEPT ![a] = "idle"]
          /\ healthy' = [healthy EXCEPT ![a] = TRUE]
          /\ UNCHANGED <<policy, verifier, served, deploys, stopped, op, reviewed, taken, approved,
                        card, pending, first>>
      BY <1>5 DEF SameCard, AlertChange, Polled
    <2>2. TypeOK' /\ \A b \in Agents : got'[b] = None \/ got'[b] = got[b]
      BY <2>1 DEF TypeOK
    <2> QED BY <1>5, <2>2, QuietKeepsIInv DEF SameCard, AlertChange, Polled, Polling
  <1>6. ASSUME NEW o \in Operators, ListPending(o) PROVE IInv'
    <2>1. TypeOK' /\ got' = got
      BY <1>6 DEF ListPending, TypeOK
    <2> QED BY <1>6, <2>1, QuietKeepsIInv DEF ListPending, Polling
  <1> QED BY <1>1, <1>2, <1>3, <1>4, <1>5, <1>6

\* The card comes into use, at once or not.
LEMMA PolledKeepsIInv ==
    ASSUME IInv, NEW a \in Agents, FirstCard(a) \/ AutoChange(a) \/ ApproveChange(a)
    PROVE  IInv'
  <1> USE DEF IInv, configVars, worldVars, pollVars, opVars, history
  <1>1. /\ got[a] \in Held /\ got[a] # None /\ Sound(got[a])
        /\ got' = [got EXCEPT ![a] = None] /\ poll' = [poll EXCEPT ![a] = "idle"]
        /\ healthy' = [healthy EXCEPT ![a] = TRUE]
        /\ UNCHANGED <<policy, verifier, served, deploys, stopped, op, reviewed, taken, approved>>
    BY DEF FirstCard, AutoChange, ApproveChange, Polled, Polling, TypeOK
  <1>2. Polling' /\ Travelling'
    BY <1>1 DEF Polling, Travelling, Sound, TypeOK
  <1>3. CASE FirstCard(a)
    <2>1. /\ card[a] = None /\ first[a] = None /\ pending' = pending
          /\ card' = [card EXCEPT ![a] = got[a]] /\ first' = [first EXCEPT ![a] = got[a]]
      BY <1>3 DEF FirstCard, FirstMeans
    <2>2. TypeOK'
      BY <1>1, <2>1 DEF TypeOK
    <2>3. InUse' /\ Waiting'
      BY <1>1, <2>1 DEF InUse, Waiting, Sound, TypeOK
    <2>4. FirstMeans' /\ OnlySanctioned'
      BY <1>1, <2>1 DEF FirstMeans, OnlySanctioned, TypeOK
    <2> QED BY <1>2, <2>2, <2>3, <2>4
  <1>4. CASE AutoChange(a)
    <2>1. /\ policy[a] = "auto" /\ pending' = pending /\ first' = first
          /\ card' = [card EXCEPT ![a] = got[a]]
      BY <1>4 DEF AutoChange
    <2>2. TypeOK'
      BY <1>1, <2>1 DEF TypeOK
    <2>3. InUse' /\ Waiting'
      BY <1>1, <2>1 DEF InUse, Waiting, Sound, TypeOK
    <2>4. FirstMeans' /\ OnlySanctioned'
      BY <1>1, <2>1 DEF FirstMeans, OnlySanctioned, TypeOK
    <2> QED BY <1>2, <2>2, <2>3, <2>4
  <1>5. CASE ApproveChange(a)
    <2>1. /\ policy[a] = "approve" /\ card' = card /\ first' = first /\ card[a] # None
          /\ pending' = [pending EXCEPT ![a] = [old |-> card[a], new |-> got[a]]]
      BY <1>5 DEF ApproveChange
    <2>2. card[a] \in Held
      BY <2>1 DEF TypeOK
    <2>3. [old |-> card[a], new |-> got[a]] \in Change
      BY <1>1, <2>2 DEF Change
    <2>4. TypeOK'
      BY <1>1, <2>1, <2>3 DEF TypeOK
    <2>5. InUse' /\ Waiting'
      BY <1>1, <2>1 DEF InUse, Waiting, Sound, TypeOK
    <2>6. FirstMeans' /\ OnlySanctioned'
      BY <1>1, <2>1 DEF FirstMeans, OnlySanctioned, TypeOK
    <2> QED BY <1>2, <2>4, <2>5, <2>6
  <1> QED BY <1>3, <1>4, <1>5

LEMMA ApproveKeepsIInv ==
    ASSUME IInv, NEW o \in Operators, NEW a \in Agents, Approve(o, a) PROVE IInv'
  <1> DEFINE t == [agent |-> a, change |-> pending[a]]
  <1> USE DEF IInv, configVars, worldVars, pollVars, history
  <1>1. /\ pending[a] \in Change /\ pending[a] # None /\ policy[a] = "approve"
        /\ Sound(pending[a].new) /\ pending[a].new \in Held
    BY DEF Approve, TypeOK, Waiting, Change
  <1>2. /\ pending' = [pending EXCEPT ![a] = None] /\ op' = [op EXCEPT ![o] = "applying"]
        /\ taken' = [taken EXCEPT ![o] = t]
        /\ approved' = [approved EXCEPT ![a] = @ \cup {pending[a].new}]
        /\ UNCHANGED <<policy, verifier, served, deploys, stopped, poll, got, card, healthy,
                      reviewed, first>>
    BY DEF Approve
  <1>3. t \in [agent : Agents, change : Change] /\ t # None
    BY <1>1, NoneIsNothing
  <1>4. /\ approved' \in [Agents -> SUBSET Held]
        /\ \A b \in Agents : approved[b] \subseteq approved'[b]
    BY <1>1, <1>2 DEF TypeOK
  <1>5. TypeOK'
    BY <1>2, <1>3, <1>4 DEF TypeOK
  <1>6. Polling' /\ InUse' /\ Waiting' /\ FirstMeans'
    BY <1>2 DEF Polling, InUse, Waiting, FirstMeans, Sound, TypeOK
  <1>7. OnlySanctioned'
    BY <1>2, <1>4 DEF OnlySanctioned
  <1>8. Travelling'
    <2> SUFFICES ASSUME NEW p \in Operators, taken'[p] # None
                 PROVE  /\ policy[taken'[p].agent] = "approve" /\ Sound(taken'[p].change.new)
                        /\ taken'[p].change.new \in approved'[taken'[p].agent]
      BY <1>2 DEF Travelling, Sound
    <2>1. CASE p = o
      <3>1. taken'[p].agent = a /\ taken'[p].change.new = pending[a].new
        BY <1>2, <2>1 DEF TypeOK
      <3>2. pending[a].new \in approved'[a]
        BY <1>2 DEF TypeOK
      <3> QED BY <1>1, <3>1, <3>2
    <2>2. CASE p # o
      <3>1. taken'[p] = taken[p] /\ taken[p].agent \in Agents
        BY <1>2, <2>2 DEF TypeOK
      <3> QED BY <1>4, <3>1 DEF Travelling
    <2> QED BY <2>1, <2>2
  <1> QED BY <1>5, <1>6, <1>7, <1>8

LEMMA ApplyKeepsIInv == ASSUME IInv, NEW o \in Operators, Apply(o) PROVE IInv'
  <1> USE DEF IInv, configVars, worldVars, pollVars, history
  <1> DEFINE a == taken[o].agent
             c == taken[o].change.new
  <1>1. /\ taken[o] # None /\ a \in Agents /\ c \in Held /\ c # None /\ Sound(c)
        /\ policy[a] = "approve" /\ c \in approved[a]
    BY NoneIsNothing DEF Apply, TypeOK, Travelling, Change
  <1>2. /\ card' = [card EXCEPT ![a] = c] /\ op' = [op EXCEPT ![o] = "idle"]
        /\ taken' = [taken EXCEPT ![o] = None]
        /\ reviewed' = [reviewed EXCEPT ![o] = [b \in Agents |-> None]]
        /\ UNCHANGED <<policy, verifier, served, deploys, stopped, poll, got, healthy,
                      pending, first, approved>>
    BY DEF Apply
  <1> HIDE DEF a, c
  <1>3. TypeOK'
    BY <1>1, <1>2 DEF TypeOK
  <1>4. InUse' /\ FirstMeans' /\ OnlySanctioned'
    BY <1>1, <1>2 DEF InUse, FirstMeans, OnlySanctioned, Sound, TypeOK
  <1>5. Polling' /\ Waiting'
    BY <1>2 DEF Polling, Waiting, Sound
  <1>6. Travelling'
    BY <1>2 DEF Travelling, Sound, TypeOK
  <1> QED BY <1>3, <1>4, <1>5, <1>6

LEMMA RejectKeepsIInv ==
    ASSUME IInv, NEW o \in Operators, NEW a \in Agents, Reject(o, a) PROVE IInv'
  <1> USE DEF IInv, configVars, worldVars, pollVars, history
  <1>1. /\ pending' = [pending EXCEPT ![a] = None] /\ op' = [op EXCEPT ![o] = "idle"]
        /\ reviewed' = [reviewed EXCEPT ![o] = [b \in Agents |-> None]]
        /\ op[o] # "applying"
        /\ UNCHANGED <<policy, verifier, served, deploys, stopped, poll, got, card, healthy,
                      taken, first, approved>>
    BY DEF Reject
  <1>2. TypeOK'
    BY <1>1 DEF TypeOK
  <1>3. Waiting'
    BY <1>1 DEF Waiting, Sound, TypeOK
  <1>4. Polling' /\ InUse' /\ Travelling' /\ FirstMeans' /\ OnlySanctioned'
    BY <1>1 DEF Polling, InUse, Travelling, FirstMeans, OnlySanctioned, Sound
  <1> QED BY <1>2, <1>3, <1>4

LEMMA StutterKeepsIInv == ASSUME IInv, UNCHANGED vars PROVE IInv'
  <1>1. TypeOK' /\ got' = got
    BY DEF IInv, TypeOK, vars, configVars, worldVars, pollVars, opVars, history
  <1> QED BY <1>1, QuietKeepsIInv DEF IInv, Polling, vars, opVars

LEMMA Inductive == Spec => []IInv
  <1>1. ASSUME IInv, Next PROVE IInv'
    <2>1. ASSUME NEW a \in Agents, Poller(a) \/ Deploy(a) PROVE IInv'
      BY <1>1, <2>1, FetchKeepsIInv, OthersKeepIInv, PolledKeepsIInv DEF Poller, Update
    <2>2. ASSUME NEW o \in Operators, Operator(o) PROVE IInv'
      BY <1>1, <2>2, OthersKeepIInv, ApproveKeepsIInv, ApplyKeepsIInv, RejectKeepsIInv DEF Operator
    <2> QED BY <1>1, <2>1, <2>2, OthersKeepIInv DEF Next
  <1>2. IInv /\ [Next]_vars => IInv'
    BY <1>1, StutterKeepsIInv
  <1> QED BY InitIInv, <1>2, PTL DEF Spec

----------------------------------------------------------------------------
\* Every variable keeps its type: in particular an operator who is applying
\* holds a change (approval of the pending store, pending.go:45-57).
THEOREM TypeCorrect == Spec => []TypeOK
  <1>1. IInv => TypeOK BY DEF IInv
  <1> QED BY Inductive, <1>1, PTL

\* Outside the auto policy no card is in use but the first and those an
\* operator approved (manager.go:189, poller.go:58-73, change.go:151-183).
THEOREM SanctionedCorrect == Spec => []OnlySanctioned
  <1>1. IInv => OnlySanctioned BY DEF IInv
  <1> QED BY Inductive, <1>1, PTL

\* Where signatures are required and there are keys to verify them, every card
\* in use, fetched, pending or approved was verified (poller.go:123-136).
THEOREM VerifiedCorrect == Spec => []VerifiedWhenRequired
  <1>1. ASSUME IInv, verifier.require, verifier.urls, NEW a \in Agents, NEW c \in CardsOf(a)
        PROVE  c.signed
    <2>1. CASE c \in {d \in {card[a], got[a]} : d # None}
      BY <1>1, <2>1 DEF IInv, InUse, Polling, Sound
    <2>2. CASE c \in {p.new : p \in {q \in {pending[a]} : q # None}}
      BY <1>1, <2>2 DEF IInv, Waiting, Sound
    <2>3. CASE c \in {taken[o].change.new :
                        o \in {o \in Operators : op[o] = "applying" /\ taken[o].agent = a}}
      BY <1>1, <2>3 DEF IInv, TypeOK, Travelling, Sound
    <2> QED BY <1>1, <2>1, <2>2, <2>3 DEF CardsOf
  <1>2. IInv => VerifiedWhenRequired
    BY <1>1 DEF VerifiedWhenRequired
  <1> QED BY Inductive, <1>2, PTL
=============================================================================
