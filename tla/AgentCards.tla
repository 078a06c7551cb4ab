----------------------------- MODULE AgentCards -----------------------------
(***************************************************************************)
(* internal/agentcard: the Agent Card of every backend as the gateway      *)
(* holds it, kept up to date by one poller goroutine per agent and by the  *)
(* operators who decide on pending changes through the MCP tools.          *)
(*                                                                         *)
(* A poll has two steps: the fetch, outside any lock, and the update under *)
(* m.mu of what was fetched.  An approval has two as well: the change is   *)
(* taken out of the pending store under the store's lock and applied later *)
(* under m.mu.  Pollers, operators and the backends interleave in between. *)
(*                                                                         *)
(* A card is what DetectChanges looks at (`shown`: url, version, name,     *)
(* description, capabilities and the NUMBERS of skills and of schemes) and *)
(* the rest of it.  `signed` is history: did the card come out of a        *)
(* signature the gateway verified?                                         *)
(***************************************************************************)
EXTENDS Integers

CONSTANTS
    Agents,      \* names of the configured agents
    Operators,   \* clients of the MCP server
    Contents,    \* [shown, rest] pairs: the cards there are
    Blank,       \* field of a card that json.Unmarshal found nothing for
    Bodies,      \* the response bodies the backends serve
    MaxDeploys   \* bound: times the backends change what they serve

VARIABLES
    policy,      \* policy[a]: card_change_policy
    verifier,    \* security.card_signature: require, and are there JWKS URLs?
    served,      \* served[a]: what a GET of agent a's card returns
    deploys,     \* changes of served so far
    stopped,     \* has Stop canceled the pollers' context?
    poll,        \* poll[a]: where the poller of a stands
    got,         \* got[a]: what fetchCard returned
    card,        \* card[a]: the card in use
    healthy,     \* healthy[a]: did the last poll succeed?
    pending,     \* the pending store
    op,          \* op[o]: where operator o stands
    reviewed,    \* reviewed[o]: the pending store as o listed it
    taken,       \* taken[o]: agent and change that o's approval took out
    first,       \* history: the first card each agent was given
    approved     \* history: approved[a]: the new cards operators approved

configVars == <<policy, verifier>>
worldVars == <<served, deploys>>
pollVars == <<poll, got>>
opVars == <<op, reviewed, taken>>
history == <<first, approved>>
vars == <<configVars, worldVars, stopped, pollVars, card, healthy, pending, opVars, history>>

----------------------------------------------------------------------------
(* Cards, bodies and changes *)

None == [none |-> TRUE]      \* nil: no card, no pending change, a failed fetch
Held == {[shown |-> c.shown, rest |-> c.rest, signed |-> s] :
            c \in Contents \cup {[shown |-> Blank, rest |-> Blank]}, s \in BOOLEAN}
Change == [old : Held, new : Held]

Policies == {"auto", "alert", "approve"}

\* A response body: a card as plain JSON or inside a JWS, in the compact or
\* the JSON serialization; `valid` says whether a trusted key verifies it now.
NoReply == [none |-> FALSE]  \* timeout, refused, not 200, not JSON
Body == [content : Contents, form : {"plain", "compact", "json"}, valid : BOOLEAN]

ASSUME MaxDeploysNat == MaxDeploys \in Nat

ASSUME BodiesAreBodies == Bodies \subseteq {b \in Body : b.form = "plain" => ~b.valid}

HoldCard(c, s) == [shown |-> c.shown, rest |-> c.rest, signed |-> s]

\* Mutant: a signature that does not verify is fatal only if it is there.
MutVerifyCardSignature(b) ==
    IF b.form = "plain" \/ b.valid THEN "ok" ELSE "failed"

\* VerifyCardSignature: "ok" with the payload, or an error.
VerifyCardSignature(b) ==
    IF \/ b.form = "plain" /\ ~verifier.require
       \/ b.form # "plain" /\ b.valid
    THEN "ok" ELSE "failed"

\* json.Unmarshal of the raw body: a compact JWS is no JSON, and none of the
\* fields of a JSON one is a field of a card.
Unmarshal(b) ==
    CASE b.form = "plain" -> HoldCard(b.content, FALSE)
      [] b.form = "json" -> HoldCard([shown |-> Blank, rest |-> Blank], FALSE)
      [] b.form = "compact" -> None

\* fetchCard: the verifier is consulted only when it has JWKS URLs.
FetchCard(b) ==
    IF b = NoReply THEN None
    ELSE IF ~verifier.urls THEN Unmarshal(b)
    ELSE IF VerifyCardSignature(b) = "ok" THEN HoldCard(b.content, b.form # "plain")
    ELSE IF verifier.require THEN None
    ELSE Unmarshal(b)

\* DetectChanges: is there a change to act upon?
DetectChanges(old, new) == old # None /\ new # None /\ old.shown # new.shown

Init ==
    /\ policy \in [Agents -> Policies]
    /\ verifier \in [require : BOOLEAN, urls : BOOLEAN]
    /\ served \in [Agents -> Bodies \cup {NoReply}]
    /\ deploys = 0
    /\ stopped = FALSE
    /\ poll = [a \in Agents |-> "idle"]
    /\ got = [a \in Agents |-> None]
    /\ card = [a \in Agents |-> None]
    /\ healthy = [a \in Agents |-> FALSE]
    /\ pending = [a \in Agents |-> None]
    /\ op = [o \in Operators |-> "idle"]
    /\ reviewed = [o \in Operators |-> [a \in Agents |-> None]]
    /\ taken = [o \in Operators |-> None]
    /\ first = [a \in Agents |-> None]
    /\ approved = [a \in Agents |-> {}]

----------------------------------------------------------------------------
(* The backends *)

\* A backend goes down, comes up, or serves another card or another signature.
Deploy(a) ==
    /\ deploys < MaxDeploys
    /\ deploys' = deploys + 1
    /\ \E b \in Bodies \cup {NoReply} : served' = [served EXCEPT ![a] = b]
    /\ UNCHANGED <<configVars, stopped, pollVars, card, healthy, pending, opVars, history>>

----------------------------------------------------------------------------
(* The poller of an agent *)

\* The ticker fires, or the loop starts; the request is made and answered.  A
\* poller whose context is canceled may lose the select to its ticker once.
Fetch(a) ==
    /\ poll[a] = "idle"
    /\ poll' = [poll EXCEPT ![a] = "fetched"]
    /\ got' = [got EXCEPT ![a] = IF stopped THEN None ELSE FetchCard(served[a])]
    /\ UNCHANGED <<configVars, worldVars, stopped, card, healthy, pending, opVars, history>>

\* A canceled context: a request in flight fails, an idle poller returns.
Cancel(a) ==
    /\ stopped
    /\ \/ poll[a] = "idle" /\ poll' = [poll EXCEPT ![a] = "done"] /\ UNCHANGED got
       \/ poll[a] = "fetched" /\ got[a] # None /\ got' = [got EXCEPT ![a] = None] /\ UNCHANGED poll
    /\ UNCHANGED <<configVars, worldVars, stopped, card, healthy, pending, opVars, history>>

\* Mutant: a failed poll forgets the card.
MutPollFails(a) ==
    /\ poll[a] = "fetched"
    /\ got[a] = None
    /\ healthy' = [healthy EXCEPT ![a] = FALSE]
    /\ card' = [card EXCEPT ![a] = None]
    /\ poll' = [poll EXCEPT ![a] = "idle"]
    /\ UNCHANGED <<configVars, worldVars, stopped, got, pending, opVars, history>>

\* Mutant: a failed poll leaves the health alone.
MutPollFailsQuietly(a) ==
    /\ poll[a] = "fetched"
    /\ got[a] = None
    /\ poll' = [poll EXCEPT ![a] = "idle"]
    /\ UNCHANGED <<configVars, worldVars, stopped, got, card, healthy, pending, opVars, history>>

\* The error branch: unhealthy, and the card stays.
PollFails(a) ==
    /\ poll[a] = "fetched"
    /\ got[a] = None
    /\ healthy' = [healthy EXCEPT ![a] = FALSE]
    /\ poll' = [poll EXCEPT ![a] = "idle"]
    /\ UNCHANGED <<configVars, worldVars, stopped, got, card, pending, opVars, history>>

\* A poll that succeeds makes the agent healthy whatever becomes of the card.
Polled(a) ==
    /\ poll[a] = "fetched"
    /\ got[a] # None
    /\ healthy' = [healthy EXCEPT ![a] = TRUE]
    /\ poll' = [poll EXCEPT ![a] = "idle"]
    /\ got' = [got EXCEPT ![a] = None]
    /\ UNCHANGED <<configVars, worldVars, stopped, opVars, approved>>

FirstCard(a) ==
    /\ Polled(a)
    /\ card[a] = None
    /\ card' = [card EXCEPT ![a] = got[a]]
    /\ first' = IF first[a] = None THEN [first EXCEPT ![a] = got[a]] ELSE first
    /\ UNCHANGED pending

SameCard(a) ==
    /\ Polled(a)
    /\ card[a] # None
    /\ ~DetectChanges(card[a], got[a])
    /\ UNCHANGED <<card, pending, first>>

\* Mutant: the auto policy only logs, as the alert policy does.
MutAutoChange(a) ==
    /\ Polled(a)
    /\ card[a] # None
    /\ DetectChanges(card[a], got[a])
    /\ policy[a] = "auto"
    /\ UNCHANGED <<card, pending, first>>

\* handleCardChange, one action per policy.
AutoChange(a) ==
    /\ Polled(a)
    /\ card[a] # None
    /\ DetectChanges(card[a], got[a])
    /\ policy[a] = "auto"
    /\ card' = [card EXCEPT ![a] = got[a]]
    /\ UNCHANGED <<pending, first>>

AlertChange(a) ==
    /\ Polled(a)
    /\ card[a] # None
    /\ DetectChanges(card[a], got[a])
    /\ policy[a] = "alert"
    /\ UNCHANGED <<card, pending, first>>

\* Mutant: a change that already waits is kept.
MutKeepPending(a) ==
    /\ Polled(a)
    /\ card[a] # None
    /\ DetectChanges(card[a], got[a])
    /\ policy[a] = "approve"
    /\ pending' = IF pending[a] = None
                  THEN [pending EXCEPT ![a] = [old |-> card[a], new |-> got[a]]] ELSE pending
    /\ UNCHANGED <<card, first>>

\* PendingStore.Add replaces a change that is already waiting.
ApproveChange(a) ==
    /\ Polled(a)
    /\ card[a] # None
    /\ DetectChanges(card[a], got[a])
    /\ policy[a] = "approve"
    /\ pending' = [pending EXCEPT ![a] = [old |-> card[a], new |-> got[a]]]
    /\ UNCHANGED <<card, first>>

\* Stop cancels the context the pollers run under.
Stop ==
    /\ ~stopped
    /\ stopped' = TRUE
    /\ UNCHANGED <<configVars, worldVars, pollVars, card, healthy, pending, opVars, history>>

----------------------------------------------------------------------------
(* The operators *)

\* An empty list leaves the operator with nothing to decide on.
ListPending(o) ==
    /\ op[o] \in {"idle", "listed"}
    /\ \E a \in Agents : pending[a] # None
    /\ op' = [op EXCEPT ![o] = "listed"]
    /\ reviewed' = [reviewed EXCEPT ![o] = pending]
    /\ UNCHANGED <<configVars, worldVars, stopped, pollVars, card, healthy, pending, taken,
                   history>>

\* Approve names an agent, not a change: the store hands out what waits now.
Approve(o, a) ==
    /\ op[o] \in {"idle", "listed"}
    /\ pending[a] # None
    /\ pending' = [pending EXCEPT ![a] = None]
    /\ op' = [op EXCEPT ![o] = "applying"]
    /\ taken' = [taken EXCEPT ![o] = [agent |-> a, change |-> pending[a]]]
    /\ approved' = [approved EXCEPT ![a] = @ \cup {pending[a].new}]
    /\ UNCHANGED <<configVars, worldVars, stopped, pollVars, card, healthy, reviewed, first>>

\* The rest of ApproveCardChange, under m.mu.
Apply(o) ==
    /\ op[o] = "applying"
    /\ card' = [card EXCEPT ![taken[o].agent] = taken[o].change.new]
    /\ op' = [op EXCEPT ![o] = "idle"]
    /\ taken' = [taken EXCEPT ![o] = None]
    /\ reviewed' = [reviewed EXCEPT ![o] = [a \in Agents |-> None]]
    /\ UNCHANGED <<configVars, worldVars, stopped, pollVars, healthy, pending, history>>

Reject(o, a) ==
    /\ op[o] \in {"idle", "listed"}
    /\ pending[a] # None
    /\ pending' = [pending EXCEPT ![a] = None]
    /\ op' = [op EXCEPT ![o] = "idle"]
    /\ reviewed' = [reviewed EXCEPT ![o] = [b \in Agents |-> None]]
    /\ UNCHANGED <<configVars, worldVars, stopped, pollVars, card, healthy, taken, history>>

----------------------------------------------------------------------------
Update(a) ==
    PollFails(a) \/ FirstCard(a) \/ SameCard(a) \/ AutoChange(a) \/ AlertChange(a)
        \/ ApproveChange(a)
Poller(a) == Fetch(a) \/ Cancel(a) \/ Update(a)
Operator(o) == ListPending(o) \/ Apply(o) \/ \E a \in Agents : Approve(o, a) \/ Reject(o, a)

Next ==
    \/ \E a \in Agents : Poller(a) \/ Deploy(a)
    \/ \E o \in Operators : Operator(o)
    \/ Stop

Spec == Init /\ [][Next]_vars

\* Tickers tick, requests end (the client has a timeout) and goroutines are
\* scheduled.  Operators and backends need not do anything.
Fairness ==
    /\ \A a \in Agents : WF_vars(Fetch(a)) /\ WF_vars(Update(a))
    /\ \A o \in Operators : WF_vars(Apply(o))

FairSpec == Spec /\ Fairness

----------------------------------------------------------------------------
(* Properties *)

TypeOK ==
    /\ policy \in [Agents -> Policies]
    /\ verifier \in [require : BOOLEAN, urls : BOOLEAN]
    /\ served \in [Agents -> Bodies \cup {NoReply}]
    /\ deploys \in 0..MaxDeploys
    /\ stopped \in BOOLEAN
    /\ poll \in [Agents -> {"idle", "fetched", "done"}]
    /\ got \in [Agents -> Held \cup {None}]
    /\ card \in [Agents -> Held \cup {None}]
    /\ healthy \in [Agents -> BOOLEAN]
    /\ pending \in [Agents -> Change \cup {None}]
    /\ op \in [Operators -> {"idle", "listed", "applying"}]
    /\ reviewed \in [Operators -> [Agents -> Change \cup {None}]]
    /\ taken \in [Operators -> [agent : Agents, change : Change] \cup {None}]
    /\ \A o \in Operators : op[o] = "applying" <=> taken[o] # None
    /\ first \in [Agents -> Held \cup {None}]
    /\ approved \in [Agents -> SUBSET Held]

\* Every card the gateway holds for agent a or may yet put to use.
CardsOf(a) ==
    {c \in {card[a], got[a]} : c # None}
        \cup {p.new : p \in {q \in {pending[a]} : q # None}}
        \cup {taken[o].change.new : o \in {o \in Operators : op[o] = "applying" /\ taken[o].agent = a}}

\* Outside the auto policy the first card stays until an operator approves
\* another one, through failures, recoveries and polls that race with the
\* approval (manager.go:189, poller.go:58-73, change.go:151-183).
OnlySanctioned ==
    \A a \in Agents : card[a] # None =>
        \/ policy[a] = "auto"
        \/ card[a] = first[a]
        \/ policy[a] = "approve" /\ card[a] \in approved[a]

\* With JWKS URLs configured and signatures required, no card that is in use,
\* fetched, pending or about to be applied was ever unverified (poller.go:123-136).
VerifiedWhenRequired ==
    verifier.require /\ verifier.urls => \A a \in Agents : \A c \in CardsOf(a) : c.signed

\* An agent whose endpoint stays as it is ends up healthy exactly when its
\* card can be fetched, whatever an operator does (poller.go:47-55, 75-77).
HealthSettles ==
    \A a \in Agents :
        <>[](stopped \/ (healthy[a] <=> served[a] # NoReply /\ FetchCard(served[a]) # None))

\* Is the card in use, as far as DetectChanges can tell, the one served?
Current(a) == card[a] # None /\ ~DetectChanges(card[a], FetchCard(served[a]))
Reachable(a) == FetchCard(served[a]) # None

\* Under the auto policy the gateway ends up with the card that is served.
AutoCatchesUp ==
    \A a \in Agents :
        <>[](stopped \/ policy[a] # "auto" \/ ~Reachable(a) \/ Current(a))

\* Under the approve policy a change that persists is offered again and
\* again, in its current form, until an operator lets it in: neither an older
\* pending change nor a rejection hides it (pending.go:37-41).
ChangeIsOffered ==
    \A a \in Agents :
        []<>(\/ stopped \/ policy[a] # "approve" \/ ~Reachable(a) \/ Current(a)
             \/ pending[a] # None /\ pending[a].new = FetchCard(served[a]))

\* ERRORS.md: an operator lists the pending changes, inspects one and approves
\* it.  The approval takes whatever is pending by then.
ApprovedAsReviewed ==
    \A o \in Operators : op[o] = "applying" =>
        LET seen == reviewed[o][taken[o].agent]
        IN  seen # None => taken[o].change = seen
=============================================================================
