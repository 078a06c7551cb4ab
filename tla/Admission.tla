----------------------------- MODULE Admission -----------------------------
(***************************************************************************)
(* What the security pipeline promises to the agents behind it: requests   *)
(* are let in one at a time and in one step each, within a budget shared   *)
(* by all, one for each address and one for each user.  A request is       *)
(* served only once it has been let in, refused only while it has not, and *)
(* answered once; a refusal never looks like a success.                    *)
(*                                                                         *)
(* Module RequestPath implements this specification with up to three       *)
(* token buckets that a request asks at different moments, with others     *)
(* overtaking it in between, and with middlewares that may still refuse    *)
(* what every bucket has let through.                                      *)
(***************************************************************************)
EXTENDS Integers, FiniteSets

CONSTANTS
    Requests,    \* requests
    Sources,     \* where a request may come from: [proto, ip]
    Users,       \* users a request may turn out to be
    Nobody,      \* the user of a request that no user's budget is charged for
    NotYet,      \* no answer
    Answers,     \* answers
    Refusals     \* those among them that say no

VARIABLES
    burst,       \* the budgets, [global, ip, user]; 0: there is none
    from,        \* from[r]: where r came from
    aside,       \* requests for health or metrics, which nothing guards
    admitted,    \* requests let in
    user,        \* user[r]: who r was let in as
    answer       \* answer[r]: what r was told

admissionVars == <<burst, from, aside, admitted, user, answer>>

Init ==
    /\ burst \in [global : Nat, ip : Nat, user : Nat]
    /\ from \in [Requests -> Sources]
    /\ aside \in SUBSET Requests
    /\ admitted = {}
    /\ user = [r \in Requests |-> Nobody]
    /\ answer = [r \in Requests |-> NotYet]

\* Who was let in from where r comes from, by its protocol and by its address.
Like(r) == {x \in admitted : from[x].proto = from[r].proto}
Near(r) == {x \in Like(r) : from[x].ip = from[r].ip}

\* The budgets have room for r, who turned out to be u.
Room(r, u) ==
    /\ burst.global > 0 => Cardinality(Like(r)) < burst.global
    /\ burst.ip > 0 => Cardinality(Near(r)) < burst.ip
    /\ burst.user > 0 /\ u # Nobody => Cardinality({x \in Like(r) : user[x] = u}) < burst.user

Waiting(r) == r \notin admitted \cup aside /\ answer[r] = NotYet

Admit(r, u) ==
    /\ Waiting(r)
    /\ Room(r, u)
    /\ admitted' = admitted \cup {r}
    /\ user' = [user EXCEPT ![r] = u]
    /\ UNCHANGED <<burst, from, aside, answer>>

Tell(r, S) ==
    /\ \E a \in S : answer' = [answer EXCEPT ![r] = a]
    /\ UNCHANGED <<burst, from, aside, admitted, user>>

Refuse(r) == Waiting(r) /\ Tell(r, Refusals)

Serve(r) == r \in admitted \cup aside /\ answer[r] = NotYet /\ Tell(r, Answers)

Next == \E r \in Requests : Refuse(r) \/ Serve(r) \/ \E u \in Users : Admit(r, u)

Spec == Init /\ [][Next]_admissionVars
=============================================================================
