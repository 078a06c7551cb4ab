---------------------------- MODULE RequestProofs ----------------------------
(***************************************************************************)
(* Proofs about RequestPath: for any number of requests, agents and        *)
(* policies, any configuration and any budgets.                            *)
(*                                                                         *)
(* The actions are many and most of them touch little, so the proofs go    *)
(* through what a step may do.  A step of a request either stands still or *)
(* passes one middleware (Passes), and only the three limiters and the     *)
(* nonce store touch anything the requests share; Quiet names the others.  *)
(*                                                                         *)
(* IInv has three parts, and none of what the run checks is inductive      *)
(* without them:                                                           *)
(*   - RequestsOK: where a request is agrees with what it has passed       *)
(*     (Fine).  It needs the order of the middlewares (PipelineInOrder).   *)
(*   - Spent: each bucket's tokens and the requests that took one add up   *)
(*     to the burst.  BudgetHeld compares a budget with the requests       *)
(*     behind the whole pipeline; those are among the takers, but a step   *)
(*     that lets the last one in changes no bucket, so the account must be *)
(*     kept from the moment a token is taken.                              *)
(*   - HistoriesOK: what the guard is about to judge by, and why the       *)
(*     router is on its way to the default agent (Watched).                *)
(*                                                                         *)
(* Two more invariants rest on it: what each check found stays true up to  *)
(* the handler (Checked), and the guard never sees a method or an agent    *)
(* (Unrouted).                                                             *)
(*                                                                         *)
(* The last part shows that the pipeline implements Admission.  An         *)
(* admission is the step behind the last middleware, when the tokens have  *)
(* long been taken, so that there is room is read off the state after it,  *)
(* where BudgetHeld holds.                                                 *)
(***************************************************************************)
EXTENDS RequestPath, FiniteSetTheorems, SequenceTheorems, WellFoundedInduction, TLAPS

----------------------------------------------------------------------------
(* The pipeline *)

\* Where a middleware stands among all.
Place == [global |-> 1, ip |-> 2, auth |-> 3, user |-> 4, policy |-> 5, jws |-> 6, replay |-> 7, ssrf |-> 8]
Middlewares == DOMAIN Place

Members(s) == {s[i] : i \in 1 .. Len(s)}
InOrder(s) ==
    /\ s \in Seq(Middlewares)
    /\ \A i, j \in 1 .. Len(s) : i < j => Place[s[i]] < Place[s[j]]

\* The one order of the middlewares (pipeline.go:60-105).
LEMMA PlaceType ==
    /\ Middlewares = {"global", "ip", "auth", "user", "policy", "jws", "replay", "ssrf"}
    /\ \A m \in Middlewares : Place[m] \in Nat
    /\ Place["global"] = 1 /\ Place["ip"] = 2 /\ Place["auth"] = 3 /\ Place["user"] = 4
    /\ Place["policy"] = 5 /\ Place["jws"] = 6 /\ Place["replay"] = 7 /\ Place["ssrf"] = 8
  BY DEF Place, Middlewares

\* Sequences in order, one after the other, are in order.
LEMMA ChainInOrder ==
    ASSUME NEW s, NEW t, InOrder(s), InOrder(t),
           \A m \in Members(s), n \in Members(t) : Place[m] < Place[n]
    PROVE  InOrder(s \o t) /\ Members(s \o t) = Members(s) \cup Members(t)
  <1>1. /\ s \in Seq(Middlewares) /\ t \in Seq(Middlewares)
        /\ Len(s) \in Nat /\ Len(t) \in Nat
    BY LenProperties DEF InOrder
  <1>2. /\ s \o t \in Seq(Middlewares) /\ Len(s \o t) = Len(s) + Len(t)
        /\ \A i \in 1 .. Len(s) + Len(t) :
              (s \o t)[i] = IF i <= Len(s) THEN s[i] ELSE t[i - Len(s)]
    BY <1>1, ConcatProperties
  <1>3. \A i \in 1 .. Len(s) : i \in 1 .. Len(s) + Len(t) /\ (s \o t)[i] = s[i]
    BY <1>1, <1>2
  <1>4. \A i \in 1 .. Len(t) : i + Len(s) \in 1 .. Len(s) + Len(t) /\ (s \o t)[i + Len(s)] = t[i]
    BY <1>1, <1>2
  <1>5. Members(s \o t) = Members(s) \cup Members(t)
    <2>1. ASSUME NEW x \in Members(s \o t) PROVE x \in Members(s) \cup Members(t)
      <3>1. PICK i \in 1 .. Len(s) + Len(t) : x = (s \o t)[i]
        BY <1>2 DEF Members
      <3>2. CASE i <= Len(s)
        BY <1>1, <1>2, <3>1, <3>2 DEF Members
      <3>3. CASE ~(i <= Len(s))
        <4>1. i - Len(s) \in 1 .. Len(t) /\ x = t[i - Len(s)]
          BY <1>1, <1>2, <3>1, <3>3
        <4> QED
          BY <4>1 DEF Members
      <3> QED
        BY <3>2, <3>3
    <2>2. ASSUME NEW x \in Members(s) \cup Members(t) PROVE x \in Members(s \o t)
      <3>1. CASE x \in Members(s)
        BY <1>2, <1>3, <3>1 DEF Members
      <3>2. CASE x \in Members(t)
        BY <1>2, <1>4, <3>2 DEF Members
      <3> QED
        BY <3>1, <3>2
    <2> QED
      BY <2>1, <2>2
  <1>6. ASSUME NEW i \in 1 .. Len(s) + Len(t), NEW j \in 1 .. Len(s) + Len(t), i < j
        PROVE  Place[(s \o t)[i]] < Place[(s \o t)[j]]
    <2>1. CASE j <= Len(s)
      <3>1. /\ i \in 1 .. Len(s) /\ j \in 1 .. Len(s)
            /\ (s \o t)[i] = s[i] /\ (s \o t)[j] = s[j]
        BY <1>1, <1>2, <1>6, <2>1
      <3> QED
        BY <1>6, <3>1 DEF InOrder
    <2>2. CASE ~(i <= Len(s))
      <3>1. /\ i - Len(s) \in 1 .. Len(t) /\ j - Len(s) \in 1 .. Len(t)
            /\ i - Len(s) < j - Len(s)
            /\ (s \o t)[i] = t[i - Len(s)] /\ (s \o t)[j] = t[j - Len(s)]
        BY <1>1, <1>2, <1>6, <2>2
      <3> QED
        BY <3>1 DEF InOrder
    <2>3. CASE i <= Len(s) /\ ~(j <= Len(s))
      <3>1. /\ i \in 1 .. Len(s) /\ j - Len(s) \in 1 .. Len(t)
            /\ (s \o t)[i] = s[i] /\ (s \o t)[j] = t[j - Len(s)]
        BY <1>1, <1>2, <1>6, <2>3
      <3>2. s[i] \in Members(s) /\ t[j - Len(s)] \in Members(t)
        BY <3>1 DEF Members
      <3> QED
        BY <3>1, <3>2
    <2> QED
      BY <2>1, <2>2, <2>3, <1>1
  <1> QED
    BY <1>2, <1>5, <1>6 DEF InOrder

\* A middleware that the configuration may leave out.
LEMMA OptionalInOrder ==
    ASSUME NEW m \in Middlewares, NEW c
    PROVE  /\ InOrder(Optional(c, m))
           /\ Members(Optional(c, m)) = IF c THEN {m} ELSE {}
  BY EmptySeq DEF Optional, InOrder, Members

\* The middlewares of the pipeline, whatever the configuration: which there
\* are, and that they stand in the one order (pipeline.go).
LEMMA PipelineInOrder ==
    /\ InOrder(BuildPipeline)
    /\ Members(BuildPipeline) = (IF cfg.global > 0 THEN {"global"} ELSE {})
                                \cup (IF cfg.ip > 0 THEN {"ip"} ELSE {})
                                \cup {"auth"}
                                \cup (IF cfg.user > 0 THEN {"user"} ELSE {})
                                \cup (IF cfg.guarded THEN {"policy"} ELSE {})
                                \cup {"jws", "replay", "ssrf"}
  <1> DEFINE g == Optional(cfg.global > 0, "global")
             i == Optional(cfg.ip > 0, "ip")
             u == Optional(cfg.user > 0, "user")
             p == Optional(cfg.guarded, "policy")
             rest == <<"jws", "replay", "ssrf">>
             G == IF cfg.global > 0 THEN {"global"} ELSE {}
             I == IF cfg.ip > 0 THEN {"ip"} ELSE {}
             U == IF cfg.user > 0 THEN {"user"} ELSE {}
             P == IF cfg.guarded THEN {"policy"} ELSE {}
  <1>1. /\ InOrder(g) /\ Members(g) = G
        /\ InOrder(i) /\ Members(i) = I
        /\ InOrder(u) /\ Members(u) = U
        /\ InOrder(p) /\ Members(p) = P
    BY PlaceType, OptionalInOrder
  <1>2. InOrder(<<"auth">>) /\ Members(<<"auth">>) = {"auth"}
    BY PlaceType DEF InOrder, Members
  <1>3. InOrder(rest) /\ Members(rest) = {"jws", "replay", "ssrf"}
    BY DEF InOrder, Members, Place, Middlewares
  <1>4. /\ G \subseteq {"global"} /\ I \subseteq {"ip"}
        /\ U \subseteq {"user"} /\ P \subseteq {"policy"}
    OBVIOUS
  <1>5. BuildPipeline = g \o i \o <<"auth">> \o u \o p \o rest
    BY DEF BuildPipeline
  <1> HIDE DEF g, i, u, p, rest, G, I, U, P
  <1>6. /\ \A m \in G, n \in I : Place[m] < Place[n]
        /\ \A m \in G \cup I, n \in {"auth"} : Place[m] < Place[n]
        /\ \A m \in G \cup I \cup {"auth"}, n \in U : Place[m] < Place[n]
        /\ \A m \in G \cup I \cup {"auth"} \cup U, n \in P : Place[m] < Place[n]
        /\ \A m \in G \cup I \cup {"auth"} \cup U \cup P, n \in {"jws", "replay", "ssrf"} :
              Place[m] < Place[n]
    BY <1>4, PlaceType
  <1>7. InOrder(g \o i) /\ Members(g \o i) = G \cup I
    BY <1>1, <1>6, ChainInOrder
  <1>8. InOrder(g \o i \o <<"auth">>) /\ Members(g \o i \o <<"auth">>) = G \cup I \cup {"auth"}
    BY <1>2, <1>6, <1>7, ChainInOrder
  <1>9. /\ InOrder(g \o i \o <<"auth">> \o u)
        /\ Members(g \o i \o <<"auth">> \o u) = G \cup I \cup {"auth"} \cup U
    BY <1>1, <1>6, <1>8, ChainInOrder
  <1>10. /\ InOrder(g \o i \o <<"auth">> \o u \o p)
         /\ Members(g \o i \o <<"auth">> \o u \o p) = G \cup I \cup {"auth"} \cup U \cup P
    BY <1>1, <1>6, <1>9, ChainInOrder
  <1>11. /\ InOrder(g \o i \o <<"auth">> \o u \o p \o rest)
         /\ Members(g \o i \o <<"auth">> \o u \o p \o rest)
               = G \cup I \cup {"auth"} \cup U \cup P \cup {"jws", "replay", "ssrf"}
    BY <1>3, <1>6, <1>10, ChainInOrder
  <1> QED
    BY <1>5, <1>11 DEF G, I, U, P

----------------------------------------------------------------------------
(* One request *)

Record == {"shape", "pc", "passed", "user", "query", "order", "method", "target", "path", "answer"}

Underway == {"pipeline", "evaluate", "store"}
Through == {"handler", "route", "default", "forward", "reply"}

\* What is known of a request, wherever it is.
Fine(q) ==
    /\ Record \subseteq DOMAIN q
    /\ q.shape \in Shapes /\ q.pc \in Stages /\ q.user \in Users
    /\ q.passed \in 0 .. Len(BuildPipeline) /\ q.answer \in Codes
    /\ (q.pc = "done") <=> (q.answer # NotYet)
    /\ q.pc \in Underway \cup {"mux"} => q.passed < Len(BuildPipeline)
    /\ q.pc # "done" => ((q.pc = "mux") <=> Bypasses(q.shape))
    /\ q.pc \in Through => q.passed = Len(BuildPipeline)
    /\ q.pc = "evaluate" => BuildPipeline[q.passed + 1] = "policy"
    /\ q.pc = "store" => BuildPipeline[q.passed + 1] = "replay"
    /\ q.pc \in {"forward", "reply"} => q.target \in Agents
    /\ q.pc \notin {"forward", "reply", "done"} => q.target = NoAgent
    /\ q.pc = "default" => cfg.mode = "path-prefix"

RequestsOK == DOMAIN req = Requests /\ \A r \in Requests : Fine(req[r])

\* There is always something in the pipeline: authentication at least.
LEMMA PipelineType ==
    /\ BuildPipeline \in Seq(Middlewares) /\ Len(BuildPipeline) \in Nat /\ Len(BuildPipeline) >= 1
  <1>1. BuildPipeline \in Seq(Middlewares) /\ "auth" \in Members(BuildPipeline)
    BY PipelineInOrder DEF InOrder
  <1>2. Len(BuildPipeline) \in Nat
    BY <1>1, LenProperties
  <1> QED
    BY <1>1, <1>2 DEF Members

\* The pipeline is built once and for all.
LEMMA PipelineStays == ASSUME cfg' = cfg PROVE BuildPipeline' = BuildPipeline
  BY DEF BuildPipeline

\* So are the paths beside it.
LEMMA BypassesStay == ASSUME cfg' = cfg PROVE \A s : Bypasses(s)' <=> Bypasses(s)
  BY DEF Bypasses

\* What becomes of a record.
LEMMA OnwardGives ==
    ASSUME NEW q, Record \subseteq DOMAIN q
    PROVE  /\ DOMAIN Onward(q) = DOMAIN q
           /\ Onward(q).passed = q.passed + 1
           /\ Onward(q).pc = IF q.passed + 1 = Len(BuildPipeline) THEN "handler" ELSE "pipeline"
           /\ \A f \in DOMAIN q \ {"pc", "passed"} : Onward(q)[f] = q[f]
  BY DEF Onward, Record

\* An answer leaves the rest of the record alone.
LEMMA AnsweredGives ==
    ASSUME NEW q, Record \subseteq DOMAIN q, NEW code
    PROVE  /\ DOMAIN Answered(q, code) = DOMAIN q
           /\ Answered(q, code).pc = "done" /\ Answered(q, code).answer = code
           /\ \A f \in DOMAIN q \ {"pc", "answer"} : Answered(q, code)[f] = q[f]
  BY DEF Answered, Record

\* A refusal is an answer, and never looks like a success (errors.go).
LEMMA RefusalIsAnswer ==
    ASSUME NEW r, NEW status \in {400, 401, 403, 404, 429, 503}
    PROVE  Code(r, status) \in Codes \ {NotYet, 200, OK}
  <1>1. HTTPStatusToGRPCCode(status) \in {InvalidArgument, Unauthenticated, PermissionDenied,
            NotFound, AlreadyExists, ResourceExhausted, Unavailable, Internal}
    BY DEF HTTPStatusToGRPCCode
  <1>2. status # 409
    OBVIOUS
  <1>3. HTTPStatusToGRPCCode(status) \in {InvalidArgument, Unauthenticated, PermissionDenied,
            NotFound, ResourceExhausted, Unavailable, Internal}
    BY <1>2 DEF HTTPStatusToGRPCCode
  <1>4. status \in Codes \ {NotYet, 200, OK}
    BY DEF Codes, NotYet, OK
  <1>5. {InvalidArgument, Unauthenticated, PermissionDenied, NotFound, ResourceExhausted, Unavailable,
         Internal} \subseteq Codes \ {NotYet, 200, OK}
    BY DEF Codes, NotYet, OK, InvalidArgument, NotFound, PermissionDenied, ResourceExhausted,
           Internal, Unavailable, Unauthenticated
  <1> QED
    BY <1>3, <1>4, <1>5 DEF Code

\* The middlewares see the address, the credentials and the nonce the request came with.
LEMMA ViewGives ==
    ASSUME NEW r, req[r].shape \in Shapes
    PROVE  /\ Proto(r) \in Protocols
           /\ View(r).addr = req[r].shape.addr /\ View(r).xff = req[r].shape.xff
           /\ View(r).cred = req[r].shape.cred /\ View(r).nonce = req[r].shape.nonce
  BY ShapesAssumption DEF Proto, View, BuildSyntheticRequest, Fields

\* Whatever the mode, the user is nobody, or has the subject the request
\* came with (auth.go).
LEMMA AuthenticatedUser ==
    ASSUME NEW s \in Shapes, NEW auth, NEW fetched
    PROVE  Authenticate(auth, s.cred, fetched).user \in Users
  <1>1. ASSUME NEW p \in {"", "unverified:"} PROVE Identified(p, s.cred.sub).user \in Users
    <2>1. <<p, s.cred.sub>> \in Users /\ Nobody \in Users
      BY DEF Users
    <2>2. Identified(p, s.cred.sub).user \in {Nobody, <<p, s.cred.sub>>}
      BY DEF Identified
    <2> QED
      BY <2>1, <2>2
  <1>2. Identified("", "").user \in Users /\ Rejected.user \in Users
    BY DEF Identified, Rejected, Users
  <1>3. WithoutHeader(auth).user \in Users
    BY <1>2 DEF WithoutHeader
  <1>4. Terminate(auth, s.cred, fetched).user \in Users
    BY <1>1, <1>2, <1>3 DEF Terminate
  <1>5. PassthroughStrict(auth, s.cred).user \in Users
    BY <1>1, <1>3 DEF PassthroughStrict
  <1> QED
    BY <1>2, <1>4, <1>5, Zenon DEF Authenticate

----------------------------------------------------------------------------
(* What a step does to the requests *)

\* x has passed no middleware, and is the user it was.
Same(x) ==
    req'[x].shape = req[x].shape /\ req'[x].passed = req[x].passed /\ req'[x].user = req[x].user

\* Nobody passes a middleware.
StandStill == \A x \in Requests : Same(x)

\* r, and nobody else, passes m.
Passes(r, m) ==
    /\ req[r].passed < Len(BuildPipeline) /\ BuildPipeline[req[r].passed + 1] = m
    /\ req'[r].shape = req[r].shape /\ req'[r].passed = req[r].passed + 1
    /\ m # "auth" => req'[r].user = req[r].user
    /\ \A x \in Requests \ {r} : Same(x)

\* Only one record changes.
LEMMA BecomesGives ==
    ASSUME RequestsOK, NEW r \in Requests, NEW q, Becomes(r, q)
    PROVE  req'[r] = q /\ \A x \in Requests \ {r} : req'[x] = req[x]
  BY DEF RequestsOK, Becomes

\* To see that the records stay fine it is enough to look at that one.
LEMMA BecomesKeeps ==
    ASSUME RequestsOK, cfg' = cfg, NEW r \in Requests, NEW q, Fine(q), Becomes(r, q)
    PROVE  RequestsOK'
  <1>1. DOMAIN req' = Requests
    BY DEF RequestsOK, Becomes
  <1>2. \A x \in Requests : Fine(req'[x])
    BY BecomesGives DEF RequestsOK
  <1>3. \A x \in Requests : Fine(req[x])'
    BY <1>2, PipelineStays, BypassesStay DEF Fine
  <1> QED
    BY <1>1, <1>3 DEF RequestsOK

\* A request may be answered wherever it is.
LEMMA AnsweredFine ==
    ASSUME NEW q, Fine(q), NEW code \in Codes \ {NotYet}
    PROVE  Fine(Answered(q, code))
  <1>1. /\ DOMAIN Answered(q, code) = DOMAIN q
        /\ Answered(q, code).pc = "done" /\ Answered(q, code).answer = code
        /\ Answered(q, code).shape = q.shape /\ Answered(q, code).user = q.user
        /\ Answered(q, code).passed = q.passed
    BY AnsweredGives DEF Fine, Record
  <1> QED
    BY <1>1 DEF Fine, Stages, Underway, Through

\* A request that goes on stands at the next middleware, or at the handler.
LEMMA OnwardFine ==
    ASSUME NEW q, Fine(q), q.pc \in Underway
    PROVE  Fine(Onward(q))
  <1>1. /\ DOMAIN Onward(q) = DOMAIN q /\ Onward(q).passed = q.passed + 1
        /\ Onward(q).pc = IF q.passed + 1 = Len(BuildPipeline) THEN "handler" ELSE "pipeline"
        /\ Onward(q).shape = q.shape /\ Onward(q).user = q.user
        /\ Onward(q).target = q.target /\ Onward(q).answer = q.answer
    BY OnwardGives DEF Fine, Record
  <1>2. q.answer = NotYet /\ q.target = NoAgent /\ q.passed < Len(BuildPipeline)
    BY DEF Fine, Underway
  <1>3. Onward(q).passed \in 0 .. Len(BuildPipeline)
    BY <1>1, <1>2, PipelineType DEF Fine
  <1>4. Onward(q).pc = "pipeline" => Onward(q).passed < Len(BuildPipeline)
    BY <1>1, <1>2, PipelineType DEF Fine
  <1> QED
    BY <1>1, <1>2, <1>3, <1>4 DEF Fine, Stages, Underway, Through

\* The effect of the ways a step can end: an answer,
LEMMA AnswerEffect ==
    ASSUME RequestsOK, cfg' = cfg, NEW r \in Requests, NEW code \in Codes \ {NotYet},
           Answer(r, code)
    PROVE  RequestsOK' /\ StandStill
  <1>1. Fine(req[r]) /\ Becomes(r, Answered(req[r], code))
    BY DEF RequestsOK, Answer
  <1>2. RequestsOK'
    BY <1>1, AnsweredFine, BecomesKeeps
  <1>3. req'[r] = Answered(req[r], code) /\ \A x \in Requests \ {r} : req'[x] = req[x]
    BY <1>1, BecomesGives
  <1>4. Same(r)
    BY <1>1, <1>3, AnsweredGives DEF Same, Fine, Record
  <1> QED
    BY <1>2, <1>3, <1>4 DEF StandStill, Same

\* a refusal,
LEMMA RefuseEffect ==
    ASSUME RequestsOK, cfg' = cfg, NEW r \in Requests,
           NEW status \in {400, 401, 403, 404, 429, 503}, Refuse(r, status)
    PROVE  RequestsOK' /\ StandStill
  BY RefusalIsAnswer, AnswerEffect DEF Refuse

\* The request goes on as q, which differs from req[r] in nothing but what
\* this middleware has found out.
LEMMA OnwardEffect ==
    ASSUME RequestsOK, cfg' = cfg, NEW r \in Requests, NEW q, Fine(q), q.pc \in Underway,
           q.shape = req[r].shape, q.passed = req[r].passed,
           BuildPipeline[req[r].passed + 1] # "auth" => q.user = req[r].user,
           Becomes(r, Onward(q))
    PROVE  RequestsOK' /\ Passes(r, BuildPipeline[req[r].passed + 1])
  <1>1. RequestsOK'
    BY OnwardFine, BecomesKeeps
  <1>2. req'[r] = Onward(q) /\ \A x \in Requests \ {r} : req'[x] = req[x]
    BY BecomesGives
  <1>3. /\ Onward(q).passed = q.passed + 1 /\ Onward(q).shape = q.shape
        /\ Onward(q).user = q.user
    BY OnwardGives DEF Fine, Record
  <1>4. req[r].passed < Len(BuildPipeline)
    BY DEF Fine
  <1> QED
    BY <1>1, <1>2, <1>3, <1>4 DEF Passes, Same

\* and, most often, with nothing about the request changed.
LEMMA PassOnEffect ==
    ASSUME RequestsOK, cfg' = cfg, NEW r \in Requests, req[r].pc \in Underway, PassOn(r)
    PROVE  RequestsOK' /\ Passes(r, BuildPipeline[req[r].passed + 1])
  BY OnwardEffect DEF PassOn, RequestsOK

\* The request is at another place, with what it has found out there.
LEMMA StageEffect ==
    ASSUME RequestsOK, cfg' = cfg, NEW r \in Requests, NEW q, Fine(q), Becomes(r, q),
           q.shape = req[r].shape, q.passed = req[r].passed, q.user = req[r].user
    PROVE  RequestsOK' /\ StandStill
  BY BecomesKeeps, BecomesGives DEF StandStill, Same

----------------------------------------------------------------------------
(* The actions, by what they do to the requests *)

\* What the handlers answer.
LEMMA AnswersAreCodes ==
    {200, 400, 404, 429, 503, OK, Unknown, InvalidArgument, Internal, Unavailable}
      \subseteq Codes \ {NotYet}
  BY DEF Codes, NotYet, OK, Unknown, InvalidArgument, Internal, Unavailable

\* A request that is waiting for middleware m.
LEMMA AtGives ==
    ASSUME NEW r, NEW m, At(r, m)
    PROVE  req[r].pc \in Underway /\ BuildPipeline[req[r].passed + 1] = m
  BY DEF At, Underway

\* What each middleware does to the requests and to what it keeps itself. The
\* global limiter takes a token of the protocol's bucket from whom it lets by.
LEMMA GlobalLimitEffect ==
    ASSUME RequestsOK, NEW r \in Requests, GlobalLimit(r)
    PROVE  /\ RequestsOK'
           /\ \/ /\ Passes(r, "global") /\ global[Proto(r)] > 0
                 /\ global' = [global EXCEPT ![Proto(r)] = @ - 1]
              \/ StandStill /\ UNCHANGED global
           /\ UNCHANGED <<cfg, perIP, perUser, nonces>>
  <1>1. cfg' = cfg /\ At(r, "global") /\ UNCHANGED <<perIP, perUser, nonces>>
    BY DEF GlobalLimit
  <1>2. CASE Refuse(r, 503) /\ UNCHANGED global
    BY <1>1, <1>2, RefuseEffect
  <1>3. CASE PassOn(r) /\ global[Proto(r)] > 0 /\ global' = [global EXCEPT ![Proto(r)] = @ - 1]
    BY <1>1, <1>3, PassOnEffect, AtGives
  <1> QED
    BY <1>1, <1>2, <1>3 DEF GlobalLimit

\* The limiter by address takes a token from the bucket of the client's address.
LEMMA IPLimitEffect ==
    ASSUME RequestsOK, NEW r \in Requests, IPLimit(r)
    PROVE  /\ RequestsOK'
           /\ \/ /\ Passes(r, "ip") /\ perIP[Proto(r)][ClientIP(r)] > 0
                 /\ perIP' = [perIP EXCEPT ![Proto(r)][ClientIP(r)] = @ - 1]
              \/ StandStill /\ UNCHANGED perIP
           /\ UNCHANGED <<cfg, global, perUser, nonces>>
  <1>1. cfg' = cfg /\ At(r, "ip") /\ UNCHANGED <<global, perUser, nonces>>
    BY DEF IPLimit
  <1>2. CASE Refuse(r, 429) /\ UNCHANGED perIP
    BY <1>1, <1>2, RefuseEffect
  <1>3. CASE /\ PassOn(r) /\ perIP[Proto(r)][ClientIP(r)] > 0
             /\ perIP' = [perIP EXCEPT ![Proto(r)][ClientIP(r)] = @ - 1]
    BY <1>1, <1>3, PassOnEffect, AtGives
  <1> QED
    BY <1>1, <1>2, <1>3 DEF IPLimit

\* The limiter by user takes one from a user's bucket, and nothing from nobody.
LEMMA UserLimitEffect ==
    ASSUME RequestsOK, NEW r \in Requests, UserLimit(r)
    PROVE  /\ RequestsOK'
           /\ \/ /\ Passes(r, "user") /\ req[r].user # Nobody /\ perUser[Proto(r)][req[r].user] > 0
                 /\ perUser' = [perUser EXCEPT ![Proto(r)][req[r].user] = @ - 1]
              \/ Passes(r, "user") /\ req[r].user = Nobody /\ UNCHANGED perUser
              \/ StandStill /\ UNCHANGED perUser
           /\ UNCHANGED <<cfg, global, perIP, nonces>>
  <1>1. cfg' = cfg /\ At(r, "user") /\ UNCHANGED <<global, perIP, nonces>>
    BY DEF UserLimit
  <1>2. CASE Refuse(r, 429) /\ UNCHANGED perUser
    BY <1>1, <1>2, RefuseEffect
  <1>3. CASE PassOn(r) /\ req[r].user = Nobody /\ UNCHANGED perUser
    BY <1>1, <1>3, PassOnEffect, AtGives
  <1>4. CASE /\ PassOn(r) /\ req[r].user # Nobody /\ perUser[Proto(r)][req[r].user] > 0
             /\ perUser' = [perUser EXCEPT ![Proto(r)][req[r].user] = @ - 1]
    BY <1>1, <1>4, PassOnEffect, AtGives
  <1> QED
    BY <1>1, <1>2, <1>3, <1>4 DEF UserLimit

\* Authentication is the only one to say who the user is.
LEMMA AuthEffect ==
    ASSUME RequestsOK, NEW r \in Requests, Auth(r)
    PROVE  RequestsOK' /\ (Passes(r, "auth") \/ StandStill) /\ UNCHANGED <<cfg, buckets, nonces>>
  <1>1. cfg' = cfg /\ At(r, "auth") /\ UNCHANGED <<buckets, nonces>>
    BY DEF Auth
  <1>2. PICK fetched \in BOOLEAN :
           LET info == Authenticate(cfg.auth, View(r).cred, fetched)
           IN IF info.ok THEN Becomes(r, Onward([req[r] EXCEPT !.user = info.user]))
              ELSE Refuse(r, 401)
    BY DEF Auth
  <1> DEFINE u == Authenticate(cfg.auth, View(r).cred, fetched).user
             q == [req[r] EXCEPT !.user = u]
  <1>3. u \in Users
    BY ViewGives, AuthenticatedUser DEF RequestsOK, Fine
  <1>4. /\ Fine(req[r]) /\ req[r].pc \in Underway /\ BuildPipeline[req[r].passed + 1] = "auth"
    BY <1>1, AtGives DEF RequestsOK
  <1> HIDE DEF u
  <1>5. /\ Fine(q) /\ q.pc = req[r].pc /\ q.shape = req[r].shape /\ q.passed = req[r].passed
    BY <1>3, <1>4 DEF Fine, Record
  <1>6. CASE Becomes(r, Onward(q))
    <2> HIDE DEF q
    <2> QED
      BY <1>1, <1>4, <1>5, <1>6, OnwardEffect
  <1>7. CASE Refuse(r, 401)
    BY <1>1, <1>7, RefuseEffect
  <1> QED
    BY <1>1, <1>2, <1>6, <1>7 DEF u

\* The guard reads the policies and the request; nothing has been passed yet.
LEMMA ReadPoliciesEffect ==
    ASSUME RequestsOK, NEW r \in Requests, ReadPolicies(r)
    PROVE  RequestsOK' /\ StandStill /\ UNCHANGED <<cfg, buckets, nonces>>
  <1>1. PICK now \in Hours :
           Becomes(r, [req[r] EXCEPT !.pc = "evaluate", !.order = policies,
                                     !.query = BuildPolicyRequest(r, now)])
    BY DEF ReadPolicies
  <1> DEFINE q == [req[r] EXCEPT !.pc = "evaluate", !.order = policies,
                                 !.query = BuildPolicyRequest(r, now)]
  <1>2. cfg' = cfg /\ At(r, "policy") /\ UNCHANGED <<buckets, nonces>>
    BY DEF ReadPolicies
  <1>3. /\ Fine(req[r]) /\ req[r].pc \in Underway /\ BuildPipeline[req[r].passed + 1] = "policy"
    BY <1>2, AtGives DEF RequestsOK
  <1>4. /\ DOMAIN q = DOMAIN req[r] /\ q.pc = "evaluate"
        /\ q.shape = req[r].shape /\ q.passed = req[r].passed /\ q.user = req[r].user
        /\ q.answer = req[r].answer /\ q.target = req[r].target
    BY <1>3 DEF Fine, Record
  <1>5. Becomes(r, q)
    BY <1>1
  <1> HIDE DEF q
  <1>6. Fine(q)
    BY <1>3, <1>4 DEF Fine, Stages, Underway, Through
  <1> QED
    BY <1>2, <1>4, <1>5, <1>6, StageEffect

\* It passes the request on or refuses it.
LEMMA JudgeEffect ==
    ASSUME RequestsOK, NEW r \in Requests, Judge(r)
    PROVE  RequestsOK' /\ (Passes(r, "policy") \/ StandStill) /\ UNCHANGED <<cfg, buckets, nonces>>
  <1> DEFINE q == [req[r] EXCEPT !.order = <<>>, !.query = NoQuery(req[r].shape)]
  <1>1. /\ cfg' = cfg /\ req[r].pc = "evaluate" /\ UNCHANGED <<buckets, nonces>>
        /\ Becomes(r, Answered(q, Code(r, 403))) \/ Becomes(r, Onward(q))
    BY DEF Judge
  <1>2. Fine(req[r]) /\ req[r].pc \in Underway /\ BuildPipeline[req[r].passed + 1] = "policy"
    BY <1>1 DEF RequestsOK, Fine, Underway
  <1>3. /\ Fine(q) /\ q.pc = req[r].pc /\ q.shape = req[r].shape /\ q.passed = req[r].passed
        /\ q.user = req[r].user
    BY <1>2 DEF Fine, Record
  <1> HIDE DEF q
  <1>4. CASE Becomes(r, Onward(q))
    BY <1>1, <1>2, <1>3, <1>4, OnwardEffect
  <1>5. CASE Becomes(r, Answered(q, Code(r, 403)))
    <2> DEFINE a == Answered(q, Code(r, 403))
    <2>1. Fine(a)
      BY <1>3, AnsweredFine, RefusalIsAnswer
    <2>2. a.shape = req[r].shape /\ a.passed = req[r].passed /\ a.user = req[r].user
      BY <1>3, AnsweredGives DEF Fine, Record
    <2> QED
      BY <1>1, <1>5, <2>1, <2>2, StageEffect
  <1> QED
    BY <1>1, <1>4, <1>5

\* The card verifier lets every request by.
LEMMA VerifyJWSEffect ==
    ASSUME RequestsOK, NEW r \in Requests, VerifyJWS(r)
    PROVE  RequestsOK' /\ Passes(r, "jws") /\ UNCHANGED <<cfg, buckets, nonces>>
  BY PassOnEffect, AtGives DEF VerifyJWS

\* The replay detector, up to the point where a nonce was not found,
LEMMA CheckNonceEffect ==
    ASSUME RequestsOK, NEW r \in Requests, CheckNonce(r)
    PROVE  RequestsOK' /\ (Passes(r, "replay") \/ StandStill) /\ UNCHANGED <<cfg, buckets, nonces>>
  <1> DEFINE q == [req[r] EXCEPT !.pc = "store"]
  <1>1. /\ cfg' = cfg /\ At(r, "replay") /\ UNCHANGED <<buckets, nonces>>
        /\ PassOn(r) \/ Refuse(r, 400) \/ Refuse(r, 429) \/ Becomes(r, q)
    BY DEF CheckNonce, PassOnWarning
  <1>2. Fine(req[r]) /\ req[r].pc \in Underway /\ BuildPipeline[req[r].passed + 1] = "replay"
    BY <1>1, AtGives DEF RequestsOK
  <1>3. CASE PassOn(r)
    BY <1>1, <1>2, <1>3, PassOnEffect
  <1>4. CASE Refuse(r, 400) \/ Refuse(r, 429)
    BY <1>1, <1>4, RefuseEffect
  <1>5. CASE Becomes(r, q)
    <2>1. /\ DOMAIN q = DOMAIN req[r] /\ q.pc = "store"
          /\ q.shape = req[r].shape /\ q.passed = req[r].passed /\ q.user = req[r].user
          /\ q.answer = req[r].answer /\ q.target = req[r].target
      BY <1>2 DEF Fine, Record
    <2> HIDE DEF q
    <2>2. Fine(q)
      BY <1>2, <2>1 DEF Fine, Stages, Underway, Through
    <2> QED
      BY <1>1, <1>5, <2>1, <2>2, StageEffect
  <1> QED
    BY <1>1, <1>3, <1>4, <1>5

\* and from there, where it is stored.
LEMMA StoreNonceEffect ==
    ASSUME RequestsOK, NEW r \in Requests, StoreNonce(r)
    PROVE  /\ RequestsOK' /\ Passes(r, "replay")
           /\ nonces' = [nonces EXCEPT ![Proto(r)] = @ \cup {View(r).nonce}]
           /\ UNCHANGED <<cfg, buckets>>
  <1>1. /\ cfg' = cfg /\ req[r].pc = "store" /\ PassOn(r) /\ UNCHANGED buckets
        /\ nonces' = [nonces EXCEPT ![Proto(r)] = @ \cup {View(r).nonce}]
    BY DEF StoreNonce
  <1>2. req[r].pc \in Underway /\ BuildPipeline[req[r].passed + 1] = "replay"
    BY <1>1 DEF RequestsOK, Fine, Underway
  <1> QED
    BY <1>1, <1>2, PassOnEffect

\* The SSRF checker is the last one.
LEMMA CheckPushURLEffect ==
    ASSUME RequestsOK, NEW r \in Requests, CheckPushURL(r)
    PROVE  RequestsOK' /\ (Passes(r, "ssrf") \/ StandStill) /\ UNCHANGED <<cfg, buckets, nonces>>
  <1>1. /\ cfg' = cfg /\ At(r, "ssrf") /\ UNCHANGED <<buckets, nonces>>
        /\ PassOn(r) \/ Refuse(r, 403)
    BY DEF CheckPushURL
  <1>2. CASE PassOn(r)
    BY <1>1, <1>2, PassOnEffect, AtGives
  <1>3. CASE Refuse(r, 403)
    BY <1>1, <1>3, RefuseEffect
  <1> QED
    BY <1>1, <1>2, <1>3

\* The mux, the card, a body that cannot be read, and the proxies.
LEMMA AnsweringEffect ==
    ASSUME RequestsOK, NEW r \in Requests,
           \/ Bypass(r) \/ ServeCard(r) \/ Forward(r) \/ ProxyStream(r)
           \/ AnswerCall(r) \/ StreamMessage(r)
    PROVE  RequestsOK' /\ StandStill /\ UNCHANGED <<cfg, buckets, nonces>>
  <1>1. \E code \in {200, 400, 404, 429, 503, OK, Unknown, Internal, Unavailable} : Answer(r, code)
    BY DEF Bypass, ServeCard, Forward, ProxyStream, AnswerCall, StreamMessage
  <1>2. UNCHANGED <<cfg, buckets, nonces>>
    BY DEF Bypass, ServeCard, Forward, ProxyStream, AnswerCall, StreamMessage
  <1> QED
    BY <1>1, <1>2, AnswersAreCodes, AnswerEffect

\* From the handler to the router.
LEMMA ToRouterEffect ==
    ASSUME RequestsOK, NEW r \in Requests, DetectMethod(r) \/ TranslateCall(r)
    PROVE  RequestsOK' /\ StandStill /\ UNCHANGED <<cfg, buckets, nonces>>
  <1> DEFINE d == [req[r] EXCEPT !.pc = "route", !.method = Detect(req[r].shape)]
             c == [req[r] EXCEPT !.pc = "route", !.method = req[r].shape.rpc,
                                 !.path = [agent |-> NoAgent, rest |-> ""]]
             Alike(q) == /\ DOMAIN q = DOMAIN req[r] /\ q.pc = "route"
                         /\ q.shape = req[r].shape /\ q.passed = req[r].passed
                         /\ q.user = req[r].user /\ q.answer = req[r].answer
                         /\ q.target = req[r].target
  <1>1. /\ req[r].pc = "handler" /\ UNCHANGED <<cfg, buckets, nonces>>
        /\ \/ \E code \in {400, InvalidArgument, Internal} : Answer(r, code)
           \/ Becomes(r, d) \/ Becomes(r, c)
    BY DEF DetectMethod, TranslateCall
  <1>2. CASE \E code \in {400, InvalidArgument, Internal} : Answer(r, code)
    BY <1>1, <1>2, AnswersAreCodes, AnswerEffect
  <1>3. Alike(d) /\ Alike(c)
    BY DEF RequestsOK, Fine, Record
  <1>4. ASSUME NEW q, Alike(q), Becomes(r, q) PROVE RequestsOK' /\ StandStill
    <2>1. Fine(q)
      BY <1>1, <1>4 DEF RequestsOK, Fine, Stages, Underway, Through
    <2> QED
      BY <1>1, <1>4, <2>1, StageEffect
  <1> HIDE DEF d, c, Alike
  <1> QED
    BY <1>1, <1>2, <1>3, <1>4

\* The router has found an agent.
LEMMA ToEffect ==
    ASSUME RequestsOK, cfg' = cfg, NEW r \in Requests, req[r].pc \in {"route", "default"},
           NEW a \in Agents, NEW p, To(r, a, p)
    PROVE  RequestsOK' /\ StandStill
  <1> DEFINE q == [req[r] EXCEPT !.pc = "forward", !.target = a, !.path = p]
  <1>1. Fine(req[r]) /\ Becomes(r, q)
    BY DEF RequestsOK, To
  <1>2. /\ DOMAIN q = DOMAIN req[r] /\ q.pc = "forward"
        /\ q.shape = req[r].shape /\ q.passed = req[r].passed /\ q.user = req[r].user
        /\ q.answer = req[r].answer /\ q.target = a
    BY <1>1 DEF Fine, Record
  <1> HIDE DEF q
  <1>3. Fine(q)
    BY <1>1, <1>2 DEF Fine, Stages, Underway, Through
  <1> QED
    BY <1>1, <1>2, <1>3, StageEffect

\* The router moves a request without a target to "forward", with an agent.
LEMMA RouteEffect ==
    ASSUME RequestsOK, healthy \subseteq Agents, NEW r \in Requests,
           RouteSingle(r) \/ RoutePathPrefix(r) \/ RouteDefault(r)
    PROVE  RequestsOK' /\ StandStill /\ UNCHANGED <<cfg, buckets, nonces>>
  <1> DEFINE q == [req[r] EXCEPT !.pc = "default"]
  <1>1. /\ UNCHANGED <<cfg, buckets, nonces>> /\ req[r].pc \in {"route", "default"}
        /\ \/ \E a \in healthy : \E p : To(r, a, p)
           \/ Refuse(r, 503) \/ Refuse(r, 404)
           \/ cfg.mode = "path-prefix" /\ req[r].pc = "route" /\ Becomes(r, q)
    BY DEF RouteSingle, RoutePathPrefix, RouteDefault
  <1>2. CASE \E a \in healthy : \E p : To(r, a, p)
    BY <1>1, <1>2, ToEffect
  <1>3. CASE Refuse(r, 503) \/ Refuse(r, 404)
    BY <1>1, <1>3, RefuseEffect
  <1>4. CASE cfg.mode = "path-prefix" /\ req[r].pc = "route" /\ Becomes(r, q)
    <2>1. Fine(req[r])
      BY DEF RequestsOK
    <2>2. /\ DOMAIN q = DOMAIN req[r] /\ q.pc = "default"
          /\ q.shape = req[r].shape /\ q.passed = req[r].passed /\ q.user = req[r].user
          /\ q.answer = req[r].answer /\ q.target = req[r].target
      BY <2>1 DEF Fine, Record
    <2> HIDE DEF q
    <2>3. Fine(q)
      BY <1>4, <2>1, <2>2 DEF Fine, Stages, Underway, Through
    <2> QED
      BY <1>1, <1>4, <2>2, <2>3, StageEffect
  <1> QED
    BY <1>1, <1>2, <1>3, <1>4

\* A unary gRPC call fails, or has its result.
LEMMA ForwardUnaryEffect ==
    ASSUME RequestsOK, NEW r \in Requests, ForwardUnary(r)
    PROVE  RequestsOK' /\ StandStill /\ UNCHANGED <<cfg, buckets, nonces>>
  <1> DEFINE q == [req[r] EXCEPT !.pc = "reply"]
  <1>1. /\ UNCHANGED <<cfg, buckets, nonces>> /\ req[r].pc = "forward"
        /\ Answer(r, Unavailable) \/ Answer(r, Internal) \/ Becomes(r, q)
    BY DEF ForwardUnary
  <1>2. CASE Answer(r, Unavailable) \/ Answer(r, Internal)
    BY <1>1, <1>2, AnswersAreCodes, AnswerEffect
  <1>3. CASE Becomes(r, q)
    <2>1. Fine(req[r])
      BY DEF RequestsOK
    <2>2. /\ DOMAIN q = DOMAIN req[r] /\ q.pc = "reply"
          /\ q.shape = req[r].shape /\ q.passed = req[r].passed /\ q.user = req[r].user
          /\ q.answer = req[r].answer /\ q.target = req[r].target
      BY <2>1 DEF Fine, Record
    <2> HIDE DEF q
    <2>3. Fine(q)
      BY <1>1, <2>1, <2>2 DEF Fine, Stages, Underway, Through
    <2> QED
      BY <1>1, <1>3, <2>2, <2>3, StageEffect
  <1> QED
    BY <1>1, <1>2, <1>3

----------------------------------------------------------------------------
(* Which middlewares a request has passed *)

\* At m, a request has passed the middlewares of the pipeline that stand before
\* m, and no others.
LEMMA PassedInOrder ==
    ASSUME RequestsOK, NEW r \in Requests, NEW m,
           req[r].passed < Len(BuildPipeline), BuildPipeline[req[r].passed + 1] = m
    PROVE  /\ m \in Middlewares
           /\ \A k : Passed(r, k) => k \in Middlewares /\ Place[k] < Place[m]
           /\ \A k \in Members(BuildPipeline) : Place[k] < Place[m] => Passed(r, k)
  <1> DEFINE n == req[r].passed
             b == BuildPipeline
  <1>1. n \in 0 .. Len(b) /\ Len(b) \in Nat /\ n + 1 \in 1 .. Len(b)
    BY PipelineType DEF RequestsOK, Fine
  <1>2. /\ \A i \in 1 .. Len(b) : b[i] \in Middlewares
        /\ \A i, j \in 1 .. Len(b) : i < j => Place[b[i]] < Place[b[j]]
    BY PipelineInOrder, <1>1, ElementOfSeq DEF InOrder
  <1>3. m = b[n + 1]
    OBVIOUS
  <1> HIDE DEF b
  <1>4. ASSUME NEW k, Passed(r, k) PROVE k \in Middlewares /\ Place[k] < Place[m]
    <2>1. PICK i \in 1 .. n : b[i] = k
      BY <1>4 DEF Passed, b
    <2>2. i \in 1 .. Len(b) /\ i < n + 1
      BY <1>1
    <2> QED
      BY <1>1, <1>2, <1>3, <2>1, <2>2
  <1>5. ASSUME NEW k \in Members(b), Place[k] < Place[m] PROVE Passed(r, k)
    <2>1. PICK i \in 1 .. Len(b) : b[i] = k
      BY DEF Members
    <2>2. i # n + 1 /\ ~(n + 1 < i)
      <3>1. Place[k] \in Nat /\ Place[m] \in Nat
        BY <1>1, <1>2, <1>3, <2>1, PlaceType
      <3>2. ~(Place[k] < Place[k]) /\ ~(Place[m] < Place[k])
        BY <1>5, <3>1
      <3> QED
        BY <1>1, <1>2, <1>3, <1>5, <2>1, <3>2
    <2>3. i \in 1 .. n
      BY <1>1, <2>2
    <2> QED
      BY <2>1, <2>3 DEF Passed, b
  <1> QED
    BY <1>1, <1>2, <1>3, <1>4, <1>5 DEF b

\* Behind the pipeline, it has passed all of them.
LEMMA PassedAll ==
    ASSUME NEW r, req[r].passed = Len(BuildPipeline), NEW k \in Members(BuildPipeline)
    PROVE  Passed(r, k)
  BY DEF Passed, Members

\* Who stands still has passed what it had passed,
LEMMA SamePassed ==
    ASSUME cfg' = cfg, NEW x, Same(x), NEW m
    PROVE  Passed(x, m)' <=> Passed(x, m)
  BY PipelineStays DEF Same, Passed

\* and who passes m has passed m besides.
LEMMA OnePassed ==
    ASSUME RequestsOK, cfg' = cfg, NEW r \in Requests, NEW m, Passes(r, m), NEW k
    PROVE  Passed(r, k)' <=> Passed(r, k) \/ k = m
  <1>1. req[r].passed \in Nat /\ req'[r].passed = req[r].passed + 1
    BY PipelineType DEF RequestsOK, Fine, Passes
  <1>2. Passed(r, k)' <=> \E i \in 1 .. req[r].passed + 1 : BuildPipeline[i] = k
    BY <1>1, PipelineStays DEF Passed
  <1>3. BuildPipeline[req[r].passed + 1] = m
    BY DEF Passes
  <1>4. \A i \in Nat : i \in 1 .. req[r].passed + 1 <=> i \in 1 .. req[r].passed \/ i = req[r].passed + 1
    BY <1>1
  <1> QED
    BY <1>1, <1>2, <1>3, <1>4 DEF Passed

\* What the middlewares see of a request is settled when it arrives.
LEMMA SameSeen ==
    ASSUME cfg' = cfg, NEW x, req'[x].shape = req[x].shape
    PROVE  Proto(x)' = Proto(x) /\ View(x)' = View(x) /\ ClientIP(x)' = ClientIP(x)
  <1>1. Proto(x)' = Proto(x)
    BY DEF Proto
  <1>2. View(x)' = View(x)
    BY <1>1 DEF View
  <1> QED
    BY <1>1, <1>2 DEF ClientIP

----------------------------------------------------------------------------
(* The buckets *)

\* Who has taken a token, from whatever bucket, from a's, from u's.
Takers(p, m) == {r \in Requests : Proto(r) = p /\ Passed(r, m)}
From(p, a) == {r \in Takers(p, "ip") : ClientIP(r) = a}
Of(p, u) == {r \in Takers(p, "user") : req[r].user = u}

\* A bucket holds its burst, less a token for everyone who took one.
GlobalSpent == \A p \in Protocols : Cardinality(Takers(p, "global")) + global[p] = cfg.global
IPSpent == \A p \in Protocols, a \in Addresses : Cardinality(From(p, a)) + perIP[p][a] = cfg.ip
UserSpent ==
    \A p \in Protocols : \A u \in Users \ {Nobody} :
       Cardinality(Of(p, u)) + perUser[p][u] = cfg.user

Spent == GlobalSpent /\ IPSpent /\ UserSpent

\* Counting requests.
LEMMA CountOne ==
    ASSUME NEW S \in SUBSET Requests, NEW r \in Requests \ S
    PROVE  Cardinality(S) \in Nat /\ Cardinality(S \cup {r}) = Cardinality(S) + 1
  BY RequestsAssumption, FS_Subset, FS_CardinalityType, FS_AddElement

\* Any set of requests can be counted.
LEMMA CountType ==
    ASSUME NEW S \in SUBSET Requests
    PROVE  IsFiniteSet(S) /\ Cardinality(S) \in Nat
  BY RequestsAssumption, FS_Subset, FS_CardinalityType

\* Without a step through a middleware nobody takes a token.
LEMMA StandStillTakes ==
    ASSUME cfg' = cfg, StandStill
    PROVE  \A p, k : Takers(p, k)' = Takers(p, k) /\ From(p, k)' = From(p, k) /\ Of(p, k)' = Of(p, k)
  <1>1. \A x \in Requests : Proto(x)' = Proto(x) /\ ClientIP(x)' = ClientIP(x)
                           /\ req'[x].user = req[x].user
    BY SameSeen DEF StandStill, Same
  <1>2. \A x \in Requests : \A k : Passed(x, k)' <=> Passed(x, k)
    BY SamePassed DEF StandStill
  <1>3. \A p, k : Takers(p, k)' = Takers(p, k)
    BY <1>1, <1>2 DEF Takers
  <1>4. \A p, k : From(p, k)' = From(p, k) /\ Of(p, k)' = Of(p, k)
    BY <1>1, <1>3 DEF From, Of, Takers
  <1> QED
    BY <1>3, <1>4

\* Who passes m joins those who did; the user of one that a bucket is asked
\* for is settled, since authentication comes first.
LEMMA PassesTakes ==
    ASSUME RequestsOK, cfg' = cfg, NEW r \in Requests, NEW m, Passes(r, m)
    PROVE  /\ \A p : r \notin Takers(p, m)
           /\ \A p, k : Takers(p, k)' = Takers(p, k) \cup IF k = m /\ Proto(r) = p THEN {r} ELSE {}
           /\ \A x \in Requests : ClientIP(x)' = ClientIP(x)
           /\ \A p : \A x \in Takers(p, "user")' : req'[x].user = req[x].user
  <1>1. \A x \in Requests : Proto(x)' = Proto(x) /\ ClientIP(x)' = ClientIP(x)
    BY SameSeen DEF Passes, Same
  <1>2. \A x \in Requests \ {r} : \A k : Passed(x, k)' <=> Passed(x, k)
    BY SamePassed DEF Passes
  <1>3. \A k : Passed(r, k)' <=> Passed(r, k) \/ k = m
    BY OnePassed
  <1>4. \A k : Passed(r, k) => k \in Middlewares /\ Place[k] < Place[m]
    BY PassedInOrder DEF Passes
  <1>5. m \in Middlewares
    BY PassedInOrder DEF Passes
  <1>6. ~Passed(r, m)
    BY <1>4, <1>5, PlaceType
  <1>7. \A p, k : Takers(p, k)' = Takers(p, k) \cup IF k = m /\ Proto(r) = p THEN {r} ELSE {}
    BY <1>1, <1>2, <1>3 DEF Takers
  <1>8. ASSUME NEW p, NEW x \in Takers(p, "user")' PROVE req'[x].user = req[x].user
    <2>1. CASE x # r
      BY <1>8, <2>1 DEF Passes, Same, Takers
    <2>2. CASE x = r /\ m = "auth"
      <3>1. Passed(r, "user")
        BY <1>3, <1>8, <2>2 DEF Takers
      <3> QED
        BY <1>4, <2>2, <3>1, PlaceType
    <2>3. CASE x = r /\ m # "auth"
      BY <2>3 DEF Passes
    <2> QED
      BY <2>1, <2>2, <2>3
  <1> QED
    BY <1>1, <1>6, <1>7, <1>8 DEF Takers

\* Who passes nothing costs nothing,
LEMMA StandStillSpent ==
    ASSUME Spent, StandStill, UNCHANGED <<cfg, buckets>>
    PROVE  Spent'
  BY StandStillTakes DEF Spent, GlobalSpent, IPSpent, UserSpent, buckets

\* a middleware spends from no bucket but its own,
LEMMA OthersSpendNoGlobal ==
    ASSUME RequestsOK, GlobalSpent, NEW r \in Requests, NEW m, m # "global", Passes(r, m),
           UNCHANGED <<cfg, global>>
    PROVE  GlobalSpent'
  <1>1. ASSUME NEW p PROVE Takers(p, "global")' = Takers(p, "global")
    <2>1. Takers(p, "global")' = Takers(p, "global") \cup IF "global" = m /\ Proto(r) = p THEN {r} ELSE {}
      BY PassesTakes
    <2> QED
      BY <2>1
  <1> QED
    BY <1>1 DEF GlobalSpent

\* and so for the buckets by address,
LEMMA OthersSpendNoIP ==
    ASSUME RequestsOK, IPSpent, NEW r \in Requests, NEW m, m # "ip", Passes(r, m),
           UNCHANGED <<cfg, perIP>>
    PROVE  IPSpent'
  <1>1. ASSUME NEW p PROVE Takers(p, "ip")' = Takers(p, "ip")
    <2>1. Takers(p, "ip")' = Takers(p, "ip") \cup IF "ip" = m /\ Proto(r) = p THEN {r} ELSE {}
      BY PassesTakes
    <2> QED
      BY <2>1
  <1>2. \A p, a : From(p, a)' = From(p, a)
    BY <1>1, PassesTakes DEF From, Takers
  <1> QED
    BY <1>2 DEF IPSpent

\* and by user.
LEMMA OthersSpendNoUser ==
    ASSUME RequestsOK, UserSpent, NEW r \in Requests, NEW m, Passes(r, m),
           m = "user" => req[r].user = Nobody, UNCHANGED <<cfg, perUser>>
    PROVE  UserSpent'
  <1>1. ASSUME NEW p, NEW u \in Users \ {Nobody} PROVE Of(p, u)' = Of(p, u)
    <2>1. \A x \in Takers(p, "user")' : req'[x].user = req[x].user
      BY PassesTakes
    <2>2. Takers(p, "user")' = Takers(p, "user") \cup IF m = "user" /\ Proto(r) = p THEN {r} ELSE {}
      BY PassesTakes
    <2>3. Of(p, u)' = {x \in Takers(p, "user")' : req[x].user = u}
      BY <2>1 DEF Of
    <2>4. {x \in Takers(p, "user")' : req[x].user = u} = Of(p, u)
      BY <2>2 DEF Of
    <2> QED
      BY <2>3, <2>4
  <1> QED
    BY <1>1 DEF UserSpent

\* A token taken is a request that took it: globally,
LEMMA GlobalTaken ==
    ASSUME RequestsOK, GlobalSpent, global \in [Protocols -> Nat], cfg' = cfg, NEW r \in Requests,
           Passes(r, "global"), global[Proto(r)] > 0, global' = [global EXCEPT ![Proto(r)] = @ - 1]
    PROVE  GlobalSpent'
  <1> SUFFICES ASSUME NEW p \in Protocols
               PROVE  Cardinality(Takers(p, "global")') + global'[p] = cfg.global
    BY DEF GlobalSpent
  <1>1. r \notin Takers(p, "global") /\ Takers(p, "global") \in SUBSET Requests
    BY PassesTakes DEF Takers
  <1>2. Cardinality(Takers(p, "global")) + global[p] = cfg.global /\ global[p] \in Nat
    BY DEF GlobalSpent
  <1>3. CASE Proto(r) = p
    <2>1. Takers(p, "global")' = Takers(p, "global") \cup {r}
      BY <1>3, PassesTakes
    <2> QED
      BY <1>1, <1>2, <1>3, <2>1, CountOne
  <1>4. CASE Proto(r) # p
    <2>1. Takers(p, "global")' = Takers(p, "global") /\ global'[p] = global[p]
      BY <1>4, PassesTakes
    <2> QED
      BY <1>2, <2>1
  <1> QED
    BY <1>3, <1>4

\* by address,
LEMMA IPTaken ==
    ASSUME RequestsOK, IPSpent, perIP \in [Protocols -> [Addresses -> Nat]], cfg' = cfg,
           NEW r \in Requests, Passes(r, "ip"), perIP[Proto(r)][ClientIP(r)] > 0,
           perIP' = [perIP EXCEPT ![Proto(r)][ClientIP(r)] = @ - 1]
    PROVE  IPSpent'
  <1> SUFFICES ASSUME NEW p \in Protocols, NEW a \in Addresses
               PROVE  Cardinality(From(p, a)') + perIP'[p][a] = cfg.ip
    BY DEF IPSpent
  <1>1. r \notin From(p, a) /\ From(p, a) \in SUBSET Requests
    BY PassesTakes DEF From, Takers
  <1>2. Cardinality(From(p, a)) + perIP[p][a] = cfg.ip /\ perIP[p][a] \in Nat
    BY DEF IPSpent
  <1>3. /\ Takers(p, "ip")' = Takers(p, "ip") \cup IF Proto(r) = p THEN {r} ELSE {}
        /\ \A x \in Requests : ClientIP(x)' = ClientIP(x)
    BY PassesTakes
  <1>4. CASE Proto(r) = p /\ ClientIP(r) = a
    <2>1. From(p, a)' = From(p, a) \cup {r}
      BY <1>3, <1>4 DEF From, Takers
    <2>2. perIP'[p][a] = perIP[p][a] - 1
      BY <1>4
    <2> QED
      BY <1>1, <1>2, <2>1, <2>2, CountOne
  <1>5. CASE ~(Proto(r) = p /\ ClientIP(r) = a)
    <2>1. From(p, a)' = From(p, a)
      BY <1>3, <1>5 DEF From, Takers
    <2>2. perIP'[p][a] = perIP[p][a]
      BY <1>5
    <2> QED
      BY <1>2, <2>1, <2>2
  <1> QED
    BY <1>4, <1>5

\* and by user.
LEMMA UserTaken ==
    ASSUME RequestsOK, UserSpent, perUser \in [Protocols -> [Users -> Nat]], cfg' = cfg,
           NEW r \in Requests, Passes(r, "user"), perUser[Proto(r)][req[r].user] > 0,
           perUser' = [perUser EXCEPT ![Proto(r)][req[r].user] = @ - 1]
    PROVE  UserSpent'
  <1> SUFFICES ASSUME NEW p \in Protocols, NEW u \in Users \ {Nobody}
               PROVE  Cardinality(Of(p, u)') + perUser'[p][u] = cfg.user
    BY DEF UserSpent
  <1>1. r \notin Of(p, u) /\ Of(p, u) \in SUBSET Requests
    BY PassesTakes DEF Of, Takers
  <1>2. Cardinality(Of(p, u)) + perUser[p][u] = cfg.user /\ perUser[p][u] \in Nat
    BY DEF UserSpent
  <1>3. /\ Takers(p, "user")' = Takers(p, "user") \cup IF Proto(r) = p THEN {r} ELSE {}
        /\ \A x \in Takers(p, "user")' : req'[x].user = req[x].user
    BY PassesTakes
  <1>4. Of(p, u)' = {x \in Takers(p, "user")' : req[x].user = u}
    BY <1>3 DEF Of
  <1>5. CASE Proto(r) = p /\ req[r].user = u
    <2>1. Of(p, u)' = Of(p, u) \cup {r}
      BY <1>3, <1>4, <1>5 DEF Of
    <2>2. perUser'[p][u] = perUser[p][u] - 1
      BY <1>5
    <2> QED
      BY <1>1, <1>2, <2>1, <2>2, CountOne
  <1>6. CASE ~(Proto(r) = p /\ req[r].user = u)
    <2>1. Of(p, u)' = Of(p, u)
      BY <1>3, <1>4, <1>6 DEF Of
    <2>2. perUser'[p][u] = perUser[p][u]
      BY <1>6
    <2> QED
      BY <1>2, <2>1, <2>2
  <1> QED
    BY <1>5, <1>6

----------------------------------------------------------------------------
(* The steps of a request, put together *)

\* The middlewares that ask no bucket and store no nonce, and what is behind
\* the pipeline.
Quiet(r) ==
    \/ Bypass(r) \/ Auth(r) \/ ReadPolicies(r) \/ Judge(r) \/ VerifyJWS(r)
    \/ CheckNonce(r) \/ CheckPushURL(r)
    \/ ServeCard(r) \/ DetectMethod(r) \/ TranslateCall(r)
    \/ RouteSingle(r) \/ RoutePathPrefix(r) \/ RouteDefault(r)
    \/ Forward(r) \/ ProxyStream(r) \/ ForwardUnary(r) \/ AnswerCall(r) \/ StreamMessage(r)

Step(r) == Quiet(r) \/ GlobalLimit(r) \/ IPLimit(r) \/ UserLimit(r) \/ StoreNonce(r)

\* A quiet step leaves the buckets and the nonces as they are.
LEMMA QuietEffect ==
    ASSUME RequestsOK, healthy \subseteq Agents, NEW r \in Requests, Quiet(r)
    PROVE  /\ RequestsOK' /\ UNCHANGED <<cfg, buckets, nonces>>
           /\ \/ StandStill
              \/ \E m \in Middlewares \ {"global", "ip", "user"} : Passes(r, m)
  <1>1. {"auth", "policy", "jws", "replay", "ssrf"} \subseteq Middlewares \ {"global", "ip", "user"}
    BY PlaceType
  <1>2. CASE Bypass(r) \/ ServeCard(r) \/ Forward(r) \/ ProxyStream(r) \/ AnswerCall(r) \/ StreamMessage(r)
    BY <1>2, AnsweringEffect
  <1>3. CASE DetectMethod(r) \/ TranslateCall(r)
    BY <1>3, ToRouterEffect
  <1>4. CASE RouteSingle(r) \/ RoutePathPrefix(r) \/ RouteDefault(r)
    BY <1>4, RouteEffect
  <1>5. CASE Auth(r)
    BY <1>1, <1>5, AuthEffect
  <1>6. CASE ReadPolicies(r)
    BY <1>6, ReadPoliciesEffect
  <1>7. CASE Judge(r)
    BY <1>1, <1>7, JudgeEffect
  <1>8. CASE VerifyJWS(r)
    BY <1>1, <1>8, VerifyJWSEffect
  <1>9. CASE CheckNonce(r)
    BY <1>1, <1>9, CheckNonceEffect
  <1>10. CASE CheckPushURL(r)
    BY <1>1, <1>10, CheckPushURLEffect
  <1>11. CASE ForwardUnary(r)
    BY <1>11, ForwardUnaryEffect
  <1> QED
    BY <1>2, <1>3, <1>4, <1>5, <1>6, <1>7, <1>8, <1>9, <1>10, <1>11 DEF Quiet

\* Whatever the step, the request stands still or passes one middleware.
LEMMA StepPasses ==
    ASSUME RequestsOK, healthy \subseteq Agents, NEW r \in Requests, Step(r)
    PROVE  /\ RequestsOK' /\ cfg' = cfg
           /\ StandStill \/ \E m : Passes(r, m)
  <1>1. CASE Quiet(r)
    BY <1>1, QuietEffect
  <1>2. CASE GlobalLimit(r)
    BY <1>2, GlobalLimitEffect
  <1>3. CASE IPLimit(r)
    BY <1>3, IPLimitEffect
  <1>4. CASE UserLimit(r)
    BY <1>4, UserLimitEffect
  <1>5. CASE StoreNonce(r)
    BY <1>5, StoreNonceEffect
  <1> QED
    BY <1>1, <1>2, <1>3, <1>4, <1>5 DEF Step

\* A request stays what it was, and has passed what it has passed.
LEMMA NothingUndone ==
    ASSUME RequestsOK, cfg' = cfg, NEW r \in Requests, StandStill \/ \E m : Passes(r, m),
           NEW x \in Requests
    PROVE  Proto(x)' = Proto(x) /\ View(x)' = View(x) /\ \A k : Passed(x, k) => Passed(x, k)'
  <1>1. req'[x].shape = req[x].shape
    BY DEF StandStill, Passes, Same
  <1>2. ASSUME NEW k, Passed(x, k) PROVE Passed(x, k)'
    <2>1. CASE Same(x)
      BY <1>2, <2>1, SamePassed
    <2>2. CASE ~Same(x)
      <3>1. PICK m : Passes(r, m)
        BY <2>2 DEF StandStill
      <3>2. x = r
        BY <2>2, <3>1 DEF Passes
      <3> QED
        BY <1>2, <3>1, <3>2, OnePassed
    <2> QED
      BY <2>1, <2>2
  <1> QED
    BY <1>1, <1>2, SameSeen

\* The tokens of a bucket are accounted for after every step.
LEMMA StepSpends ==
    ASSUME RequestsOK, healthy \subseteq Agents, Spent,
           global \in [Protocols -> Nat], perIP \in [Protocols -> [Addresses -> Nat]],
           perUser \in [Protocols -> [Users -> Nat]], NEW r \in Requests, Step(r)
    PROVE  Spent'
  <1>1. CASE Quiet(r)
    <2>1. UNCHANGED <<cfg, buckets>> /\ UNCHANGED <<global, perIP, perUser>>
      BY <1>1, QuietEffect DEF buckets
    <2>2. CASE StandStill
      BY <2>1, <2>2, StandStillSpent
    <2>3. CASE \E m \in Middlewares \ {"global", "ip", "user"} : Passes(r, m)
      BY <2>1, <2>3, OthersSpendNoGlobal, OthersSpendNoIP, OthersSpendNoUser DEF Spent
    <2> QED
      BY <1>1, <2>2, <2>3, QuietEffect
  <1>2. CASE GlobalLimit(r)
    <2>1. CASE StandStill /\ UNCHANGED global
      BY <1>2, <2>1, GlobalLimitEffect, StandStillSpent DEF buckets
    <2>2. CASE /\ Passes(r, "global") /\ global[Proto(r)] > 0
               /\ global' = [global EXCEPT ![Proto(r)] = @ - 1]
      BY <1>2, <2>2, GlobalLimitEffect, GlobalTaken, OthersSpendNoIP, OthersSpendNoUser DEF Spent
    <2> QED
      BY <1>2, <2>1, <2>2, GlobalLimitEffect
  <1>3. CASE IPLimit(r)
    <2>1. CASE StandStill /\ UNCHANGED perIP
      BY <1>3, <2>1, IPLimitEffect, StandStillSpent DEF buckets
    <2>2. CASE /\ Passes(r, "ip") /\ perIP[Proto(r)][ClientIP(r)] > 0
               /\ perIP' = [perIP EXCEPT ![Proto(r)][ClientIP(r)] = @ - 1]
      BY <1>3, <2>2, IPLimitEffect, IPTaken, OthersSpendNoGlobal, OthersSpendNoUser DEF Spent
    <2> QED
      BY <1>3, <2>1, <2>2, IPLimitEffect
  <1>4. CASE UserLimit(r)
    <2>1. CASE StandStill /\ UNCHANGED perUser
      BY <1>4, <2>1, UserLimitEffect, StandStillSpent DEF buckets
    <2>2. CASE Passes(r, "user") /\ req[r].user = Nobody /\ UNCHANGED perUser
      BY <1>4, <2>2, UserLimitEffect, OthersSpendNoGlobal, OthersSpendNoIP, OthersSpendNoUser DEF Spent
    <2>3. CASE /\ Passes(r, "user") /\ req[r].user # Nobody /\ perUser[Proto(r)][req[r].user] > 0
               /\ perUser' = [perUser EXCEPT ![Proto(r)][req[r].user] = @ - 1]
      BY <1>4, <2>3, UserLimitEffect, UserTaken, OthersSpendNoGlobal, OthersSpendNoIP DEF Spent
    <2> QED
      BY <1>4, <2>1, <2>2, <2>3, UserLimitEffect
  <1>5. CASE StoreNonce(r)
    <2>1. UNCHANGED <<cfg, global, perIP, perUser>> /\ Passes(r, "replay")
      BY <1>5, StoreNonceEffect DEF buckets
    <2> QED
      BY <2>1, OthersSpendNoGlobal, OthersSpendNoIP, OthersSpendNoUser DEF Spent
  <1> QED
    BY <1>1, <1>2, <1>3, <1>4, <1>5 DEF Step

\* A token taken from one of a map's buckets, and from one of the maps of a
\* pipeline's buckets.
LEMMA TakeOne ==
    ASSUME NEW T, NEW g \in [T -> Nat], NEW b, g[b] > 0
    PROVE  [g EXCEPT ![b] = @ - 1] \in [T -> Nat]
  <1>1. \A x \in T : [g EXCEPT ![b] = @ - 1][x] \in Nat
    OBVIOUS
  <1> QED
    BY <1>1

\* The same for a bucket of one pipeline among several.
LEMMA TakeOneOf ==
    ASSUME NEW S, NEW T, NEW f \in [S -> [T -> Nat]], NEW a, NEW b, f[a][b] > 0
    PROVE  [f EXCEPT ![a][b] = @ - 1] \in [S -> [T -> Nat]]
  <1> DEFINE g == [f[a] EXCEPT ![b] = @ - 1]
  <1>1. a \in S => g \in [T -> Nat]
    BY TakeOne
  <1>2. [f EXCEPT ![a][b] = @ - 1] = [f EXCEPT ![a] = g]
    OBVIOUS
  <1> HIDE DEF g
  <1> QED
    BY <1>1, <1>2

\* And no bucket is overdrawn: a token is taken only where there is one.
LEMMA StepKeepsBuckets ==
    ASSUME RequestsOK, healthy \subseteq Agents,
           global \in [Protocols -> Nat], perIP \in [Protocols -> [Addresses -> Nat]],
           perUser \in [Protocols -> [Users -> Nat]], NEW r \in Requests, Step(r)
    PROVE  /\ global' \in [Protocols -> Nat] /\ perIP' \in [Protocols -> [Addresses -> Nat]]
           /\ perUser' \in [Protocols -> [Users -> Nat]]
  <1>1. \/ UNCHANGED global
        \/ global[Proto(r)] > 0 /\ global' = [global EXCEPT ![Proto(r)] = @ - 1]
    BY QuietEffect, GlobalLimitEffect, IPLimitEffect, UserLimitEffect, StoreNonceEffect DEF Step, buckets
  <1>2. \/ UNCHANGED perIP
        \/ /\ perIP[Proto(r)][ClientIP(r)] > 0
           /\ perIP' = [perIP EXCEPT ![Proto(r)][ClientIP(r)] = @ - 1]
    BY QuietEffect, GlobalLimitEffect, IPLimitEffect, UserLimitEffect, StoreNonceEffect DEF Step, buckets
  <1>3. \/ UNCHANGED perUser
        \/ /\ perUser[Proto(r)][req[r].user] > 0
           /\ perUser' = [perUser EXCEPT ![Proto(r)][req[r].user] = @ - 1]
    BY QuietEffect, GlobalLimitEffect, IPLimitEffect, UserLimitEffect, StoreNonceEffect DEF Step, buckets
  <1>4. global' \in [Protocols -> Nat]
    BY <1>1, TakeOne
  <1>5. perIP' \in [Protocols -> [Addresses -> Nat]]
    <2>1. CASE perIP' = perIP
      BY <2>1
    <2>2. CASE /\ perIP[Proto(r)][ClientIP(r)] > 0
               /\ perIP' = [perIP EXCEPT ![Proto(r)][ClientIP(r)] = @ - 1]
      <3>1. [perIP EXCEPT ![Proto(r)][ClientIP(r)] = @ - 1] \in [Protocols -> [Addresses -> Nat]]
        BY <2>2, TakeOneOf
      <3> QED
        BY <2>2, <3>1
    <2> QED
      BY <1>2, <2>1, <2>2
  <1>6. perUser' \in [Protocols -> [Users -> Nat]]
    <2>1. CASE perUser' = perUser
      BY <2>1
    <2>2. CASE /\ perUser[Proto(r)][req[r].user] > 0
               /\ perUser' = [perUser EXCEPT ![Proto(r)][req[r].user] = @ - 1]
      <3>1. [perUser EXCEPT ![Proto(r)][req[r].user] = @ - 1] \in [Protocols -> [Users -> Nat]]
        BY <2>2, TakeOneOf
      <3> QED
        BY <2>2, <3>1
    <2> QED
      BY <1>3, <2>1, <2>2
  <1> QED
    BY <1>4, <1>5, <1>6

----------------------------------------------------------------------------
(* The nonces *)

\* A step that stores no nonce keeps every one accounted for.
LEMMA NoncesStay ==
    ASSUME RequestsOK, NonceOfAdmitted, UNCHANGED <<cfg, nonces>>,
           NEW r \in Requests, StandStill \/ \E m : Passes(r, m)
    PROVE  NonceOfAdmitted'
  <1> SUFFICES ASSUME NEW p \in Protocols, NEW n \in nonces[p]
               PROVE  \E x \in Requests :
                         /\ Proto(x)' = p /\ View(x)'.nonce = n
                         /\ \A m \in {"global", "ip", "auth", "user", "policy"} :
                               (\E i \in DOMAIN BuildPipeline : BuildPipeline[i] = m) => Passed(x, m)'
    BY PipelineStays DEF NonceOfAdmitted
  <1>1. PICK x \in Requests :
           /\ Proto(x) = p /\ View(x).nonce = n
           /\ \A m \in {"global", "ip", "auth", "user", "policy"} :
                 (\E i \in DOMAIN BuildPipeline : BuildPipeline[i] = m) => Passed(x, m)
    BY DEF NonceOfAdmitted
  <1>2. Proto(x)' = Proto(x) /\ View(x)' = View(x) /\ \A k : Passed(x, k) => Passed(x, k)'
    BY NothingUndone
  <1> QED
    BY <1>1, <1>2

\* Replay detection stands behind authentication, the limiters and the
\* policies: who stores a nonce has passed them.
LEMMA StoreNonceAdmits ==
    ASSUME RequestsOK, NonceOfAdmitted, DOMAIN nonces = Protocols, NEW r \in Requests, StoreNonce(r)
    PROVE  NonceOfAdmitted'
  <1>1. /\ cfg' = cfg /\ Passes(r, "replay")
        /\ nonces' = [nonces EXCEPT ![Proto(r)] = @ \cup {View(r).nonce}]
    BY StoreNonceEffect
  <1> DEFINE Admitted(x) == \A m \in {"global", "ip", "auth", "user", "policy"} :
                                (\E i \in DOMAIN BuildPipeline : BuildPipeline[i] = m) => Passed(x, m)
  <1>2. Admitted(r)
    <2> SUFFICES ASSUME NEW m \in {"global", "ip", "auth", "user", "policy"},
                        NEW i \in DOMAIN BuildPipeline, BuildPipeline[i] = m
                 PROVE  Passed(r, m)
      OBVIOUS
    <2>1. DOMAIN BuildPipeline = 1 .. Len(BuildPipeline)
      BY PipelineType, LenProperties
    <2>2. m \in Members(BuildPipeline)
      BY <2>1 DEF Members
    <2>3. Place[m] < Place["replay"]
      BY PlaceType
    <2> QED
      BY <1>1, <2>2, <2>3, PassedInOrder DEF Passes
  <1>3. \A x \in Requests : Proto(x)' = Proto(x) /\ View(x)' = View(x)
                            /\ \A k : Passed(x, k) => Passed(x, k)'
    BY <1>1, NothingUndone
  <1>4. \A x \in Requests : Admitted(x) => Admitted(x)'
    BY <1>1, <1>3, PipelineStays
  <1>5. ASSUME NEW p \in Protocols, NEW n \in nonces'[p]
        PROVE  \E x \in Requests : Proto(x)' = p /\ View(x)'.nonce = n /\ Admitted(x)'
    <2>1. CASE n \in nonces[p]
      <3>1. PICK x \in Requests : Proto(x) = p /\ View(x).nonce = n /\ Admitted(x)
        BY <2>1 DEF NonceOfAdmitted
      <3> HIDE DEF Admitted
      <3> QED
        BY <1>3, <1>4, <3>1
    <2>2. CASE n \notin nonces[p]
      <3>1. p = Proto(r) /\ n = View(r).nonce
        BY <1>1, <1>5, <2>2
      <3> HIDE DEF Admitted
      <3> QED
        BY <1>2, <1>3, <1>4, <3>1
    <2> QED
      BY <2>1, <2>2
  <1> QED
    BY <1>5 DEF NonceOfAdmitted

\* Whatever step a request makes, the nonces stored are those of admitted ones.
LEMMA StepStores ==
    ASSUME RequestsOK, healthy \subseteq Agents, NonceOfAdmitted, DOMAIN nonces = Protocols,
           NEW r \in Requests, Step(r)
    PROVE  NonceOfAdmitted' /\ DOMAIN nonces' = Protocols
  <1>1. CASE StoreNonce(r)
    BY <1>1, StoreNonceAdmits, StoreNonceEffect
  <1>2. CASE ~StoreNonce(r)
    <2>1. UNCHANGED nonces
      BY <1>2, QuietEffect, GlobalLimitEffect, IPLimitEffect, UserLimitEffect DEF Step
    <2> QED
      BY <2>1, StepPasses, NoncesStay
  <1> QED
    BY <1>1, <1>2

----------------------------------------------------------------------------
(* Where a step may begin and end *)

\* Only the guard's second half answers what its first half has read, and
\* only the router takes a request from its stages.
LEMMA StepBegins ==
    ASSUME NEW r \in Requests, Step(r)
    PROVE  /\ req[r].pc = "evaluate" => Judge(r)
           /\ req[r].pc \in {"route", "default"} =>
                 RouteSingle(r) \/ RoutePathPrefix(r) \/ RouteDefault(r)
  <1>1. CASE \/ GlobalLimit(r) \/ IPLimit(r) \/ Auth(r) \/ UserLimit(r) \/ ReadPolicies(r)
             \/ VerifyJWS(r) \/ CheckNonce(r) \/ CheckPushURL(r)
    <2>1. \E m : At(r, m)
      BY <1>1 DEF GlobalLimit, IPLimit, Auth, UserLimit, ReadPolicies, VerifyJWS, CheckNonce,
                  CheckPushURL
    <2> QED
      BY <2>1 DEF At
  <1>2. CASE \/ Bypass(r) \/ StoreNonce(r) \/ ServeCard(r) \/ DetectMethod(r) \/ TranslateCall(r)
             \/ Forward(r) \/ ProxyStream(r) \/ ForwardUnary(r) \/ AnswerCall(r) \/ StreamMessage(r)
    <2>1. req[r].pc \in {"mux", "store", "handler", "forward", "reply"}
      BY <1>2 DEF Bypass, StoreNonce, ServeCard, DetectMethod, TranslateCall, Forward, ProxyStream,
                  ForwardUnary, AnswerCall, StreamMessage
    <2> QED
      BY <2>1
  <1>3. CASE Judge(r)
    BY <1>3 DEF Judge
  <1>4. CASE RouteSingle(r) \/ RoutePathPrefix(r) \/ RouteDefault(r)
    <2>1. req[r].pc \in {"route", "default"}
      BY <1>4 DEF RouteSingle, RoutePathPrefix, RouteDefault
    <2> QED
      BY <1>4, <2>1
  <1> QED
    BY <1>1, <1>2, <1>3, <1>4, Zenon DEF Step, Quiet

\* Where a request is after the ways a step can end.
LEMMA PassOnEnds ==
    ASSUME RequestsOK, NEW r \in Requests, PassOn(r)
    PROVE  req'[r].pc \in {"handler", "pipeline"}
  BY BecomesGives, OnwardGives DEF PassOn, RequestsOK, Fine

\* An answered request is done, and where it was going stays on record.
LEMMA AnswerEnds ==
    ASSUME RequestsOK, NEW r \in Requests, NEW code, Answer(r, code)
    PROVE  /\ req'[r].pc = "done" /\ req'[r].target = req[r].target
           /\ req'[r].path = req[r].path
  BY BecomesGives, AnsweredGives DEF Answer, RequestsOK, Fine, Record

\* So is a refused one.
LEMMA RefuseEnds ==
    ASSUME RequestsOK, NEW r \in Requests, NEW status, Refuse(r, status)
    PROVE  /\ req'[r].pc = "done" /\ req'[r].target = req[r].target
           /\ req'[r].path = req[r].path
  BY AnswerEnds DEF Refuse

\* The guard's answer: the request is done if its policies deny it, and
\* passes on if they do not.
LEMMA JudgeEnds ==
    ASSUME RequestsOK, NEW r \in Requests, Judge(r)
    PROVE  /\ req[r].pc = "evaluate" /\ req'[r].pc \in {"handler", "pipeline", "done"}
           /\ req'[r].pc = "done" <=> Evaluate(req[r].order, req[r].query) = "deny"
  <1> DEFINE q == [req[r] EXCEPT !.order = <<>>, !.query = NoQuery(req[r].shape)]
             denied == Evaluate(req[r].order, req[r].query) = "deny"
  <1>1. /\ req[r].pc = "evaluate"
        /\ IF denied THEN Becomes(r, Answered(q, Code(r, 403))) ELSE Becomes(r, Onward(q))
    BY DEF Judge
  <1>2. Record \subseteq DOMAIN q
    BY DEF RequestsOK, Fine
  <1> HIDE DEF q, denied
  <1>3. CASE denied
    <2>1. req'[r] = Answered(q, Code(r, 403))
      BY <1>1, <1>3, BecomesGives
    <2> QED
      BY <1>1, <1>2, <1>3, <2>1, AnsweredGives DEF denied
  <1>4. CASE ~denied
    <2>1. req'[r] = Onward(q)
      BY <1>1, <1>4, BecomesGives
    <2> QED
      BY <1>1, <1>2, <1>4, <2>1, OnwardGives DEF denied
  <1> QED
    BY <1>3, <1>4

\* A routed request is on its way to an agent.
LEMMA ToEnds ==
    ASSUME RequestsOK, NEW r \in Requests, NEW a, NEW p, To(r, a, p)
    PROVE  req'[r].pc = "forward" /\ req'[r].target = a /\ req'[r].path = p
  <1> DEFINE q == [req[r] EXCEPT !.pc = "forward", !.target = a, !.path = p]
  <1>1. q.pc = "forward" /\ q.target = a /\ q.path = p
    BY DEF RequestsOK, Fine, Record
  <1>2. Becomes(r, q)
    BY DEF To
  <1> HIDE DEF q
  <1> QED
    BY <1>1, <1>2, BecomesGives

\* A request comes to judgement only by reading the policies, to the nonce store
\* only by looking there, and to the default agent only past the agent it names.
LEMMA StepEnds ==
    ASSUME RequestsOK, NEW r \in Requests, Step(r)
    PROVE  /\ req'[r].pc = "evaluate" => ReadPolicies(r)
           /\ req'[r].pc = "store" => CheckNonce(r)
           /\ req'[r].pc = "default" => RoutePathPrefix(r)
  <1>0. Record \subseteq DOMAIN req[r]
    BY DEF RequestsOK, Fine
  <1>1. CASE PassOn(r)
    BY <1>1, PassOnEnds
  <1>2. CASE \E code : Answer(r, code)
    BY <1>2, AnswerEnds
  <1>3. CASE \E status : Refuse(r, status)
    BY <1>3, RefuseEnds
  <1>4. CASE \E a, p : To(r, a, p)
    BY <1>4, ToEnds
  <1>5. CASE \E q : Becomes(r, Onward(q)) /\ Record \subseteq DOMAIN q
    BY <1>5, BecomesGives, OnwardGives
  <1>6. CASE Judge(r)
    BY <1>6, JudgeEnds
  <1>7. CASE \E q : Becomes(r, q) /\ q.pc \notin {"evaluate", "store", "default"}
    BY <1>7, BecomesGives
  <1>8. CASE GlobalLimit(r) \/ IPLimit(r) \/ UserLimit(r) \/ VerifyJWS(r) \/ StoreNonce(r)
             \/ CheckPushURL(r)
    BY <1>1, <1>3, <1>8 DEF GlobalLimit, IPLimit, UserLimit, VerifyJWS, StoreNonce, CheckPushURL
  <1>9. CASE Bypass(r) \/ ServeCard(r) \/ Forward(r) \/ ProxyStream(r) \/ AnswerCall(r) \/ StreamMessage(r)
    BY <1>2, <1>9 DEF Bypass, ServeCard, Forward, ProxyStream, AnswerCall, StreamMessage
  <1>10. CASE Auth(r)
    <2>1. PICK u : Refuse(r, 401) \/ Becomes(r, Onward([req[r] EXCEPT !.user = u]))
      BY <1>10 DEF Auth
    <2>2. Record \subseteq DOMAIN [req[r] EXCEPT !.user = u]
      BY <1>0
    <2> QED
      BY <1>3, <1>5, <2>1, <2>2
  <1>11. CASE CheckNonce(r)
    <2> DEFINE q == [req[r] EXCEPT !.pc = "store"]
    <2>1. q.pc = "store"
      BY <1>0 DEF Record
    <2>2. PassOn(r) \/ (\E s : Refuse(r, s)) \/ Becomes(r, q)
      BY <1>11 DEF CheckNonce, PassOnWarning
    <2> HIDE DEF q
    <2>3. ASSUME Becomes(r, q) PROVE req'[r].pc = "store"
      BY <2>1, <2>3, BecomesGives
    <2> QED
      BY <1>1, <1>3, <1>11, <2>2, <2>3
  <1>12. CASE DetectMethod(r) \/ TranslateCall(r)
    <2> DEFINE d == [req[r] EXCEPT !.pc = "route", !.method = Detect(req[r].shape)]
               c == [req[r] EXCEPT !.pc = "route", !.method = req[r].shape.rpc,
                                   !.path = [agent |-> NoAgent, rest |-> ""]]
    <2>1. d.pc = "route" /\ c.pc = "route"
      BY <1>0 DEF Record
    <2>2. (\E code : Answer(r, code)) \/ Becomes(r, d) \/ Becomes(r, c)
      BY <1>12 DEF DetectMethod, TranslateCall
    <2> HIDE DEF d, c
    <2> QED
      BY <1>2, <1>7, <2>1, <2>2
  <1>13. CASE ForwardUnary(r)
    <2>1. [req[r] EXCEPT !.pc = "reply"].pc = "reply"
      BY <1>0 DEF Record
    <2>2. (\E c : Answer(r, c)) \/ Becomes(r, [req[r] EXCEPT !.pc = "reply"])
      BY <1>13 DEF ForwardUnary
    <2> QED
      BY <1>2, <1>7, <2>1, <2>2
  <1>14. CASE RouteSingle(r) \/ RouteDefault(r)
    BY <1>3, <1>4, <1>14 DEF RouteSingle, RouteDefault
  <1>15. CASE RoutePathPrefix(r)
    <2>1. req[r].pc = "route"
      BY <1>15 DEF RoutePathPrefix
    <2>2. req'[r].pc \notin {"evaluate", "store"}
      <3>1. [req[r] EXCEPT !.pc = "default"].pc = "default"
        BY <1>0 DEF Record
      <3>2. (\E a, p : To(r, a, p)) \/ Becomes(r, [req[r] EXCEPT !.pc = "default"])
        BY <1>15 DEF RoutePathPrefix
      <3>3. CASE Becomes(r, [req[r] EXCEPT !.pc = "default"])
        BY <3>1, <3>3, BecomesGives
      <3> QED
        BY <3>2, <3>3, ToEnds
    <2> QED
      BY <1>15, <2>2
  <1>16. CASE ReadPolicies(r)
    <2>1. PICK now \in Hours :
             Becomes(r, [req[r] EXCEPT !.pc = "evaluate", !.order = policies,
                                       !.query = BuildPolicyRequest(r, now)])
      BY <1>16 DEF ReadPolicies
    <2> DEFINE q == [req[r] EXCEPT !.pc = "evaluate", !.order = policies,
                                   !.query = BuildPolicyRequest(r, now)]
    <2>2. q.pc = "evaluate" /\ Becomes(r, q)
      BY <1>0, <2>1 DEF Record
    <2> HIDE DEF q
    <2>3. req'[r].pc = "evaluate"
      BY <2>2, BecomesGives
    <2> QED
      BY <1>16, <2>3
  <1> QED
    BY <1>6, <1>8, <1>9, <1>10, <1>11, <1>12, <1>13, <1>14, <1>15, <1>16 DEF Step, Quiet

----------------------------------------------------------------------------
(* The histories *)

History == {"policies", "up", "down"}

\* What during holds: the guard that judges r reads an order of policies that
\* were installed while it judges, and an agent that r names and was routed
\* past has been down.
Watched(r) ==
    /\ DOMAIN during[r] = History
    /\ req[r].pc = "evaluate" =>
          \E P \in during[r].policies : P \in PolicySets \cup {{}} /\ req[r].order \in SortPolicies(P)
    /\ req[r].pc = "default" /\ req[r].path.agent \in Agents => req[r].path.agent \in during[r].down

HistoriesOK == DOMAIN during = Requests /\ \A r \in Requests : Watched(r)

EngineOK == installed \in PolicySets \cup {{}} /\ policies \in SortPolicies(installed)

\* A step of r is r's own: it moves no other request, writes no other's
\* history, and changes neither health nor the engine.
LEMMA StepIsLocal ==
    ASSUME RequestsOK, DOMAIN during = Requests, NEW r \in Requests, Step(r)
    PROVE  /\ UNCHANGED <<health, engine>> /\ DOMAIN during' = Requests
           /\ \A x \in Requests \ {r} : req'[x] = req[x] /\ during'[x] = during[x]
  <1>1. UNCHANGED <<health, engine>>
    BY DEF Step, Quiet, GlobalLimit, IPLimit, UserLimit, StoreNonce, Bypass, Auth, ReadPolicies, Judge,
           VerifyJWS, CheckNonce, CheckPushURL, ServeCard, DetectMethod, TranslateCall,
           RouteSingle, RoutePathPrefix, RouteDefault,
           Forward, ProxyStream, ForwardUnary, AnswerCall, StreamMessage
  <1>2. \E q : Becomes(r, q)
    <2>1. CASE GlobalLimit(r) \/ IPLimit(r) \/ UserLimit(r) \/ StoreNonce(r) \/ VerifyJWS(r)
               \/ CheckPushURL(r)
      BY <2>1 DEF GlobalLimit, IPLimit, UserLimit, StoreNonce, VerifyJWS, CheckPushURL, PassOn,
                  Refuse, Answer
    <2>2. CASE Bypass(r) \/ ServeCard(r) \/ Forward(r) \/ ProxyStream(r) \/ AnswerCall(r)
               \/ StreamMessage(r) \/ ForwardUnary(r) \/ DetectMethod(r) \/ TranslateCall(r)
      BY <2>2 DEF Bypass, ServeCard, Forward, ProxyStream, AnswerCall, StreamMessage, ForwardUnary,
                  DetectMethod, TranslateCall, Answer
    <2>3. CASE RouteSingle(r) \/ RoutePathPrefix(r) \/ RouteDefault(r)
      BY <2>3 DEF RouteSingle, RoutePathPrefix, RouteDefault, To, Refuse, Answer
    <2>4. CASE Auth(r)
      BY <2>4 DEF Auth, Refuse, Answer
    <2>5. CASE CheckNonce(r)
      BY <2>5 DEF CheckNonce, PassOnWarning, PassOn, Refuse, Answer
    <2>6. CASE ReadPolicies(r)
      BY <2>6 DEF ReadPolicies
    <2>7. CASE Judge(r)
      BY <2>7 DEF Judge
    <2> QED
      BY <2>1, <2>2, <2>3, <2>4, <2>5, <2>6, <2>7 DEF Step, Quiet
  <1>3. during' = during \/ \E h : during' = [during EXCEPT ![r] = h]
    <2>1. CASE ReadPolicies(r)
      <3>1. during' = [during EXCEPT ![r] = [during[r] EXCEPT !.policies = {installed}]]
        BY <2>1 DEF ReadPolicies
      <3> QED
        BY <3>1
    <2>2. CASE Judge(r) \/ RouteDefault(r)
      BY <2>2 DEF Judge, RouteDefault
    <2>3. CASE RoutePathPrefix(r)
      <3>1. \/ during' = during
            \/ during' = [during EXCEPT ![r] = [during[r] EXCEPT !.up = healthy, !.down = Agents \ healthy]]
        BY <2>3 DEF RoutePathPrefix
      <3> QED
        BY <3>1
    <2>4. CASE ~(ReadPolicies(r) \/ Judge(r) \/ RouteDefault(r) \/ RoutePathPrefix(r))
      <3>1. during' = during
        BY <2>4 DEF Step, Quiet, GlobalLimit, IPLimit, UserLimit, StoreNonce, Bypass, Auth,
                    VerifyJWS, CheckNonce, CheckPushURL, ServeCard, DetectMethod, TranslateCall,
                    RouteSingle, Forward, ProxyStream, ForwardUnary, AnswerCall, StreamMessage
      <3> QED
        BY <3>1
    <2> QED
      BY <2>1, <2>2, <2>3, <2>4
  <1>4. \A x \in Requests \ {r} : req'[x] = req[x]
    BY <1>2, BecomesGives
  <1>5. DOMAIN during' = Requests /\ \A x \in Requests \ {r} : during'[x] = during[x]
    BY <1>3
  <1> QED
    BY <1>1, <1>4, <1>5

\* What the three steps that begin something write.
LEMMA ReadPoliciesWatched ==
    ASSUME RequestsOK, HistoriesOK, EngineOK, NEW r \in Requests, ReadPolicies(r)
    PROVE  Watched(r)'
  <1>1. PICK now \in Hours :
           Becomes(r, [req[r] EXCEPT !.pc = "evaluate", !.order = policies,
                                     !.query = BuildPolicyRequest(r, now)])
    BY DEF ReadPolicies
  <1> DEFINE q == [req[r] EXCEPT !.pc = "evaluate", !.order = policies,
                                 !.query = BuildPolicyRequest(r, now)]
  <1>2. q.pc = "evaluate" /\ q.order = policies /\ Becomes(r, q)
    BY <1>1 DEF RequestsOK, Fine, Record
  <1> HIDE DEF q
  <1>3. req'[r].pc = "evaluate" /\ req'[r].order = policies
    BY <1>2, BecomesGives
  <1>4. during' = [during EXCEPT ![r].policies = {installed}]
    BY DEF ReadPolicies
  <1>5. DOMAIN during'[r] = History /\ during'[r].policies = {installed}
    BY <1>4 DEF HistoriesOK, Watched, History
  <1> QED
    BY <1>3, <1>5 DEF Watched, EngineOK

\* An agent passed over was seen down in this very step (strategy.go:42-47).
LEMMA RoutePathPrefixWatched ==
    ASSUME RequestsOK, HistoriesOK, NEW r \in Requests, RoutePathPrefix(r), req'[r].pc = "default"
    PROVE  Watched(r)'
  <1>1. \/ /\ \E p : To(r, req[r].path.agent, p)
        \/ /\ Becomes(r, [req[r] EXCEPT !.pc = "default"])
           /\ during' = [during EXCEPT ![r].up = healthy, ![r].down = Agents \ healthy]
           /\ ~(req[r].path.agent \in Agents /\ req[r].path.agent \in healthy)
    BY DEF RoutePathPrefix
  <1>2. ~ \E p : To(r, req[r].path.agent, p)
    BY ToEnds
  <1> DEFINE q == [req[r] EXCEPT !.pc = "default"]
  <1>3. q.path = req[r].path /\ Becomes(r, q)
    BY <1>1, <1>2 DEF RequestsOK, Fine, Record
  <1> HIDE DEF q
  <1>4. req'[r].path = req[r].path
    BY <1>3, BecomesGives
  <1>5. DOMAIN during'[r] = History /\ during'[r].down = Agents \ healthy
    BY <1>1, <1>2 DEF HistoriesOK, Watched, History
  <1> QED
    BY <1>1, <1>2, <1>4, <1>5 DEF Watched

\* The histories keep up with the steps of the requests.
LEMMA StepWatched ==
    ASSUME RequestsOK, HistoriesOK, EngineOK, NEW r \in Requests, Step(r)
    PROVE  HistoriesOK' /\ EngineOK'
  <1>1. /\ UNCHANGED <<health, engine>> /\ DOMAIN during' = Requests
        /\ \A x \in Requests \ {r} : req'[x] = req[x] /\ during'[x] = during[x]
    BY StepIsLocal DEF HistoriesOK
  <1>2. ASSUME NEW x \in Requests \ {r} PROVE Watched(x)'
    BY <1>1 DEF HistoriesOK, Watched
  <1>3. Watched(r)'
    <2>1. CASE ReadPolicies(r)
      BY <2>1, ReadPoliciesWatched
    <2>2. CASE req'[r].pc = "default"
      BY <2>2, StepEnds, RoutePathPrefixWatched
    <2>3. CASE ~ReadPolicies(r) /\ req'[r].pc # "default"
      <3>1. req'[r].pc \notin {"evaluate", "default"}
        BY <2>3, StepEnds
      <3>2. DOMAIN during[r] = History
        BY DEF HistoriesOK, Watched
      <3>3. \/ during' = during \/ during' = [during EXCEPT ![r] = NoHistory]
            \/ during' = [during EXCEPT ![r].up = healthy, ![r].down = Agents \ healthy]
        BY <2>3 DEF Step, Quiet, GlobalLimit, IPLimit, UserLimit, StoreNonce, Bypass, Auth, Judge,
                    VerifyJWS, CheckNonce, CheckPushURL, ServeCard, DetectMethod, TranslateCall,
                    RouteSingle, RoutePathPrefix, RouteDefault,
                    Forward, ProxyStream, ForwardUnary, AnswerCall, StreamMessage
      <3>4. DOMAIN during'[r] = History
        BY <3>2, <3>3 DEF HistoriesOK, NoHistory, History
      <3> QED
        BY <3>1, <3>4 DEF Watched
    <2> QED
      BY <2>1, <2>2, <2>3
  <1>4. EngineOK'
    BY <1>1 DEF EngineOK, engine
  <1> QED
    BY <1>1, <1>2, <1>3, <1>4 DEF HistoriesOK

----------------------------------------------------------------------------
(* The inductive invariant *)

BucketsOK ==
    /\ global \in [Protocols -> Nat]
    /\ perIP \in [Protocols -> [Addresses -> Nat]]
    /\ perUser \in [Protocols -> [Users -> Nat]]

HealthOK == healthy \subseteq Agents /\ changes \in 0 .. MaxChanges /\ updates \in 0 .. MaxUpdates

IInv ==
    /\ cfg \in Configs /\ HealthOK /\ EngineOK /\ BucketsOK /\ DOMAIN nonces = Protocols
    /\ RequestsOK /\ HistoriesOK /\ Spent /\ NonceOfAdmitted

\* A request that arrives has passed nothing.
LEMMA InitRequests ==
    ASSUME Init
    PROVE  RequestsOK /\ \A r \in Requests : req[r].pc \in {"mux", "pipeline"} /\ req[r].passed = 0
  <1>1. PICK f \in [Requests -> Shapes] : req = [r \in Requests |-> Arriving(f[r])]
    BY DEF Init
  <1>2. ASSUME NEW s \in Shapes
        PROVE  Fine(Arriving(s)) /\ Arriving(s).pc \in {"mux", "pipeline"} /\ Arriving(s).passed = 0
    <2>1. Nobody \in Users
      BY DEF Users
    <2> DEFINE q == Arriving(s)
    <2>2. /\ DOMAIN q = Record /\ q.shape = s /\ q.pc \in {"mux", "pipeline"} /\ q.passed = 0
          /\ q.user = Nobody /\ q.target = NoAgent /\ q.answer = NotYet
          /\ (q.pc = "mux") <=> Bypasses(s)
      BY DEF Arriving, Record
    <2> HIDE DEF q
    <2>3. q.pc \in Stages /\ q.answer \in Codes /\ q.pc # "done"
      BY <2>2 DEF Stages, Codes
    <2>4. q.passed \in 0 .. Len(BuildPipeline) /\ q.passed < Len(BuildPipeline)
      BY <2>2, PipelineType
    <2>5. q.pc \notin Through \cup {"evaluate", "store", "forward", "reply", "default"}
      BY <2>2 DEF Through
    <2>6. Fine(q)
      BY <2>1, <2>2, <2>3, <2>4, <2>5 DEF Fine
    <2> QED
      BY <2>2, <2>6 DEF q
  <1>3. \A r \in Requests : f[r] \in Shapes /\ req[r] = Arriving(f[r])
    BY <1>1
  <1>4. DOMAIN req = Requests
    BY <1>1
  <1> QED
    BY <1>2, <1>3, <1>4 DEF RequestsOK

\* Every bucket is full at first, and nobody has taken anything.
LEMMA InitSpent ==
    ASSUME Init
    PROVE  BucketsOK /\ Spent
  <1>1. cfg.global \in Nat /\ cfg.ip \in Nat /\ cfg.user \in Nat
    BY ConfigsAssumption DEF Init
  <1>2. /\ global = [p \in Protocols |-> cfg.global]
        /\ perIP = [p \in Protocols |-> [a \in Addresses |-> cfg.ip]]
        /\ perUser = [p \in Protocols |-> [u \in Users |-> cfg.user]]
    BY DEF Init
  <1>3. \A r \in Requests : \A m : ~Passed(r, m)
    BY InitRequests DEF Passed
  <1>4. \A p, k : Takers(p, k) = {} /\ From(p, k) = {} /\ Of(p, k) = {}
    BY <1>3 DEF Takers, From, Of
  <1>5. Cardinality({}) = 0
    BY FS_EmptySet
  <1>6. BucketsOK
    BY <1>1, <1>2 DEF BucketsOK
  <1>7. GlobalSpent
    <2>1. ASSUME NEW p \in Protocols
          PROVE  global[p] = cfg.global /\ Cardinality(Takers(p, "global")) = 0
      BY <1>2, <1>4, <1>5
    <2> QED
      BY <1>1, <2>1 DEF GlobalSpent
  <1>8. IPSpent
    <2>1. ASSUME NEW p \in Protocols, NEW a \in Addresses
          PROVE  perIP[p][a] = cfg.ip /\ Cardinality(From(p, a)) = 0
      BY <1>2, <1>4, <1>5
    <2> QED
      BY <1>1, <2>1 DEF IPSpent
  <1>9. UserSpent
    <2>1. ASSUME NEW p \in Protocols, NEW u \in Users
          PROVE  perUser[p][u] = cfg.user /\ Cardinality(Of(p, u)) = 0
      BY <1>2, <1>4, <1>5
    <2> QED
      BY <1>1, <2>1 DEF UserSpent
  <1> QED
    BY <1>6, <1>7, <1>8, <1>9 DEF Spent

\* The invariant holds at first.
LEMMA InitIInv == Init => IInv
  <1> SUFFICES ASSUME Init PROVE IInv
    OBVIOUS
  <1>1. cfg \in Configs /\ HealthOK /\ EngineOK /\ DOMAIN nonces = Protocols
    BY BoundsAssumption DEF Init, HealthOK, EngineOK
  <1>2. NonceOfAdmitted
    BY DEF Init, NonceOfAdmitted
  <1>3. HistoriesOK
    <2>1. \A r \in Requests : req[r].pc \in {"mux", "pipeline"}
      BY InitRequests
    <2>2. during = [r \in Requests |-> NoHistory]
      BY DEF Init
    <2> QED
      BY <2>1, <2>2 DEF HistoriesOK, Watched, NoHistory, History
  <1> QED
    BY <1>1, <1>2, <1>3, InitRequests, InitSpent DEF IInv

\* What does not look at health, the engine or the histories.
LEMMA RequestsAtRest ==
    ASSUME IInv, UNCHANGED <<cfg, buckets, nonces, req>>
    PROVE  /\ cfg' \in Configs /\ BucketsOK' /\ DOMAIN nonces' = Protocols /\ RequestsOK'
           /\ Spent' /\ NonceOfAdmitted'
  <1>1. cfg' \in Configs /\ BucketsOK' /\ DOMAIN nonces' = Protocols
    BY DEF IInv, BucketsOK, buckets
  <1>2. StandStill
    BY DEF StandStill, Same
  <1>3. Spent'
    BY <1>2, StandStillSpent DEF IInv
  <1>4. RequestsOK'
    BY PipelineStays, BypassesStay DEF IInv, RequestsOK, Fine
  <1>5. \A x \in Requests : Proto(x)' = Proto(x) /\ View(x)' = View(x)
                            /\ \A k : Passed(x, k)' <=> Passed(x, k)
    BY <1>2, SamePassed, SameSeen DEF StandStill
  <1>6. NonceOfAdmitted'
    BY <1>5, PipelineStays DEF IInv, NonceOfAdmitted
  <1> QED
    BY <1>1, <1>3, <1>4, <1>6

\* A change of an agent's health is written into the histories of the requests
\* being routed.
LEMMA HealthChangesKeepsIInv ==
    ASSUME IInv, NEW a \in Agents, HealthChanges(a)
    PROVE  IInv'
  <1>1. UNCHANGED <<cfg, buckets, nonces, req, engine>>
    BY DEF HealthChanges
  <1>2. HealthOK' /\ EngineOK'
    <2>1. healthy' \subseteq Agents
      BY DEF IInv, HealthOK, HealthChanges
    <2>2. changes' \in 0 .. MaxChanges
      <3>1. changes < MaxChanges /\ changes' = changes + 1
        BY DEF HealthChanges
      <3> QED
        BY <3>1, BoundsAssumption DEF IInv, HealthOK
    <2> QED
      BY <1>1, <2>1, <2>2 DEF IInv, HealthOK, EngineOK, engine
  <1>3. ASSUME NEW r \in Requests PROVE Watched(r)'
    <2>1. /\ DOMAIN during'[r] = History /\ during'[r].policies = during[r].policies
          /\ during[r].down \subseteq during'[r].down
      BY DEF HealthChanges, IInv, HistoriesOK, Watched, History
    <2> QED
      BY <1>1, <2>1 DEF IInv, HistoriesOK, Watched
  <1>4. HistoriesOK'
    BY <1>3 DEF HealthChanges, HistoriesOK
  <1> QED
    BY <1>1, <1>2, <1>4, RequestsAtRest DEF IInv

\* New policies are written into the histories of the requests being judged.
LEMMA UpdatePoliciesKeepsIInv ==
    ASSUME IInv, UpdatePolicies
    PROVE  IInv'
  <1>1. UNCHANGED <<cfg, buckets, nonces, req, health>>
    BY DEF UpdatePolicies
  <1>2. HealthOK' /\ EngineOK'
    BY BoundsAssumption DEF IInv, HealthOK, EngineOK, UpdatePolicies, health
  <1>3. ASSUME NEW r \in Requests PROVE Watched(r)'
    <2>1. /\ DOMAIN during'[r] = History /\ during[r].policies \subseteq during'[r].policies
          /\ during'[r].down = during[r].down
      BY DEF UpdatePolicies, IInv, HistoriesOK, Watched, History
    <2> QED
      BY <1>1, <2>1 DEF IInv, HistoriesOK, Watched
  <1>4. HistoriesOK'
    BY <1>3 DEF UpdatePolicies, HistoriesOK
  <1> QED
    BY <1>1, <1>2, <1>4, RequestsAtRest DEF IInv

\* Each step of a request keeps the invariant.
LEMMA StepKeepsIInv ==
    ASSUME IInv, NEW r \in Requests, Step(r)
    PROVE  IInv'
  <1>1. RequestsOK' /\ cfg' \in Configs
    BY StepPasses DEF IInv, HealthOK
  <1>2. UNCHANGED <<health, engine>>
    BY StepIsLocal DEF IInv, HistoriesOK
  <1>3. HealthOK'
    BY <1>2 DEF IInv, HealthOK, health, engine
  <1>4. HistoriesOK' /\ EngineOK'
    BY StepWatched DEF IInv
  <1>5. Spent' /\ BucketsOK'
    BY StepSpends, StepKeepsBuckets DEF IInv, BucketsOK, HealthOK
  <1>6. NonceOfAdmitted' /\ DOMAIN nonces' = Protocols
    BY StepStores DEF IInv, HealthOK
  <1> QED
    BY <1>1, <1>3, <1>4, <1>5, <1>6 DEF IInv

\* The steps of the gateway: a request's, a poller's, an update's, or none.
LEMMA NextIs ==
    ASSUME [Next]_vars
    PROVE  \/ \E a \in Agents : HealthChanges(a)
           \/ UpdatePolicies
           \/ \E r \in Requests : Step(r)
           \/ UNCHANGED vars
  BY DEF Next, Finished, Step, Quiet

\* So does every step of the gateway.
LEMMA NextKeepsIInv ==
    ASSUME IInv, [Next]_vars
    PROVE  IInv'
  <1>1. CASE UNCHANGED vars
    <2>1. UNCHANGED <<cfg, buckets, nonces, req, health, engine, during>>
      BY <1>1 DEF vars
    <2>2. HealthOK' /\ EngineOK'
      BY <2>1 DEF IInv, HealthOK, EngineOK, health, engine
    <2>3. HistoriesOK'
      BY <2>1 DEF IInv, HistoriesOK, Watched
    <2> QED
      BY <2>1, <2>2, <2>3, RequestsAtRest DEF IInv
  <1> QED
    BY <1>1, NextIs, HealthChangesKeepsIInv, UpdatePoliciesKeepsIInv, StepKeepsIInv

\* The invariant holds throughout: records in order, buckets that account for
\* their tokens, nonces of admitted requests (security/pipeline.go:60-114).
THEOREM Inductive == Spec => []IInv
  <1>1. IInv /\ [Next]_vars => IInv'
    BY NextKeepsIInv
  <1> QED
    BY InitIInv, <1>1, PTL DEF Spec

----------------------------------------------------------------------------
(* The properties *)

\* The types are part of the invariant.
LEMMA IInvTypeOK == IInv => TypeOK
  <1> SUFFICES ASSUME IInv PROVE TypeOK
    OBVIOUS
  <1>1. \A r \in Requests : Fine(req[r])
    BY DEF IInv, RequestsOK
  <1> QED
    BY <1>1 DEF IInv, HealthOK, EngineOK, BucketsOK, TypeOK, Fine, Through

\* The model's state is what it is said to be: a request is answered exactly
\* when it is done, has a target once the router has found one, and reaches the
\* handler only when every middleware is behind it; no bucket is overdrawn.
THEOREM TypeCorrect == Spec => []TypeOK
  BY Inductive, IInvTypeOK, PTL

\* Who reaches a handler has a token of every limiter in the pipeline.
LEMMA HandledTook ==
    ASSUME IInv, NEW p \in Protocols, NEW m \in Members(BuildPipeline)
    PROVE  Handled(p) \subseteq Takers(p, m)
  BY PassedAll DEF Handled, Takers

\* A bucket that accounts for its tokens cannot have given out more than its
\* burst, and whoever is handled has taken one.
LEMMA IInvBudgetHeld == IInv => BudgetHeld
  <1> SUFFICES ASSUME IInv, NEW p \in Protocols
               PROVE  /\ cfg.global > 0 => Cardinality(Handled(p)) <= cfg.global
                      /\ cfg.ip > 0 => \A a \in Addresses :
                            Cardinality({r \in Handled(p) : ClientIP(r) = a}) <= cfg.ip
                      /\ cfg.user > 0 => \A u \in Users \ {Nobody} :
                            Cardinality({r \in Handled(p) : req[r].user = u}) <= cfg.user
    BY DEF BudgetHeld
  <1>1. \A S, T \in SUBSET Requests : S \subseteq T => Cardinality(S) <= Cardinality(T)
    BY CountType, FS_Subset
  <1>2. /\ cfg.global > 0 => "global" \in Members(BuildPipeline)
        /\ cfg.ip > 0 => "ip" \in Members(BuildPipeline)
        /\ cfg.user > 0 => "user" \in Members(BuildPipeline)
    BY PipelineInOrder
  <1>3. ASSUME cfg.global > 0 PROVE Cardinality(Handled(p)) <= cfg.global
    <2> DEFINE S == Handled(p)  T == Takers(p, "global")
    <2>1. S \subseteq T /\ S \in SUBSET Requests /\ T \in SUBSET Requests
      BY <1>2, <1>3, HandledTook DEF Takers
    <2>2. Cardinality(T) + global[p] = cfg.global /\ global[p] \in Nat
      BY DEF IInv, Spent, GlobalSpent, BucketsOK
    <2> HIDE DEF S, T
    <2>3. Cardinality(S) \in Nat /\ Cardinality(T) \in Nat /\ Cardinality(S) <= Cardinality(T)
      BY <1>1, <2>1, CountType
    <2> QED
      BY <2>2, <2>3 DEF S
  <1>4. ASSUME cfg.ip > 0, NEW a \in Addresses
        PROVE  Cardinality({r \in Handled(p) : ClientIP(r) = a}) <= cfg.ip
    <2> DEFINE S == {r \in Handled(p) : ClientIP(r) = a}  T == From(p, a)
    <2>1. S \subseteq T /\ S \in SUBSET Requests /\ T \in SUBSET Requests
      BY <1>2, <1>4, HandledTook DEF Takers, From
    <2>2. Cardinality(T) + perIP[p][a] = cfg.ip /\ perIP[p][a] \in Nat
      BY DEF IInv, Spent, IPSpent, BucketsOK
    <2> HIDE DEF S, T
    <2>3. Cardinality(S) \in Nat /\ Cardinality(T) \in Nat /\ Cardinality(S) <= Cardinality(T)
      BY <1>1, <2>1, CountType
    <2> QED
      BY <2>2, <2>3 DEF S
  <1>5. ASSUME cfg.user > 0, NEW u \in Users \ {Nobody}
        PROVE  Cardinality({r \in Handled(p) : req[r].user = u}) <= cfg.user
    <2> DEFINE S == {r \in Handled(p) : req[r].user = u}  T == Of(p, u)
    <2>1. S \subseteq T /\ S \in SUBSET Requests /\ T \in SUBSET Requests
      BY <1>2, <1>5, HandledTook DEF Takers, Of
    <2>2. Cardinality(T) + perUser[p][u] = cfg.user /\ perUser[p][u] \in Nat
      BY DEF IInv, Spent, UserSpent, BucketsOK
    <2> HIDE DEF S, T
    <2>3. Cardinality(S) \in Nat /\ Cardinality(T) \in Nat /\ Cardinality(S) <= Cardinality(T)
      BY <1>1, <2>1, CountType
    <2> QED
      BY <2>2, <2>3 DEF S
  <1> QED
    BY <1>3, <1>4, <1>5

\* However many requests come at once and however they overtake one another
\* between the limiters, no more of them reach a handler than the global
\* burst, the burst of their address and that of their user allow.
THEOREM BudgetCorrect == Spec => []BudgetHeld
  BY Inductive, IInvBudgetHeld, PTL

\* A nonce is remembered only for a request that authentication, the limiters
\* and the policies let through: a request they refuse may come again.
THEOREM NonceCorrect == Spec => []NonceOfAdmitted
  <1>1. IInv => NonceOfAdmitted
    BY DEF IInv
  <1> QED
    BY Inductive, <1>1, PTL

----------------------------------------------------------------------------
(* The verdict of the policies *)

\* A set of numbers that is not empty has a least one.
LEMMA Least ==
    ASSUME NEW S \in SUBSET Nat, S # {}
    PROVE  First(S) \in S /\ \A j \in S : First(S) <= j
  <1> DEFINE R == OpToRel(<, Nat)
  <1>1. IsWellFoundedOn(R, Nat)
    BY NatLessThanWellFounded
  <1>2. \A x, y \in Nat : x < y => <<x, y>> \in R
    BY DEF OpToRel
  <1> HIDE DEF R
  <1>3. PICK i \in S : \A j \in S : ~(<<j, i>> \in R)
    BY <1>1, WFMin
  <1>4. \A j \in S : ~(j < i)
    BY <1>2, <1>3, Zenon
  <1>5. \E k \in S : \A j \in S : k <= j
    BY <1>4
  <1> QED
    BY <1>5 DEF First

\* However sort.Slice has left policies of the same priority, the first that
\* matches is one of the highest priority that match.
LEMMA EvaluateMayDecide ==
    ASSUME NEW P \in PolicySets \cup {{}}, NEW s \in SortPolicies(P), NEW q
    PROVE  MayDecide(P, q, Evaluate(s, q) = "deny")
  <1>1. IsFiniteSet(P) /\ Cardinality(P) \in Nat /\ \A p \in P : p.priority \in Int
    BY PoliciesAssumption, FS_EmptySet, FS_CardinalityType
  <1>2. /\ DOMAIN s \in SUBSET Nat /\ \A i \in DOMAIN s : s[i] \in P
        /\ {s[i] : i \in DOMAIN s} = P
        /\ \A i, j \in DOMAIN s : i < j => s[i].priority >= s[j].priority
    BY <1>1 DEF SortPolicies
  <1> DEFINE found == {i \in DOMAIN s : MatchPolicy(s[i], q)}
             hits == {p \in P : MatchPolicy(p, q)}
             top == {p \in hits : \A o \in hits : o.priority <= p.priority}
             denied == Evaluate(s, q) = "deny"
  <1>3. MayDecide(P, q, denied) <=>
           (hits = {} /\ ~denied) \/ \E p \in top : (p.action = "deny") <=> denied
    BY DEF MayDecide
  <1>4. CASE found = {}
    <2>1. hits = {}
      BY <1>2, <1>4
    <2>2. ~denied
      BY <1>4 DEF Evaluate
    <2> QED
      BY <1>3, <2>1, <2>2
  <1>5. CASE found # {}
    <2> DEFINE i == First(found)
    <2>1. i \in found /\ \A j \in found : i <= j
      BY <1>2, <1>5, Least
    <2>2. Evaluate(s, q) = s[i].action
      BY <1>5 DEF Evaluate
    <2> HIDE DEF i
    <2>3. s[i] \in hits
      BY <1>2, <2>1
    <2>4. ASSUME NEW o \in hits PROVE o.priority <= s[i].priority
      <3>1. PICK j \in DOMAIN s : s[j] = o
        BY <1>2
      <3>2. j \in found /\ i <= j /\ i \in DOMAIN s
        BY <2>1, <3>1
      <3>3. i = j \/ i < j
        BY <1>2, <3>2
      <3>4. s[i].priority >= s[j].priority
        BY <1>1, <1>2, <3>2, <3>3
      <3> QED
        BY <1>1, <1>2, <3>1, <3>2, <3>4
    <2>5. s[i] \in top
      BY <2>3, <2>4
    <2> QED
      BY <1>3, <2>2, <2>5
  <1> QED
    BY <1>4, <1>5

\* The guard judges by the order it read, whatever was installed since.
LEMMA StepJudges ==
    ASSUME IInv, [Next]_vars, NEW r \in Requests,
           req[r].pc = "evaluate", req'[r].pc # "evaluate"
    PROVE  \E P \in during[r].policies : MayDecide(P, req[r].query, req'[r].pc = "done")
  <1>1. Judge(r)
    <2>1. req'[r] # req[r]
      OBVIOUS
    <2>2. PICK x \in Requests : Step(x)
      BY <2>1, NextIs DEF HealthChanges, UpdatePolicies, vars
    <2>3. x = r
      BY <2>1, <2>2, StepIsLocal DEF IInv, HistoriesOK
    <2> QED
      BY <2>2, <2>3, StepBegins
  <1>2. (req'[r].pc = "done") <=> (Evaluate(req[r].order, req[r].query) = "deny")
    BY <1>1, JudgeEnds DEF IInv
  <1>3. PICK P \in during[r].policies : P \in PolicySets \cup {{}} /\ req[r].order \in SortPolicies(P)
    BY DEF IInv, HistoriesOK, Watched
  <1>4. MayDecide(P, req[r].query, Evaluate(req[r].order, req[r].query) = "deny")
    BY <1>3, EvaluateMayDecide
  <1>5. (req'[r].pc = "done") = (Evaluate(req[r].order, req[r].query) = "deny")
    BY <1>2
  <1> QED
    BY <1>4, <1>5

\* The guard's answer is that of one set of policies, installed as a whole
\* while the guard judged, by priority: no update is seen in part.
THEOREM JudgedCorrect == Spec => JudgedByOneSet
  <1>1. IInv /\ [Next]_vars =>
           [\A r \in Requests :
               req[r].pc = "evaluate" /\ req'[r].pc # "evaluate" =>
                  \E P \in during[r].policies :
                     MayDecide(P, req[r].query, req'[r].pc = "done")]_vars
    BY StepJudges
  <1> QED
    BY Inductive, <1>1, PTL DEF Spec, JudgedByOneSet

----------------------------------------------------------------------------
(* The choice of the agent *)

\* What the router does to a request, and what it has just seen of health.
LEMMA StepRoutes ==
    ASSUME IInv, [Next]_vars, NEW r \in Requests,
           Routing(r), req'[r].pc \notin {"route", "default"}
    PROVE  RouteSingle(r) \/ RoutePathPrefix(r) \/ RouteDefault(r)
  <1>1. req[r].pc \in {"route", "default"} /\ req'[r] # req[r]
    BY DEF Routing
  <1>2. PICK x \in Requests : Step(x)
    BY <1>1, NextIs DEF HealthChanges, UpdatePolicies, vars
  <1>3. x = r
    BY <1>1, <1>2, StepIsLocal DEF IInv, HistoriesOK
  <1> QED
    BY <1>1, <1>2, <1>3, StepBegins

RoutedWell(r) ==
    LET t == req'[r].target
        named == req[r].path.agent
    IN /\ cfg.mode = "path-prefix" /\ named \in Agents /\ t # named
             => named \in Down(r) /\ req'[r].path = req[r].path
       /\ t # NoAgent => t \in Up(r)
       /\ t = NoAgent =>
             IF cfg.mode = "single" THEN Agents \subseteq Down(r)
             ELSE cfg.default \in Down(r) \cup {NoAgent}

\* Who is routed elsewhere than named was seen past an agent that was down.
LEMMA StepRoutesWell ==
    ASSUME IInv, [Next]_vars, NEW r \in Requests,
           Routing(r), req'[r].pc \notin {"route", "default"}
    PROVE  RoutedWell(r)
  <1>1. RequestsOK /\ Fine(req[r]) /\ healthy \subseteq Agents /\ Watched(r) /\ NoAgent \notin Agents
    BY AgentsAssumption DEF IInv, RequestsOK, HealthOK, HistoriesOK
  <1>2. req[r].target = NoAgent
    BY <1>1 DEF Fine, Routing
  <1>3. CASE RouteSingle(r)
    <2>1. cfg.mode = "single"
      BY <1>3 DEF RouteSingle
    <2>2. CASE \E a \in healthy : To(r, a, req[r].path)
      BY <1>1, <2>1, <2>2, ToEnds DEF RoutedWell, Up
    <2>3. CASE healthy = {} /\ Refuse(r, 503)
      <3>1. req'[r].target = NoAgent
        BY <1>1, <1>2, <2>3, RefuseEnds
      <3> QED
        BY <1>1, <2>1, <2>3, <3>1 DEF RoutedWell, Down
    <2> QED
      BY <1>3, <2>2, <2>3 DEF RouteSingle
  <1>4. CASE RoutePathPrefix(r)
    <2>1. cfg.mode = "path-prefix"
      BY <1>4 DEF RoutePathPrefix
    <2>2. /\ req[r].path.agent \in Agents /\ req[r].path.agent \in healthy
          /\ \E p : To(r, req[r].path.agent, p)
      <3>1. CASE Becomes(r, [req[r] EXCEPT !.pc = "default"])
        <4>1. [req[r] EXCEPT !.pc = "default"].pc = "default"
          BY <1>1 DEF Fine, Record
        <4> QED
          BY <1>1, <3>1, <4>1, BecomesGives
      <3> QED
        BY <1>4, <3>1 DEF RoutePathPrefix
    <2>3. req'[r].target = req[r].path.agent
      BY <1>1, <2>2, ToEnds
    <2> QED
      BY <1>1, <2>1, <2>2, <2>3 DEF RoutedWell, Up
  <1>5. CASE RouteDefault(r)
    <2>1. req[r].pc = "default" /\ cfg.mode = "path-prefix"
      BY <1>1, <1>5 DEF RouteDefault, Fine
    <2>2. req[r].path.agent \in Agents => req[r].path.agent \in Down(r)
      BY <1>1, <2>1 DEF Watched, Down
    <2>3. CASE cfg.default = NoAgent /\ Refuse(r, 404)
      <3>1. req'[r].target = NoAgent /\ req'[r].path = req[r].path
        BY <1>1, <1>2, <2>3, RefuseEnds
      <3> QED
        BY <2>1, <2>2, <2>3, <3>1 DEF RoutedWell
    <2>4. CASE cfg.default \in healthy /\ To(r, cfg.default, req[r].path)
      <3>1. req'[r].target = cfg.default /\ req'[r].path = req[r].path
        BY <1>1, <2>4, ToEnds
      <3> QED
        BY <1>1, <2>1, <2>2, <2>4, <3>1 DEF RoutedWell, Up
    <2>5. CASE cfg.default \in Agents \ healthy /\ Refuse(r, 503)
      <3>1. req'[r].target = NoAgent /\ req'[r].path = req[r].path
        BY <1>1, <1>2, <2>5, RefuseEnds
      <3> QED
        BY <2>1, <2>2, <2>5, <3>1 DEF RoutedWell, Down
    <2> QED
      BY <1>5, <2>3, <2>4, <2>5 DEF RouteDefault
  <1> QED
    BY <1>3, <1>4, <1>5, StepRoutes

\* A request goes to an agent that was up while it was routed, past the one
\* it names only if that one was down, and is refused only if every agent it
\* might have gone to was down.
THEOREM RoutedCorrect == Spec => RoutedWhereHealthy
  <1>1. IInv /\ [Next]_vars =>
           [\A r \in Requests : Routing(r) /\ req'[r].pc \notin {"route", "default"} => RoutedWell(r)]_vars
    BY StepRoutesWell
  <1> QED
    BY Inductive, <1>1, PTL DEF Spec, RoutedWhereHealthy, RoutedWell

----------------------------------------------------------------------------
(* What the guard sees of a request *)

\* While the middlewares judge it, a request has no method, and what the guard
\* is asked about is its path.
Unrouted(r) ==
    /\ req[r].pc \in Underway => req[r].method = ""
    /\ req[r].pc = "evaluate" => req[r].query.method = "" /\ req[r].query.agent = View(r).path

\* A request among the middlewares has come from there, with no method found.
LEMMA StepMethod ==
    ASSUME RequestsOK, NEW r \in Requests, Step(r), req'[r].pc \in Underway
    PROVE  req[r].pc \in Underway /\ req'[r].method = req[r].method
  <1> DEFINE Alike(q) == q.method = req[r].method
  <1>1. Record \subseteq DOMAIN req[r]
    BY DEF RequestsOK, Fine
  <1>2. ASSUME NEW code, Answer(r, code) PROVE FALSE
    BY <1>2, AnswerEnds DEF Underway
  <1>3. ASSUME NEW status, Refuse(r, status) PROVE FALSE
    BY <1>3, RefuseEnds DEF Underway
  <1>4. ASSUME NEW a, NEW p, To(r, a, p) PROVE FALSE
    BY <1>4, ToEnds DEF Underway
  <1>5. ASSUME NEW q, q.pc \notin Underway, Becomes(r, q) PROVE FALSE
    BY <1>5, BecomesGives
  <1>6. ASSUME NEW q, Alike(q), Becomes(r, q) PROVE req'[r].method = req[r].method
    BY <1>6, BecomesGives
  <1>7. ASSUME NEW q, Record \subseteq DOMAIN q, Alike(q), Becomes(r, Onward(q))
        PROVE  req'[r].method = req[r].method
    <2>1. Alike(Onward(q))
      BY <1>7, OnwardGives DEF Record
    <2> HIDE DEF Alike
    <2> QED
      BY <1>6, <1>7, <2>1
  <1>8. ASSUME PassOn(r) PROVE req'[r].method = req[r].method
    BY <1>1, <1>7, <1>8 DEF PassOn
  <1>9. CASE GlobalLimit(r) \/ IPLimit(r) \/ UserLimit(r) \/ VerifyJWS(r) \/ StoreNonce(r)
             \/ CheckPushURL(r)
    <2>1. req[r].pc \in Underway
      BY <1>9 DEF GlobalLimit, IPLimit, UserLimit, VerifyJWS, StoreNonce, CheckPushURL, At, Underway
    <2>2. PassOn(r) \/ \E status : Refuse(r, status)
      BY <1>9 DEF GlobalLimit, IPLimit, UserLimit, VerifyJWS, StoreNonce, CheckPushURL
    <2> QED
      BY <1>3, <1>8, <2>1, <2>2
  <1>10. CASE Auth(r)
    <2>1. req[r].pc \in Underway
      BY <1>10 DEF Auth, At, Underway
    <2>2. PICK u : Refuse(r, 401) \/ Becomes(r, Onward([req[r] EXCEPT !.user = u]))
      BY <1>10 DEF Auth
    <2> DEFINE q == [req[r] EXCEPT !.user = u]
    <2>3. Record \subseteq DOMAIN q /\ Alike(q)
      BY <1>1 DEF Record
    <2>4. Refuse(r, 401) \/ Becomes(r, Onward(q))
      BY <2>2
    <2> HIDE DEF q, Alike
    <2> QED
      BY <1>3, <1>7, <2>1, <2>3, <2>4
  <1>11. CASE ReadPolicies(r)
    <2>1. req[r].pc \in Underway
      BY <1>11 DEF ReadPolicies, At, Underway
    <2>2. PICK now \in Hours :
             Becomes(r, [req[r] EXCEPT !.pc = "evaluate", !.order = policies,
                                       !.query = BuildPolicyRequest(r, now)])
      BY <1>11 DEF ReadPolicies
    <2> DEFINE q == [req[r] EXCEPT !.pc = "evaluate", !.order = policies,
                                   !.query = BuildPolicyRequest(r, now)]
    <2>3. Alike(q) /\ Becomes(r, q)
      BY <1>1, <2>2 DEF Record
    <2> HIDE DEF q, Alike
    <2> QED
      BY <1>6, <2>1, <2>3
  <1>12. CASE Judge(r)
    <2> DEFINE q == [req[r] EXCEPT !.order = <<>>, !.query = NoQuery(req[r].shape)]
    <2>1. /\ req[r].pc = "evaluate"
          /\ Becomes(r, Answered(q, Code(r, 403))) \/ Becomes(r, Onward(q))
      BY <1>12 DEF Judge
    <2>2. Record \subseteq DOMAIN q /\ Alike(q)
      BY <1>1 DEF Record
    <2> HIDE DEF q, Alike
    <2>3. Answered(q, Code(r, 403)).pc \notin Underway
      BY <2>2, AnsweredGives DEF Underway
    <2> QED
      BY <1>5, <1>7, <2>1, <2>2, <2>3 DEF Underway
  <1>13. CASE CheckNonce(r)
    <2> DEFINE q == [req[r] EXCEPT !.pc = "store"]
    <2>1. req[r].pc \in Underway
      BY <1>13 DEF CheckNonce, At, Underway
    <2>2. Alike(q)
      BY <1>1 DEF Record
    <2>3. PassOn(r) \/ (\E status : Refuse(r, status)) \/ Becomes(r, q)
      BY <1>13 DEF CheckNonce, PassOnWarning
    <2> HIDE DEF q, Alike
    <2> QED
      BY <1>3, <1>6, <1>8, <2>1, <2>2, <2>3
  <1>14. CASE \/ Bypass(r) \/ ServeCard(r) \/ Forward(r) \/ ProxyStream(r) \/ AnswerCall(r)
              \/ StreamMessage(r)
    BY <1>2, <1>14 DEF Bypass, ServeCard, Forward, ProxyStream, AnswerCall, StreamMessage
  <1>15. CASE DetectMethod(r) \/ TranslateCall(r) \/ ForwardUnary(r)
    <2> DEFINE d == [req[r] EXCEPT !.pc = "route", !.method = Detect(req[r].shape)]
               c == [req[r] EXCEPT !.pc = "route", !.method = req[r].shape.rpc,
                                   !.path = [agent |-> NoAgent, rest |-> ""]]
               b == [req[r] EXCEPT !.pc = "reply"]
    <2>1. d.pc \notin Underway /\ c.pc \notin Underway /\ b.pc \notin Underway
      BY <1>1 DEF Record, Underway
    <2>2. (\E code : Answer(r, code)) \/ Becomes(r, d) \/ Becomes(r, c) \/ Becomes(r, b)
      BY <1>15 DEF DetectMethod, TranslateCall, ForwardUnary
    <2> HIDE DEF d, c, b
    <2> QED
      BY <1>2, <1>5, <2>1, <2>2
  <1>16. CASE RouteSingle(r) \/ RoutePathPrefix(r) \/ RouteDefault(r)
    <2> DEFINE q == [req[r] EXCEPT !.pc = "default"]
    <2>1. q.pc \notin Underway
      BY <1>1 DEF Record, Underway
    <2>2. (\E a, p : To(r, a, p)) \/ (\E status : Refuse(r, status)) \/ Becomes(r, q)
      BY <1>16 DEF RouteSingle, RoutePathPrefix, RouteDefault
    <2> HIDE DEF q
    <2> QED
      BY <1>3, <1>4, <1>5, <2>1, <2>2
  <1> QED
    BY <1>9, <1>10, <1>11, <1>12, <1>13, <1>14, <1>15, <1>16 DEF Step, Quiet

\* The guard asks with what the request has at that moment.
LEMMA ReadPoliciesAsks ==
    ASSUME RequestsOK, NEW r \in Requests, Unrouted(r), ReadPolicies(r)
    PROVE  req'[r].query.method = "" /\ req'[r].query.agent = View(r).path
  <1>1. Record \subseteq DOMAIN req[r] /\ req[r].method = "" /\ req[r].target = NoAgent
    BY DEF RequestsOK, Fine, ReadPolicies, At, Unrouted, Underway
  <1>2. PICK now \in Hours :
           Becomes(r, [req[r] EXCEPT !.pc = "evaluate", !.order = policies,
                                     !.query = BuildPolicyRequest(r, now)])
    BY DEF ReadPolicies
  <1> DEFINE asked == BuildPolicyRequest(r, now)
             q == [req[r] EXCEPT !.pc = "evaluate", !.order = policies, !.query = asked]
  <1>3. asked.method = "" /\ asked.agent = View(r).path
    BY <1>1 DEF BuildPolicyRequest
  <1> HIDE DEF asked
  <1>4. q.query = asked /\ Becomes(r, q)
    BY <1>1, <1>2 DEF Record, asked
  <1> HIDE DEF q
  <1>5. req'[r] = q
    BY <1>4, BecomesGives
  <1> QED
    BY <1>3, <1>4, <1>5

\* No step tells the guard more.
LEMMA NextKeepsUnrouted ==
    ASSUME IInv, IInv', \A r \in Requests : Unrouted(r), [Next]_vars
    PROVE  (\A r \in Requests : Unrouted(r))'
  <1> SUFFICES ASSUME NEW r \in Requests PROVE Unrouted(r)'
    BY DEF IInv
  <1>1. CASE req' = req
    BY <1>1 DEF Unrouted, View, Proto
  <1>2. CASE req' # req
    <2>1. PICK x \in Requests : Step(x)
      BY <1>2, NextIs DEF HealthChanges, UpdatePolicies, vars
    <2>2. CASE x # r
      <3>1. req'[r] = req[r]
        BY <2>1, <2>2, StepIsLocal DEF IInv, HistoriesOK
      <3> QED
        BY <3>1 DEF Unrouted, View, Proto
    <2>3. CASE x = r
      <3>1. RequestsOK /\ Step(r) /\ Unrouted(r)
        BY <2>1, <2>3 DEF IInv
      <3>2. req'[r].pc \in Underway => req'[r].method = ""
        BY <3>1, StepMethod DEF Unrouted
      <3>3. ASSUME req'[r].pc = "evaluate"
            PROVE  req'[r].query.method = "" /\ req'[r].query.agent = View(r)'.path
        <4>1. req'[r].query.method = "" /\ req'[r].query.agent = View(r).path
          BY <3>1, <3>3, StepEnds, ReadPoliciesAsks
        <4>2. View(r)' = View(r)
          BY <2>1, StepPasses, NothingUndone DEF IInv, HealthOK, StandStill
        <4> QED
          BY <4>1, <4>2
      <3> QED
        BY <3>2, <3>3 DEF Unrouted
    <2> QED
      BY <2>2, <2>3
  <1> QED
    BY <1>1, <1>2

\* A request arrives without a method.
LEMMA InitUnrouted == Init => \A r \in Requests : Unrouted(r)
  <1> SUFFICES ASSUME Init, NEW r \in Requests PROVE Unrouted(r)
    OBVIOUS
  <1>1. PICK f \in [Requests -> Shapes] : req = [x \in Requests |-> Arriving(f[x])]
    BY DEF Init
  <1>2. req[r].method = "" /\ req[r].pc # "evaluate"
    BY <1>1 DEF Arriving
  <1> QED
    BY <1>2 DEF Unrouted

\* A policy that asks for methods matches only if it allows for "no method",
\* and one that asks for agents only if it names the request's path: the guard runs
\* before the method is detected and the agent is known (policy_guard.go:82).
\* The run requests_policy is one case of it.
THEOREM RoutePoliciesNeverMatch ==
    Spec => [](\A r \in Requests, p \in Policies :
                  req[r].pc = "evaluate" /\ MatchPolicy(p, req[r].query) =>
                     MatchStringList(p.methods, "") /\ MatchStringList(p.agents, View(r).path))
  <1> DEFINE AllUnrouted == \A r \in Requests : Unrouted(r)
             Blind == \A r \in Requests, p \in Policies :
                         req[r].pc = "evaluate" /\ MatchPolicy(p, req[r].query) =>
                            MatchStringList(p.methods, "") /\ MatchStringList(p.agents, View(r).path)
  <1>1. AllUnrouted => Blind
    BY DEF Unrouted, MatchPolicy
  <1>2. IInv /\ IInv' /\ AllUnrouted /\ [Next]_vars => AllUnrouted'
    BY NextKeepsUnrouted
  <1>3. Init => AllUnrouted
    BY InitUnrouted
  <1> HIDE DEF AllUnrouted, Blind
  <1>4. Spec => []AllUnrouted
    BY <1>2, <1>3, Inductive, PTL DEF Spec
  <1>5. Spec => []Blind
    BY <1>1, <1>4, PTL
  <1> QED
    BY <1>5 DEF Blind

----------------------------------------------------------------------------
(* What the checks have found stays true. *)

\* u is whom authentication may have found r to be.
IsUser(r, u) ==
    \E fetched \in BOOLEAN :
       LET info == Authenticate(cfg.auth, View(r).cred, fetched) IN info.ok /\ info.user = u

PushAllowed(r) ==
    LET url == ExtractPushURL(View(r)) IN url = NoURL \/ ValidatePushURL(cfg.push, url)

MustBeNew(r) == Guarded(r) /\ cfg.replay.policy = "require"

\* Each check is remembered from the middleware that makes it to the handler.
\* A nonce about to be stored is one: it was not there, and there is one.
Checked(r) ==
    /\ Passed(r, "auth") => IsUser(r, req[r].user)
    /\ Passed(r, "replay") /\ MustBeNew(r) => View(r).nonce \in nonces[Proto(r)] \ {NoNonce}
    /\ req[r].pc = "store" => View(r).nonce # NoNonce
    /\ Passed(r, "ssrf") => PushAllowed(r)

\* Each middleware is passed by its own action.
LEMMA WhoPasses ==
    ASSUME RequestsOK, healthy \subseteq Agents, NEW r \in Requests, Step(r), NEW m, Passes(r, m)
    PROVE  /\ m = "auth" => Auth(r)
           /\ m = "replay" => CheckNonce(r) \/ StoreNonce(r)
           /\ m = "ssrf" => CheckPushURL(r)
  <1>1. ~StandStill
    BY PipelineType DEF StandStill, Same, Passes, RequestsOK, Fine
  <1>2. BuildPipeline[req[r].passed + 1] = m
    BY DEF Passes
  <1>3. CASE GlobalLimit(r) \/ IPLimit(r) \/ UserLimit(r) \/ VerifyJWS(r) \/ ReadPolicies(r)
    <2>1. \E k \in {"global", "ip", "user", "jws", "policy"} : At(r, k)
      BY <1>3 DEF GlobalLimit, IPLimit, UserLimit, VerifyJWS, ReadPolicies
    <2> QED
      BY <1>2, <2>1, AtGives
  <1>4. CASE Judge(r)
    BY <1>2, <1>4 DEF Judge, RequestsOK, Fine
  <1>5. CASE \/ Bypass(r) \/ ServeCard(r) \/ Forward(r) \/ ProxyStream(r)
             \/ AnswerCall(r) \/ StreamMessage(r) \/ DetectMethod(r) \/ TranslateCall(r)
             \/ RouteSingle(r) \/ RoutePathPrefix(r) \/ RouteDefault(r) \/ ForwardUnary(r)
    BY <1>1, <1>5, AnsweringEffect, ToRouterEffect, RouteEffect, ForwardUnaryEffect
  <1>6. CASE Auth(r) \/ CheckNonce(r) \/ StoreNonce(r) \/ CheckPushURL(r)
    <2>1. CASE Auth(r)
      BY <1>2, <2>1, AtGives DEF Auth
    <2>2. CASE CheckNonce(r)
      BY <1>2, <2>2, AtGives DEF CheckNonce
    <2>3. CASE StoreNonce(r)
      BY <1>2, <2>3 DEF StoreNonce, RequestsOK, Fine
    <2>4. CASE CheckPushURL(r)
      BY <1>2, <2>4, AtGives DEF CheckPushURL
    <2> QED
      BY <1>6, <2>1, <2>2, <2>3, <2>4
  <1> QED
    BY <1>3, <1>4, <1>5, <1>6 DEF Step, Quiet

\* Nobody passes a middleware by being refused.
LEMMA NotRefused ==
    ASSUME RequestsOK, cfg' = cfg, NEW r \in Requests, NEW m, Passes(r, m),
           NEW status \in {400, 401, 403, 404, 429, 503}, Refuse(r, status)
    PROVE  FALSE
  <1>1. Same(r)
    BY RefuseEffect DEF StandStill
  <1> QED
    BY <1>1, PipelineType DEF Same, Passes, RequestsOK, Fine

\* Who passes authentication is the user it found.
LEMMA AuthChecks ==
    ASSUME RequestsOK, NEW r \in Requests, Auth(r), Passes(r, "auth")
    PROVE  IsUser(r, req'[r].user)
  <1>1. PICK fetched \in BOOLEAN :
           LET info == Authenticate(cfg.auth, View(r).cred, fetched)
           IN IF info.ok THEN Becomes(r, Onward([req[r] EXCEPT !.user = info.user]))
              ELSE Refuse(r, 401)
    BY DEF Auth
  <1> DEFINE info == Authenticate(cfg.auth, View(r).cred, fetched)
             q == [req[r] EXCEPT !.user = info.user]
  <1>2. cfg' = cfg
    BY DEF Auth
  <1>3. info.ok /\ Becomes(r, Onward(q))
    BY <1>1, <1>2, NotRefused
  <1>4. Record \subseteq DOMAIN q /\ q.user = info.user
    BY DEF RequestsOK, Fine, Record
  <1> HIDE DEF q, info
  <1>5. req'[r].user = info.user
    BY <1>3, <1>4, BecomesGives, OnwardGives DEF Record
  <1> QED
    BY <1>3, <1>5 DEF IsUser, info

\* Who passes the replay detector without storing a nonce needs none.
LEMMA NonceChecks ==
    ASSUME RequestsOK, NEW r \in Requests, CheckNonce(r), Passes(r, "replay")
    PROVE  ~MustBeNew(r)
  <1> DEFINE q == [req[r] EXCEPT !.pc = "store"]
  <1>1. /\ cfg' = cfg
        /\ ~MustBeNew(r) \/ Refuse(r, 400) \/ Refuse(r, 429) \/ Becomes(r, q)
    BY DEF CheckNonce, PassOnWarning, MustBeNew
  <1>2. q.passed = req[r].passed /\ req[r].passed \in Nat
    BY PipelineType DEF RequestsOK, Fine, Record
  <1> HIDE DEF q
  <1>3. ASSUME Becomes(r, q) PROVE FALSE
    BY <1>2, <1>3, BecomesGives DEF Passes
  <1> QED
    BY <1>1, <1>3, NotRefused

\* Who is about to store a nonce has one.
LEMMA StoreHasNonce ==
    ASSUME RequestsOK, NEW r \in Requests, Step(r), req'[r].pc = "store"
    PROVE  View(r).nonce # NoNonce
  <1>1. CheckNonce(r)
    BY StepEnds
  <1>2. \/ PassOn(r) \/ Refuse(r, 400) \/ Refuse(r, 429)
        \/ View(r).nonce \notin nonces[Proto(r)] \cup {NoNonce}
    BY <1>1 DEF CheckNonce, PassOnWarning
  <1>3. ~PassOn(r) /\ ~Refuse(r, 400) /\ ~Refuse(r, 429)
    BY PassOnEnds, RefuseEnds
  <1> QED
    BY <1>2, <1>3

\* A step of r keeps what is known of r.
LEMMA StepChecks ==
    ASSUME IInv, NEW r \in Requests, Checked(r), Step(r)
    PROVE  Checked(r)'
  <1>1. /\ RequestsOK /\ healthy \subseteq Agents /\ cfg' = cfg
        /\ StandStill \/ \E m : Passes(r, m)
    BY StepPasses DEF IInv, HealthOK
  <1>2. Proto(r)' = Proto(r) /\ View(r)' = View(r) /\ Proto(r) \in Protocols
    BY <1>1, NothingUndone, ViewGives DEF RequestsOK, Fine
  <1>3. nonces[Proto(r)] \subseteq nonces'[Proto(r)]
    <2>1. CASE StoreNonce(r)
      BY <1>1, <1>2, <2>1, StoreNonceEffect DEF IInv
    <2>2. CASE ~StoreNonce(r)
      BY <1>1, <2>2, QuietEffect, GlobalLimitEffect, IPLimitEffect, UserLimitEffect DEF Step
    <2> QED
      BY <2>1, <2>2
  <1>4. /\ \A u : IsUser(r, u)' <=> IsUser(r, u)
        /\ PushAllowed(r)' <=> PushAllowed(r)
        /\ MustBeNew(r)' <=> MustBeNew(r)
    BY <1>1, <1>2 DEF IsUser, PushAllowed, MustBeNew, Guarded
  <1>5. (req[r].pc = "store")' => View(r)'.nonce # NoNonce
    BY <1>1, <1>2, StoreHasNonce
  <1>6. CASE StandStill
    <2>1. req'[r].user = req[r].user /\ \A k : Passed(r, k)' <=> Passed(r, k)
      BY <1>1, <1>6, SamePassed DEF StandStill, Same
    <2> QED
      BY <1>2, <1>3, <1>4, <1>5, <2>1 DEF Checked
  <1>7. ASSUME NEW m, Passes(r, m) PROVE Checked(r)'
    <2>1. \A k : Passed(r, k)' <=> Passed(r, k) \/ k = m
      BY <1>1, <1>7, OnePassed
    <2>2. Passed(r, "auth")' => IsUser(r, req[r].user)'
      <3>1. PICK u : u = req'[r].user
        OBVIOUS
      <3>2. Passed(r, "auth")' => IsUser(r, u)
        <4>1. CASE m = "auth"
          BY <1>1, <1>7, <3>1, <4>1, WhoPasses, AuthChecks
        <4>2. CASE m # "auth"
          BY <1>7, <2>1, <3>1, <4>2 DEF Checked, Passes
        <4> QED
          BY <4>1, <4>2
      <3>3. IsUser(r, u)' => IsUser(r, req[r].user)'
        BY <3>1 DEF IsUser
      <3> QED
        BY <1>4, <3>2, <3>3
    <2>3. Passed(r, "replay") \/ m = "replay" =>
             (MustBeNew(r) => View(r).nonce \in nonces'[Proto(r)] \ {NoNonce})
      <3>1. CASE m = "replay" /\ CheckNonce(r)
        BY <1>1, <1>7, <3>1, NonceChecks
      <3>2. CASE StoreNonce(r)
        <4>1. View(r).nonce # NoNonce
          BY <3>2 DEF StoreNonce, Checked
        <4>2. nonces'[Proto(r)] = nonces[Proto(r)] \cup {View(r).nonce}
          BY <1>1, <1>2, <3>2, StoreNonceEffect DEF IInv
        <4> QED
          BY <4>1, <4>2
      <3>3. CASE m # "replay"
        BY <1>3, <3>3 DEF Checked
      <3> QED
        BY <1>1, <1>7, <3>1, <3>2, <3>3, WhoPasses
    <2>4. Passed(r, "ssrf") \/ m = "ssrf" => PushAllowed(r)
      <3>1. CASE m = "ssrf"
        <4>1. CheckPushURL(r)
          BY <1>1, <1>7, <3>1, WhoPasses
        <4>2. PushAllowed(r) \/ Refuse(r, 403)
          BY <4>1 DEF CheckPushURL, PushAllowed
        <4> QED
          BY <1>1, <1>7, <4>2, NotRefused
      <3> QED
        BY <3>1 DEF Checked
    <2> QED
      BY <1>2, <1>4, <1>5, <2>1, <2>2, <2>3, <2>4 DEF Checked
  <1> QED
    BY <1>1, <1>6, <1>7

\* A step of another request does so too: stored nonces stay.
LEMMA OthersKeepChecked ==
    ASSUME IInv, NEW r \in Requests, Checked(r), NEW x \in Requests, x # r, Step(x)
    PROVE  Checked(r)'
  <1>1. /\ RequestsOK /\ healthy \subseteq Agents /\ cfg' = cfg /\ req'[r] = req[r]
    BY StepPasses, StepIsLocal DEF IInv, HealthOK, HistoriesOK
  <1>2. /\ Proto(r)' = Proto(r) /\ View(r)' = View(r) /\ Proto(r) \in Protocols
        /\ \A k : Passed(r, k)' <=> Passed(r, k)
    BY <1>1, SameSeen, SamePassed, ViewGives DEF RequestsOK, Fine, Same
  <1>3. nonces[Proto(r)] \subseteq nonces'[Proto(r)]
    <2>1. CASE StoreNonce(x)
      BY <1>1, <1>2, <2>1, StoreNonceEffect DEF IInv
    <2>2. CASE ~StoreNonce(x)
      BY <1>1, <2>2, QuietEffect, GlobalLimitEffect, IPLimitEffect, UserLimitEffect DEF Step
    <2> QED
      BY <2>1, <2>2
  <1>4. /\ IsUser(r, req[r].user)' <=> IsUser(r, req[r].user)
        /\ PushAllowed(r)' <=> PushAllowed(r)
        /\ MustBeNew(r)' <=> MustBeNew(r)
    BY <1>1, <1>2 DEF IsUser, PushAllowed, MustBeNew, Guarded
  <1> QED
    BY <1>1, <1>2, <1>3, <1>4 DEF Checked

\* All steps of the gateway do.
LEMMA NextKeepsChecked ==
    ASSUME IInv, \A r \in Requests : Checked(r), [Next]_vars
    PROVE  (\A r \in Requests : Checked(r))'
  <1> SUFFICES ASSUME NEW r \in Requests PROVE Checked(r)'
    OBVIOUS
  <1>1. CASE UNCHANGED <<cfg, req, nonces>>
    <2>1. /\ Proto(r)' = Proto(r) /\ View(r)' = View(r)
          /\ \A k : Passed(r, k)' <=> Passed(r, k)
      BY <1>1, SameSeen, SamePassed DEF Same
    <2>2. /\ IsUser(r, req[r].user)' <=> IsUser(r, req[r].user)
          /\ PushAllowed(r)' <=> PushAllowed(r)
          /\ MustBeNew(r)' <=> MustBeNew(r)
      BY <1>1, <2>1 DEF IsUser, PushAllowed, MustBeNew, Guarded
    <2> QED
      BY <1>1, <2>1, <2>2 DEF Checked
  <1>2. CASE ~UNCHANGED <<cfg, req, nonces>>
    <2>1. PICK x \in Requests : Step(x)
      BY <1>2, NextIs DEF HealthChanges, UpdatePolicies, vars
    <2> QED
      BY <2>1, StepChecks, OthersKeepChecked
  <1> QED
    BY <1>1, <1>2

\* Behind the pipeline every middleware has been passed, the last three among
\* them and authentication, whatever the configuration.
LEMMA CheckedMeansHandled == ASSUME IInv, \A r \in Requests : Checked(r) PROVE HandledIsChecked
  <1>1. {"auth", "replay", "ssrf"} \subseteq Members(BuildPipeline)
    BY PipelineInOrder
  <1>2. ASSUME NEW r \in Requests, req[r].pc \in {"handler", "route", "default", "forward", "reply"}
        PROVE  /\ IsUser(r, req[r].user) /\ PushAllowed(r)
               /\ MustBeNew(r) => View(r).nonce \in nonces[Proto(r)] \ {NoNonce}
    <2>1. req[r].passed = Len(BuildPipeline)
      BY <1>2 DEF IInv, RequestsOK, Fine, Through
    <2>2. Passed(r, "auth") /\ Passed(r, "replay") /\ Passed(r, "ssrf")
      BY <1>1, <2>1, PassedAll
    <2> QED
      BY <2>2 DEF Checked
  <1> QED
    BY <1>2 DEF HandledIsChecked, IsUser, PushAllowed, MustBeNew

\* What a request is handled with was checked, and is still so: its user is the
\* one authentication found, its nonce is stored where one is required, and its
\* push notification URL is allowed (auth.go, replay.go, ssrf.go), for both
\* protocols and whatever the configuration leaves out.
THEOREM CheckedCorrect == Spec => []HandledIsChecked
  <1> DEFINE AllChecked == \A r \in Requests : Checked(r)
  <1>1. Init => AllChecked
    <2> SUFFICES ASSUME Init, NEW r \in Requests PROVE Checked(r)
      OBVIOUS
    <2>1. req[r].passed = 0 /\ req[r].pc # "store"
      BY InitRequests
    <2> QED
      BY <2>1 DEF Checked, Passed
  <1>2. IInv /\ AllChecked /\ [Next]_vars => AllChecked'
    BY NextKeepsChecked
  <1>3. IInv /\ AllChecked => HandledIsChecked
    BY CheckedMeansHandled
  <1> HIDE DEF AllChecked
  <1> QED
    BY <1>1, <1>2, <1>3, Inductive, PTL DEF Spec

----------------------------------------------------------------------------
(* The client's address *)

\* A set of numbers that has a bound has a greatest element.
LEMMA Greatest ==
    ASSUME NEW n \in Nat, NEW S \in SUBSET (1 .. n), S # {}
    PROVE  Last(S) \in S /\ \A j \in S : j <= Last(S)
  <1> DEFINE T == {n - i : i \in S}
  <1>1. T \in SUBSET Nat /\ T # {}
    <2>1. \A i \in S : i \in 1 .. n /\ n - i \in Nat
      OBVIOUS
    <2> QED
      BY <2>1
  <1>2. First(T) \in T /\ \A j \in T : First(T) <= j
    BY <1>1, Least
  <1>3. PICK k \in S : First(T) = n - k
    BY <1>2
  <1>4. \A j \in S : n - k <= n - j
    BY <1>2, <1>3
  <1>5. \A j \in S : j <= k
    BY <1>4
  <1> QED
    BY <1>5 DEF Last

\* The address a request is taken to come from is the peer's, or the last
\* X-Forwarded-For entry that is an address and no trusted proxy's; entries
\* count only where there are trusted proxies (clientip.go).
THEOREM ClientAddress ==
    ASSUME NEW remote, NEW S, NEW xff \in Seq(S), NEW proxies
    PROVE  LET ip == TrustedClientIP(remote, xff, proxies)
               Passable(i) == xff[i] = Unparsable \/ xff[i] \in UNION proxies
           IN \/ /\ ip = remote
                 /\ proxies = {} \/ \A i \in DOMAIN xff : Passable(i)
              \/ /\ proxies # {}
                 /\ \E i \in DOMAIN xff :
                       /\ ip = xff[i] /\ ~Passable(i)
                       /\ \A j \in DOMAIN xff : i < j => Passable(j)
  <1> DEFINE untrusted == {i \in DOMAIN xff : xff[i] # Unparsable /\ xff[i] \notin UNION proxies}
             ip == TrustedClientIP(remote, xff, proxies)
  <1>1. Len(xff) \in Nat /\ DOMAIN xff = 1 .. Len(xff)
    BY LenProperties
  <1>2. CASE proxies = {} \/ untrusted = {}
    <2>1. ip = remote
      BY <1>2 DEF TrustedClientIP
    <2> QED
      BY <1>2, <2>1
  <1>3. CASE proxies # {} /\ untrusted # {}
    <2>1. ip = xff[Last(untrusted)]
      BY <1>3 DEF TrustedClientIP
    <2>2. untrusted \in SUBSET (1 .. Len(xff))
      BY <1>1
    <2>3. Last(untrusted) \in untrusted /\ \A j \in untrusted : j <= Last(untrusted)
      BY <1>1, <1>3, <2>2, Greatest
    <2> DEFINE k == Last(untrusted)
    <2>4. k \in DOMAIN xff /\ xff[k] # Unparsable /\ xff[k] \notin UNION proxies
      BY <2>3
    <2> HIDE DEF k, ip
    <2>5. ASSUME NEW j \in DOMAIN xff, k < j PROVE xff[j] = Unparsable \/ xff[j] \in UNION proxies
      <3>1. j \in Nat /\ k \in Nat /\ ~(j <= k)
        BY <1>1, <2>4, <2>5
      <3>2. j \notin untrusted
        BY <2>3, <3>1 DEF k
      <3> QED
        BY <3>2
    <2>6. ip = xff[k]
      BY <2>1 DEF k
    <2> QED
      BY <1>3, <2>4, <2>5, <2>6 DEF ip
  <1> QED
    BY <1>2, <1>3

\* It is one of the addresses a bucket may be kept for.
LEMMA ClientIPAddress ==
    ASSUME NEW r, req[r].shape \in Shapes
    PROVE  ClientIP(r) \in Addresses
  <1> DEFINE s == req[r].shape
  <1>1. ClientIP(r) = TrustedClientIP(s.addr, s.xff, cfg.trusted)
    BY ViewGives DEF ClientIP
  <1>2. s \in Shapes
    OBVIOUS
  <1> DEFINE x == s.xff
             ip == TrustedClientIP(s.addr, x, cfg.trusted)
             entries == {x[i] : i \in DOMAIN x}
  <1> HIDE DEF s
  <1>3. PICK S : x \in Seq(S)
    BY <1>2, ShapesAssumption
  <1> HIDE DEF x
  <1>4. \/ ip = s.addr
        \/ \E i \in DOMAIN x : ip = x[i] /\ ~(x[i] = Unparsable \/ x[i] \in UNION cfg.trusted)
    BY <1>3, ClientAddress
  <1> HIDE DEF ip
  <1>5. ip = s.addr \/ (ip \in entries /\ ip # Unparsable)
    BY <1>4
  <1> HIDE DEF entries
  <1>6. entries \in {{t.xff[i] : i \in DOMAIN t.xff} : t \in Shapes}
    BY <1>2 DEF entries, x
  <1>7. s.addr \in {t.addr : t \in Shapes}
    BY <1>2
  <1>8. ip \in Addresses
    BY <1>5, <1>6, <1>7 DEF Addresses
  <1>9. ip = TrustedClientIP(s.addr, s.xff, cfg.trusted)
    BY DEF ip, x
  <1> QED
    BY <1>1, <1>8, <1>9

----------------------------------------------------------------------------
(* The pipeline as an admission *)

\* Admission has its own copy of the module of finite sets.
LEMMA SameCardinality == \A S : Gate!Cardinality(S) = Cardinality(S)
  BY DEF Gate!Cardinality, Cardinality

Inside == Handled("http") \cup Handled("grpc")

\* The requests let in are those behind the whole pipeline, now
LEMMA InsideIs ==
    ASSUME RequestsOK
    PROVE  /\ Inside = {x \in Requests : req[x].passed = Len(BuildPipeline)}
           /\ \A x \in Requests : Proto(x) \in Protocols
  BY ViewGives DEF Inside, Handled, RequestsOK, Fine, Protocols

\* and after a step.
LEMMA InsideNext ==
    ASSUME RequestsOK', cfg' = cfg
    PROVE  Inside' = {x \in Requests : req'[x].passed = Len(BuildPipeline)}
  <1>1. BuildPipeline' = BuildPipeline
    BY PipelineStays
  <1>2. \A x \in Requests : Proto(x)' \in {"http", "grpc"}
    BY ShapesAssumption DEF RequestsOK, Fine, Proto, Protocols
  <1> QED
    BY <1>1, <1>2 DEF Inside, Handled

\* A request is answered once, where it stands; and refused, never told of a
\* success, while middlewares judge it.
LEMMA StepTells ==
    ASSUME RequestsOK, NEW r \in Requests, Step(r)
    PROVE  /\ req[r].pc # "done"
           /\ req'[r].pc = "done" => Same(r)
           /\ req[r].pc = "mux" => req'[r].pc = "done"
           /\ req[r].pc \in Underway /\ req'[r].pc = "done"
                 => req'[r].answer \in Codes \ {NotYet, 200, OK}
  <1> DEFINE Told == req'[r].pc = "done" /\ Same(r)
             Refused == Told /\ req'[r].answer \in Codes \ {NotYet, 200, OK}
             Onto == req'[r].pc # "done"
  <1>1. Record \subseteq DOMAIN req[r]
    BY DEF RequestsOK, Fine
  <1>2. ASSUME NEW code, Answer(r, code) PROVE Told /\ req'[r].answer = code
    BY <1>1, <1>2, BecomesGives, AnsweredGives DEF Answer, Same, Record
  <1>3. ASSUME NEW status \in {400, 401, 403, 404, 429, 503}, Refuse(r, status) PROVE Refused
    BY <1>2, <1>3, RefusalIsAnswer DEF Refuse
  <1>4. ASSUME PassOn(r) PROVE Onto
    BY <1>4, PassOnEnds
  <1>5. ASSUME NEW q, q.pc # "done", Becomes(r, q) PROVE Onto
    BY <1>5, BecomesGives
  <1>6. CASE GlobalLimit(r) \/ IPLimit(r) \/ UserLimit(r) \/ VerifyJWS(r) \/ StoreNonce(r)
             \/ CheckPushURL(r)
    <2>1. req[r].pc \notin {"done", "mux"}
      BY <1>6 DEF GlobalLimit, IPLimit, UserLimit, VerifyJWS, StoreNonce, CheckPushURL, At
    <2>2. PassOn(r) \/ Refuse(r, 503) \/ Refuse(r, 429) \/ Refuse(r, 403)
      BY <1>6 DEF GlobalLimit, IPLimit, UserLimit, VerifyJWS, StoreNonce, CheckPushURL
    <2> QED
      BY <1>3, <1>4, <2>1, <2>2
  <1>7. CASE Auth(r)
    <2>1. req[r].pc \notin {"done", "mux"}
      BY <1>7 DEF Auth, At
    <2>2. PICK u : Refuse(r, 401) \/ Becomes(r, Onward([req[r] EXCEPT !.user = u]))
      BY <1>7 DEF Auth
    <2>3. Onward([req[r] EXCEPT !.user = u]).pc # "done"
      BY <1>1, OnwardGives
    <2> QED
      BY <1>3, <1>5, <2>1, <2>2, <2>3
  <1>8. CASE ReadPolicies(r)
    <2>1. req[r].pc \notin {"done", "mux"}
      BY <1>8 DEF ReadPolicies, At
    <2>2. PICK now \in Hours :
             Becomes(r, [req[r] EXCEPT !.pc = "evaluate", !.order = policies,
                                       !.query = BuildPolicyRequest(r, now)])
      BY <1>8 DEF ReadPolicies
    <2>3. [req[r] EXCEPT !.pc = "evaluate", !.order = policies,
                         !.query = BuildPolicyRequest(r, now)].pc = "evaluate"
      BY <1>1 DEF Record
    <2>4. Onto
      BY <1>5, <2>2, <2>3
    <2> QED
      BY <2>1, <2>4
  <1>9. CASE Judge(r)
    <2> DEFINE q == [req[r] EXCEPT !.order = <<>>, !.query = NoQuery(req[r].shape)]
    <2>1. /\ req[r].pc = "evaluate"
          /\ Becomes(r, Answered(q, Code(r, 403))) \/ Becomes(r, Onward(q))
      BY <1>9 DEF Judge
    <2>2. /\ Record \subseteq DOMAIN q /\ q.shape = req[r].shape /\ q.passed = req[r].passed
          /\ q.user = req[r].user
      BY <1>1 DEF Record
    <2> HIDE DEF q
    <2>3. Onward(q).pc # "done"
      BY <2>2, OnwardGives
    <2>4. ASSUME Becomes(r, Answered(q, Code(r, 403))) PROVE Refused
      <3>1. req'[r] = Answered(q, Code(r, 403))
        BY <2>4, BecomesGives
      <3>2. /\ req'[r].pc = "done" /\ req'[r].answer = Code(r, 403)
            /\ req'[r].shape = q.shape /\ req'[r].passed = q.passed /\ req'[r].user = q.user
        BY <2>2, <3>1, AnsweredGives DEF Record
      <3> QED
        BY <2>2, <3>2, RefusalIsAnswer DEF Same
    <2> QED
      BY <1>5, <2>1, <2>3, <2>4
  <1>10. CASE CheckNonce(r)
    <2>1. req[r].pc \notin {"done", "mux"}
      BY <1>10 DEF CheckNonce, At
    <2>2. [req[r] EXCEPT !.pc = "store"].pc = "store"
      BY <1>1 DEF Record
    <2>3. PassOn(r) \/ Refuse(r, 400) \/ Refuse(r, 429) \/ Becomes(r, [req[r] EXCEPT !.pc = "store"])
      BY <1>10 DEF CheckNonce, PassOnWarning
    <2> DEFINE q == [req[r] EXCEPT !.pc = "store"]
    <2>4. q.pc # "done" /\ (PassOn(r) \/ Refuse(r, 400) \/ Refuse(r, 429) \/ Becomes(r, q))
      BY <2>2, <2>3
    <2> HIDE DEF q
    <2> QED
      BY <1>3, <1>4, <1>5, <2>1, <2>4
  <1>11. CASE Bypass(r) \/ ServeCard(r) \/ Forward(r) \/ ProxyStream(r) \/ AnswerCall(r) \/ StreamMessage(r)
    <2>1. req[r].pc \notin Underway \cup {"done"}
      BY <1>11 DEF Bypass, ServeCard, Forward, ProxyStream, AnswerCall, StreamMessage, Underway
    <2>2. \E code : Answer(r, code)
      BY <1>11 DEF Bypass, ServeCard, Forward, ProxyStream, AnswerCall, StreamMessage
    <2> QED
      BY <1>2, <2>1, <2>2
  <1>12. CASE DetectMethod(r) \/ TranslateCall(r) \/ ForwardUnary(r)
    <2>1. req[r].pc \notin Underway \cup {"done", "mux"}
      BY <1>12 DEF DetectMethod, TranslateCall, ForwardUnary, Underway
    <2> DEFINE d == [req[r] EXCEPT !.pc = "route", !.method = Detect(req[r].shape)]
               c == [req[r] EXCEPT !.pc = "route", !.method = req[r].shape.rpc,
                                   !.path = [agent |-> NoAgent, rest |-> ""]]
               b == [req[r] EXCEPT !.pc = "reply"]
    <2>2. d.pc # "done" /\ c.pc # "done" /\ b.pc # "done"
      BY <1>1 DEF Record
    <2>3. (\E code : Answer(r, code)) \/ Becomes(r, d) \/ Becomes(r, c) \/ Becomes(r, b)
      BY <1>12 DEF DetectMethod, TranslateCall, ForwardUnary
    <2> HIDE DEF d, c, b
    <2> QED
      BY <1>2, <1>5, <2>1, <2>2, <2>3
  <1>13. CASE RouteSingle(r) \/ RoutePathPrefix(r) \/ RouteDefault(r)
    <2>1. req[r].pc \notin Underway \cup {"done", "mux"}
      BY <1>13 DEF RouteSingle, RoutePathPrefix, RouteDefault, Underway
    <2> DEFINE q == [req[r] EXCEPT !.pc = "default"]
    <2>2. q.pc # "done"
      BY <1>1 DEF Record
    <2>3. (\E a, p : To(r, a, p)) \/ Refuse(r, 503) \/ Refuse(r, 404) \/ Becomes(r, q)
      BY <1>13 DEF RouteSingle, RoutePathPrefix, RouteDefault
    <2>4. ASSUME NEW a, NEW p, To(r, a, p) PROVE Onto
      BY <2>4, ToEnds
    <2> HIDE DEF q
    <2> QED
      BY <1>3, <1>5, <2>1, <2>2, <2>3, <2>4
  <1> QED
    BY <1>6, <1>7, <1>8, <1>9, <1>10, <1>11, <1>12, <1>13 DEF Step, Quiet

\* Nobody is let in at first, nobody answered.
LEMMA InitGate == Init => Gate!Init
  <1> SUFFICES ASSUME Init PROVE Gate!Init
    OBVIOUS
  <1>1. RequestsOK /\ \A r \in Requests : req[r].passed = 0 /\ req[r].pc # "done"
    BY InitRequests
  <1>2. \A r \in Requests : req[r].passed # Len(BuildPipeline)
    BY <1>1, PipelineType
  <1>3. \A r \in Requests : req[r].answer = NotYet
    BY <1>1 DEF RequestsOK, Fine
  <1>4. \A r \in Requests : Proto(r) \in Protocols /\ ClientIP(r) \in Addresses
    BY <1>1, ViewGives, ClientIPAddress DEF RequestsOK, Fine
  <1>5. cfg.global \in Nat /\ cfg.ip \in Nat /\ cfg.user \in Nat
    BY ConfigsAssumption DEF Init
  <1>6. [r \in Requests |-> [proto |-> Proto(r), ip |-> ClientIP(r)]]
           \in [Requests -> [proto : Protocols, ip : Addresses]]
    BY <1>4
  <1>7. Handled("http") \cup Handled("grpc") = {}
    BY <1>2 DEF Handled
  <1>8. [r \in Requests |-> IF req[r].passed = Len(BuildPipeline) THEN req[r].user ELSE Nobody]
           = [r \in Requests |-> Nobody]
    BY <1>2
  <1>9. [r \in Requests |-> req[r].answer] = [r \in Requests |-> NotYet]
    BY <1>3
  <1> QED
    BY <1>5, <1>6, <1>7, <1>8, <1>9 DEF Gate!Init

\* What the admission sees of a request.
SeenUser(x) == IF req[x].passed = Len(BuildPipeline) THEN req[x].user ELSE Nobody
SeenFrom(x) == [proto |-> Proto(x), ip |-> ClientIP(x)]

\* Who is let by the pipeline's side is settled when a request comes.
LEMMA AsideStays ==
    ASSUME cfg' = cfg, \A x \in Requests : req'[x].shape = req[x].shape
    PROVE  {x \in Requests : Bypasses(req[x].shape)}' = {x \in Requests : Bypasses(req[x].shape)}
  BY DEF Bypasses

\* A step the admission does not see.
LEMMA Unseen ==
    ASSUME cfg' = cfg, Inside' = Inside,
           \A x \in Requests : req'[x].shape = req[x].shape /\ SeenUser(x)' = SeenUser(x)
                               /\ req'[x].answer = req[x].answer
    PROVE  UNCHANGED Gate!admissionVars
  <1>1. \A x \in Requests : SeenFrom(x)' = SeenFrom(x)
    BY SameSeen DEF SeenFrom
  <1>2. {x \in Requests : Bypasses(req[x].shape)}' = {x \in Requests : Bypasses(req[x].shape)}
    BY AsideStays
  <1>3. [x \in Requests |-> SeenFrom(x)]' = [x \in Requests |-> SeenFrom(x)]
    BY <1>1
  <1>4. [x \in Requests |-> SeenUser(x)]' = [x \in Requests |-> SeenUser(x)]
    OBVIOUS
  <1>5. [x \in Requests |-> req[x].answer]' = [x \in Requests |-> req[x].answer]
    OBVIOUS
  <1> QED
    BY <1>2, <1>3, <1>4, <1>5 DEF Gate!admissionVars, Inside, SeenFrom, SeenUser

\* An answer is a refusal or a service.
LEMMA AnswerIsTold ==
    ASSUME IInv, IInv', NEW r \in Requests, Step(r), req'[r].pc = "done"
    PROVE  Gate!Refuse(r) \/ Gate!Serve(r)
  <1>1. /\ RequestsOK /\ RequestsOK' /\ cfg' = cfg /\ Fine(req[r]) /\ Fine(req[r])'
        /\ \A x \in Requests \ {r} : req'[x] = req[x]
        /\ Same(r) /\ req[r].pc # "done" /\ req[r].answer = NotYet
    BY StepTells, StepPasses, StepIsLocal DEF IInv, HistoriesOK, HealthOK, RequestsOK, Fine
  <1>2. \A x \in Requests : Same(x)
    BY <1>1 DEF Same
  <1>3. Inside' = Inside /\ \A x \in Requests : SeenUser(x)' = SeenUser(x) /\ SeenFrom(x)' = SeenFrom(x)
    <2>1. \A x \in Requests : SeenFrom(x)' = SeenFrom(x)
      BY <1>1, <1>2, SameSeen DEF Same, SeenFrom
    <2>2. Inside' = Inside
      BY <1>1, <1>2, InsideIs, InsideNext DEF Same
    <2>3. \A x \in Requests : SeenUser(x)' = SeenUser(x)
      BY <1>1, <1>2, PipelineStays DEF Same, SeenUser
    <2> QED
      BY <2>1, <2>2, <2>3
  <1> DEFINE told == [x \in Requests |-> req[x].answer]
             a == req'[r].answer
  <1>4. told' = [told EXCEPT ![r] = a] /\ a \in Codes \ {NotYet}
    <2>1. a \in Codes \ {NotYet}
      BY <1>1 DEF RequestsOK, Fine
    <2> QED
      BY <1>1, <2>1
  <1>5. /\ [x \in Requests |-> SeenFrom(x)]' = [x \in Requests |-> SeenFrom(x)]
        /\ [x \in Requests |-> SeenUser(x)]' = [x \in Requests |-> SeenUser(x)]
        /\ {x \in Requests : Bypasses(req[x].shape)}' = {x \in Requests : Bypasses(req[x].shape)}
    <2>1. \A x \in Requests : req'[x].shape = req[x].shape
      BY <1>2 DEF Same
    <2> QED
      BY <1>1, <1>3, <2>1, AsideStays
  <1>6. ASSUME NEW S, a \in S PROVE Gate!Tell(r, S)
    BY <1>1, <1>3, <1>4, <1>5, <1>6 DEF Gate!Tell, Inside, SeenFrom, SeenUser
  <1>7. CASE req[r].pc \in Underway
    <2>1. a \in Codes \ {NotYet, 200, OK}
      BY <1>7, StepTells DEF IInv
    <2>2. r \notin Inside /\ ~Bypasses(req[r].shape)
      <3>1. req[r].passed < Len(BuildPipeline) /\ req[r].passed # Len(BuildPipeline)
        BY <1>1, <1>7, PipelineType DEF Fine
      <3>2. ~Bypasses(req[r].shape)
        BY <1>1, <1>7 DEF Fine, Underway
      <3> QED
        BY <1>1, <3>1, <3>2, InsideIs
    <2>3. Gate!Waiting(r)
      BY <1>1, <2>2 DEF Gate!Waiting, Inside
    <2> QED
      BY <1>6, <2>1, <2>3 DEF Gate!Refuse
  <1>8. CASE req[r].pc \notin Underway
    <2>1. r \in Inside \/ Bypasses(req[r].shape)
      <3>1. CASE req[r].pc = "mux"
        BY <1>1, <3>1 DEF Fine
      <3>2. CASE req[r].pc # "mux"
        <4>1. req[r].pc \in Through
          BY <1>1, <1>8, <3>2 DEF Fine, Stages, Underway, Through
        <4> QED
          BY <1>1, <4>1, InsideIs DEF Fine
      <3> QED
        BY <3>1, <3>2
    <2> QED
      BY <1>1, <1>4, <1>6, <2>1 DEF Gate!Serve, Inside
  <1> QED
    BY <1>7, <1>8

\* What BudgetHeld says of the next state.
LEMMA BudgetNext ==
    ASSUME BudgetHeld', cfg' = cfg, NEW p \in Protocols
    PROVE  /\ cfg.global > 0 => Cardinality(Handled(p)') <= cfg.global
           /\ cfg.ip > 0 => \A a \in Addresses :
                 Cardinality({x \in Handled(p)' : ClientIP(x)' = a}) <= cfg.ip
           /\ cfg.user > 0 => \A u \in Users \ {Nobody} :
                 Cardinality({x \in Handled(p)' : req'[x].user = u}) <= cfg.user
  BY DEF BudgetHeld

\* The last middleware behind it, a request is let in: that the budgets have
\* room for it is what BudgetHeld says of the state it steps into.
LEMMA LastPassAdmits ==
    ASSUME IInv, IInv', BudgetHeld', NEW r \in Requests, Step(r), NEW m, Passes(r, m),
           req[r].passed + 1 = Len(BuildPipeline), NEW u, u = req'[r].user
    PROVE  Gate!Admit(r, u)
  <1>p. PICK p : p = Proto(r)
    OBVIOUS
  <1>a. PICK a : a = ClientIP(r)
    OBVIOUS
  <1>1. /\ RequestsOK /\ RequestsOK' /\ cfg' = cfg /\ Fine(req[r])
        /\ BuildPipeline' = BuildPipeline /\ Len(BuildPipeline) \in Nat
        /\ \A x \in Requests \ {r} : req'[x] = req[x]
    BY StepPasses, StepIsLocal, PipelineStays, PipelineType DEF IInv, HistoriesOK, HealthOK, RequestsOK
  <1>2. /\ req'[r].pc # "done" /\ req[r].pc \in Underway /\ req[r].answer = NotYet
        /\ req'[r].answer = NotYet
    <2>1. ~Same(r)
      BY <1>1 DEF Same, Passes, Fine
    <2>2. req'[r].pc # "done" /\ req[r].pc # "done" /\ req[r].pc # "mux"
      BY <1>1, <2>1, StepTells
    <2>3. req[r].pc \notin Through
      BY <1>1 DEF Passes, Fine
    <2> QED
      BY <1>1, <2>2, <2>3 DEF RequestsOK, Fine, Stages, Underway, Through
  <1>3. r \notin Inside /\ Inside' = Inside \cup {r}
    <2>1. /\ Inside = {x \in Requests : req[x].passed = Len(BuildPipeline)}
          /\ Inside' = {x \in Requests : req'[x].passed = Len(BuildPipeline)}
      BY <1>1, InsideIs, InsideNext
    <2> QED
      BY <1>1, <2>1 DEF Passes
  <1>4. \A x \in Requests : Proto(x)' = Proto(x) /\ ClientIP(x)' = ClientIP(x)
                            /\ req'[x].shape = req[x].shape
    BY <1>1, SameSeen DEF Passes, Same
  <1>5. p \in Protocols /\ a \in Addresses /\ u \in Users
    BY <1>1, <1>p, <1>a, InsideIs, ClientIPAddress DEF RequestsOK, Fine
  <1> DEFINE like == {x \in Inside : Proto(x) = p}
             near == {x \in like : ClientIP(x) = a}
             same == {x \in like : SeenUser(x) = u}
  <1>6. /\ Handled(p)' = like \cup {r} /\ r \notin like
        /\ \A x \in like : SeenUser(x) = req[x].user /\ req'[x] = req[x]
    <2>1. /\ Inside = {x \in Requests : req[x].passed = Len(BuildPipeline)}
          /\ Inside' = {x \in Requests : req'[x].passed = Len(BuildPipeline)}
      BY <1>1, InsideIs, InsideNext
    <2>2. Handled(p)' = {x \in Inside' : Proto(x) = p}
      BY <1>1, <1>4, <2>1 DEF Handled
    <2>3. \A x \in like : SeenUser(x) = req[x].user
      BY <2>1 DEF SeenUser
    <2>4. \A x \in like : req'[x] = req[x]
      BY <1>1, <1>3, <2>1
    <2> QED
      BY <1>3, <1>p, <2>2, <2>3, <2>4
  <1>7. {x \in Handled(p)' : ClientIP(x)' = a} = near \cup {r}
    <2>1. \A x \in like \cup {r} : ClientIP(x)' = ClientIP(x)
      BY <1>1, <1>4, InsideIs
    <2> QED
      BY <1>6, <1>a, <2>1
  <1>8. {x \in Handled(p)' : req'[x].user = u} = same \cup {r}
    BY <1>6
  <1>9. like \in SUBSET Requests /\ near \in SUBSET like /\ same \in SUBSET like
    BY <1>1, InsideIs
  <1> HIDE DEF like, near, same
  <1>10. /\ cfg.global > 0 => Cardinality(like) < cfg.global
         /\ cfg.ip > 0 => Cardinality(near) < cfg.ip
         /\ cfg.user > 0 /\ u # Nobody => Cardinality(same) < cfg.user
    <2>1. /\ Cardinality(like) \in Nat /\ Cardinality(like \cup {r}) = Cardinality(like) + 1
          /\ Cardinality(near) \in Nat /\ Cardinality(near \cup {r}) = Cardinality(near) + 1
          /\ Cardinality(same) \in Nat /\ Cardinality(same \cup {r}) = Cardinality(same) + 1
      BY <1>6, <1>9, CountOne
    <2>2. cfg.global \in Nat /\ cfg.ip \in Nat /\ cfg.user \in Nat
      BY ConfigsAssumption DEF IInv
    <2>3. cfg.global > 0 => Cardinality(like \cup {r}) <= cfg.global
      BY <1>1, <1>5, <1>6, BudgetNext
    <2>4. cfg.ip > 0 => Cardinality(near \cup {r}) <= cfg.ip
      <3>1. cfg.ip > 0 => Cardinality({x \in Handled(p)' : ClientIP(x)' = a}) <= cfg.ip
        BY <1>1, <1>5, BudgetNext
      <3> QED
        BY <1>7, <3>1
    <2>5. cfg.user > 0 /\ u # Nobody => Cardinality(same \cup {r}) <= cfg.user
      <3>1. cfg.user > 0 /\ u # Nobody => Cardinality({x \in Handled(p)' : req'[x].user = u}) <= cfg.user
        BY <1>1, <1>5, BudgetNext
      <3> QED
        BY <1>8, <3>1
    <2> QED
      BY <2>1, <2>2, <2>3, <2>4, <2>5
  <1>11. Gate!Room(r, u)
    <2>1. Gate!Like(r) = like
      BY <1>1, <1>p, InsideIs DEF Gate!Like, like, Inside
    <2>2. Gate!Near(r) = near
      BY <1>1, <1>a, <2>1, InsideIs DEF Gate!Near, near, like
    <2>3. {x \in Gate!Like(r) :
             [y \in Requests |-> IF req[y].passed = Len(BuildPipeline) THEN req[y].user ELSE Nobody][x] = u}
             = same
      BY <1>9, <2>1 DEF same, SeenUser
    <2> QED
      BY <1>10, <2>1, <2>2, <2>3, SameCardinality DEF Gate!Room
  <1>12. Gate!Waiting(r)
    <2>1. ~Bypasses(req[r].shape)
      BY <1>1, <1>2 DEF Fine, Underway
    <2> QED
      BY <1>2, <1>3, <2>1 DEF Gate!Waiting, Inside
  <1> DEFINE users == [x \in Requests |-> SeenUser(x)]
  <1>13. users' = [users EXCEPT ![r] = u]
    <2>1. \A x \in Requests \ {r} : SeenUser(x)' = SeenUser(x)
      BY <1>1 DEF SeenUser
    <2>2. SeenUser(r)' = u
      BY <1>1 DEF SeenUser, Passes
    <2> QED
      BY <2>1, <2>2
  <1>14. /\ [x \in Requests |-> SeenFrom(x)]' = [x \in Requests |-> SeenFrom(x)]
         /\ {x \in Requests : Bypasses(req[x].shape)}' = {x \in Requests : Bypasses(req[x].shape)}
         /\ [x \in Requests |-> req[x].answer]' = [x \in Requests |-> req[x].answer]
    <2>1. \A x \in Requests : SeenFrom(x)' = SeenFrom(x) /\ req'[x].answer = req[x].answer
      BY <1>1, <1>2, <1>4 DEF SeenFrom
    <2>2. \A x \in Requests : req'[x].shape = req[x].shape
      BY <1>1, <1>4
    <2> QED
      BY <1>1, <2>1, <2>2, AsideStays
  <1>15. Gate!Admit(r, u)
    BY <1>1, <1>3, <1>11, <1>12, <1>13, <1>14 DEF Gate!Admit, Inside, SeenFrom, SeenUser
  <1> QED
    BY <1>15

\* One step of the gateway is one of the admission, or none it sees.
LEMMA NextIsAdmission ==
    ASSUME IInv, IInv', BudgetHeld', [Next]_vars
    PROVE  [Gate!Next]_(Gate!admissionVars)
  <1>1. CASE UNCHANGED <<cfg, req>>
    <2>1. Inside' = Inside
      BY <1>1, InsideIs, InsideNext DEF IInv
    <2>2. \A x \in Requests : SeenUser(x)' = SeenUser(x)
      BY <1>1, PipelineStays DEF SeenUser
    <2> QED
      BY <1>1, <2>1, <2>2, Unseen
  <1>2. ASSUME NEW r \in Requests, Step(r) PROVE [Gate!Next]_(Gate!admissionVars)
    <2>1. /\ RequestsOK /\ RequestsOK' /\ cfg' = cfg /\ BuildPipeline' = BuildPipeline
          /\ \A x \in Requests \ {r} : req'[x] = req[x]
          /\ StandStill \/ \E m : Passes(r, m)
      BY <1>2, StepPasses, StepIsLocal, PipelineStays DEF IInv, HistoriesOK, HealthOK
    <2>2. CASE req'[r].pc = "done"
      BY <1>2, <2>2, AnswerIsTold DEF Gate!Next
    <2>3. CASE req'[r].pc # "done" /\ StandStill
      <3>1. \A x \in Requests : req'[x].shape = req[x].shape /\ SeenUser(x)' = SeenUser(x)
        BY <2>1, <2>3 DEF StandStill, Same, SeenUser
      <3>2. Inside' = Inside
        BY <2>1, <2>3, InsideIs, InsideNext DEF StandStill, Same
      <3>3. \A x \in Requests : req'[x].answer = req[x].answer
        <4>1. req[r].pc # "done"
          BY <1>2, <2>1, StepTells
        <4>2. req'[r].answer = NotYet /\ req[r].answer = NotYet
          BY <2>1, <2>3, <4>1 DEF RequestsOK, Fine
        <4> QED
          BY <2>1, <4>2
      <3> QED
        BY <2>1, <3>1, <3>2, <3>3, Unseen
    <2>4. CASE req'[r].pc # "done" /\ \E m : Passes(r, m)
      <3>1. PICK m : Passes(r, m)
        BY <2>4
      <3>2. CASE req[r].passed + 1 = Len(BuildPipeline)
        <4>1. PICK u : u = req'[r].user
          OBVIOUS
        <4>2. Gate!Admit(r, u)
          BY <1>2, <3>1, <3>2, <4>1, LastPassAdmits
        <4>3. u \in Users
          BY <2>1, <4>1 DEF RequestsOK, Fine
        <4> QED
          BY <4>2, <4>3 DEF Gate!Next
      <3>3. CASE req[r].passed + 1 # Len(BuildPipeline)
        <4>1. /\ \A x \in Requests : req'[x].shape = req[x].shape
              /\ \A x \in Requests \ {r} : SeenUser(x)' = SeenUser(x)
          BY <2>1, <3>1 DEF Passes, Same, SeenUser
        <4>2. /\ req[r].passed # Len(BuildPipeline) /\ req'[r].passed # Len(BuildPipeline)
              /\ SeenUser(r)' = SeenUser(r)
          BY <2>1, <3>1, <3>3, PipelineType DEF Passes, SeenUser
        <4>3. Inside' = Inside
          BY <2>1, <4>2, InsideIs, InsideNext
        <4>4. \A x \in Requests : req'[x].answer = req[x].answer
          <5>1. req[r].pc # "done"
            BY <1>2, <2>1, StepTells
          <5>2. req'[r].answer = NotYet /\ req[r].answer = NotYet
            BY <2>1, <2>4, <5>1 DEF RequestsOK, Fine
          <5> QED
            BY <2>1, <5>2
        <4> QED
          BY <2>1, <4>1, <4>2, <4>3, <4>4, Unseen
      <3> QED
        BY <3>2, <3>3
    <2> QED
      BY <2>1, <2>2, <2>3, <2>4
  <1>3. CASE UNCHANGED vars
    BY <1>1, <1>3 DEF vars
  <1>4. CASE (\E a \in Agents : HealthChanges(a)) \/ UpdatePolicies
    BY <1>1, <1>4 DEF HealthChanges, UpdatePolicies
  <1> QED
    BY <1>2, <1>3, <1>4, NextIs

\* The security pipeline, with its buckets asked one after the other by
\* requests that overtake one another, is an admission: as if every request
\* were let in, and all its budgets charged, in one step.
THEOREM PipelineImplementsAdmission == Spec => AdmissionSpec
  <1>1. IInv /\ IInv' /\ BudgetHeld' /\ [Next]_vars => [Gate!Next]_(Gate!admissionVars)
    BY NextIsAdmission
  <1> QED
    BY Inductive, BudgetCorrect, InitGate, <1>1, PTL DEF Spec, Gate!Spec, AdmissionSpec
=============================================================================
