----------------------------- MODULE GatewayProofs ----------------------------
(***************************************************************************)
(* Theorems about Gateway, for any number of connections, any requests,    *)
(* any body limit and burst, and however the service is put together: the  *)
(* body limit holds, a request gets one response, and what observability   *)
(* says of it is true.                                                     *)
(***************************************************************************)
EXTENDS Gateway, TLAPS

(* The gates that answer before anything of the body is read.              *)
Before == {"auth", "limit", "cors", "observe"}
Refusals == {401, 403, 429, 204}

(* The application may send a response of its own.                         *)
InApp == {"app", "handle", "stream"}

(* Where a request is says what was read of it and what was sent.          *)
StageInv(c) ==
    /\ stage[c] \in Before =>
          resp[c] = NoResponse /\ left[c] = req[c].chunks /\ got[c] = 0 /\ seen[c] = 0
    /\ stage[c] = "app" =>
          /\ Limited(c) => got[c] = seen[c]
          /\ resp[c] = NoResponse \/ (~setup.api /\ resp[c].starts = 1 /\ resp[c].status = 200)
    /\ stage[c] = "handle" => setup.api /\ resp[c] = NoResponse
    /\ stage[c] = "stream" => setup.api /\ resp[c].starts = 1
    /\ stage[c] = "toolarge" =>
          ~setup.api /\ resp[c].starts \in {0, 1} /\ resp[c].status \in {0, 200}
    /\ stage[c] = "done" => resp[c].starts = 1 /\ resp[c].whole
    /\ resp[c].starts <= 1
    /\ resp[c].starts = 0 => resp[c].status = 0
    /\ resp[c].status \in Refusals => stage[c] \in {"idle", "done"}

ResponseInv(c) == resp[c].starts > 0 => OriginHonest(c)

BodyInv(c) ==
    /\ Limited(c) => got[c] <= Cap
    /\ resp[c].status \in Refusals => left[c] = req[c].chunks

(* The id a task has set is its own.                                       *)
IdInv(c) ==
    /\ stage[c] \in InApp /\ setup.api => context[c] = c
    /\ logged[c] \in {c, Nobody}

ConnInv(c) ==
    StageInv(c) /\ ResponseInv(c) /\ BodyInv(c) /\ IdInv(c) /\ CountedOnce(c)

GatewayInv == TypeOK /\ \A c \in Conns : ConnInv(c)
-------------------------------------------------------------------------------
(* A step of the connection c leaves the others alone.                     *)
Same(d) ==
    /\ stage'[d] = stage[d] /\ req'[d] = req[d] /\ left'[d] = left[d]
    /\ seen'[d] = seen[d] /\ got'[d] = got[d] /\ resp'[d] = resp[d]
    /\ counted'[d] = counted[d] /\ context'[d] = context[d]
    /\ logged'[d] = logged[d]
Only(c) == setup' = setup /\ \A d \in Conns \ {c} : Same(d)

LEMMA Elsewhere ==
    ASSUME NEW d, setup' = setup, Same(d), ConnInv(d)
    PROVE  ConnInv(d)'
BY DEF Same, ConnInv, StageInv, ResponseInv, BodyInv, IdInv, CountedOnce,
       OriginHonest, Allowed, Limited

LEMMA Steps ==
    ASSUME GatewayInv, NEW c \in Conns, TypeOK', Only(c), ConnInv(c)'
    PROVE  GatewayInv'
BY Elsewhere DEF GatewayInv, Only

LEMMA RequestType ==
    ASSUME NEW r \in Requests \cup {NoRequest}
    PROVE  /\ r.chunks \in Seq(Nat) /\ r.method \in Methods /\ r.origin \in Origins
           /\ r.firm \in BOOLEAN
<1>1. CASE r \in Requests
  BY <1>1, GatewayAssumption
<1>2. CASE r = NoRequest
  BY <1>2 DEF NoRequest, Methods, Origins
<1> QED
  BY <1>1, <1>2

LEMMA SuffixWhole == ASSUME NEW s \in Seq(Nat) PROVE IsSuffix(s, s)
<1>1. s = SubSeq(s, 0 + 1, Len(s))
  OBVIOUS
<1>2. 0 \in 0..Len(s)
  OBVIOUS
<1> QED
  BY <1>1, <1>2 DEF IsSuffix

LEMMA SuffixTail ==
    ASSUME NEW t \in Seq(Nat), NEW s \in Seq(Nat), IsSuffix(s, t), s # <<>>
    PROVE  IsSuffix(Tail(s), t) /\ Tail(s) \in Seq(Nat) /\ Head(s) \in Nat
<1>1. PICK n \in 0..Len(t) : s = SubSeq(t, n + 1, Len(t))
  BY DEF IsSuffix
<1>2. n < Len(t)
  BY <1>1
<1>3. Tail(s) = SubSeq(t, (n + 1) + 1, Len(t))
  BY <1>1, <1>2
<1>4. n + 1 \in 0..Len(t)
  BY <1>2
<1>5. IsSuffix(Tail(s), t)
  BY <1>3, <1>4 DEF IsSuffix
<1>6. Tail(s) \in Seq(Nat) /\ Head(s) \in Nat
  OBVIOUS
<1> QED
  BY <1>5, <1>6
-------------------------------------------------------------------------------
LEMMA InitGateway == Init => GatewayInv
<1> SUFFICES ASSUME Init PROVE GatewayInv
  OBVIOUS
<1>1. NoRequest.chunks = <<>> /\ NoRequest.method = "GET" /\ <<>> \in Seq(Nat)
  BY DEF NoRequest
<1>2. TypeOK
  <2>1. IsSuffix(<<>>, NoRequest.chunks)
    BY <1>1, SuffixWhole
  <2> QED
    BY <1>1, <2>1, GatewayAssumption
       DEF Init, TypeOK, Stages, Response, NoResponse
<1>3. ASSUME NEW c \in Conns PROVE ConnInv(c)
  BY <1>1, GatewayAssumption
     DEF Init, ConnInv, StageInv, ResponseInv, BodyInv, IdInv, CountedOnce,
         NoResponse, Before, InApp, Refusals, Limited
<1> QED
  BY <1>2, <1>3 DEF GatewayInv

LEMMA ArriveStep ==
    ASSUME GatewayInv, NEW c \in Conns, NEW r \in Requests, Arrive(c, r)
    PROVE  GatewayInv'
<1>1. r.chunks \in Seq(Nat) /\ IsSuffix(r.chunks, r.chunks)
  BY RequestType, SuffixWhole
<1>2. TypeOK'
  BY <1>1 DEF GatewayInv, TypeOK, Arrive, Goto, Stages, Response, NoResponse
<1>3. Only(c)
  BY DEF GatewayInv, TypeOK, Arrive, Goto, Only, Same
<1>4. ConnInv(c)'
  BY GatewayAssumption
     DEF GatewayInv, TypeOK, Arrive, Goto, ConnInv, StageInv, ResponseInv,
         BodyInv, IdInv, CountedOnce, NoResponse, Before, InApp, Refusals, Limited
<1> QED
  BY <1>2, <1>3, <1>4, Steps

LEMMA ClientStep ==
    ASSUME GatewayInv, NEW c \in Conns, GoAway(c) \/ Reconnect(c) \/ Refill(c) \/ Log(c)
    PROVE  GatewayInv'
<1>1. TypeOK'
  <2> USE DEF GatewayInv, TypeOK
  <2>1. CASE GoAway(c)
    BY <2>1 DEF GoAway
  <2>2. CASE Reconnect(c)
    BY <2>2, GatewayAssumption DEF Reconnect, Goto, Stages
  <2>3. CASE Refill(c)
    <3>1. tokens' \in [Conns -> 0..Burst]
      BY <2>3, GatewayAssumption DEF Refill
    <3> QED
      BY <2>3, <3>1 DEF Refill, body
  <2>4. CASE Log(c)
    BY <2>4 DEF Log, body
  <2> QED
    BY <2>1, <2>2, <2>3, <2>4
<1>2. Only(c)
  BY DEF GatewayInv, TypeOK, GoAway, Reconnect, Refill, Log, Goto, Only, Same, body
<1>3. CASE GoAway(c) \/ Refill(c)
  BY <1>1, <1>2, <1>3, Elsewhere, Steps DEF GatewayInv, GoAway, Refill, body, Same
<1>4. CASE Reconnect(c)
  <2>1. /\ stage'[c] = "idle" /\ stage[c] \in {"done", "closed"}
        /\ UNCHANGED <<setup, req, left, seen, got, resp, counted, context, logged>>
    BY <1>4 DEF GatewayInv, TypeOK, Reconnect, Goto
  <2>2. ConnInv(c)'
    BY <2>1 DEF GatewayInv, ConnInv, StageInv, ResponseInv, BodyInv, IdInv,
                CountedOnce, OriginHonest, Allowed, Before, InApp, Limited
  <2> QED
    BY <1>1, <1>2, <2>2, Steps
<1>5. CASE Log(c)
  <2>1. /\ logged'[c] = context[c] /\ stage[c] \in InApp /\ setup.api
        /\ UNCHANGED <<setup, stage, req, left, seen, got, resp, counted, context>>
    BY <1>5 DEF GatewayInv, TypeOK, Log, body, InApp
  <2>2. ConnInv(c)'
    BY <2>1 DEF GatewayInv, ConnInv, StageInv, ResponseInv, BodyInv, IdInv,
                CountedOnce, OriginHonest, Allowed, Limited
  <2> QED
    BY <1>1, <1>2, <2>2, Steps
<1> QED
  BY <1>3, <1>4, <1>5

LEMMA EchoHonest ==
    ASSUME NEW c
    PROVE  /\ Echo(c) \in {"none", "origin", "any"}
           /\ Echo(c) = "origin" <=> Allowed(req[c].origin)
BY DEF Echo, Allowed

LEMMA Nothing == NoResponse.starts = 0 /\ NoResponse.status = 0
BY DEF NoResponse

(* A response that is begun.                                               *)
LEMMA StartedType ==
    ASSUME NEW c, resp[c] \in Response, resp[c].starts = 0,
           NEW status \in Nat, NEW echo \in {"none", "origin", "any"}
    PROVE  /\ Started(c, status, echo) \in Response
           /\ Started(c, status, echo).starts = 1
           /\ Started(c, status, echo).status = status
           /\ Started(c, status, echo).echo = echo
BY DEF Started, Response

LEMMA WholeType ==
    ASSUME NEW s \in Response
    PROVE  LET w == [s EXCEPT !.whole = TRUE]
           IN  /\ w \in Response /\ w.whole
               /\ w.starts = s.starts /\ w.status = s.status /\ w.echo = s.echo
BY DEF Response

(* A whole response that a gate or the limit sends before any other.       *)
LEMMA AnswerStep ==
    ASSUME GatewayInv, NEW c \in Conns, NEW status \in Refusals \cup {413},
           NEW echo \in {"none", "origin", "any"},
           resp[c].starts = 0, counted[c] = <<>>,
           status = 413 => ~setup.api /\ (Allowed(req[c].origin) => echo = "origin"),
           status # 413 => left[c] = req[c].chunks,
           echo = "origin" => Allowed(req[c].origin),
           Answer(c, status, echo), Goto(c, "done"),
           UNCHANGED <<setup, tokens, req, body, counted, context, logged>>
    PROVE  GatewayInv'
<1>1. /\ stage'[c] = "done"
      /\ resp'[c].starts = 1 /\ resp'[c].status = status /\ resp'[c].echo = echo
      /\ resp'[c].whole
      /\ resp' \in [Conns -> Response] /\ stage' \in [Conns -> Stages]
  <2> DEFINE r == [Started(c, status, echo) EXCEPT !.whole = TRUE]
  <2>1. resp \in [Conns -> Response] /\ stage \in [Conns -> Stages]
    BY DEF GatewayInv, TypeOK
  <2>2. resp[c] \in Response /\ status \in Nat
    BY <2>1 DEF Refusals
  <2>3. /\ r \in Response /\ r.starts = 1 /\ r.status = status /\ r.echo = echo
        /\ r.whole
    BY <2>2, StartedType, WholeType
  <2>4. resp' = [resp EXCEPT ![c] = r]
    BY DEF Answer
  <2> QED
    BY <2>1, <2>3, <2>4 DEF Goto, Stages
<1>2. TypeOK'
  BY <1>1 DEF GatewayInv, TypeOK, body
<1>3. Only(c)
  BY DEF GatewayInv, TypeOK, Answer, Goto, Only, Same, body
<1>4. ConnInv(c)'
  <2>1. ConnInv(c) /\ req' = req /\ left' = left /\ got' = got /\ setup' = setup
    BY DEF GatewayInv, body
  <2>2. StageInv(c)'
    BY <1>1 DEF StageInv, Before
  <2>3. ResponseInv(c)'
    BY <1>1, <2>1 DEF ResponseInv, OriginHonest, Allowed, Refusals
  <2>4. BodyInv(c)'
    BY <1>1, <2>1 DEF ConnInv, BodyInv, Refusals, Limited
  <2>5. IdInv(c)'
    BY <1>1, <2>1 DEF ConnInv, IdInv, InApp
  <2>6. CountedOnce(c)'
    BY <1>1, <2>1 DEF CountedOnce, Refusals
  <2> QED
    BY <2>2, <2>3, <2>4, <2>5, <2>6 DEF ConnInv
<1> QED
  BY <1>2, <1>3, <1>4, Steps

(* A gate lets the request through.                                        *)
LEMMA PassStep ==
    ASSUME GatewayInv, NEW c \in Conns, NEW to \in {"limit", "cors", "observe", "app"},
           stage[c] \in Before, Goto(c, to),
           UNCHANGED <<setup, req, body, resp, counted, logged>>,
           tokens' \in [Conns -> 0..Burst],
           \/ context' = context /\ (to = "app" => ~setup.api)
           \/ context' = SetId(c)
    PROVE  GatewayInv'
<1>1. /\ stage'[c] = to /\ stage' \in [Conns -> Stages]
      /\ context' \in [Conns -> Conns \cup {Nobody}]
      /\ to = "app" /\ setup.api => context'[c] = c
  <2>1. stage \in [Conns -> Stages] /\ context \in [Conns -> Conns \cup {Nobody}]
    BY DEF GatewayInv, TypeOK
  <2>2. stage'[c] = to /\ stage' \in [Conns -> Stages]
    BY <2>1 DEF Goto, Stages
  <2> QED
    BY <2>1, <2>2 DEF SetId
<1>2. TypeOK'
  BY <1>1 DEF GatewayInv, TypeOK, body
<1>3. Only(c)
  BY DEF GatewayInv, TypeOK, Goto, Only, Same, body, SetId
<1>4. ConnInv(c)'
  BY <1>1 DEF GatewayInv, ConnInv, StageInv, ResponseInv, BodyInv, IdInv, body,
              CountedOnce, OriginHonest, Allowed, Limited, Before, InApp, NoResponse
<1> QED
  BY <1>2, <1>3, <1>4, Steps

LEMMA GateStep ==
    ASSUME GatewayInv, NEW c \in Conns,
           Authenticate(c) \/ RateLimit(c) \/ Preflight(c) \/ Observe(c)
    PROVE  GatewayInv'
<1>1. stage[c] \in Before
  BY DEF Authenticate, RateLimit, Preflight, Observe, Before
<1>2. /\ resp[c] = NoResponse /\ resp[c].starts = 0 /\ left[c] = req[c].chunks
      /\ counted[c] = <<>>
  <2>1. StageInv(c) /\ CountedOnce(c)
    BY DEF GatewayInv, ConnInv
  <2> QED
    BY <1>1, <2>1 DEF StageInv, CountedOnce, NoResponse
<1>3. tokens \in [Conns -> 0..Burst]
  BY DEF GatewayInv, TypeOK
<1>4. CASE Authenticate(c)
  BY <1>1, <1>2, <1>3, <1>4, PassStep, AnswerStep DEF Authenticate, Refusals
<1>5. CASE RateLimit(c)
  <2>1. CASE tokens[c] > 0
    <3>1. tokens' \in [Conns -> 0..Burst]
      BY <1>3, <1>5, <2>1, GatewayAssumption DEF RateLimit
    <3> QED
      BY <1>1, <1>5, <2>1, <3>1, PassStep DEF RateLimit
  <2>2. CASE ~(tokens[c] > 0)
    BY <1>2, <1>5, <2>2, AnswerStep DEF RateLimit, Refusals
  <2> QED
    BY <2>1, <2>2
<1>6. CASE Preflight(c)
  BY <1>1, <1>2, <1>3, <1>6, PassStep, AnswerStep DEF Preflight, Refusals
<1>7. CASE Observe(c)
  BY <1>1, <1>3, <1>7, PassStep DEF Observe
<1> QED
  BY <1>4, <1>5, <1>6, <1>7

(* The statuses a response of the API begins with.                         *)
LEMMA DispatchedStep ==
    ASSUME GatewayInv, NEW c \in Conns, NEW status \in {200, 400, 404, 500},
           setup.api, stage[c] \in {"app", "handle"}, resp[c] = NoResponse,
           Dispatched(c, status), UNCHANGED <<setup, tokens, req, gone, context, logged>>,
           left' \in [Conns -> Seq(Nat)], IsSuffix(left'[c], req[c].chunks),
           seen' \in [Conns -> Nat], got' \in [Conns -> Nat],
           \A d \in Conns \ {c} :
              left'[d] = left[d] /\ seen'[d] = seen[d] /\ got'[d] = got[d],
           Limited(c) => got'[c] <= Cap
    PROVE  GatewayInv'
<1>1. /\ stage'[c] = "stream" /\ stage' \in [Conns -> Stages]
      /\ counted'[c] = IF req[c].firm THEN <<status>> ELSE <<>>
      /\ counted' \in [Conns -> Seq({200, 400, 404, 500})]
      /\ resp'[c].starts = 1 /\ resp'[c].status = status /\ resp'[c].echo = Echo(c)
      /\ resp' \in [Conns -> Response]
  <2>1. /\ stage \in [Conns -> Stages] /\ resp \in [Conns -> Response]
        /\ counted \in [Conns -> Seq({200, 400, 404, 500})]
    BY DEF GatewayInv, TypeOK
  <2>2. counted[c] = <<>>
    <3>1. CountedOnce(c)
      BY DEF GatewayInv, ConnInv
    <3>2. ~(resp[c].starts > 0)
      BY Nothing
    <3> QED
      BY <3>1, <3>2 DEF CountedOnce
  <2>3. stage'[c] = "stream" /\ stage' \in [Conns -> Stages]
    BY <2>1 DEF Dispatched, Goto, Stages
  <2>4. Append(counted[c], status) = <<status>>
    BY <2>2
  <2>5. /\ counted'[c] = IF req[c].firm THEN <<status>> ELSE <<>>
        /\ counted' \in [Conns -> Seq({200, 400, 404, 500})]
    BY <2>1, <2>2, <2>4 DEF Dispatched, Count
  <2> DEFINE r == Started(c, status, Echo(c))
  <2>6. /\ r \in Response /\ r.starts = 1 /\ r.status = status
        /\ r.echo = Echo(c)
    <3>1. Echo(c) \in {"none", "origin", "any"}
      BY EchoHonest
    <3>2. resp[c] \in Response /\ resp[c].starts = 0
      BY <2>1, Nothing
    <3> QED
      BY <3>1, <3>2, StartedType
  <2>7. resp' = [resp EXCEPT ![c] = r]
    BY DEF Dispatched, Start
  <2> HIDE DEF r
  <2> QED
    BY <2>1, <2>3, <2>5, <2>6, <2>7
<1>2. TypeOK'
  <2>1. \A d \in Conns : IsSuffix(left'[d], req'[d].chunks)
    BY DEF GatewayInv, TypeOK
  <2> QED
    BY <1>1, <2>1 DEF GatewayInv, TypeOK
<1>3. Only(c)
  BY DEF GatewayInv, TypeOK, Dispatched, Goto, Start, Only, Same, Count
<1>4. ConnInv(c)'
  <2>1. ConnInv(c) /\ req' = req /\ setup' = setup
    BY DEF GatewayInv
  <2>2. StageInv(c)'
    BY <1>1, <2>1 DEF StageInv, Before, Refusals
  <2>3. ResponseInv(c)'
    BY <1>1, <2>1, EchoHonest DEF ResponseInv, OriginHonest, Allowed
  <2>4. BodyInv(c)'
    BY <1>1, <2>1 DEF BodyInv, Limited, Refusals
  <2>5. IdInv(c)'
    BY <1>1, <2>1 DEF ConnInv, StageInv, IdInv, InApp
  <2>6. CountedOnce(c)'
    BY <1>1, <2>1 DEF CountedOnce
  <2> QED
    BY <2>2, <2>3, <2>4, <2>5, <2>6 DEF ConnInv
<1> QED
  BY <1>2, <1>3, <1>4, Steps

LEMMA ReceiveStep ==
    ASSUME GatewayInv, NEW c \in Conns, Receive(c)
    PROVE  GatewayInv'
<1>1. /\ left \in [Conns -> Seq(Nat)] /\ IsSuffix(left[c], req[c].chunks)
      /\ req[c] \in Requests \cup {NoRequest}
      /\ seen \in [Conns -> Nat] /\ got \in [Conns -> Nat]
  BY DEF GatewayInv, TypeOK
<1>2. left[c] # <<>> /\ stage[c] = "app" /\ left' = [left EXCEPT ![c] = Tail(@)]
  BY DEF Receive
<1>3. /\ IsSuffix(Tail(left[c]), req[c].chunks) /\ Tail(left[c]) \in Seq(Nat)
      /\ Head(left[c]) \in Nat
  BY <1>1, <1>2, RequestType, SuffixTail
<1>4. /\ left' \in [Conns -> Seq(Nat)] /\ left'[c] = Tail(left[c])
      /\ \A d \in Conns \ {c} : left'[d] = left[d]
  BY <1>1, <1>2, <1>3
<1>5. /\ seen' \in [Conns -> Nat] /\ got' \in [Conns -> Nat]
      /\ \A d \in Conns \ {c} : seen'[d] = seen[d] /\ got'[d] = got[d]
      /\ Limited(c) => seen'[c] = seen[c] + Head(left[c])
      /\ got'[c] = IF Limited(c) /\ Crosses(c, Head(left[c])) THEN got[c]
                   ELSE got[c] + Head(left[c])
  BY <1>1, <1>3 DEF Receive
<1>6. StageInv(c) /\ BodyInv(c)
  BY DEF GatewayInv, ConnInv
<1>7. /\ Limited(c) => got'[c] <= Cap
      /\ Limited(c) /\ ~Crosses(c, Head(left[c])) => got'[c] = seen'[c]
  BY <1>1, <1>2, <1>3, <1>5, <1>6, GatewayAssumption DEF StageInv, BodyInv, Crosses
<1>8. UNCHANGED <<gone, setup, tokens, req, context, logged>>
  BY DEF Receive
<1>9. CASE Limited(c) /\ Crosses(c, Head(left[c])) /\ setup.api
  <2>1. Dispatched(c, 400)
    BY <1>9 DEF Receive
  <2>2. resp[c] = NoResponse
    BY <1>2, <1>6, <1>9 DEF StageInv
  <2> QED
    BY <1>2, <1>3, <1>4, <1>5, <1>7, <1>8, <1>9, <2>1, <2>2, DispatchedStep
<1>10. CASE ~(Limited(c) /\ Crosses(c, Head(left[c])) /\ setup.api)
  <2>1. /\ UNCHANGED <<resp, counted>>
        /\ \/ UNCHANGED stage /\ ~(Limited(c) /\ Crosses(c, Head(left[c])))
           \/ Goto(c, "toolarge") /\ ~setup.api
    <3> DEFINE crosses == Limited(c) /\ Crosses(c, Head(left[c]))
    <3>1. IF ~crosses THEN UNCHANGED <<stage, resp, counted>>
          ELSE IF setup.api THEN Dispatched(c, 400)
          ELSE Goto(c, "toolarge") /\ UNCHANGED <<resp, counted>>
      BY DEF Receive
    <3>2. crosses => ~setup.api
      BY <1>10
    <3> HIDE DEF crosses
    <3>3. /\ UNCHANGED <<resp, counted>>
          /\ (UNCHANGED stage /\ ~crosses) \/ (Goto(c, "toolarge") /\ ~setup.api)
      BY <3>1, <3>2
    <3> QED
      BY <3>3 DEF crosses
  <2>2. TypeOK'
    <3>1. \A d \in Conns : IsSuffix(left'[d], req'[d].chunks)
      BY <1>3, <1>4, <1>8 DEF GatewayInv, TypeOK
    <3>2. stage' \in [Conns -> Stages]
      BY <2>1 DEF GatewayInv, TypeOK, Goto, Stages
    <3> QED
      BY <1>4, <1>5, <1>8, <2>1, <3>1, <3>2 DEF GatewayInv, TypeOK
  <2>3. Only(c)
    BY <1>4, <1>5, <1>8, <2>1 DEF GatewayInv, TypeOK, Goto, Only, Same
  <2>4. stage'[c] = "app" \/ (stage'[c] = "toolarge" /\ ~setup.api)
    BY <1>2, <2>1 DEF GatewayInv, TypeOK, Goto
  <2>5. StageInv(c)'
    <3>1. stage'[c] = "app" => ~(Limited(c) /\ Crosses(c, Head(left[c])))
      BY <2>1 DEF GatewayInv, TypeOK, Goto
    <3> QED
      BY <1>2, <1>6, <1>7, <1>8, <2>1, <2>4, <3>1, Nothing
         DEF StageInv, Before, Limited, Refusals
  <2>6. BodyInv(c)'
    BY <1>2, <1>6, <1>7, <1>8, <2>1, Nothing DEF BodyInv, StageInv, Limited, Refusals
  <2>7. /\ ResponseInv(c) /\ IdInv(c) /\ CountedOnce(c)
    BY DEF GatewayInv, ConnInv
  <2>8. ResponseInv(c)' /\ CountedOnce(c)'
    BY <1>8, <2>1, <2>7 DEF ResponseInv, CountedOnce, OriginHonest, Allowed
  <2>9. IdInv(c)'
    BY <1>2, <1>8, <2>4, <2>7 DEF IdInv, InApp
  <2> QED
    BY <2>2, <2>3, <2>5, <2>6, <2>8, <2>9, Steps DEF ConnInv
<1> QED
  BY <1>9, <1>10

(* What the application does once the request has reached it.              *)
LEMMA AppStep ==
    ASSUME GatewayInv, NEW c \in Conns,
           \/ TooLarge(c) \/ BodyRead(c) \/ Handle(c) \/ Stream(c)
           \/ AppStarts(c) \/ AppEnds(c) \/ AppRaises(c)
    PROVE  GatewayInv'
<1>1. /\ TypeOK /\ ConnInv(c) /\ StageInv(c) /\ CountedOnce(c) /\ ResponseInv(c)
      /\ BodyInv(c) /\ IdInv(c)
  BY DEF GatewayInv, ConnInv
<1>2. /\ left \in [Conns -> Seq(Nat)] /\ IsSuffix(left[c], req[c].chunks)
      /\ seen \in [Conns -> Nat] /\ got \in [Conns -> Nat]
      /\ resp \in [Conns -> Response] /\ stage \in [Conns -> Stages]
      /\ resp[c] \in Response
  BY <1>1 DEF TypeOK
<1>3. CASE BodyRead(c)
  <2>1. stage[c] = "app" /\ setup.api /\ resp[c] = NoResponse
    BY <1>1, <1>3 DEF BodyRead, StageInv
  <2>2. CASE Dispatched(c, 400)
    BY <1>1, <1>2, <1>3, <2>1, <2>2, DispatchedStep DEF BodyRead, body, BodyInv
  <2>3. CASE Goto(c, "handle") /\ UNCHANGED <<resp, counted>>
    <3>1. /\ stage'[c] = "handle" /\ stage' \in [Conns -> Stages]
          /\ UNCHANGED <<setup, tokens, req, body, resp, counted, context, logged>>
      BY <1>2, <1>3, <2>3 DEF BodyRead, Goto, Stages
    <3>2. TypeOK'
      BY <1>1, <3>1 DEF TypeOK, body
    <3>3. Only(c)
      BY <1>2, <2>3, <3>1 DEF Goto, Only, Same, body
    <3>4. StageInv(c)' /\ BodyInv(c)'
      BY <1>1, <2>1, <3>1, Nothing DEF StageInv, BodyInv, Limited, Before, Refusals, body
    <3>5. ResponseInv(c)' /\ IdInv(c)' /\ CountedOnce(c)'
      BY <1>1, <2>1, <3>1
         DEF ResponseInv, IdInv, CountedOnce, OriginHonest, Allowed, InApp
    <3> QED
      BY <3>2, <3>3, <3>4, <3>5, Steps DEF ConnInv
  <2> QED
    BY <1>3, <2>2, <2>3 DEF BodyRead
<1>4. CASE Handle(c)
  <2>1. Dispatched(c, 200) \/ Dispatched(c, 404) \/ Dispatched(c, 500)
    BY <1>4 DEF Handle
  <2>2. /\ stage[c] = "handle" /\ setup.api /\ resp[c] = NoResponse
        /\ UNCHANGED <<setup, tokens, req, body, context, logged>>
    BY <1>1, <1>4 DEF Handle, StageInv
  <2>3. /\ UNCHANGED <<setup, tokens, req, gone, context, logged>>
        /\ left' = left /\ seen' = seen /\ got' = got
    BY <2>2 DEF body
  <2>4. Limited(c) => got'[c] <= Cap
    BY <1>1, <2>3 DEF BodyInv
  <2>5. left' \in [Conns -> Seq(Nat)] /\ IsSuffix(left'[c], req[c].chunks)
    BY <1>2, <2>3
  <2>6. stage[c] \in {"app", "handle"} /\ setup.api /\ resp[c] = NoResponse
    BY <2>2
  <2>7. /\ seen' \in [Conns -> Nat] /\ got' \in [Conns -> Nat]
        /\ \A d \in Conns \ {c} :
              left'[d] = left[d] /\ seen'[d] = seen[d] /\ got'[d] = got[d]
    BY <1>2, <2>3
  <2> QED
    BY <2>1, <2>3, <2>4, <2>5, <2>6, <2>7, DispatchedStep
<1>5. CASE TooLarge(c) /\ resp[c].starts = 0
  <2>1. ~setup.api /\ counted[c] = <<>>
    BY <1>1, <1>5 DEF TooLarge, StageInv, CountedOnce
  <2>2. /\ Answer(c, 413, Echo(c)) /\ Goto(c, "done")
        /\ UNCHANGED <<setup, tokens, req, body, counted, context, logged>>
    BY <1>5 DEF TooLarge
  <2> QED
    BY <1>5, <2>1, <2>2, EchoHonest, AnswerStep DEF Refusals
(* What goes on without the connection's start, and ends it or not.        *)
<1>6. CASE Stream(c) \/ AppEnds(c) \/ AppRaises(c) \/ (TooLarge(c) /\ resp[c].starts # 0)
  <2>1. /\ stage'[c] \in {"done", "closed"} /\ stage' \in [Conns -> Stages]
        /\ \A d \in Conns \ {c} : stage'[d] = stage[d]
    BY <1>2, <1>6 DEF Stream, AppEnds, AppRaises, TooLarge, Goto, Stages
  <2>2. /\ UNCHANGED <<setup, tokens, req, body, counted, logged>>
        /\ context' = context \/ context' = [context EXCEPT ![c] = Nobody]
    BY <1>2, <1>6 DEF Stream, AppEnds, AppRaises, TooLarge, Response
  <2>3. \/ resp' = resp /\ stage'[c] = "closed"
        \/ resp' = [resp EXCEPT ![c] = [resp[c] EXCEPT !.whole = TRUE]] /\ resp[c].starts = 1
    BY <1>1, <1>2, <1>6 DEF Stream, AppEnds, AppRaises, TooLarge, Goto, StageInv, Response
  <2>4. /\ resp' \in [Conns -> Response]
        /\ \A d \in Conns \ {c} : resp'[d] = resp[d]
        /\ resp'[c].starts = resp[c].starts /\ resp'[c].status = resp[c].status
        /\ resp'[c].echo = resp[c].echo
        /\ stage'[c] = "done" => resp'[c].starts = 1 /\ resp'[c].whole
    BY <1>2, <2>1, <2>3, WholeType
  <2>5. resp[c].status \notin Refusals
    BY <1>1, <1>6 DEF Stream, AppEnds, AppRaises, TooLarge, StageInv
  <2>6. TypeOK'
    BY <1>1, <2>1, <2>2, <2>4 DEF TypeOK, body
  <2>7. Only(c)
    BY <1>1, <2>1, <2>2, <2>4 DEF TypeOK, Only, Same, body
  <2>8. StageInv(c)' /\ BodyInv(c)'
    BY <1>1, <2>1, <2>2, <2>4, <2>5 DEF StageInv, BodyInv, Limited, Before, body
  <2>9. ResponseInv(c)' /\ IdInv(c)' /\ CountedOnce(c)'
    BY <1>1, <2>1, <2>2, <2>4
       DEF ResponseInv, IdInv, CountedOnce, OriginHonest, Allowed, InApp
  <2> QED
    BY <2>6, <2>7, <2>8, <2>9, Steps DEF ConnInv
<1>7. CASE AppStarts(c)
  <2>1. /\ stage[c] = "app" /\ ~setup.api /\ resp[c].starts = 0
        /\ UNCHANGED <<setup, tokens, stage, req, body, counted, context, logged>>
        /\ resp' = [resp EXCEPT ![c] = Started(c, 200, Echo(c))]
    BY <1>7 DEF AppStarts, Start
  <2>2. /\ resp' \in [Conns -> Response] /\ resp'[c].starts = 1
        /\ resp'[c].status = 200 /\ resp'[c].echo = Echo(c)
        /\ \A d \in Conns \ {c} : resp'[d] = resp[d]
    <3> DEFINE r == Started(c, 200, Echo(c))
    <3>1. r \in Response /\ r.starts = 1 /\ r.status = 200 /\ r.echo = Echo(c)
      <4>1. resp[c] \in Response /\ resp[c].starts = 0
        BY <1>2, <2>1
      <4>2. Echo(c) \in {"none", "origin", "any"} /\ 200 \in Nat
        BY EchoHonest
      <4> QED
        BY <4>1, <4>2, StartedType
    <3>2. resp' = [resp EXCEPT ![c] = r]
      BY <2>1
    <3> HIDE DEF r
    <3> QED
      BY <1>2, <3>1, <3>2
  <2>3. TypeOK'
    BY <1>1, <2>1, <2>2 DEF TypeOK, body
  <2>4. Only(c)
    BY <2>1, <2>2 DEF Only, Same, body
  <2>5. StageInv(c)' /\ BodyInv(c)'
    BY <1>1, <2>1, <2>2 DEF StageInv, BodyInv, Limited, Before, Refusals, body
  <2>6. ResponseInv(c)'
    BY <2>1, <2>2, EchoHonest DEF ResponseInv, OriginHonest, Allowed
  <2>7. IdInv(c)' /\ CountedOnce(c)'
    BY <1>1, <2>1, <2>2 DEF IdInv, CountedOnce
  <2> QED
    BY <2>3, <2>4, <2>5, <2>6, <2>7, Steps DEF ConnInv
<1> QED
  BY <1>3, <1>4, <1>5, <1>6, <1>7

LEMMA GatewayStep == GatewayInv /\ [Next]_vars => GatewayInv'
<1> SUFFICES ASSUME GatewayInv, [Next]_vars PROVE GatewayInv'
  OBVIOUS
<1>1. CASE UNCHANGED vars
  <2>1. TypeOK'
    BY <1>1 DEF GatewayInv, TypeOK, vars, body
  <2>2. ASSUME NEW c \in Conns PROVE ConnInv(c)'
    BY <1>1, Elsewhere DEF GatewayInv, vars, body, Same
  <2> QED
    BY <2>1, <2>2 DEF GatewayInv
<1>2. ASSUME NEW c \in Conns, NEW r \in Requests, Arrive(c, r) PROVE GatewayInv'
  BY <1>2, ArriveStep
<1>3. ASSUME NEW c \in Conns, GoAway(c) \/ Reconnect(c) \/ Refill(c) \/ Log(c)
      PROVE  GatewayInv'
  BY <1>3, ClientStep
<1>4. ASSUME NEW c \in Conns, Handler(c) PROVE GatewayInv'
  BY <1>4, GateStep, ReceiveStep, AppStep DEF Handler
<1> QED
  BY <1>1, <1>2, <1>3, <1>4 DEF Next

LEMMA Invariant == Spec => []GatewayInv
BY InitGateway, GatewayStep, PTL DEF Spec
-------------------------------------------------------------------------------
(* A request gets one response, whole or cut with its connection, and a    *)
(* page can read it just if its origin may, whatever the body's size and   *)
(* whoever answers (security/middleware.py, __call__, _CorsSendWrapper).   *)
THEOREM Responds == Spec => []OneResponse
<1>1. GatewayInv => OneResponse
  BY DEF GatewayInv, OneResponse, ConnInv, StageInv, ResponseInv
<1> QED
  BY Invariant, <1>1, PTL

(* No application is given more of a body than the limit, and a request    *)
(* that the gates refuse is not read (_BodySizeLimitedReceive).            *)
THEOREM LimitHolds == Spec => []CapHeld
<1>1. GatewayInv => CapHeld
  BY DEF GatewayInv, CapHeld, ConnInv, BodyInv, Refusals
<1> QED
  BY Invariant, <1>1, PTL

(* A request is counted once and logged under its own id, however requests *)
(* interleave (observability/middleware.py, dispatch).                     *)
THEOREM Observed == Spec => []Accounted
<1>1. GatewayInv => Accounted
  BY DEF GatewayInv, Accounted, ConnInv, IdInv
<1> QED
  BY Invariant, <1>1, PTL
===============================================================================
