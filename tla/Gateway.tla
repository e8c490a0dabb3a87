-------------------------------- MODULE Gateway -------------------------------
(***************************************************************************)
(* What an HTTP request meets on its way to a handler of the API, and its  *)
(* response on the way back (api/app.py, _register_middleware).  From the  *)
(* outside in:                                                             *)
(*                                                                         *)
(*   APIKeyAuthMiddleware     if it is wired (security/api_key.py)         *)
(*   SecurityMiddleware       rate limit, preflight, body limit, CORS      *)
(*                            (security/middleware.py)                     *)
(*   ObservabilityMiddleware  request ids, counters, 500s                  *)
(*                            (observability/middleware.py)                *)
(*   the handler              FastAPI's, which has the whole body before   *)
(*                            it runs if it declares one, and else never   *)
(*                            reads it; or, as the tests of the security   *)
(*                            middleware mount it, any ASGI application,   *)
(*                            without ObservabilityMiddleware between      *)
(*                                                                         *)
(* The API as it stands never wires the first: _get_root gives             *)
(* _register_middleware a root config without keys (app.py:77-82, 134).    *)
(*                                                                         *)
(* Connections are tasks of one event loop: they interleave wherever they  *)
(* await, which is at every message received or sent.  A client sends the  *)
(* chunks of its body one by one, or goes away.  FastAPI, Starlette and    *)
(* uvicorn are modelled from what the two middlewares rely on.             *)
(***************************************************************************)
EXTENDS Integers, Sequences

CONSTANTS
    Conns,      \* connections; a rate limit key is a client's host and port
    Requests,   \* the requests clients make
    Setups,     \* how the service is put together
    Burst,      \* rate_limit_burst
    Cap,        \* max_body_bytes; 0: no limit
    Nobody      \* no connection

Methods == {"GET", "POST", "OPTIONS"}
Origins == {"none", "listed", "other"}

ASSUME GatewayAssumption ==
    /\ Requests \subseteq [method : Methods, origin : Origins, exempt : BOOLEAN,
                           firm : BOOLEAN, key : {"none", "good", "bad"},
                           reads : BOOLEAN, chunks : Seq(Nat)]
    /\ Setups \subseteq [auth : BOOLEAN, api : BOOLEAN,
                         origins : {"empty", "list", "any"}]
    /\ Burst \in Nat
    /\ Cap \in Nat
    /\ Nobody \notin Conns

VARIABLES
    setup,    \* how this service is put together
    tokens,   \* the bucket of each connection
    stage,    \* where the request of each connection is
    req,      \* the request
    left,     \* the chunks the client has not sent yet
    gone,     \* whether the client has gone away
    seen,     \* bytes that the body limit has counted
    got,      \* bytes that the application was given
    resp,     \* the response as it was sent
    counted,  \* the statuses the request was counted under
    context,  \* current_request_id in each connection's task
    logged    \* whose id the last record it logged has

vars == <<setup, tokens, stage, req, left, gone, seen, got, resp, counted,
          context, logged>>
body == <<left, gone, seen, got>>

(* starts: the "http.response.start" messages; echo: the origin header.    *)
Response == [starts : Nat, status : Nat, echo : {"none", "origin", "any"},
             whole : BOOLEAN]
NoResponse == [starts |-> 0, status |-> 0, echo |-> "none", whole |-> FALSE]
NoRequest == [method |-> "GET", origin |-> "none", exempt |-> TRUE,
              firm |-> FALSE, key |-> "none", reads |-> FALSE, chunks |-> <<>>]

Stages == {"idle", "auth", "limit", "cors", "observe", "app", "handle", "stream",
           "toolarge", "done", "closed"}

Init ==
    /\ setup \in Setups
    /\ tokens = [c \in Conns |-> Burst]
    /\ stage = [c \in Conns |-> "idle"]
    /\ req = [c \in Conns |-> NoRequest]
    /\ left = [c \in Conns |-> <<>>]
    /\ gone = [c \in Conns |-> FALSE]
    /\ seen = [c \in Conns |-> 0]
    /\ got = [c \in Conns |-> 0]
    /\ resp = [c \in Conns |-> NoResponse]
    /\ counted = [c \in Conns |-> <<>>]
    /\ context = [c \in Conns |-> Nobody]
    /\ logged = [c \in Conns |-> Nobody]

Goto(c, to) == stage' = [stage EXCEPT ![c] = to]

(* The messages of a response, and the CORS header they pick up.           *)
Started(c, status, echo) ==
    [starts |-> resp[c].starts + 1, status |-> status, echo |-> echo,
     whole |-> FALSE]
Start(c, status, echo) == resp' = [resp EXCEPT ![c] = Started(c, status, echo)]
Answer(c, status, echo) ==
    resp' = [resp EXCEPT ![c] = [Started(c, status, echo) EXCEPT !.whole = TRUE]]

-------------------------------------------------------------------------------
(* The client.                                                             *)

Arrive(c, r) ==
    /\ stage[c] \in {"idle", "done"} /\ ~gone[c]
    /\ Goto(c, IF setup.auth THEN "auth" ELSE "limit")
    /\ req' = [req EXCEPT ![c] = r]
    /\ left' = [left EXCEPT ![c] = r.chunks]
    /\ seen' = [seen EXCEPT ![c] = 0]
    /\ got' = [got EXCEPT ![c] = 0]
    /\ resp' = [resp EXCEPT ![c] = NoResponse]
    /\ counted' = [counted EXCEPT ![c] = <<>>]
    /\ UNCHANGED <<setup, tokens, gone, context, logged>>

GoAway(c) ==
    /\ stage[c] \in {"app", "handle", "stream"} /\ ~gone[c]
    /\ gone' = [gone EXCEPT ![c] = TRUE]
    /\ UNCHANGED <<setup, tokens, stage, req, left, seen, got, resp, counted,
                   context, logged>>

(* A new connection has another port, and so a full bucket of its own.     *)
Reconnect(c) ==
    /\ stage[c] = "closed" \/ (stage[c] = "done" /\ gone[c])
    /\ Goto(c, "idle")
    /\ gone' = [gone EXCEPT ![c] = FALSE]
    /\ tokens' = [tokens EXCEPT ![c] = Burst]
    /\ UNCHANGED <<setup, req, left, seen, got, resp, counted, context, logged>>

(* Time passes for the buckets (module RateLimiter).                       *)
Refill(c) ==
    /\ tokens[c] < Burst
    /\ tokens' = [tokens EXCEPT ![c] = @ + 1]
    /\ UNCHANGED <<setup, stage, req, body, resp, counted, context, logged>>

-------------------------------------------------------------------------------
(* APIKeyAuthMiddleware.                                                   *)

Authenticate(c) ==
    /\ stage[c] = "auth"
    /\ IF req[c].exempt \/ req[c].key = "good"
       THEN Goto(c, "limit") /\ UNCHANGED resp
       ELSE /\ Answer(c, IF req[c].key = "none" THEN 401 ELSE 403, "none")
            /\ Goto(c, "done")
    /\ UNCHANGED <<setup, tokens, req, body, counted, context, logged>>

-------------------------------------------------------------------------------
(* SecurityMiddleware.                                                     *)

(* limiter.check: module RateLimiter has it in full.                       *)
RateLimit(c) ==
    /\ stage[c] = "limit"
    /\ IF tokens[c] > 0
       THEN /\ tokens' = [tokens EXCEPT ![c] = @ - 1]
            /\ Goto(c, "cors")
            /\ UNCHANGED resp
       ELSE /\ Answer(c, 429, "none")
            /\ Goto(c, "done")
            /\ UNCHANGED tokens
    /\ UNCHANGED <<setup, req, body, counted, context, logged>>

(* _is_allowed_origin, of a request that has an origin.                    *)
Allowed(origin) ==
    /\ origin # "none"
    /\ \/ setup.origins = "any"
       \/ setup.origins = "list" /\ origin = "listed"

(* The header _CorsSendWrapper puts on whatever start goes through it.     *)
Echo(c) ==
    IF Allowed(req[c].origin) THEN "origin"
    ELSE IF setup.origins = "any" THEN "any" ELSE "none"

Preflight(c) ==
    /\ stage[c] = "cors"
    /\ IF req[c].method = "OPTIONS" /\ Allowed(req[c].origin)
       THEN Answer(c, 204, "origin") /\ Goto(c, "done")
       ELSE UNCHANGED resp /\ Goto(c, IF setup.api THEN "observe" ELSE "app")
    /\ UNCHANGED <<setup, tokens, req, body, counted, context, logged>>

Limited(c) == req[c].method = "POST" /\ Cap > 0

(* Deviation: the chunk that crosses the limit is still handed on.         *)
CrossesLate(c, size) == seen[c] > Cap

(* _BodySizeLimitedReceive: counted before it is handed on.                *)
Crosses(c, size) == seen[c] + size > Cap

(* Deviation: the 413 does not look whether a response has begun.          *)
TooLargeAlways(c) ==
    /\ stage[c] = "toolarge"
    /\ Answer(c, 413, Echo(c))
    /\ Goto(c, "done")
    /\ UNCHANGED <<setup, tokens, req, body, counted, context, logged>>

(* BodyTooLarge reaches the middleware: a 413, or if a response has begun   *)
(* the exception goes on and the server closes the connection.             *)
TooLarge(c) ==
    /\ stage[c] = "toolarge"
    /\ IF resp[c].starts > 0 THEN Goto(c, "closed") /\ UNCHANGED resp
       ELSE Answer(c, 413, Echo(c)) /\ Goto(c, "done")
    /\ UNCHANGED <<setup, tokens, req, body, counted, context, logged>>

-------------------------------------------------------------------------------
(* ObservabilityMiddleware.                                                *)

(* current_request_id.set: the task's own.                                 *)
SetId(c) == [context EXCEPT ![c] = c]

(* dispatch up to call_next.                                               *)
Observe(c) ==
    /\ stage[c] = "observe"
    /\ context' = SetId(c)
    /\ Goto(c, "app")
    /\ UNCHANGED <<setup, tokens, req, body, resp, counted, logged>>

(* JsonFormatter.format: a record of the request, while it is handled.     *)
Log(c) ==
    /\ setup.api /\ stage[c] \in {"app", "handle", "stream"}
    /\ logged' = [logged EXCEPT ![c] = context[c]]
    /\ UNCHANGED <<setup, tokens, stage, req, body, resp, counted, context>>

(* Deviation: the error path counts, and then the common one does.         *)
CountTwice(c, status) ==
    IF ~req[c].firm THEN counted
    ELSE [counted EXCEPT ![c] = @ \o IF status = 500 THEN <<500, 500>>
                                     ELSE <<status>>]

(* query_requests, for the paths that name a firm.                         *)
Count(c, status) ==
    IF req[c].firm THEN [counted EXCEPT ![c] = Append(@, status)] ELSE counted

(* dispatch after call_next: the response has begun, or the handler raised  *)
(* and it is dispatch's own.  The start goes out; the body is still to come. *)
Dispatched(c, status) ==
    /\ counted' = Count(c, status)
    /\ Start(c, status, Echo(c))
    /\ Goto(c, "stream")

-------------------------------------------------------------------------------
(* The handler.                                                            *)

(* receive(): the next chunk, within the limit.  reads says whether the     *)
(* handler that FastAPI routes the request to declares a body.             *)
Receive(c) ==
    /\ stage[c] = "app" /\ left[c] # <<>> /\ ~gone[c]
    /\ setup.api => req[c].reads
    /\ left' = [left EXCEPT ![c] = Tail(@)]
    /\ seen' = [seen EXCEPT ![c] = IF Limited(c) THEN @ + Head(left[c]) ELSE 0]
    /\ got' = [got EXCEPT ![c] =
                 IF Limited(c) /\ Crosses(c, Head(left[c])) THEN @
                 ELSE @ + Head(left[c])]
    /\ UNCHANGED <<gone, setup, tokens, req, context, logged>>
    /\ IF ~(Limited(c) /\ Crosses(c, Head(left[c])))
       THEN UNCHANGED <<stage, resp, counted>>
       ELSE IF setup.api
       THEN Dispatched(c, 400)                 \* FastAPI: a body it cannot read
       ELSE Goto(c, "toolarge") /\ UNCHANGED <<resp, counted>>

(* Deviation: a client that has gone is still waited for.                  *)
BodyReadWaits(c) ==
    /\ setup.api /\ stage[c] = "app" /\ (req[c].reads => left[c] = <<>>)
    /\ Goto(c, "handle")
    /\ UNCHANGED <<setup, tokens, req, body, resp, counted, context, logged>>

(* The whole body is there, or none is wanted; or the client has gone, and  *)
(* FastAPI answers as to a body it cannot read.                            *)
BodyRead(c) ==
    /\ setup.api /\ stage[c] = "app"
    /\ \/ /\ req[c].reads => left[c] = <<>>
          /\ Goto(c, "handle")
          /\ UNCHANGED <<resp, counted>>
       \/ req[c].reads /\ left[c] # <<>> /\ gone[c] /\ Dispatched(c, 400)
    /\ UNCHANGED <<setup, tokens, req, body, context, logged>>

(* An answer, an HTTPException, or an exception nobody catches.            *)
Handle(c) ==
    /\ stage[c] = "handle"
    /\ \E status \in {200, 404, 500} : Dispatched(c, status)
    /\ UNCHANGED <<setup, tokens, req, body, context, logged>>

(* The rest of the body; a generator that raises by then cuts it.          *)
Stream(c) ==
    /\ stage[c] = "stream"
    /\ \/ Goto(c, "done") /\ resp' = [resp EXCEPT ![c].whole = TRUE]
       \/ resp[c].status = 200 /\ Goto(c, "closed") /\ UNCHANGED resp
    /\ context' = [context EXCEPT ![c] = Nobody]
    /\ UNCHANGED <<setup, tokens, req, body, counted, logged>>

(* Any other application may begin before it has read, and need not read.  *)
AppStarts(c) ==
    /\ ~setup.api /\ stage[c] = "app" /\ resp[c].starts = 0
    /\ Start(c, 200, Echo(c))
    /\ UNCHANGED <<setup, tokens, stage, req, body, counted, context, logged>>

AppEnds(c) ==
    /\ ~setup.api /\ stage[c] = "app" /\ resp[c].starts = 1
    /\ resp' = [resp EXCEPT ![c].whole = TRUE]
    /\ Goto(c, "done")
    /\ UNCHANGED <<setup, tokens, req, body, counted, context, logged>>

AppRaises(c) ==
    /\ ~setup.api /\ stage[c] = "app"
    /\ Goto(c, "closed")
    /\ UNCHANGED <<setup, tokens, req, body, resp, counted, context, logged>>

-------------------------------------------------------------------------------
Handler(c) ==
    \/ Authenticate(c) \/ RateLimit(c) \/ Preflight(c) \/ TooLarge(c)
    \/ Observe(c) \/ Receive(c) \/ BodyRead(c) \/ Handle(c) \/ Stream(c)
    \/ AppStarts(c) \/ AppEnds(c) \/ AppRaises(c)

Next ==
    \E c \in Conns :
        \/ \E r \in Requests : Arrive(c, r)
        \/ GoAway(c) \/ Reconnect(c) \/ Refill(c)
        \/ Handler(c) \/ Log(c)

Spec == Init /\ [][Next]_vars

(* The event loop gives every task its turn.                               *)
FairSpec == Spec /\ \A c \in Conns : WF_vars(Handler(c))

-------------------------------------------------------------------------------
IsSuffix(s, t) == \E n \in 0..Len(t) : s = SubSeq(t, n + 1, Len(t))

(* Every variable holds what its declaration says.                         *)
TypeOK ==
    /\ setup \in Setups
    /\ tokens \in [Conns -> 0..Burst]
    /\ stage \in [Conns -> Stages]
    /\ req \in [Conns -> Requests \cup {NoRequest}]
    /\ left \in [Conns -> Seq(Nat)]
    /\ \A c \in Conns : IsSuffix(left[c], req[c].chunks)
    /\ gone \in [Conns -> BOOLEAN]
    /\ seen \in [Conns -> Nat]
    /\ got \in [Conns -> Nat]
    /\ resp \in [Conns -> Response]
    /\ counted \in [Conns -> Seq({200, 400, 404, 500})]
    /\ context \in [Conns -> Conns \cup {Nobody}]
    /\ logged \in [Conns -> Conns \cup {Nobody}]

(* A browser is told that its origin may read a response only if it is      *)
(* allowed to; if it is, it can read every response of the application and *)
(* the 413 (security/middleware.py, _CorsSendWrapper).                     *)
OriginHonest(c) ==
    /\ resp[c].echo = "origin" =>
           \/ setup.origins = "any"
           \/ setup.origins = "list" /\ req[c].origin = "listed"
    /\ resp[c].status \in {200, 400, 404, 413, 500} =>
           (Allowed(req[c].origin) => resp[c].echo = "origin")

(* A client gets one response, which a body that turns out too large does   *)
(* not begin anew, and which its page may read just if its origin is       *)
(* allowed; a request that is over has a whole response or a closed        *)
(* connection (security/middleware.py, __call__).                          *)
OneResponse ==
    /\ TypeOK
    /\ \A c \in Conns :
          /\ resp[c].starts <= 1
          /\ stage[c] = "done" => resp[c].starts = 1 /\ resp[c].whole
          /\ resp[c].starts > 0 => OriginHonest(c)

(* No application is given more than the limit of a body, in however many   *)
(* chunks it comes, and a request that the gates refuse is not read at all *)
(* (security/middleware.py, _BodySizeLimitedReceive).                      *)
CapHeld ==
    \A c \in Conns :
        /\ Limited(c) => got[c] <= Cap
        /\ resp[c].status \in {401, 403, 429, 204} => left[c] = req[c].chunks

(* "Once the cap is hit we return 413" (security/middleware.py:16): what    *)
(* the API answers to a body that has crossed the limit.  FastAPI takes    *)
(* BodyTooLarge for a body it cannot read, and it never reaches            *)
(* SecurityMiddleware.                                                     *)
TooLargeSaid ==
    \A c \in Conns :
        setup.api /\ Limited(c) /\ seen[c] > Cap /\ resp[c].starts > 0 =>
            resp[c].status = 413

(* A request to a firm is counted once, under the status it was answered    *)
(* with, whether the handler answers, raises or is cut while it streams;   *)
(* one that the gates answer is not counted (observability/middleware.py). *)
CountedOnce(c) ==
    counted[c] = IF /\ resp[c].starts > 0 /\ req[c].firm /\ setup.api
                    /\ resp[c].status \notin {401, 403, 429, 204}
                 THEN <<resp[c].status>> ELSE <<>>

(* What observability says of a request is true of it, while requests       *)
(* interleave: it is counted once, and no record of one is logged under    *)
(* the id of another (observability/timing.py, current_request_id).        *)
Accounted == \A c \in Conns : CountedOnce(c) /\ logged[c] \in {c, Nobody}

(* Every request is answered or its connection closed, whatever it sends    *)
(* and whatever the handler does, if the client sends its body or leaves   *)
(* (security/middleware.py, __call__; observability/middleware.py,         *)
(* dispatch).                                                              *)
EventuallyOver ==
    \A c \in Conns :
        stage[c] \in {"auth", "limit"} ~> stage[c] \in {"done", "closed"}
===============================================================================
